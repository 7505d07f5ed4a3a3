------------------------------ MODULE Excerpts ------------------------------
(* What is at some places of a list, in order.                              *)
EXTENDS Naturals, FiniteSets

\* What a filter keeps of s, by the places of what it keeps.
At(s, places) ==
  LET place(k) == CHOOSE i \in places : Cardinality({j \in places : j <= i}) = k IN
  [k \in 1..Cardinality(places) |-> s[place(k)]]
=============================================================================
