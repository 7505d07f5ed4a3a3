------------------------- MODULE PatchTransactions -------------------------
(***************************************************************************)
(* What the shared workspace of a graph promises, without a word about     *)
(* directories, locks or attempts: it holds the source as changed by the   *)
(* patches of the accepted nodes, one after the other, each applied whole  *)
(* and once, inside its node's write scope.                                *)
(***************************************************************************)
CONSTANTS Node, File, Source, Allowed, Output

VARIABLES
  committed,  \* the tree the next node builds on
  accepted    \* the nodes accepted so far

Init == committed = Source /\ accepted = {}

AcceptNode(n) == n \in Node \ accepted /\ accepted' = accepted \union {n}

\* A node that proposes nothing is accepted for its report.
AcceptReport(n) == AcceptNode(n) /\ UNCHANGED committed

AcceptPatch(n) ==
  /\ AcceptNode(n)
  /\ \E S \in SUBSET Allowed[n] : \E e \in [S -> Output[n]] :
       committed' = [f \in File |-> IF f \in S THEN e[f] ELSE committed[f]]

Next == \E n \in Node : AcceptReport(n) \/ AcceptPatch(n)

Spec == Init /\ [][Next]_<<committed, accepted>>
=============================================================================
