-------------------------- MODULE FiniteOrderProofs --------------------------
(***************************************************************************)
(* Facts about finite sets and lists that the other proofs rest on: a set  *)
(* of numbers has a least and a greatest member, counting from below       *)
(* numbers the members of an ordered set without a gap, and an excerpt of  *)
(* a list has what was at its places.                                      *)
(***************************************************************************)
EXTENDS Excerpts, Sequences, FiniteSetTheorems, TLAPS

\* A finite nonempty set of numbers has a greatest one: of the upper parts of the
\* set, a smallest one in the order of inclusion has its least member only.
LEMMA GreatestExists ==
  ASSUME NEW S \in SUBSET Nat, IsFiniteSet(S), S # {}
  PROVE  \E m \in S : \A k \in S : k <= m
<1> DEFINE Above(i) == {k \in S : k >= i}
           U == {Above(i) : i \in S}
<1>1. IsWellFoundedOn(StrictSubsetOrdering(S), SUBSET S)
  BY FS_StrictSubsetOrderingWellFounded, FS_FiniteSubsetsOfFinite
<1>2. U \subseteq SUBSET S /\ U # {}
  OBVIOUS
<1>3. \E A \in U : \A B \in U : ~(<<B, A>> \in StrictSubsetOrdering(S))
  <2> HIDE DEF U
  <2> QED
    BY <1>1, <1>2, WFMin, Zenon
<1>4. PICK A \in U : \A B \in U : <<B, A>> \notin StrictSubsetOrdering(S)
  BY <1>3
<1>5. PICK m \in S : A = Above(m)
  BY <1>4
<1>6. ASSUME NEW k \in S, ~(k <= m) PROVE FALSE
  <2>1. k \in Nat /\ m \in Nat /\ k > m
    BY <1>6
  <2>2. Above(k) \subseteq Above(m)
    <3>1. \A j \in S : j \in Nat /\ (j >= k => j >= m)
      BY <2>1
    <3> QED
      BY <3>1
  <2>3. m \notin Above(k) /\ m \in Above(m)
    BY <2>1
  <2>4. Above(k) \in U /\ Above(k) \in SUBSET S /\ Above(m) \in SUBSET S
    OBVIOUS
  <2> HIDE DEF Above, U
  <2>5. <<Above(k), A>> \in StrictSubsetOrdering(S)
    BY <1>5, <2>2, <2>3, <2>4 DEF StrictSubsetOrdering
  <2> QED
    BY <1>4, <2>4, <2>5
<1> QED
  BY <1>6

\* Likewise for the least one.
LEMMA LeastExists ==
  ASSUME NEW S \in SUBSET Nat, IsFiniteSet(S), S # {}
  PROVE  \E m \in S : \A k \in S : m <= k
<1> DEFINE Below(i) == {k \in S : k <= i}
           U == {Below(i) : i \in S}
<1>1. IsWellFoundedOn(StrictSubsetOrdering(S), SUBSET S)
  BY FS_StrictSubsetOrderingWellFounded, FS_FiniteSubsetsOfFinite
<1>2. U \subseteq SUBSET S /\ U # {}
  OBVIOUS
<1>3. \E A \in U : \A B \in U : ~(<<B, A>> \in StrictSubsetOrdering(S))
  <2> HIDE DEF U
  <2> QED
    BY <1>1, <1>2, WFMin, Zenon
<1>4. PICK A \in U : \A B \in U : <<B, A>> \notin StrictSubsetOrdering(S)
  BY <1>3
<1>5. PICK m \in S : A = Below(m)
  BY <1>4
<1>6. ASSUME NEW k \in S, ~(m <= k) PROVE FALSE
  <2>1. k \in Nat /\ m \in Nat /\ k < m
    BY <1>6
  <2>2. Below(k) \subseteq Below(m)
    <3>1. \A j \in S : j \in Nat /\ (j <= k => j <= m)
      BY <2>1
    <3> QED
      BY <3>1
  <2>3. m \notin Below(k) /\ m \in Below(m)
    BY <2>1
  <2>4. Below(k) \in U /\ Below(k) \in SUBSET S /\ Below(m) \in SUBSET S
    OBVIOUS
  <2> HIDE DEF Below, U
  <2>5. <<Below(k), A>> \in StrictSubsetOrdering(S)
    BY <1>5, <2>2, <2>3, <2>4 DEF StrictSubsetOrdering
  <2> QED
    BY <1>4, <2>4, <2>5
<1> QED
  BY <1>6

\* The number of a member, counted from below.
Rank(S, i) == Cardinality({j \in S : j <= i})

LEMMA RanksAreDistinct ==
  ASSUME NEW S \in SUBSET Nat, IsFiniteSet(S), NEW i \in S, NEW k \in S, i < k
  PROVE  Rank(S, i) < Rank(S, k)
<1> DEFINE Below(n) == {j \in S : j <= n}
<1>1. \A j \in S : j \in Nat
  OBVIOUS
<1>2. Below(i) \subseteq Below(k) /\ k \in Below(k) /\ k \notin Below(i)
  <2>1. \A j \in S : j <= i => j <= k
    BY <1>1
  <2>2. k <= k /\ ~(k <= i)
    BY <1>1
  <2> QED
    BY <2>1, <2>2
<1>3. IsFiniteSet(Below(k)) /\ IsFiniteSet(Below(i))
  BY FS_Subset
<1> HIDE DEF Below
<1>4. Cardinality(Below(i)) <= Cardinality(Below(k)) /\ Cardinality(Below(i)) # Cardinality(Below(k))
  BY <1>2, <1>3, FS_Subset
<1>5. Cardinality(Below(i)) \in Nat /\ Cardinality(Below(k)) \in Nat
  BY <1>3, FS_CardinalityType
<1> QED
  BY <1>4, <1>5 DEF Rank, Below

LEMMA RankType ==
  ASSUME NEW S \in SUBSET Nat, IsFiniteSet(S), NEW i \in S
  PROVE  Rank(S, i) \in 1..Cardinality(S)
<1> DEFINE Below == {j \in S : j <= i}
<1>1. Below \in SUBSET S /\ i \in Below
  OBVIOUS
<1> HIDE DEF Below
<1>2. /\ IsFiniteSet(Below) /\ Cardinality(Below) <= Cardinality(S)
      /\ Cardinality(Below) \in Nat /\ Cardinality(S) \in Nat
  BY <1>1, FS_Subset, FS_CardinalityType
<1>3. Cardinality(Below) # 0
  BY <1>1, <1>2, FS_EmptySet
<1> QED
  BY <1>2, <1>3 DEF Rank, Below

\* Every number up to the size of the set is the rank of a member.
LEMMA RanksAreAll ==
  ASSUME NEW S \in SUBSET Nat, IsFiniteSet(S), NEW k \in 1..Cardinality(S)
  PROVE  \E i \in S : Rank(S, i) = k
<1> DEFINE n == Cardinality(S)
           f == [i \in S |-> Rank(S, i)]
<1>1. n \in Nat
  BY FS_CardinalityType
<1>2. f \in [S -> 1..n]
  BY RankType
<1>3. \A i, j \in S : i # j => f[i] # f[j]
  <2> SUFFICES ASSUME NEW i \in S, NEW j \in S, i # j PROVE Rank(S, i) # Rank(S, j)
    OBVIOUS
  <2>1. i \in Nat /\ j \in Nat
    OBVIOUS
  <2>2. Rank(S, i) \in Nat /\ Rank(S, j) \in Nat
    BY <1>1, RankType
  <2> QED
    BY <2>1, <2>2, RanksAreDistinct
<1>4. IsFiniteSet(1..n) /\ Cardinality(1..n) = n
  BY <1>1, FS_Interval
<1>5. f \in Injection(S, 1..n)
  BY <1>2, <1>3 DEF Injection, IsInjective
<1>6. f \in Surjection(S, 1..n)
  <2> HIDE DEF f, n
  <2> QED
    BY <1>4, <1>5, FS_Injection DEF n
<1> QED
  BY <1>6 DEF Surjection
-----------------------------------------------------------------------------
(* Strict total orders *)

StrictTotalOrder(R, S) ==
  /\ \A x \in S : <<x, x>> \notin R
  /\ \A x, y \in S : x # y => <<x, y>> \in R \/ <<y, x>> \in R
  /\ \A x, y, z \in S : <<x, y>> \in R /\ <<y, z>> \in R => <<x, z>> \in R

Below(R, S, x) == {y \in S : <<y, x>> \in R}

LEMMA MoreBelow ==
  ASSUME NEW S, IsFiniteSet(S), NEW R, StrictTotalOrder(R, S),
         NEW x \in S, NEW y \in S, <<x, y>> \in R
  PROVE  Cardinality(Below(R, S, x)) < Cardinality(Below(R, S, y))
<1>1. Below(R, S, x) \subseteq Below(R, S, y) /\ x \in Below(R, S, y) /\ x \notin Below(R, S, x)
  BY DEF Below, StrictTotalOrder
<1>2. IsFiniteSet(Below(R, S, y)) /\ IsFiniteSet(Below(R, S, x))
  BY FS_Subset DEF Below
<1>3. /\ Cardinality(Below(R, S, x)) <= Cardinality(Below(R, S, y))
      /\ Cardinality(Below(R, S, x)) # Cardinality(Below(R, S, y))
  BY <1>1, <1>2, FS_Subset
<1>4. Cardinality(Below(R, S, x)) \in Nat /\ Cardinality(Below(R, S, y)) \in Nat
  BY <1>2, FS_CardinalityType
<1> QED
  BY <1>3, <1>4

\* Every member of a finite ordered set has a number of its own, from none below
\* it on, and every number up to the size of the set is that of one member.
LEMMA NumberedFromBelow ==
  ASSUME NEW S, IsFiniteSet(S), NEW R, StrictTotalOrder(R, S), NEW k \in 1..Cardinality(S)
  PROVE  \E x \in S : Cardinality(Below(R, S, x)) = k - 1
<1> DEFINE n == Cardinality(S)
           f == [x \in S |-> Cardinality(Below(R, S, x)) + 1]
<1>1. n \in Nat
  BY FS_CardinalityType
<1>2. ASSUME NEW x \in S PROVE f[x] \in 1..n /\ Cardinality(Below(R, S, x)) \in Nat
  <2>1. Below(R, S, x) \subseteq S /\ x \notin Below(R, S, x)
    BY DEF Below, StrictTotalOrder
  <2>2. /\ IsFiniteSet(Below(R, S, x))
        /\ Cardinality(Below(R, S, x)) <= n /\ Cardinality(Below(R, S, x)) # n
    BY <2>1, FS_Subset
  <2>3. Cardinality(Below(R, S, x)) \in Nat
    BY <2>2, FS_CardinalityType
  <2> QED
    BY <1>1, <2>2, <2>3
<1>3. f \in [S -> 1..n]
  BY <1>2
<1>4. \A x, y \in S : x # y => f[x] # f[y]
  <2> SUFFICES ASSUME NEW x \in S, NEW y \in S, x # y
               PROVE  Cardinality(Below(R, S, x)) # Cardinality(Below(R, S, y))
    BY <1>2
  <2>1. <<x, y>> \in R \/ <<y, x>> \in R
    BY DEF StrictTotalOrder
  <2>2. Cardinality(Below(R, S, x)) \in Nat /\ Cardinality(Below(R, S, y)) \in Nat
    BY <1>2
  <2> QED
    BY <2>1, <2>2, MoreBelow
<1>5. IsFiniteSet(1..n) /\ Cardinality(1..n) = n
  BY <1>1, FS_Interval
<1>6. f \in Injection(S, 1..n)
  BY <1>3, <1>4 DEF Injection, IsInjective
<1>7. f \in Surjection(S, 1..n)
  <2> HIDE DEF f, n
  <2> QED
    BY <1>5, <1>6, FS_Injection DEF n
<1>8. PICK x \in S : f[x] = k
  BY <1>7 DEF Surjection
<1> QED
  BY <1>2, <1>8

-----------------------------------------------------------------------------
(* Lists *)

\* At goes through the places from the first to the last.
LEMMA AtPlaces ==
  ASSUME NEW s, NEW P \in SUBSET Nat, IsFiniteSet(P)
  PROVE  \E place \in Bijection(1..Cardinality(P), P) :
           At(s, P) = [k \in 1..Cardinality(P) |-> s[place[k]]]
<1> DEFINE at(k) == CHOOSE i \in P : Rank(P, i) = k
           place == [k \in 1..Cardinality(P) |-> at(k)]
<1>1. At(s, P) = [k \in 1..Cardinality(P) |-> s[at(k)]]
  BY DEF At, Rank
<1>2. Cardinality(P) \in Nat
  BY FS_CardinalityType
<1>3. ASSUME NEW k \in 1..Cardinality(P) PROVE at(k) \in P /\ Rank(P, at(k)) = k
  <2>1. \E i \in P : Rank(P, i) = k
    BY RanksAreAll
  <2> QED
    BY <2>1
<1>4. ASSUME NEW i \in P PROVE Rank(P, i) \in 1..Cardinality(P) /\ at(Rank(P, i)) = i
  <2>1. Rank(P, i) \in 1..Cardinality(P)
    BY RankType
  <2>2. at(Rank(P, i)) \in P /\ Rank(P, at(Rank(P, i))) = Rank(P, i)
    OBVIOUS
  <2>3. ASSUME NEW j \in P, Rank(P, j) = Rank(P, i) PROVE j = i
    <3>1. ~(i < j) /\ ~(j < i)
      BY <2>1, <2>3, RanksAreDistinct
    <3> QED
      BY <3>1
  <2> QED
    BY <2>1, <2>2, <2>3
<1> HIDE DEF at
<1>5. place \in Bijection(1..Cardinality(P), P)
  BY <1>3, <1>4 DEF Bijection, Injection, Surjection, IsInjective
<1>6. At(s, P) = [k \in 1..Cardinality(P) |-> s[place[k]]]
  BY <1>1
<1> QED
  BY <1>5, <1>6

\* It gives every place, and only the places.
LEMMA AtFacts ==
  ASSUME NEW s, NEW P \in SUBSET Nat, IsFiniteSet(P)
  PROVE  /\ Cardinality(P) \in Nat
         /\ DOMAIN At(s, P) = 1..Cardinality(P)
         /\ \A k \in DOMAIN At(s, P) : \E i \in P : At(s, P)[k] = s[i]
         /\ \A i \in P : \E k \in DOMAIN At(s, P) : At(s, P)[k] = s[i]
<1>1. PICK place \in Bijection(1..Cardinality(P), P) :
        At(s, P) = [k \in 1..Cardinality(P) |-> s[place[k]]]
  BY AtPlaces
<1>2. /\ place \in [1..Cardinality(P) -> P]
      /\ \A i \in P : \E k \in 1..Cardinality(P) : place[k] = i
  BY <1>1 DEF Bijection, Injection, Surjection
<1>3. Cardinality(P) \in Nat
  BY FS_CardinalityType
<1>4. DOMAIN At(s, P) = 1..Cardinality(P)
  BY <1>1
<1>5. \A k \in 1..Cardinality(P) : At(s, P)[k] = s[place[k]] /\ place[k] \in P
  BY <1>1, <1>2
<1>6. \A i \in P : \E k \in 1..Cardinality(P) : At(s, P)[k] = s[i]
  BY <1>2, <1>5
<1> QED
  BY <1>3, <1>4, <1>5, <1>6

\* The lists the models work on: functions on an initial segment.
List(s) == \E n \in Nat : s \in [1..n -> {s[i] : i \in 1..n}]

LEMMA ListFacts ==
  ASSUME NEW s, List(s)
  PROVE  /\ Len(s) \in Nat /\ DOMAIN s = 1..Len(s) /\ IsFiniteSet(DOMAIN s)
         /\ DOMAIN s \in SUBSET Nat
         /\ s \in Seq({s[i] : i \in DOMAIN s})
<1>1. PICK n \in Nat : s \in [1..n -> {s[i] : i \in 1..n}]
  BY DEF List
<1>2. DOMAIN s = 1..n
  BY <1>1
<1>3. s \in Seq({s[i] : i \in DOMAIN s}) /\ Len(s) = n
  BY <1>1, <1>2
<1>4. IsFiniteSet(1..n)
  BY FS_Interval
<1> QED
  BY <1>2, <1>3, <1>4

LEMMA SequenceIsList ==
  ASSUME NEW S, NEW s \in Seq(S)
  PROVE  List(s)
<1>1. Len(s) \in Nat /\ DOMAIN s = 1..Len(s) /\ s \in [1..Len(s) -> S]
  OBVIOUS
<1>2. s \in [1..Len(s) -> {s[i] : i \in 1..Len(s)}]
  BY <1>1
<1> QED
  BY <1>1, <1>2 DEF List

\* What is at some places of a list is a list, empty if there is no place.
LEMMA AtIsList ==
  ASSUME NEW s, List(s), NEW P \in SUBSET DOMAIN s
  PROVE  /\ List(At(s, P))
         /\ \A k \in DOMAIN At(s, P) : \E i \in P : At(s, P)[k] = s[i]
         /\ \A i \in P : \E k \in DOMAIN At(s, P) : At(s, P)[k] = s[i]
         /\ At(s, P) = << >> <=> P = {}
<1>1. P \in SUBSET Nat /\ IsFiniteSet(P)
  BY ListFacts, FS_Subset
<1>2. Cardinality(P) \in Nat /\ DOMAIN At(s, P) = 1..Cardinality(P)
  BY <1>1, AtFacts
<1>3. List(At(s, P))
  BY <1>2 DEF List, At
<1>4. /\ \A k \in DOMAIN At(s, P) : \E i \in P : At(s, P)[k] = s[i]
      /\ \A i \in P : \E k \in DOMAIN At(s, P) : At(s, P)[k] = s[i]
  BY <1>1, AtFacts
<1>5. At(s, P) = << >> <=> P = {}
  <2>1. CASE P = {}
    <3>1. Cardinality(P) = 0
      BY <2>1, FS_EmptySet
    <3> QED
      BY <1>3, <1>2, <2>1, <3>1, ListFacts
  <2>2. CASE P # {}
    BY <1>4, <2>2
  <2> QED
    BY <2>1, <2>2
<1> QED
  BY <1>3, <1>4, <1>5
=============================================================================
