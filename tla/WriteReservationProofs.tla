----------------------- MODULE WriteReservationProofs -----------------------
(* Proofs about WriteReservations, for any nodes and any spellings.         *)
EXTENDS WriteReservations, TLAPS

\* Whatever a caller passes to reserve becomes a set of canonical paths.
LEMMA RequestedPaths ==
  ASSUME NEW raws \in SUBSET Raw, \A r \in raws : ValidPath(r)
  PROVE  {Canonical(r) : r \in raws} \subseteq Path
BY DEF Path

\* A reservation of n is one of paths that were free or its own.
LEMMA ReservedByNobodyElse ==
  ASSUME TypeOK, NEW n \in Node, NEW want \in SUBSET Path, Reserve(n, want),
         NEW p \in want
  PROVE  active[p] \in {n, NoNode}
BY DEF Reserve, ReservationConflict, Reserved, PathsOverlap

LEMMA AppendEntry ==
  ASSUME NEW E, NEW s \in Seq(E), NEW e \in E
  PROVE  Append(s, e) \in Seq(E)
OBVIOUS

\* Every operation leaves the table and the trail in their types.
LEMMA ReserveKeepsType ==
  ASSUME TypeOK, NEW n \in Node, NEW want \in SUBSET Path, Reserve(n, want)
  PROVE  TypeOK'
<1>1. active' \in [Path -> Node \union {NoNode}]
  BY DEF TypeOK, Reserve
<1>2. records' \in [Path -> Seq(Node \X BOOLEAN)]
  <2>1. \A p \in Path : records[p] \in Seq(Node \X BOOLEAN)
    BY DEF TypeOK
  <2>2. <<n, FALSE>> \in Node \X BOOLEAN
    OBVIOUS
  <2>3. \A p \in Path : Append(records[p], <<n, FALSE>>) \in Seq(Node \X BOOLEAN)
    BY <2>1, <2>2, AppendEntry
  <2> QED BY <2>1, <2>3 DEF Reserve
<1> QED BY <1>1, <1>2 DEF TypeOK

LEMMA DropKeepsType ==
  ASSUME TypeOK, NEW n \in Node, NEW paths \in SUBSET Path, DropPaths(n, paths)
  PROVE  TypeOK'
<1>1. active' \in [Path -> Node \union {NoNode}]
  BY DEF TypeOK, DropPaths
<1>2. records' \in [Path -> Seq(Node \X BOOLEAN)]
  <2>1. \A p \in Path : records[p] \in Seq(Node \X BOOLEAN)
    BY DEF TypeOK
  <2>2. <<n, TRUE>> \in Node \X BOOLEAN
    OBVIOUS
  <2>3. \A p \in Path : Append(records[p], <<n, TRUE>>) \in Seq(Node \X BOOLEAN)
    BY <2>1, <2>2, AppendEntry
  <2> QED BY <2>1, <2>3 DEF DropPaths
<1> QED BY <1>1, <1>2 DEF TypeOK

\* A step is a reservation of paths, or the release of paths by their holder.
LEMMA StepForms ==
  ASSUME TypeOK, Next
  PROVE  \E n \in Node :
           \/ \E want \in SUBSET Path : Reserve(n, want)
           \/ \E paths \in SUBSET NodePaths(n) : DropPaths(n, paths)
<1>1. PICK n \in Node :
         \/ \E raws \in SUBSET Raw : Request(n, raws)
         \/ \E r \in Raw : Release(n, r)
         \/ NodePaths(n) # {} /\ ReleaseNode(n)
  BY DEF Next
<1>2. CASE \E raws \in SUBSET Raw : Request(n, raws)
  <2>1. PICK raws \in SUBSET Raw : Request(n, raws)
    BY <1>2
  <2>2. {Canonical(r) : r \in raws} \in SUBSET Path
    BY <2>1, RequestedPaths DEF Request
  <2>3. Reserve(n, {Canonical(r) : r \in raws})
    BY <2>1 DEF Request
  <2> QED BY <2>2, <2>3
<1>3. CASE \E r \in Raw : Release(n, r)
  BY <1>3 DEF Release
<1>4. CASE NodePaths(n) # {} /\ ReleaseNode(n)
  BY <1>4 DEF ReleaseNode
<1> QED BY <1>1, <1>2, <1>3, <1>4

\* The table and the audit trail keep their types.
THEOREM TypeCorrect == Spec => []TypeOK
<1>1. Init => TypeOK
  BY DEF Init, ReservationInit, TypeOK
<1>2. TypeOK /\ [Next]_reservationVars => TypeOK'
  <2> SUFFICES ASSUME TypeOK, [Next]_reservationVars PROVE TypeOK'
    OBVIOUS
  <2>1. CASE Next
    <3>1. PICK n \in Node :
             \/ \E want \in SUBSET Path : Reserve(n, want)
             \/ \E paths \in SUBSET NodePaths(n) : DropPaths(n, paths)
      BY <2>1, StepForms
    <3>2. NodePaths(n) \subseteq Path
      BY DEF NodePaths
    <3> QED BY <3>1, <3>2, ReserveKeepsType, DropKeepsType
  <2>2. CASE UNCHANGED reservationVars
    BY <2>2 DEF TypeOK, reservationVars
  <2> QED BY <2>1, <2>2
<1> QED BY <1>1, <1>2, PTL DEF Spec

-----------------------------------------------------------------------------
\* Whatever overlapped nothing before overlaps nothing after a reservation:
\* its paths overlap no path of another node, and the others stay where they
\* were.
LEMMA ReserveKeepsApart ==
  ASSUME TypeOK, NoOverlap, NEW n \in Node, NEW want \in SUBSET Path, Reserve(n, want)
  PROVE  NoOverlap'
<1> SUFFICES ASSUME NEW p \in Path, NEW q \in Path,
                    active'[p] # NoNode, active'[q] # NoNode, active'[p] # active'[q]
             PROVE  ~PathsOverlap(p, q)
  BY DEF NoOverlap, Reserved, PathsOverlap
<1>1. \A x \in Path : active'[x] = IF x \in want THEN n ELSE active[x]
  BY DEF Reserve
<1>2. \A x \in want, y \in Path :
        active[y] # NoNode /\ active[y] # n => ~PathsOverlap(x, y)
  BY DEF Reserve, ReservationConflict, Reserved
<1>3. CASE p \in want
  <2>1. q \notin want /\ active[q] # NoNode /\ active[q] # n
    BY <1>1, <1>3
  <2> QED BY <2>1, <1>2, <1>3
<1>4. CASE q \in want
  <2>1. p \notin want /\ active[p] # NoNode /\ active[p] # n
    BY <1>1, <1>4
  <2>2. ~PathsOverlap(q, p)
    BY <2>1, <1>2, <1>4
  <2> QED BY <2>2 DEF PathsOverlap
<1>5. CASE p \notin want /\ q \notin want
  BY <1>1, <1>5 DEF NoOverlap, Reserved
<1> QED BY <1>3, <1>4, <1>5

\* Reservations of two nodes never overlap (WriteReservationManager.reserve
\* and the releases, in any order).
THEOREM ReservationsKeepApart == Spec => []NoOverlap
<1>1. Init => NoOverlap
  BY DEF Init, ReservationInit, NoOverlap, Reserved
<1>2. TypeOK /\ NoOverlap /\ [Next]_reservationVars => NoOverlap'
  <2> SUFFICES ASSUME TypeOK, NoOverlap, [Next]_reservationVars PROVE NoOverlap'
    OBVIOUS
  <2>1. CASE Next
    <3>1. PICK n \in Node :
             \/ \E want \in SUBSET Path : Reserve(n, want)
             \/ \E paths \in SUBSET NodePaths(n) : DropPaths(n, paths)
      BY <2>1, StepForms
    <3>2. CASE \E want \in SUBSET Path : Reserve(n, want)
      BY <3>2, ReserveKeepsApart
    <3>3. CASE \E paths \in SUBSET NodePaths(n) : DropPaths(n, paths)
      BY <3>3 DEF DropPaths, NoOverlap, Reserved, PathsOverlap
    <3> QED BY <3>1, <3>2, <3>3
  <2>2. CASE UNCHANGED reservationVars
    BY <2>2 DEF NoOverlap, Reserved, PathsOverlap, reservationVars
  <2> QED BY <2>1, <2>2
<1> QED BY <1>1, <1>2, TypeCorrect, PTL DEF Spec

\* A path changes hands only over a moment at which nobody holds it.
THEOREM HandedOverFree == Spec => NoHandover
<1> DEFINE Kept == \A p \in Path : active[p] # NoNode => active'[p] \in {active[p], NoNode}
<1>1. TypeOK /\ [Next]_reservationVars => [Kept]_reservationVars
  <2> SUFFICES ASSUME TypeOK, Next PROVE Kept
    OBVIOUS
  <2>1. PICK n \in Node :
           \/ \E want \in SUBSET Path : Reserve(n, want)
           \/ \E paths \in SUBSET NodePaths(n) : DropPaths(n, paths)
    BY StepForms
  <2>2. CASE \E want \in SUBSET Path : Reserve(n, want)
    <3>1. PICK want \in SUBSET Path : Reserve(n, want)
      BY <2>2
    <3>2. \A p \in Path : active'[p] = IF p \in want THEN n ELSE active[p]
      BY <3>1 DEF Reserve
    <3> QED BY <3>1, <3>2, ReservedByNobodyElse
  <2>3. CASE \E paths \in SUBSET NodePaths(n) : DropPaths(n, paths)
    BY <2>3 DEF DropPaths
  <2> QED BY <2>1, <2>2, <2>3
<1> QED BY <1>1, TypeCorrect, PTL DEF Spec, NoHandover

-----------------------------------------------------------------------------
(* The audit trail.  One entry is added at a time: after a reservation it    *)
(* has an odd length and ends with the holder, after a release an even one.  *)

\* A trail that alternates, with its holder: what TrailMatchesTable says of a
\* single path.
TrailOf(trail, holder) ==
  /\ \A i \in DOMAIN trail :
       IF i % 2 = 1 THEN ~trail[i][2]
                    ELSE trail[i] = <<trail[i - 1][1], TRUE>>
  /\ holder = IF Len(trail) % 2 = 0 THEN NoNode ELSE trail[Len(trail)][1]

LEMMA TrailByPath ==
  TrailMatchesTable <=> \A p \in Path : TrailOf(records[p], active[p])
BY DEF TrailMatchesTable, TrailOf

LEMMA Lengthened ==
  ASSUME NEW E, NEW s \in Seq(E), NEW e \in E
  PROVE  /\ Append(s, e)[Len(s) + 1] = e
         /\ \A i \in 1..Len(s) : Append(s, e)[i] = s[i]
OBVIOUS

LEMMA NextIsOdd ==
  ASSUME NEW k \in Nat
  PROVE  (k + 1) % 2 = 1 <=> k % 2 = 0
OBVIOUS

LEMMA ReservationLengthens ==
  ASSUME NEW trail \in Seq(Node \X BOOLEAN), NEW n \in Node, TrailOf(trail, NoNode)
  PROVE  TrailOf(Append(trail, <<n, FALSE>>), n)
<1> DEFINE k == Len(trail)
           longer == Append(trail, <<n, FALSE>>)
<1>1. k \in Nat /\ DOMAIN trail = 1..k /\ DOMAIN longer = 1..(k + 1) /\ Len(longer) = k + 1
  OBVIOUS
<1>2. k % 2 = 0
  <2> SUFFICES ASSUME k % 2 # 0 PROVE FALSE
    OBVIOUS
  <2>1. k % 2 = 1 /\ k \in 1..k
    BY <1>1
  <2>2. trail[k] \in Node \X BOOLEAN
    BY <2>1, <1>1
  <2>3. trail[k][1] = NoNode
    BY <2>1 DEF TrailOf
  <2> QED BY <2>2, <2>3, NoNodeAssumption
<1>3. (k + 1) % 2 = 1
  BY <1>1, <1>2, NextIsOdd
<1>4. longer[k + 1] = <<n, FALSE>> /\ \A i \in 1..k : longer[i] = trail[i]
  <2>1. PICK e \in Node \X BOOLEAN : e = <<n, FALSE>>
    OBVIOUS
  <2>2. Append(trail, e)[k + 1] = e /\ \A i \in 1..k : Append(trail, e)[i] = trail[i]
    BY Lengthened
  <2> QED BY <2>1, <2>2
<1>5. ASSUME NEW i \in 1..(k + 1)
      PROVE  IF i % 2 = 1 THEN ~longer[i][2]
                          ELSE longer[i] = <<longer[i - 1][1], TRUE>>
  <2>1. CASE i = k + 1
    BY <2>1, <1>3, <1>4
  <2>2. CASE i \in 1..k
    <3>1. IF i % 2 = 1 THEN ~trail[i][2] ELSE trail[i] = <<trail[i - 1][1], TRUE>>
      BY <2>2, <1>1 DEF TrailOf
    <3>2. i % 2 # 1 => i - 1 \in 1..k
      BY <2>2, <1>1
    <3> QED BY <3>1, <3>2, <2>2, <1>4
  <2>3. i = k + 1 \/ i \in 1..k
    BY <1>1
  <2> QED BY <2>1, <2>2, <2>3
<1>6. n = IF Len(longer) % 2 = 0 THEN NoNode ELSE longer[Len(longer)][1]
  BY <1>1, <1>3, <1>4
<1> HIDE DEF longer
<1> QED BY <1>1, <1>5, <1>6 DEF TrailOf, longer

LEMMA ReleaseLengthens ==
  ASSUME NEW trail \in Seq(Node \X BOOLEAN), NEW n \in Node, TrailOf(trail, n)
  PROVE  TrailOf(Append(trail, <<n, TRUE>>), NoNode)
<1> DEFINE k == Len(trail)
           longer == Append(trail, <<n, TRUE>>)
<1>1. k \in Nat /\ DOMAIN trail = 1..k /\ DOMAIN longer = 1..(k + 1) /\ Len(longer) = k + 1
  OBVIOUS
<1>2. k % 2 = 1 /\ trail[k][1] = n
  BY <1>1, NoNodeAssumption DEF TrailOf
<1>3. (k + 1) % 2 = 0 /\ k \in 1..k
  BY <1>1, <1>2
<1>4. longer[k + 1] = <<n, TRUE>> /\ \A i \in 1..k : longer[i] = trail[i]
  <2>1. PICK e \in Node \X BOOLEAN : e = <<n, TRUE>>
    OBVIOUS
  <2>2. Append(trail, e)[k + 1] = e /\ \A i \in 1..k : Append(trail, e)[i] = trail[i]
    BY Lengthened
  <2> QED BY <2>1, <2>2
<1>5. ASSUME NEW i \in 1..(k + 1)
      PROVE  IF i % 2 = 1 THEN ~longer[i][2]
                          ELSE longer[i] = <<longer[i - 1][1], TRUE>>
  <2>1. CASE i = k + 1
    <3>1. i % 2 # 1 /\ i - 1 = k
      BY <2>1, <1>1, <1>3
    <3>2. longer[i] = <<longer[i - 1][1], TRUE>>
      BY <2>1, <3>1, <1>2, <1>3, <1>4
    <3> QED BY <3>1, <3>2
  <2>2. CASE i \in 1..k
    <3>1. IF i % 2 = 1 THEN ~trail[i][2] ELSE trail[i] = <<trail[i - 1][1], TRUE>>
      BY <2>2, <1>1 DEF TrailOf
    <3>2. i % 2 # 1 => i - 1 \in 1..k
      BY <2>2, <1>1
    <3> QED BY <3>1, <3>2, <2>2, <1>4
  <2>3. i = k + 1 \/ i \in 1..k
    BY <1>1
  <2> QED BY <2>1, <2>2, <2>3
<1>6. NoNode = IF Len(longer) % 2 = 0 THEN NoNode ELSE longer[Len(longer)][1]
  BY <1>1, <1>3
<1> HIDE DEF longer
<1> QED BY <1>1, <1>5, <1>6 DEF TrailOf, longer

\* The audit trail of every path alternates between a reservation and its
\* release by the same node, and ends as the table has it (all_records against
\* active_reservations).
THEOREM TrailsAreTrue == Spec => []TrailMatchesTable
<1>1. Init => TrailMatchesTable
  BY DEF Init, ReservationInit, TrailMatchesTable
<1>2. TypeOK /\ TrailMatchesTable /\ [Next]_reservationVars => TrailMatchesTable'
  <2> SUFFICES ASSUME TypeOK, TrailMatchesTable, [Next]_reservationVars
               PROVE  TrailMatchesTable'
    OBVIOUS
  <2>1. CASE Next
    <3>1. PICK n \in Node :
             \/ \E want \in SUBSET Path : Reserve(n, want)
             \/ \E paths \in SUBSET NodePaths(n) : DropPaths(n, paths)
      BY <2>1, StepForms
    <3>2. \A p \in Path : TrailOf(records[p], active[p]) /\ records[p] \in Seq(Node \X BOOLEAN)
      BY TrailByPath DEF TypeOK
    <3>3. SUFFICES ASSUME NEW p \in Path PROVE TrailOf(records'[p], active'[p])
      BY DEF TrailMatchesTable, TrailOf
    <3>4. CASE \E want \in SUBSET Path : Reserve(n, want)
      <4>1. PICK want \in SUBSET Path : Reserve(n, want)
        BY <3>4
      <4>2. /\ active'[p] = IF p \in want THEN n ELSE active[p]
            /\ records'[p] = IF p \in want \ Reserved THEN Append(records[p], <<n, FALSE>>)
                             ELSE records[p]
        BY <4>1 DEF Reserve
      <4>3. CASE p \in want \ Reserved
        <5>1. active[p] = NoNode
          BY <4>3 DEF Reserved
        <5>2. TrailOf(Append(records[p], <<n, FALSE>>), n)
          <6>1. records[p] \in Seq(Node \X BOOLEAN) /\ TrailOf(records[p], NoNode)
            BY <5>1, <3>2
          <6> QED BY <6>1, ReservationLengthens
        <5> QED BY <5>2, <4>2, <4>3
      <4>4. CASE p \in want /\ p \in Reserved
        <5>1. active[p] = n
          BY <4>1, <4>4, ReservedByNobodyElse DEF Reserved
        <5> QED BY <5>1, <4>2, <4>4, <3>2
      <4>5. CASE p \notin want
        BY <4>5, <4>2, <3>2
      <4> QED BY <4>3, <4>4, <4>5
    <3>5. CASE \E paths \in SUBSET NodePaths(n) : DropPaths(n, paths)
      <4>1. PICK paths \in SUBSET NodePaths(n) : DropPaths(n, paths)
        BY <3>5
      <4>2. /\ active'[p] = IF p \in paths THEN NoNode ELSE active[p]
            /\ records'[p] = IF p \in paths THEN Append(records[p], <<n, TRUE>>) ELSE records[p]
        BY <4>1 DEF DropPaths
      <4>3. p \in paths => active[p] = n
        BY <4>1 DEF NodePaths
      <4>4. CASE p \in paths
        <5>1. TrailOf(Append(records[p], <<n, TRUE>>), NoNode)
          <6>1. records[p] \in Seq(Node \X BOOLEAN) /\ TrailOf(records[p], n)
            BY <4>3, <4>4, <3>2
          <6> QED BY <6>1, ReleaseLengthens
        <5> QED BY <5>1, <4>2, <4>4
      <4>5. CASE p \notin paths
        BY <4>2, <4>5, <3>2
      <4> QED BY <4>4, <4>5
    <3> QED BY <3>1, <3>4, <3>5
  <2>2. CASE UNCHANGED reservationVars
    BY <2>2 DEF TrailMatchesTable, reservationVars
  <2> QED BY <2>1, <2>2
<1> QED BY <1>1, <1>2, TypeCorrect, PTL DEF Spec
=============================================================================
