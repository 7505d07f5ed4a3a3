------------------------- MODULE WriteReservations -------------------------
(***************************************************************************)
(* Node-scoped write-set reservations (class WriteReservationManager of    *)
(* c4harness/integrator/conflicts.py).  Every operation runs under the     *)
(* manager's lock, so each is one step.                                    *)
(*                                                                         *)
(* A path is the tuple of its components; << >> is the repository root.    *)
(* Callers pass raw spellings, which may hold "." and ".." components.     *)
(***************************************************************************)
EXTENDS Naturals, Sequences

CONSTANTS
  Node,       \* the ids of the nodes that reserve
  Raw,        \* the spellings callers pass
  NoNode,     \* the owner of a path nobody reserved
  MaxRecords  \* bound: reservations of one path in the audit trail

ASSUME NoNodeAssumption == NoNode \notin Node

VARIABLES
  active,  \* the node that holds each canonical path
  records  \* the audit trail of each path: <<node, released>> pairs

reservationVars == <<active, records>>

-----------------------------------------------------------------------------
\* _canonical_write_path: a spelling that is empty or holds ".." is refused,
\* "." components disappear.
ValidPath(r) == r # << >> /\ \A i \in DOMAIN r : r[i] # ".."
Canonical(r) == SelectSeq(r, LAMBDA c : c # ".")

Path == {Canonical(r) : r \in {s \in Raw : ValidPath(s)}}

\* Component-aware equality, ancestor or descendant.
PathsOverlap(p, q) == \A i \in DOMAIN p \cap DOMAIN q : p[i] = q[i]

NodePaths(n) == {p \in Path : active[p] = n}
Reserved == {p \in Path : active[p] # NoNode}

ReservationInit ==
  /\ active = [p \in Path |-> NoNode]
  /\ records = [p \in Path |-> << >>]

\* Variant: only a path another node holds is in the way.
ConflictOnSamePath(n, want) == \E p \in want \cap Reserved : active[p] # n

\* A path of the request that another node protects.
ReservationConflict(n, want) ==
  \E p \in want, q \in Reserved : active[q] # n /\ PathsOverlap(p, q)

\* Variant: the conflicts are collected but not raised.
ReserveAnyway(n, want) ==
  /\ active' = [p \in Path |-> IF p \in want THEN n ELSE active[p]]
  /\ records' = [p \in Path |-> IF p \in want \ Reserved
                                THEN Append(records[p], <<n, FALSE>>)
                                ELSE records[p]]

\* reserve: all of the request or nothing.
Reserve(n, want) ==
  /\ ~ReservationConflict(n, want)
  /\ active' = [p \in Path |-> IF p \in want THEN n ELSE active[p]]
  /\ records' = [p \in Path |-> IF p \in want \ Reserved
                                THEN Append(records[p], <<n, FALSE>>)
                                ELSE records[p]]

\* What release does with a set of paths that n holds.
DropPaths(n, paths) ==
  /\ active' = [p \in Path |-> IF p \in paths THEN NoNode ELSE active[p]]
  /\ records' = [p \in Path |-> IF p \in paths
                                THEN Append(records[p], <<n, TRUE>>)
                                ELSE records[p]]

\* Variant: whoever holds the path loses it.
ReleaseAnyone(n, r) ==
  /\ ValidPath(r)
  /\ Canonical(r) \in Reserved
  /\ DropPaths(n, {Canonical(r)})

Release(n, r) ==
  /\ ValidPath(r)
  /\ Canonical(r) \in NodePaths(n)
  /\ DropPaths(n, {Canonical(r)})

ReleaseNode(n) == DropPaths(n, NodePaths(n))

-----------------------------------------------------------------------------
(* The manager on its own: any node calls any operation at any time. *)

Request(n, raws) ==
  /\ \A r \in raws : ValidPath(r)
  /\ \A r \in raws : Len(records[Canonical(r)]) < MaxRecords
  /\ Reserve(n, {Canonical(r) : r \in raws})

Init == ReservationInit

Next ==
  \E n \in Node :
    \/ \E raws \in SUBSET Raw : Request(n, raws)
    \/ \E r \in Raw : Release(n, r)
    \/ NodePaths(n) # {} /\ ReleaseNode(n)

Spec == Init /\ [][Next]_reservationVars

-----------------------------------------------------------------------------
(* Properties *)

TypeOK ==
  /\ active \in [Path -> Node \union {NoNode}]
  /\ records \in [Path -> Seq(Node \X BOOLEAN)]

\* Reservations of two nodes never overlap: not the same path, not a directory
\* and something below it, however the calls of the nodes interleave and
\* whatever was released in between.
NoOverlap ==
  \A p, q \in Reserved : active[p] # active[q] => ~PathsOverlap(p, q)

\* The audit trail of a path alternates between a reservation and its release
\* by the node that reserved, and its last entry agrees with the active table.
TrailMatchesTable ==
  \A p \in Path :
    /\ \A i \in DOMAIN records[p] :
         IF i % 2 = 1 THEN ~records[p][i][2]
                      ELSE records[p][i] = <<records[p][i - 1][1], TRUE>>
    /\ active[p] = IF Len(records[p]) % 2 = 0 THEN NoNode
                   ELSE records[p][Len(records[p])][1]

\* A path changes hands only over a moment at which nobody holds it.
NoHandover ==
  [][\A p \in Path : active[p] # NoNode => active'[p] \in {active[p], NoNode}]_reservationVars
=============================================================================
