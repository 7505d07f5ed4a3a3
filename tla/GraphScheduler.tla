--------------------------- MODULE GraphScheduler ---------------------------
(***************************************************************************)
(* The dependency scheduler of a task-contract graph                       *)
(* (c4harness/delegator/scheduler.py): the state of every node, the        *)
(* operations that move a node from one state to the next, blocking        *)
(* propagation, and the selection of a batch of nodes that may run         *)
(* together.  The scheduler runs nothing itself: RunGraph drives it.       *)
(*                                                                         *)
(* Node ids are compared as the code compares the strings node.id; here    *)
(* they are naturals.  The graph is kept in variables so that one run of   *)
(* TLC covers a set of graphs; no action changes them.                     *)
(***************************************************************************)
EXTENDS Naturals, Sequences, FiniteSets

CONSTANTS
  Node,        \* the node ids of the graph
  Graphs,      \* the candidate sets of "requires" edges <<source, target>>
  WriteScopes, \* the candidate write scopes: per node, its declared write paths,
               \* each a tuple of path components
  MaxParallel  \* the largest batch

ASSUME NodeAssumption == Node \subseteq Nat /\ IsFiniteSet(Node)
ASSUME GraphsAssumption == Graphs \subseteq SUBSET (Node \X Node)
ASSUME MaxParallelAssumption == MaxParallel \in Nat \ {0}

VARIABLES
  requires,        \* the graph: its "requires" edges
  writes,          \* per node, the write paths its contract declares
  state,           \* the NodeState of each node
  execution_order  \* the nodes in the order they were marked running

schedulerVars == <<requires, writes, state, execution_order>>

NodeState == {"pending", "running", "succeeded", "failed", "blocked"}
Terminal == {"succeeded", "failed", "blocked"}

-----------------------------------------------------------------------------
(* Queries *)

RequiresSources(n) == {m \in Node : <<m, n>> \in requires}

\* Variant: one succeeded source is enough.
ReadyAfterAnySource ==
  {n \in Node : /\ state[n] = "pending"
                /\ \/ RequiresSources(n) = {}
                   \/ \E m \in RequiresSources(n) : state[m] = "succeeded"}

ReadyNodes ==
  {n \in Node : /\ state[n] = "pending"
                /\ \A m \in RequiresSources(n) : state[m] = "succeeded"}

IsTerminal == \A n \in Node : state[n] \in Terminal

AllSucceeded == Node # {} /\ \A n \in Node : state[n] = "succeeded"
HasFailures == \E n \in Node : state[n] = "failed"
DeadlockDetected == Node # {} /\ IsTerminal /\ ~AllSucceeded /\ ~HasFailures

-----------------------------------------------------------------------------
(* Transitive dependents and blocking propagation *)

\* A set that holds, with a node, every node that requires it.
ClosedUnderDependents(S) ==
  \A m \in S : \A k \in Node : <<m, k>> \in requires => k \in S

\* What validate_acyclic accepts: in every nonempty set of nodes one requires
\* none of the others.
AcyclicGraph(E) ==
  \A S \in SUBSET Node : S # {} => \E m \in S : \A k \in S : <<k, m>> \notin E

\* The nodes the breadth-first walk from n reaches.
Downstream(n) ==
  {k \in Node :
     \A S \in SUBSET Node :
       /\ \A j \in Node : <<n, j>> \in requires => j \in S
       /\ ClosedUnderDependents(S)
       => k \in S}

\* Variant: the walk stops after the direct dependents.
BlockDirectDependents(n, st) ==
  [k \in Node |-> IF <<n, k>> \in requires /\ st[k] = "pending"
                  THEN "blocked" ELSE st[k]]

\* Variant: the edges are followed against their direction, whatever the state.
BlockSources(n, st) ==
  [k \in Node |-> IF <<k, n>> \in requires THEN "blocked" ELSE st[k]]

PropagateBlocked(n, st) ==
  [k \in Node |-> IF k \in Downstream(n) \ {n} /\ st[k] = "pending"
                  THEN "blocked" ELSE st[k]]

-----------------------------------------------------------------------------
(* Batch selection *)

\* Component-aware equality, ancestor or descendant.
PathsOverlap(p, q) == \A i \in DOMAIN p \cap DOMAIN q : p[i] = q[i]

WritesOverlap(m, n) ==
  \E p \in writes[m], q \in writes[n] : PathsOverlap(p, q)

Before(S, n) == {m \in S : m < n}

\* Variant: the bound is compared after the node is taken.
OneTooMany(batch, ready) ==
  /\ batch \subseteq ready
  /\ \A n \in ready :
       n \in batch <=> /\ Cardinality(Before(batch, n)) <= MaxParallel
                       /\ \A m \in Before(batch, n) : ~WritesOverlap(n, m)

\* Variant: only equal write paths keep two nodes apart.
FirstFitByPath(batch, ready) ==
  /\ batch \subseteq ready
  /\ \A n \in ready :
       n \in batch <=> /\ Cardinality(Before(batch, n)) < MaxParallel
                       /\ \A m \in Before(batch, n) : writes[n] \cap writes[m] = {}

\* select_parallel_batch: the ready nodes are gone through in the order of their
\* ids, and one that fits is added to the batch as it is by then.
GreedyBatch(ready) ==
  LET turn(k) == CHOOSE n \in ready : Cardinality({m \in ready : m <= n}) = k
      taken[k \in 0..Cardinality(ready)] ==
        IF k = 0 THEN {}
        ELSE IF /\ Cardinality(taken[k - 1]) < MaxParallel
                /\ \A m \in taken[k - 1] : ~WritesOverlap(turn(k), m)
             THEN taken[k - 1] \union {turn(k)}
             ELSE taken[k - 1]
  IN taken[Cardinality(ready)]

\* batch is what greedy first-fit over the sorted ready nodes returns: a node
\* is in it iff, when its turn comes, the batch has room and no member taken
\* so far overlaps the node.
IsFirstFitBatch(batch, ready) ==
  /\ batch \subseteq ready
  /\ \A n \in ready :
       n \in batch <=> /\ Cardinality(Before(batch, n)) < MaxParallel
                       /\ \A m \in Before(batch, n) : ~WritesOverlap(n, m)

-----------------------------------------------------------------------------
(* State transitions; each is guarded by the state the code insists on. *)

SchedulerInit ==
  /\ requires \in Graphs
  /\ writes \in WriteScopes
  /\ state = [n \in Node |-> "pending"]
  /\ execution_order = << >>

MarkRunning(n) ==
  /\ state[n] = "pending"
  /\ state' = [state EXCEPT ![n] = "running"]
  /\ execution_order' = Append(execution_order, n)
  /\ UNCHANGED <<requires, writes>>

MarkSucceeded(n) ==
  /\ state[n] = "running"
  /\ state' = [state EXCEPT ![n] = "succeeded"]
  /\ UNCHANGED <<requires, writes, execution_order>>

MarkFailed(n) ==
  /\ state[n] = "running"
  /\ state' = PropagateBlocked(n, [state EXCEPT ![n] = "failed"])
  /\ UNCHANGED <<requires, writes, execution_order>>

\* mark_blocked on every node that is still pending; the nodes its walks would
\* reach are among them.
MarkRestBlocked ==
  /\ state' = [n \in Node |-> IF state[n] = "pending" THEN "blocked" ELSE state[n]]
  /\ UNCHANGED <<requires, writes, execution_order>>
=============================================================================
