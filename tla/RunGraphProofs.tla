--------------------------- MODULE RunGraphProofs ---------------------------
(***************************************************************************)
(* Proofs about RunGraph, for every set of nodes, every set of graphs and  *)
(* every bound on parallelism.                                             *)
(***************************************************************************)
EXTENDS RunGraph, FiniteOrderProofs

\* What the typing needs: the batch is a set of nodes that are all pending or
\* already marked, and no other node runs.
BatchInv ==
  /\ pc \in {"mark", "run"} => batch # {} /\ Running \subseteq batch
  /\ pc = "mark" => \A n \in batch : state[n] \in {"pending", "running"}
  /\ pc = "mark" => batch \ Running # {}

TypeInv == TypeOK /\ BatchInv

-----------------------------------------------------------------------------
(* Typing *)

\* A first-fit batch over a nonempty set of ready nodes is nonempty: the batch
\* cannot be empty, or the first ready node would have been taken.
LEMMA FirstFitNonempty ==
  ASSUME NEW ready \in SUBSET Node, ready # {}, NEW b \in SUBSET ready,
         IsFirstFitBatch(b, ready)
  PROVE  b # {}
<1> SUFFICES ASSUME b = {} PROVE FALSE
  OBVIOUS
<1>1. PICK n \in ready : TRUE
  OBVIOUS
<1>2. Before(b, n) = {}
  BY DEF Before
<1>3. Cardinality({}) = 0
  BY FS_EmptySet
<1>4. n \in b
  BY <1>1, <1>2, <1>3, MaxParallelAssumption DEF IsFirstFitBatch
<1> QED
  BY <1>4

\* Propagation leaves every state a NodeState and starts or stops nothing.
LEMMA PropagateFacts ==
  ASSUME NEW n \in Node, NEW st \in [Node -> NodeState]
  PROVE  /\ PropagateBlocked(n, st) \in [Node -> NodeState]
         /\ \A k \in Node :
              /\ st[k] # "pending" => PropagateBlocked(n, st)[k] = st[k]
              /\ PropagateBlocked(n, st)[k] = "running" <=> st[k] = "running"
              /\ k \in Downstream(n) \ {n} /\ st[k] = "pending"
                    => PropagateBlocked(n, st)[k] = "blocked"
              /\ k \notin Downstream(n) => PropagateBlocked(n, st)[k] = st[k]
BY DEF PropagateBlocked, NodeState

LEMMA InitType == Init => TypeInv
BY DEF Init, SchedulerInit, TypeInv, TypeOK, BatchInv, Running, NodeState

LEMMA StepType == TypeInv /\ [Next]_vars => TypeInv'
<1> SUFFICES ASSUME TypeInv, [Next]_vars PROVE TypeInv'
  OBVIOUS
<1> USE DEF TypeInv
<1>1. CASE SelectBatch
  <2>1. PICK b \in SUBSET ReadyNodes : IsFirstFitBatch(b, ReadyNodes) /\ batch' = b
    BY <1>1 DEF SelectBatch
  <2>2. ReadyNodes \subseteq Node /\ \A n \in ReadyNodes : state[n] = "pending"
    BY DEF ReadyNodes
  <2>3. b # {}
    BY <1>1, <2>1, <2>2, FirstFitNonempty DEF SelectBatch
  <2>4. Running = {} /\ Running' = {}
    BY <1>1 DEF SelectBatch, TypeOK, Running, schedulerVars
  <2>5. TypeOK'
    BY <1>1, <2>1, <2>2 DEF SelectBatch, TypeOK, schedulerVars
  <2>6. BatchInv'
    BY <1>1, <2>1, <2>2, <2>3, <2>4 DEF SelectBatch, BatchInv, schedulerVars
  <2> QED
    BY <2>5, <2>6
<1>2. ASSUME NEW n \in Node, MarkNext(n) PROVE TypeInv'
  <2>1. state[n] = "pending" /\ n \in batch /\ pc = "mark" /\ batch' = batch
    BY <1>2 DEF MarkNext, MarkRunning
  <2>2. Running' = Running \union {n}
    BY <1>2 DEF MarkNext, MarkRunning, TypeOK, Running
  <2>3. execution_order' \in Seq(Node)
    BY <1>2 DEF MarkNext, MarkRunning, TypeOK
  <2>4. state' \in [Node -> NodeState]
    BY <1>2 DEF MarkNext, MarkRunning, TypeOK, NodeState
  <2>5. TypeOK'
    BY <1>2, <2>1, <2>2, <2>3, <2>4 DEF MarkNext, MarkRunning, TypeOK, BatchInv
  <2>6. BatchInv'
    BY <1>2, <2>1, <2>2 DEF MarkNext, MarkRunning, TypeOK, BatchInv
  <2> QED
    BY <2>5, <2>6
<1>3. ASSUME NEW n \in Node, NodeSucceeds(n) PROVE TypeInv'
  <2>1. Running' = Running \ {n}
    BY <1>3 DEF NodeSucceeds, MarkSucceeded, TypeOK, Running
  <2>2. pc = "run" /\ batch = Running /\ batch' = batch \ {n}
    BY <1>3 DEF NodeSucceeds, LeaveBatch, TypeOK
  <2>3. state' \in [Node -> NodeState]
    BY <1>3 DEF NodeSucceeds, MarkSucceeded, TypeOK, NodeState
  <2>4. TypeOK'
    BY <1>3, <2>1, <2>2, <2>3 DEF NodeSucceeds, MarkSucceeded, LeaveBatch, TypeOK
  <2>5. BatchInv'
    BY <1>3, <2>1, <2>2 DEF NodeSucceeds, LeaveBatch, BatchInv
  <2> QED
    BY <2>4, <2>5
<1>4. ASSUME NEW n \in Node, NodeFails(n) PROVE TypeInv'
  <2> DEFINE st == [state EXCEPT ![n] = "failed"]
  <2>1. st \in [Node -> NodeState] /\ state' = PropagateBlocked(n, st)
    BY <1>4 DEF NodeFails, MarkFailed, TypeOK, NodeState
  <2>2. /\ state' \in [Node -> NodeState]
        /\ \A k \in Node : state'[k] = "running" <=> st[k] = "running"
    <3> HIDE DEF st
    <3> QED
      BY <2>1, PropagateFacts
  <2>3. Running' = Running \ {n}
    BY <2>1, <2>2 DEF TypeOK, Running
  <2>4. pc = "run" /\ batch = Running /\ batch' = batch \ {n}
    BY <1>4 DEF NodeFails, LeaveBatch, TypeOK
  <2>5. TypeOK'
    BY <1>4, <2>2, <2>3, <2>4 DEF NodeFails, MarkFailed, LeaveBatch, TypeOK
  <2>6. BatchInv'
    BY <1>4, <2>3, <2>4 DEF NodeFails, LeaveBatch, BatchInv
  <2> QED
    BY <2>5, <2>6
<1>5. CASE BlockRest
  <2>1. state' \in [Node -> NodeState] /\ Running' = Running
    BY <1>5 DEF BlockRest, MarkRestBlocked, TypeOK, NodeState, Running
  <2> QED
    BY <1>5, <2>1 DEF BlockRest, MarkRestBlocked, TypeOK, BatchInv
<1>6. CASE Finish
  BY <1>6 DEF Finish, schedulerVars, TypeOK, BatchInv, Running
<1>7. CASE UNCHANGED vars
  BY <1>7 DEF vars, TypeOK, BatchInv, Running
<1> QED
  BY <1>1, <1>2, <1>3, <1>4, <1>5, <1>6, <1>7 DEF Next, Returned

\* Every reachable state is well typed, and the loop waits for exactly the
\* running nodes.
THEOREM TypeCorrect == Spec => []TypeOK
<1>1. Spec => []TypeInv
  BY InitType, StepType, PTL DEF Spec
<1>2. TypeInv => TypeOK
  BY DEF TypeInv
<1> QED
  BY <1>1, <1>2, PTL

LEMMA TypeInvariant == Spec => []TypeInv
BY InitType, StepType, PTL DEF Spec

-----------------------------------------------------------------------------
(* No node starts before what it requires *)

\* The members of a selected batch have what they require.
BatchReady ==
  pc = "mark" => \A n \in batch : \A m \in RequiresSources(n) : state[m] = "succeeded"

\* A step that only moves nodes out of "pending" or "running", keeps the
\* successes and starts nothing preserves StartedAfterSources.
LEMMA StartedKept ==
  ASSUME StartedAfterSources, UNCHANGED requires,
         \A k \in Node : /\ state[k] = "succeeded" => state'[k] = "succeeded"
                         /\ Started(k)' => Started(k)
  PROVE  StartedAfterSources'
<1> SUFFICES ASSUME NEW n \in Node, Started(n)', NEW m \in RequiresSources(n)'
             PROVE  state'[m] = "succeeded"
  BY DEF StartedAfterSources
<1>1. Started(n)
  OBVIOUS
<1>2. m \in RequiresSources(n)
  BY DEF RequiresSources
<1>3. state[m] = "succeeded"
  BY <1>1, <1>2 DEF StartedAfterSources
<1> QED
  BY <1>2, <1>3 DEF RequiresSources

LEMMA StepStarted ==
  TypeInv /\ StartedAfterSources /\ BatchReady /\ [Next]_vars
    => (StartedAfterSources /\ BatchReady)'
<1> SUFFICES ASSUME TypeInv, StartedAfterSources, BatchReady, [Next]_vars
             PROVE  (StartedAfterSources /\ BatchReady)'
  OBVIOUS
<1> USE DEF TypeInv
<1>1. CASE SelectBatch
  <2>1. StartedAfterSources'
    BY <1>1 DEF SelectBatch, schedulerVars, StartedAfterSources, Started, RequiresSources
  <2>2. BatchReady'
    BY <1>1 DEF SelectBatch, schedulerVars, BatchReady, RequiresSources, ReadyNodes
  <2> QED
    BY <2>1, <2>2
<1>2. ASSUME NEW n \in Node, MarkNext(n) PROVE (StartedAfterSources /\ BatchReady)'
  <2>1. /\ pc = "mark" /\ n \in batch /\ state[n] = "pending" /\ UNCHANGED <<requires, batch>>
        /\ state' = [state EXCEPT ![n] = "running"]
    BY <1>2 DEF MarkNext, MarkRunning
  <2>2. \A k \in Node : /\ state[k] = "succeeded" => state'[k] = "succeeded"
                        /\ k # n => (Started(k)' <=> Started(k))
    BY <2>1 DEF TypeOK, Started
  <2>3. \A m \in RequiresSources(n) : state[m] = "succeeded"
    BY <2>1 DEF BatchReady
  <2>4. StartedAfterSources'
    BY <2>1, <2>2, <2>3 DEF StartedAfterSources, RequiresSources
  <2>5. BatchReady'
    BY <2>1, <2>2 DEF BatchReady, RequiresSources
  <2> QED
    BY <2>4, <2>5
<1>3. ASSUME NEW n \in Node, NodeSucceeds(n) PROVE (StartedAfterSources /\ BatchReady)'
  <2>1. \A k \in Node : /\ state[k] = "succeeded" => state'[k] = "succeeded"
                        /\ Started(k)' => Started(k)
    BY <1>3 DEF NodeSucceeds, MarkSucceeded, TypeOK, Started
  <2>2. pc' # "mark" /\ UNCHANGED requires
    BY <1>3 DEF NodeSucceeds, MarkSucceeded, LeaveBatch
  <2> QED
    BY <2>1, <2>2, StartedKept DEF BatchReady
<1>4. ASSUME NEW n \in Node, NodeFails(n) PROVE (StartedAfterSources /\ BatchReady)'
  <2> DEFINE st == [state EXCEPT ![n] = "failed"]
  <2>1. st \in [Node -> NodeState] /\ state' = PropagateBlocked(n, st) /\ state[n] = "running"
    BY <1>4 DEF NodeFails, MarkFailed, TypeOK, NodeState
  <2>2. \A k \in Node : st[k] # "pending" => state'[k] = st[k]
    <3> HIDE DEF st
    <3> QED
      BY <2>1, PropagateFacts
  <2>3. \A k \in Node : st[k] = "pending" => ~Started(k)'
    BY <2>1 DEF PropagateBlocked, Started
  <2>4. \A k \in Node : /\ state[k] = "succeeded" => state'[k] = "succeeded"
                        /\ Started(k)' => Started(k)
    BY <2>1, <2>2, <2>3 DEF TypeOK, Started
  <2>5. pc' # "mark" /\ UNCHANGED requires
    BY <1>4 DEF NodeFails, MarkFailed, LeaveBatch
  <2> QED
    BY <2>4, <2>5, StartedKept DEF BatchReady
<1>5. CASE BlockRest
  <2>1. \A k \in Node : /\ state[k] = "succeeded" => state'[k] = "succeeded"
                        /\ Started(k)' => Started(k)
    BY <1>5 DEF BlockRest, MarkRestBlocked, TypeOK, Started
  <2>2. pc' # "mark" /\ UNCHANGED requires
    BY <1>5 DEF BlockRest, MarkRestBlocked
  <2> QED
    BY <2>1, <2>2, StartedKept DEF BatchReady
<1>6. CASE Finish
  BY <1>6 DEF Finish, schedulerVars, StartedAfterSources, Started, RequiresSources, BatchReady
<1>7. CASE UNCHANGED vars
  BY <1>7 DEF vars, StartedAfterSources, Started, RequiresSources, BatchReady
<1> QED
  BY <1>1, <1>2, <1>3, <1>4, <1>5, <1>6, <1>7 DEF Next, Returned

LEMMA StartedInvariant == Spec => [](TypeInv /\ StartedAfterSources /\ BatchReady)
<1>1. Init => StartedAfterSources /\ BatchReady
  BY DEF Init, SchedulerInit, StartedAfterSources, Started, BatchReady
<1> QED
  BY <1>1, InitType, StepType, StepStarted, PTL DEF Spec

\* A node that was ever handed to a worker had, and keeps, all its required
\* nodes succeeded, on every graph and under every order of completions.
THEOREM SourcesFirst == Spec => []StartedAfterSources
BY StartedInvariant, PTL

-----------------------------------------------------------------------------
(* What the breadth-first walk reaches *)

LEMMA DownstreamDirect ==
  ASSUME NEW n \in Node, NEW k \in Node, <<n, k>> \in requires
  PROVE  k \in Downstream(n)
BY DEF Downstream

LEMMA DownstreamClosed ==
  ASSUME NEW n \in Node, NEW m \in Downstream(n), NEW k \in Node, <<m, k>> \in requires
  PROVE  k \in Downstream(n)
BY DEF Downstream, ClosedUnderDependents

\* Whatever contains the direct dependents and is closed contains the walk.
LEMMA DownstreamLeast ==
  ASSUME NEW n \in Node, NEW S \in SUBSET Node, ClosedUnderDependents(S),
         \A k \in Node : <<n, k>> \in requires => k \in S
  PROVE  Downstream(n) \subseteq S
BY DEF Downstream

\* Nothing downstream of a node that has not succeeded was ever started: this
\* is where the walk of mark_failed finds only pending and blocked nodes.
LEMMA NothingStartedDownstream ==
  ASSUME StartedAfterSources, NEW f \in Node, state[f] # "succeeded"
  PROVE  \A k \in Downstream(f) : ~Started(k)
<1> DEFINE S == {k \in Node : ~Started(k)}
<1>1. \A k \in Node : <<f, k>> \in requires => k \in S
  BY DEF StartedAfterSources, RequiresSources
<1>2. ClosedUnderDependents(S)
  BY DEF ClosedUnderDependents, StartedAfterSources, RequiresSources, Started
<1>3. S \in SUBSET Node
  OBVIOUS
<1> HIDE DEF S
<1>4. Downstream(f) \subseteq S
  BY <1>1, <1>2, <1>3, DownstreamLeast
<1> QED
  BY <1>4 DEF S

-----------------------------------------------------------------------------
(* Blocking *)

\* A node blocked has a failure upstream, and a failure blocks all downstream.
BlockedBelowFailure ==
  \A f \in Node : state[f] = "failed" => \A n \in Downstream(f) : state[n] = "blocked"

FailureAboveBlocked ==
  \A n \in Node :
    state[n] = "blocked" => \E f \in Node : state[f] = "failed" /\ n \in Downstream(f)

BlockInv == BlockedBelowFailure /\ FailureAboveBlocked

\* On an acyclic graph, and with blocking as above, the first pending node in
\* the order of the graph is ready once nothing runs.
LEMMA ReadyExists ==
  ASSUME AcyclicGraph(requires), TypeOK, BlockInv, pc = "select", ~IsTerminal
  PROVE  ReadyNodes # {}
<1> DEFINE P == {n \in Node : state[n] = "pending"}
<1>1. \A n \in Node : state[n] # "running"
  BY DEF TypeOK, Running
<1>2. P # {} /\ P \in SUBSET Node
  BY <1>1 DEF IsTerminal, Terminal, TypeOK, NodeState
<1>3. PICK m \in P : \A k \in P : <<k, m>> \notin requires
  <2> HIDE DEF P
  <2> QED
    BY <1>2 DEF AcyclicGraph
<1>4. ASSUME NEW s \in RequiresSources(m), state[s] # "succeeded" PROVE FALSE
  <2>1. s \in Node /\ <<s, m>> \in requires /\ m \in Node /\ state[m] = "pending"
    BY <1>3 DEF RequiresSources
  <2>2. state[s] \in {"failed", "blocked"}
    BY <1>1, <1>3, <1>4, <2>1 DEF TypeOK, NodeState
  <2>3. CASE state[s] = "failed"
    BY <2>1, <2>3, DownstreamDirect DEF BlockInv, BlockedBelowFailure
  <2>4. CASE state[s] = "blocked"
    <3>1. PICK f \in Node : state[f] = "failed" /\ s \in Downstream(f)
      BY <2>1, <2>4 DEF BlockInv, FailureAboveBlocked
    <3>2. m \in Downstream(f)
      BY <2>1, <3>1, DownstreamClosed
    <3> QED
      BY <2>1, <3>1, <3>2 DEF BlockInv, BlockedBelowFailure
  <2> QED
    BY <2>2, <2>3, <2>4
<1>5. m \in ReadyNodes
  BY <1>3, <1>4 DEF ReadyNodes
<1> QED
  BY <1>5

\* A step that keeps every failure and every blocked state, and creates none,
\* preserves the blocking invariant.
LEMMA BlockKept ==
  ASSUME BlockInv, UNCHANGED requires,
         \A k \in Node : \A v \in {"failed", "blocked"} : state'[k] = v <=> state[k] = v
  PROVE  BlockInv'
<1>1. \A f \in Node : Downstream(f)' = Downstream(f)
  BY DEF Downstream, ClosedUnderDependents
<1>2. \A f \in Node : Downstream(f) \subseteq Node
  BY DEF Downstream
<1>3. BlockedBelowFailure'
  BY <1>1, <1>2 DEF BlockInv, BlockedBelowFailure
<1>4. FailureAboveBlocked'
  BY <1>1 DEF BlockInv, FailureAboveBlocked
<1> QED
  BY <1>3, <1>4 DEF BlockInv

LEMMA StepBlock ==
  ASSUME AcyclicGraph(requires), TypeInv, StartedAfterSources, BlockInv, [Next]_vars
  PROVE  BlockInv'
<1> USE DEF TypeInv
<1>1. CASE SelectBatch
  BY <1>1, BlockKept DEF SelectBatch, schedulerVars
<1>2. ASSUME NEW n \in Node, MarkNext(n) PROVE BlockInv'
  <2>1. \A k \in Node : \A v \in {"failed", "blocked"} : state'[k] = v <=> state[k] = v
    BY <1>2 DEF MarkNext, MarkRunning, TypeOK
  <2> QED
    BY <1>2, <2>1, BlockKept DEF MarkNext, MarkRunning
<1>3. ASSUME NEW n \in Node, NodeSucceeds(n) PROVE BlockInv'
  <2>1. \A k \in Node : \A v \in {"failed", "blocked"} : state'[k] = v <=> state[k] = v
    BY <1>3 DEF NodeSucceeds, MarkSucceeded, TypeOK
  <2> QED
    BY <1>3, <2>1, BlockKept DEF NodeSucceeds, MarkSucceeded
<1>4. ASSUME NEW n \in Node, NodeFails(n) PROVE BlockInv'
  <2> DEFINE st == [state EXCEPT ![n] = "failed"]
  <2>1. /\ st \in [Node -> NodeState] /\ state' = PropagateBlocked(n, st)
        /\ state[n] = "running" /\ UNCHANGED requires
    BY <1>4 DEF NodeFails, MarkFailed, TypeOK, NodeState
  <2>2. \A f \in Node : Downstream(f)' = Downstream(f) /\ Downstream(f) \subseteq Node
    BY <2>1 DEF Downstream, ClosedUnderDependents
  <2>3. \A k \in Downstream(n) : state[k] \in {"pending", "blocked"}
    BY <2>1, <2>2, NothingStartedDownstream DEF Started, TypeOK, NodeState
  <2>4. /\ \A k \in Node : st[k] # "pending" => state'[k] = st[k]
        /\ \A k \in Downstream(n) \ {n} : st[k] = "pending" => state'[k] = "blocked"
        /\ \A k \in Node : k \notin Downstream(n) => state'[k] = st[k]
    <3> HIDE DEF st
    <3> QED
      BY <2>1, <2>2, PropagateFacts
  <2>5. n \notin Downstream(n)
    BY <2>1, <2>3
  <2>6. \A k \in Downstream(n) : state'[k] = "blocked"
    BY <2>1, <2>2, <2>3, <2>4, <2>5 DEF TypeOK
  <2>7. \A k \in Node : k # n /\ state[k] \in {"failed", "blocked"} => state'[k] = state[k]
    BY <2>4 DEF TypeOK
  <2>8. \A k \in Node : k # n /\ state'[k] = "failed" => state[k] = "failed"
    BY <2>4, <2>6 DEF TypeOK
  <2>9. \A k \in Node : state'[k] = "blocked" => state[k] = "blocked" \/ k \in Downstream(n)
    BY <2>4 DEF TypeOK
  <2>10. state'[n] = "failed"
    BY <2>4, <2>5 DEF TypeOK
  <2>11. BlockedBelowFailure'
    <3> SUFFICES ASSUME NEW f \in Node, state'[f] = "failed", NEW k \in Downstream(f)
                 PROVE  state'[k] = "blocked"
      BY <2>2 DEF BlockedBelowFailure
    <3>1. CASE f = n
      BY <2>6, <3>1
    <3>2. CASE f # n
      <4>1. state[k] = "blocked" /\ k \in Node
        BY <2>2, <2>8, <3>2 DEF BlockInv, BlockedBelowFailure
      <4> QED
        BY <2>1, <2>7, <4>1
    <3> QED
      BY <3>1, <3>2
  <2>12. FailureAboveBlocked'
    <3> SUFFICES ASSUME NEW k \in Node, state'[k] = "blocked"
                 PROVE  \E f \in Node : state'[f] = "failed" /\ k \in Downstream(f)
      BY <2>2 DEF FailureAboveBlocked
    <3>1. CASE k \in Downstream(n)
      BY <2>10, <3>1
    <3>2. CASE state[k] = "blocked"
      <4>1. PICK f \in Node : state[f] = "failed" /\ k \in Downstream(f)
        BY <3>2 DEF BlockInv, FailureAboveBlocked
      <4> QED
        BY <2>1, <2>7, <4>1
    <3> QED
      BY <2>9, <3>1, <3>2
  <2> QED
    BY <2>11, <2>12 DEF BlockInv
<1>5. CASE BlockRest
  BY <1>5, ReadyExists DEF BlockRest
<1>6. CASE Finish
  BY <1>6, BlockKept DEF Finish, schedulerVars
<1>7. CASE UNCHANGED vars
  BY <1>7, BlockKept DEF vars
<1> QED
  BY <1>1, <1>2, <1>3, <1>4, <1>5, <1>6, <1>7 DEF Next, Returned

LEMMA GraphIsFixed == [Next]_vars => UNCHANGED requires
BY DEF Next, vars, schedulerVars, SelectBatch, MarkNext, NodeSucceeds, NodeFails, BlockRest, Finish,
       Returned, MarkRunning, MarkSucceeded, MarkFailed, MarkRestBlocked

BlockWhenAcyclic == AcyclicGraph(requires) => BlockInv

LEMMA BlockInvariant == Spec => [](TypeInv /\ BlockWhenAcyclic)
<1>1. Init => BlockWhenAcyclic
  BY DEF Init, SchedulerInit, BlockWhenAcyclic, BlockInv, BlockedBelowFailure, FailureAboveBlocked
<1>2. TypeInv /\ StartedAfterSources /\ BlockWhenAcyclic /\ [Next]_vars => BlockWhenAcyclic'
  <2> SUFFICES ASSUME TypeInv, StartedAfterSources, BlockWhenAcyclic, [Next]_vars,
                      AcyclicGraph(requires)'
               PROVE  BlockInv'
    BY DEF BlockWhenAcyclic
  <2>1. AcyclicGraph(requires)
    BY GraphIsFixed DEF AcyclicGraph
  <2> QED
    BY <2>1, StepBlock DEF BlockWhenAcyclic
<1> QED
  BY <1>1, <1>2, StartedInvariant, PTL DEF Spec

\* On acyclic graphs of any size, a node is blocked exactly when some node
\* upstream of it failed.
THEOREM BlockingIsExact == Spec => []BlockedIffFailedUpstream
<1>1. BlockWhenAcyclic => BlockedIffFailedUpstream
  BY DEF BlockWhenAcyclic, BlockInv, BlockedBelowFailure, FailureAboveBlocked,
         BlockedIffFailedUpstream
<1> QED
  BY <1>1, BlockInvariant, PTL

\* On acyclic graphs of any size the loop always finds a ready node until the
\* graph is terminal: the "deadlock" branch is never taken.
THEOREM NoDeadlock == Spec => []NeverStuck
<1>1. TypeInv /\ BlockWhenAcyclic => NeverStuck
  BY ReadyExists DEF TypeInv, BlockWhenAcyclic, NeverStuck
<1> QED
  BY <1>1, BlockInvariant, PTL

-----------------------------------------------------------------------------
(* What the result says, and that nothing is taken back *)

\* The loop ends only when every node is at its end.
EndIsTerminal == pc = "done" => IsTerminal

LEMMA StepEnd ==
  ASSUME TypeInv, EndIsTerminal, [Next]_vars
  PROVE  EndIsTerminal'
<1> USE DEF TypeInv
<1>1. CASE SelectBatch
  BY <1>1 DEF SelectBatch, EndIsTerminal
<1>2. ASSUME NEW n \in Node, MarkNext(n) PROVE EndIsTerminal'
  BY <1>2 DEF MarkNext, EndIsTerminal
<1>3. ASSUME NEW n \in Node, LeaveBatch(n) PROVE EndIsTerminal'
  BY <1>3 DEF LeaveBatch, EndIsTerminal
<1>4. CASE BlockRest
  <2>1. \A n \in Node : state[n] # "running"
    BY <1>4 DEF BlockRest, TypeOK, Running
  <2> QED
    BY <1>4, <2>1 DEF BlockRest, MarkRestBlocked, EndIsTerminal, IsTerminal, Terminal, TypeOK,
                      NodeState
<1>5. CASE Finish
  BY <1>5 DEF Finish, schedulerVars, EndIsTerminal, IsTerminal
<1>6. CASE UNCHANGED vars
  BY <1>6 DEF vars, EndIsTerminal, IsTerminal
<1> QED
  BY <1>1, <1>2, <1>3, <1>4, <1>5, <1>6 DEF Next, Returned, NodeSucceeds, NodeFails

\* At the end of an acyclic graph of any size the result is a full success or names
\* a failure; the deadlock flag is never set.
THEOREM ResultIsHonest == Spec => []HonestResult
<1>1. Init => EndIsTerminal
  BY DEF Init, EndIsTerminal
<1>2. TypeInv /\ BlockWhenAcyclic /\ EndIsTerminal => HonestResult
  <2> SUFFICES ASSUME TypeInv, AcyclicGraph(requires), BlockInv, Node # {}, IsTerminal
               PROVE  IsTerminal /\ ~DeadlockDetected /\ (AllSucceeded <=> ~HasFailures)
    BY DEF BlockWhenAcyclic, EndIsTerminal, HonestResult
  <2>1. ASSUME ~HasFailures PROVE AllSucceeded
    <3>1. \A n \in Node : state[n] # "failed" /\ state[n] # "blocked"
      BY <2>1 DEF HasFailures, BlockInv, FailureAboveBlocked
    <3> QED
      BY <3>1 DEF AllSucceeded, IsTerminal, Terminal
  <2>2. AllSucceeded => ~HasFailures
    BY DEF AllSucceeded, HasFailures
  <2> QED
    BY <2>1, <2>2 DEF DeadlockDetected
<1> QED
  BY <1>1, <1>2, StepEnd, BlockInvariant, TypeInvariant, PTL DEF Spec

LEMMA StepVerdicts ==
  ASSUME TypeInv, [Next]_vars
  PROVE  \A k \in Node : state[k] \in Terminal => state'[k] = state[k]
<1> USE DEF TypeInv
<1>1. CASE UNCHANGED state
  BY <1>1
<1>2. ASSUME NEW n \in Node, MarkNext(n)
      PROVE  \A k \in Node : state[k] \in Terminal => state'[k] = state[k]
  BY <1>2 DEF MarkNext, MarkRunning, TypeOK, Terminal
<1>3. ASSUME NEW n \in Node, NodeSucceeds(n)
      PROVE  \A k \in Node : state[k] \in Terminal => state'[k] = state[k]
  BY <1>3 DEF NodeSucceeds, MarkSucceeded, TypeOK, Terminal
<1>4. ASSUME NEW n \in Node, NodeFails(n)
      PROVE  \A k \in Node : state[k] \in Terminal => state'[k] = state[k]
  <2> DEFINE st == [state EXCEPT ![n] = "failed"]
  <2>1. st \in [Node -> NodeState] /\ state' = PropagateBlocked(n, st) /\ state[n] = "running"
    BY <1>4 DEF NodeFails, MarkFailed, TypeOK, NodeState
  <2>2. \A k \in Node : st[k] # "pending" => state'[k] = st[k]
    <3> HIDE DEF st
    <3> QED
      BY <2>1, PropagateFacts
  <2>3. \A k \in Node : state[k] \in Terminal => k # n /\ st[k] = state[k] /\ st[k] # "pending"
    BY <2>1 DEF TypeOK, Terminal
  <2> QED
    BY <2>2, <2>3
<1>5. CASE BlockRest
  BY <1>5 DEF BlockRest, MarkRestBlocked, Terminal
<1> QED
  BY <1>1, <1>2, <1>3, <1>4, <1>5 DEF Next, Returned, SelectBatch, Finish, schedulerVars, vars

\* Whatever the graph and the order of the completions, the verdict on a node is
\* never changed: neither a later failure's walk nor the end of the loop touches it.
THEOREM VerdictsStand == Spec => VerdictsAreFinal
<1>1. TypeInv /\ [Next]_vars => [\A n \in Node : state[n] \in Terminal => state'[n] = state[n]]_vars
  BY StepVerdicts
<1> QED
  BY <1>1, TypeInvariant, PTL DEF Spec, VerdictsAreFinal

-----------------------------------------------------------------------------
(* What runs at once *)

\* A first-fit batch has room for its last member and keeps its members apart.
LEMMA FirstFitFacts ==
  ASSUME NEW ready \in SUBSET Node, NEW b \in SUBSET ready, IsFirstFitBatch(b, ready)
  PROVE  /\ Cardinality(b) <= MaxParallel
         /\ \A m, n \in b : m < n => ~WritesOverlap(n, m)
<1>1. b \in SUBSET Nat /\ IsFiniteSet(b)
  BY NodeAssumption, FS_Subset
<1>2. Cardinality(b) <= MaxParallel
  <2>1. CASE b = {}
    BY <2>1, FS_EmptySet, MaxParallelAssumption
  <2>2. CASE b # {}
    <3>1. PICK m \in b : \A k \in b : k <= m
      BY <1>1, <2>2, GreatestExists
    <3>2. \A k \in b : k < m <=> k # m
      BY <1>1, <3>1
    <3>3. Before(b, m) = b \ {m}
      BY <3>2 DEF Before
    <3>4. Cardinality(b \ {m}) = Cardinality(b) - 1 /\ Cardinality(b) \in Nat
      BY <1>1, FS_RemoveElement, FS_CardinalityType
    <3>5. Cardinality(Before(b, m)) < MaxParallel
      BY <3>1 DEF IsFirstFitBatch
    <3> QED
      BY <3>3, <3>4, <3>5, MaxParallelAssumption
  <2> QED
    BY <2>1, <2>2
<1>3. \A m, n \in b : m < n => ~WritesOverlap(n, m)
  BY <1>1 DEF IsFirstFitBatch, Before
<1> QED
  BY <1>2, <1>3

LEMMA OverlapIsSymmetric ==
  ASSUME NEW m, NEW n, WritesOverlap(m, n)
  PROVE  WritesOverlap(n, m)
BY DEF WritesOverlap, PathsOverlap

\* What a selected batch keeps until it has returned: it is small enough, and the
\* write paths of its members do not nest.
BatchFits ==
  /\ IsFiniteSet(batch) /\ Cardinality(batch) <= MaxParallel
  /\ \A m, n \in batch : m # n => ~WritesOverlap(m, n)

LEMMA StepFits ==
  ASSUME TypeInv, BatchFits, [Next]_vars
  PROVE  BatchFits'
<1> USE DEF TypeInv
<1>1. CASE SelectBatch
  <2>1. PICK b \in SUBSET ReadyNodes : IsFirstFitBatch(b, ReadyNodes) /\ batch' = b
    BY <1>1 DEF SelectBatch
  <2>2. ReadyNodes \in SUBSET Node
    BY DEF ReadyNodes
  <2>3. /\ Cardinality(b) <= MaxParallel
        /\ \A m, n \in b : m < n => ~WritesOverlap(n, m)
    BY <2>1, <2>2, FirstFitFacts
  <2>4. b \in SUBSET Nat /\ IsFiniteSet(b)
    BY <2>2, NodeAssumption, FS_Subset
  <2>5. \A m, n \in b : m # n => ~WritesOverlap(m, n)
    BY <2>3, <2>4, OverlapIsSymmetric
  <2>6. \A m, n : WritesOverlap(m, n)' <=> WritesOverlap(m, n)
    BY <1>1 DEF SelectBatch, schedulerVars, WritesOverlap
  <2> QED
    BY <2>1, <2>3, <2>4, <2>5, <2>6 DEF BatchFits
<1>2. ASSUME batch' \subseteq batch, UNCHANGED writes PROVE BatchFits'
  <2>1. IsFiniteSet(batch') /\ Cardinality(batch') <= Cardinality(batch)
    BY <1>2, FS_Subset DEF BatchFits
  <2>2. Cardinality(batch') \in Nat /\ Cardinality(batch) \in Nat
    BY <2>1, FS_CardinalityType DEF BatchFits
  <2>3. \A m, n : WritesOverlap(m, n)' <=> WritesOverlap(m, n)
    BY <1>2 DEF WritesOverlap
  <2> QED
    BY <1>2, <2>1, <2>2, <2>3, MaxParallelAssumption DEF BatchFits
<1> QED
  BY <1>1, <1>2 DEF Next, Returned, vars, schedulerVars, MarkNext, NodeSucceeds, NodeFails, LeaveBatch,
                    BlockRest, Finish, MarkRunning, MarkSucceeded, MarkFailed, MarkRestBlocked

LEMMA FitsInvariant == Spec => [](TypeInv /\ BatchFits)
<1>1. Init => BatchFits
  BY FS_EmptySet, MaxParallelAssumption DEF Init, BatchFits
<1> QED
  BY <1>1, InitType, StepType, StepFits, PTL DEF Spec

\* Nodes that run at once never have write paths one of which is the other or an
\* ancestor of it, for any scopes and any bound.
THEOREM WritersAreDisjoint == Spec => []DisjointWriters
<1>1. TypeInv /\ BatchFits => DisjointWriters
  BY DEF TypeInv, TypeOK, BatchInv, BatchFits, DisjointWriters, Running
<1> QED
  BY <1>1, FitsInvariant, PTL

\* Never more nodes run at once than the caller allowed.
THEOREM ParallelismIsBounded == Spec => []BoundedParallelism
<1>1. TypeInv /\ BatchFits => BoundedParallelism
  <2> SUFFICES ASSUME TypeInv, BatchFits PROVE Cardinality(Running) <= MaxParallel
    BY DEF BoundedParallelism
  <2>1. Running \subseteq batch
    BY DEF TypeInv, TypeOK, BatchInv
  <2>2. IsFiniteSet(Running) /\ Cardinality(Running) <= Cardinality(batch)
    BY <2>1, FS_Subset DEF BatchFits
  <2>3. Cardinality(Running) \in Nat /\ Cardinality(batch) \in Nat
    BY <2>2, FS_CardinalityType DEF BatchFits
  <2> QED
    BY <2>2, <2>3, MaxParallelAssumption DEF BatchFits
<1> QED
  BY <1>1, FitsInvariant, PTL

-----------------------------------------------------------------------------
(* The order of execution *)

LEMMA StepOrder ==
  ASSUME TypeInv, StartedAfterSources, BatchReady, OrderIsTopological, [Next]_vars
  PROVE  OrderIsTopological'
<1> USE DEF TypeInv
<1>1. ASSUME NEW n \in Node, MarkNext(n) PROVE OrderIsTopological'
  <2> DEFINE e == execution_order
             l == Len(execution_order) + 1
  <2>1. /\ pc = "mark" /\ n \in batch /\ state[n] = "pending" /\ UNCHANGED requires
        /\ state' = [state EXCEPT ![n] = "running"]
        /\ execution_order' = Append(e, n)
    BY <1>1 DEF MarkNext, MarkRunning
  <2>2. e \in Seq(Node) /\ requires \subseteq Node \X Node
    BY GraphsAssumption DEF TypeOK
  <2>3. /\ DOMAIN execution_order' = (DOMAIN e) \union {l}
        /\ l \in Nat /\ l \notin DOMAIN e /\ \A i \in DOMAIN e : i < l /\ i \in Nat
        /\ execution_order'[l] = n
        /\ \A i \in DOMAIN e : execution_order'[i] = e[i] /\ e[i] \in Node
    BY <2>1, <2>2
  <2> HIDE DEF l
  <2>4. \A i \in DOMAIN e : e[i] # n /\ Started(e[i])
    BY <2>1, <2>3 DEF OrderIsTopological, Started
  <2>5. \A k \in Node : Started(k)' <=> Started(k) \/ k = n
    BY <2>1 DEF TypeOK, Started
  <2>6. \A i \in DOMAIN e : <<n, e[i]>> \notin requires
    BY <2>1, <2>3, <2>4 DEF StartedAfterSources, RequiresSources
  <2>7. <<n, n>> \notin requires
    BY <2>1 DEF BatchReady, RequiresSources
  <2>8. \A k \in Node : Started(k)' <=> \E i \in DOMAIN execution_order' : execution_order'[i] = k
    BY <2>3, <2>5 DEF OrderIsTopological
  <2>9. \A i, j \in DOMAIN execution_order' :
          execution_order'[i] = execution_order'[j] => i = j
    BY <2>3, <2>4 DEF OrderIsTopological
  <2>10. \A i, j \in DOMAIN execution_order' :
           <<execution_order'[i], execution_order'[j]>> \in requires => i < j
    BY <2>3, <2>6, <2>7 DEF OrderIsTopological
  <2> QED
    BY <2>1, <2>8, <2>9, <2>10 DEF OrderIsTopological
<1>2. ASSUME UNCHANGED <<requires, execution_order>>, \A k \in Node : Started(k)' <=> Started(k)
      PROVE  OrderIsTopological'
  BY <1>2 DEF OrderIsTopological
<1>3. ASSUME NEW n \in Node, NodeFails(n) PROVE \A k \in Node : Started(k)' <=> Started(k)
  <2> DEFINE st == [state EXCEPT ![n] = "failed"]
  <2>1. st \in [Node -> NodeState] /\ state' = PropagateBlocked(n, st) /\ state[n] = "running"
    BY <1>3 DEF NodeFails, MarkFailed, TypeOK, NodeState
  <2>2. \A k \in Node : st[k] # "pending" => state'[k] = st[k]
    <3> HIDE DEF st
    <3> QED
      BY <2>1, PropagateFacts
  <2>3. \A k \in Node : st[k] = "pending" => ~Started(k)'
    BY <2>1 DEF PropagateBlocked, Started
  <2> QED
    BY <2>1, <2>2, <2>3 DEF TypeOK, Started
<1>4. ASSUME NEW n \in Node, NodeSucceeds(n) PROVE \A k \in Node : Started(k)' <=> Started(k)
  BY <1>4 DEF NodeSucceeds, MarkSucceeded, TypeOK, Started
<1>5. CASE BlockRest
  <2>1. \A k \in Node : Started(k)' <=> Started(k)
    BY <1>5 DEF BlockRest, MarkRestBlocked, TypeOK, Started
  <2> QED
    BY <1>2, <1>5, <2>1 DEF BlockRest, MarkRestBlocked
<1> QED
  BY <1>1, <1>2, <1>3, <1>4, <1>5
  DEF Next, Returned, SelectBatch, Finish, schedulerVars, vars, NodeSucceeds, NodeFails,
      MarkSucceeded, MarkFailed, Started

\* On any graph execution_order has each node that was started once, after all it
\* requires.
THEOREM OrderIsSound == Spec => []OrderIsTopological
<1>1. Init => OrderIsTopological
  BY DEF Init, SchedulerInit, OrderIsTopological, Started
<1> QED
  BY <1>1, StartedInvariant, StepOrder, PTL DEF Spec

-----------------------------------------------------------------------------
(* First fit *)

\* Two batches that first fit allows differ at no node: not at a least one.
LEMMA FirstFitIsUnique ==
  ASSUME NEW ready \in SUBSET Nat, IsFiniteSet(ready), NEW b, IsFirstFitBatch(b, ready),
         NEW c, IsFirstFitBatch(c, ready)
  PROVE  b = c
<1> DEFINE D == {n \in ready : ~(n \in b <=> n \in c)}
<1>1. b \subseteq ready /\ c \subseteq ready
  BY DEF IsFirstFitBatch
<1>2. CASE D = {}
  BY <1>1, <1>2
<1>3. CASE D # {}
  <2>1. D \in SUBSET Nat /\ IsFiniteSet(D)
    BY FS_Subset
  <2> HIDE DEF D
  <2>2. PICK n \in D : \A k \in D : n <= k
    BY <1>3, <2>1, LeastExists
  <2>3. n \in ready /\ ~(n \in b <=> n \in c)
    BY <2>2 DEF D
  <2>4. Before(b, n) = Before(c, n)
    <3> SUFFICES ASSUME NEW m \in ready, m < n PROVE m \in b <=> m \in c
      BY <1>1 DEF Before
    <3>1. m \notin D
      BY <2>2, <2>3
    <3> QED
      BY <3>1 DEF D
  <2> QED
    BY <2>3, <2>4 DEF IsFirstFitBatch
<1> QED
  BY <1>2, <1>3

\* The batch after one node more has had its turn.
Fitted(taken, n) ==
  IF Cardinality(taken) < MaxParallel /\ \A m \in taken : ~WritesOverlap(n, m)
  THEN taken \union {n} ELSE taken

LEMMA FirstFitGrows ==
  ASSUME NEW ready \in SUBSET Nat, NEW b, IsFirstFitBatch(b, ready),
         NEW n \in Nat, \A m \in ready : m < n
  PROVE  IsFirstFitBatch(Fitted(b, n), ready \union {n})
<1> DEFINE c == Fitted(b, n)
<1>1. b \subseteq ready /\ n \notin ready /\ n \notin b /\ c \subseteq ready \union {n}
  BY DEF IsFirstFitBatch, Fitted
<1>2. \A m \in ready : m \in c <=> m \in b
  BY <1>1 DEF Fitted
<1>3. ASSUME NEW m \in ready PROVE Before(c, m) = Before(b, m)
  <2>1. ~(n < m)
    BY <1>3
  <2> QED
    BY <2>1 DEF Fitted, Before
<1>4. Before(c, n) = b
  <2>1. ~(n < n) /\ \A m \in b : m < n
    BY <1>1
  <2> QED
    BY <2>1 DEF Fitted, Before
<1>5. n \in c <=> Cardinality(b) < MaxParallel /\ \A m \in b : ~WritesOverlap(n, m)
  BY <1>1 DEF Fitted
<1> HIDE DEF c
<1>6. ASSUME NEW m \in ready
      PROVE  m \in c <=> /\ Cardinality(Before(c, m)) < MaxParallel
                         /\ \A k \in Before(c, m) : ~WritesOverlap(m, k)
  BY <1>2, <1>3 DEF IsFirstFitBatch
<1>7. n \in c <=> /\ Cardinality(Before(c, n)) < MaxParallel
                  /\ \A k \in Before(c, n) : ~WritesOverlap(n, k)
  BY <1>4, <1>5
<1> QED
  BY <1>1, <1>6, <1>7 DEF IsFirstFitBatch, c

\* The node whose turn is the k-th, and the nodes that have had theirs by then.
Turn(ready, k) == CHOOSE n \in ready : Cardinality({m \in ready : m <= n}) = k
Upto(ready, k) == {n \in ready : Rank(ready, n) <= k}

LEMMA NoTurnAllTurns ==
  ASSUME NEW ready \in SUBSET Nat, IsFiniteSet(ready)
  PROVE  /\ Upto(ready, 0) = {} /\ Upto(ready, Cardinality(ready)) = ready
         /\ \A k : Upto(ready, k) \in SUBSET Nat /\ IsFiniteSet(Upto(ready, k))
<1>1. Cardinality(ready) \in Nat
  BY FS_CardinalityType
<1>2. \A m \in ready : Rank(ready, m) \in 1..Cardinality(ready)
  BY RankType
<1>3. \A m \in ready : ~(Rank(ready, m) <= 0) /\ Rank(ready, m) <= Cardinality(ready)
  BY <1>1, <1>2
<1> QED
  BY <1>3, FS_Subset DEF Upto

LEMMA TurnFacts ==
  ASSUME NEW ready \in SUBSET Nat, IsFiniteSet(ready), NEW k \in 1..Cardinality(ready)
  PROVE  /\ Turn(ready, k) \in Nat
         /\ Upto(ready, k) = Upto(ready, k - 1) \union {Turn(ready, k)}
         /\ \A m \in Upto(ready, k - 1) : m < Turn(ready, k)
<1> DEFINE n == Turn(ready, k)
<1>1. \E i \in ready : Rank(ready, i) = k
  BY RanksAreAll
<1>2. n \in ready /\ Rank(ready, n) = k
  BY <1>1 DEF Turn, Rank
<1> HIDE DEF n
<1>3. Cardinality(ready) \in Nat
  BY FS_CardinalityType
<1>4. \A m \in ready : Rank(ready, m) \in 1..Cardinality(ready)
  BY RankType
<1>5. ASSUME NEW m \in ready, Rank(ready, m) <= k - 1 PROVE m < n
  <2>1. m # n /\ ~(n < m)
    <3>1. CASE n < m
      <4>1. Rank(ready, n) < Rank(ready, m)
        BY <1>2, <3>1, RanksAreDistinct
      <4> QED
        BY <1>2, <1>3, <1>4, <1>5, <4>1
    <3>2. m # n
      BY <1>2, <1>5
    <3> QED
      BY <3>1, <3>2
  <2> QED
    BY <1>2, <2>1
<1>6. ASSUME NEW m \in ready, Rank(ready, m) = k PROVE m = n
  <2>1. ~(m < n) /\ ~(n < m)
    BY <1>2, <1>3, <1>4, <1>6, RanksAreDistinct
  <2> QED
    BY <1>2, <2>1
<1>7. \A m \in ready : Rank(ready, m) <= k <=> Rank(ready, m) <= k - 1 \/ Rank(ready, m) = k
  BY <1>3, <1>4
<1>8. Upto(ready, k) = Upto(ready, k - 1) \union {n}
  BY <1>2, <1>6, <1>7 DEF Upto
<1> QED
  BY <1>2, <1>5, <1>8 DEF Upto, n

\* A batch that first fit allows exists for every number of turns: there is no
\* least number for which there is none.
LEMMA FirstFitExists ==
  ASSUME NEW ready \in SUBSET Nat, IsFiniteSet(ready), NEW k \in 0..Cardinality(ready)
  PROVE  \E b : IsFirstFitBatch(b, Upto(ready, k))
<1> DEFINE c == Cardinality(ready)
           D == {i \in 0..c : ~\E b : IsFirstFitBatch(b, Upto(ready, i))}
<1>1. c \in Nat
  BY FS_CardinalityType
<1>2. CASE D = {}
  BY <1>2
<1>3. CASE D # {}
  <2>0. D \in SUBSET (0..c)
    OBVIOUS
  <2> HIDE DEF D
  <2>1. D \in SUBSET Nat /\ IsFiniteSet(D)
    <3> HIDE DEF c
    <3>1. IsFiniteSet(0..c) /\ 0..c \subseteq Nat
      BY <1>1, FS_Interval
    <3> QED
      BY <2>0, <3>1, FS_Subset
  <2>2. PICK i \in D : \A j \in D : i <= j
    BY <1>3, <2>1, LeastExists
  <2>3. i \in 0..c /\ ~\E b : IsFirstFitBatch(b, Upto(ready, i))
    BY <2>2 DEF D
  <2>4. CASE i = 0
    <3>1. Upto(ready, 0) = {}
      BY NoTurnAllTurns
    <3>2. IsFirstFitBatch({}, Upto(ready, 0))
      BY <3>1 DEF IsFirstFitBatch
    <3> QED
      BY <2>3, <2>4, <3>2
  <2>5. CASE i # 0
    <3>1. i \in 1..c /\ i - 1 \in 0..c /\ ~(i <= i - 1)
      BY <1>1, <2>3, <2>5
    <3>2. i - 1 \notin D
      BY <2>2, <3>1
    <3>3. PICK b : IsFirstFitBatch(b, Upto(ready, i - 1))
      BY <3>1, <3>2 DEF D
    <3>4. Upto(ready, i - 1) \in SUBSET Nat
      BY DEF Upto
    <3>5. IsFirstFitBatch(Fitted(b, Turn(ready, i)), Upto(ready, i))
      BY <3>1, <3>3, <3>4, TurnFacts, FirstFitGrows
    <3> QED
      BY <2>3, <3>5
  <2> QED
    BY <2>4, <2>5
<1> QED
  BY <1>2, <1>3

\* Going through the nodes arrives at it: the batches after each turn are such a
\* going-through, and from the empty batch there is no other.
LEMMA GreedyIsFirstFit ==
  ASSUME NEW ready \in SUBSET Nat, IsFiniteSet(ready)
  PROVE  IsFirstFitBatch(GreedyBatch(ready), ready)
<1> DEFINE c == Cardinality(ready)
           Goes(f) == f = [k \in 0..c |-> IF k = 0 THEN {} ELSE Fitted(f[k - 1], Turn(ready, k))]
           fits == [k \in 0..c |-> CHOOSE b : IsFirstFitBatch(b, Upto(ready, k))]
           taken == CHOOSE f : Goes(f)
<1>1. c \in Nat
  BY FS_CardinalityType
<1>2. /\ Upto(ready, 0) = {} /\ Upto(ready, c) = ready
      /\ \A k : Upto(ready, k) \in SUBSET Nat /\ IsFiniteSet(Upto(ready, k))
  BY NoTurnAllTurns
<1>3. ASSUME NEW k \in 1..c
      PROVE  k \in 0..c /\ k - 1 \in 0..c
  BY <1>1
<1>4. ASSUME NEW k \in 0..c PROVE IsFirstFitBatch(fits[k], Upto(ready, k))
  BY FirstFitExists
<1>5. Goes(fits)
  <2>1. fits[0] = {}
    BY <1>1, <1>2, <1>4 DEF IsFirstFitBatch
  <2>2. ASSUME NEW k \in 1..c PROVE fits[k] = Fitted(fits[k - 1], Turn(ready, k))
    <3> HIDE DEF fits
    <3>0. IsFirstFitBatch(fits[k - 1], Upto(ready, k - 1)) /\ IsFirstFitBatch(fits[k], Upto(ready, k))
      BY <1>3, <1>4
    <3>1. IsFirstFitBatch(Fitted(fits[k - 1], Turn(ready, k)), Upto(ready, k))
      <4> DEFINE P == Upto(ready, k - 1)  t == Turn(ready, k)  b == fits[k - 1]
      <4>1. /\ P \in SUBSET Nat /\ t \in Nat /\ \A m \in P : m < t
            /\ Upto(ready, k) = P \union {t}
        BY <1>2, TurnFacts
      <4>2. IsFirstFitBatch(b, P)
        BY <3>0
      <4> HIDE DEF P, t, b
      <4>3. IsFirstFitBatch(Fitted(b, t), P \union {t})
        BY <4>1, <4>2, FirstFitGrows
      <4> QED
        BY <4>1, <4>3 DEF b, t
    <3>2. IsFirstFitBatch(fits[k], Upto(ready, k)) /\ IsFiniteSet(Upto(ready, k))
      BY <1>2, <3>0
    <3> QED
      BY <1>2, <3>1, <3>2, FirstFitIsUnique
  <2>3. \A k \in 0..c : k = 0 \/ k \in 1..c
    BY <1>1
  <2>4. \A k \in 0..c : fits[k] = IF k = 0 THEN {} ELSE Fitted(fits[k - 1], Turn(ready, k))
    <3> HIDE DEF fits
    <3> QED
      BY <2>1, <2>2, <2>3
  <2>5. fits = [k \in 0..c |-> fits[k]]
    OBVIOUS
  <2> HIDE DEF fits
  <2> QED
    BY <2>4, <2>5
<1>6. Goes(taken)
  <2> HIDE DEF Goes, fits
  <2> QED
    BY <1>5
<1>7. GreedyBatch(ready) = taken[c]
  BY DEF GreedyBatch, Fitted, Turn
<1> HIDE DEF taken, fits
<1> DEFINE D == {k \in 0..c : ~IsFirstFitBatch(taken[k], Upto(ready, k))}
<1>8. D = {}
  <2> SUFFICES ASSUME D # {} PROVE FALSE
    OBVIOUS
  <2>0. D \in SUBSET (0..c)
    OBVIOUS
  <2> HIDE DEF D
  <2>1. D \in SUBSET Nat /\ IsFiniteSet(D)
    <3> HIDE DEF c
    <3>1. IsFiniteSet(0..c) /\ 0..c \subseteq Nat
      BY <1>1, FS_Interval
    <3> QED
      BY <2>0, <3>1, FS_Subset
  <2>2. PICK i \in D : \A j \in D : i <= j
    BY <2>1, LeastExists
  <2>3. i \in 0..c /\ ~IsFirstFitBatch(taken[i], Upto(ready, i))
    BY <2>2 DEF D
  <2>4. taken[i] = IF i = 0 THEN {} ELSE Fitted(taken[i - 1], Turn(ready, i))
    BY <1>6, <2>3
  <2>5. CASE i = 0
    BY <1>2, <2>3, <2>4, <2>5 DEF IsFirstFitBatch
  <2>6. CASE i # 0
    <3>1. i \in 1..c /\ i - 1 \in 0..c /\ ~(i <= i - 1)
      BY <1>1, <2>3, <2>6
    <3>2. IsFirstFitBatch(taken[i - 1], Upto(ready, i - 1))
      BY <2>2, <3>1 DEF D
    <3>3. IsFirstFitBatch(Fitted(taken[i - 1], Turn(ready, i)), Upto(ready, i))
      BY <1>2, <3>1, <3>2, TurnFacts, FirstFitGrows
    <3> QED
      BY <2>3, <2>4, <2>6, <3>3
  <2> QED
    BY <2>5, <2>6
<1>9. c \in 0..c
  BY <1>1
<1> QED
  BY <1>2, <1>7, <1>8, <1>9

\* The relation the loop selects its batches by is the code's walk over the ready
\* nodes, for any nodes, write scopes and bound.
THEOREM SelectionIsGreedy == Spec => []FirstFitIsGreedy
<1>1. FirstFitIsGreedy
  <2> DEFINE r == ReadyNodes
  <2>1. r \in SUBSET Nat /\ IsFiniteSet(r)
    BY NodeAssumption, FS_Subset DEF ReadyNodes
  <2> HIDE DEF r
  <2>2. IsFirstFitBatch(GreedyBatch(r), r)
    BY <2>1, GreedyIsFirstFit
  <2>3. ASSUME NEW b, IsFirstFitBatch(b, r) PROVE b = GreedyBatch(r)
    BY <2>1, <2>2, <2>3, FirstFitIsUnique
  <2>4. GreedyBatch(r) \in SUBSET r
    BY <2>2 DEF IsFirstFitBatch
  <2>5. {b \in SUBSET r : IsFirstFitBatch(b, r)} = {GreedyBatch(r)}
    BY <2>2, <2>3, <2>4
  <2> QED
    BY <2>5 DEF FirstFitIsGreedy, r
<1> QED
  BY <1>1, PTL
=============================================================================
