------------------------------ MODULE RunGraph ------------------------------
(***************************************************************************)
(* The loop that drives the scheduler to the end of a graph (class         *)
(* RunGraph of c4harness/application/run_graph.py).                        *)
(*                                                                         *)
(* One thread runs the loop; it is at one of four places:                  *)
(*   select   at the head of the loop,                                     *)
(*   mark     marking the members of a batch as running, in id order,      *)
(*   run      waiting for the members: they run on a thread pool, so they  *)
(*            return in any order, and the loop resumes after the last;    *)
(*   done     after the loop.                                              *)
(* With MaxParallel = 1 this is the sequential branch, whose batch is the  *)
(* first ready node.  What the runner does with a node is left open here:  *)
(* it returns success, returns failure or raises (a failure as well);      *)
(* GraphExecution opens it up.                                             *)
(***************************************************************************)
EXTENDS GraphScheduler

VARIABLES
  pc,       \* where the loop is
  batch,    \* the selected nodes that have not returned yet
  dry_run   \* execute=False: the runner is never called

vars == <<requires, writes, state, execution_order, pc, batch, dry_run>>

Running == {n \in Node : state[n] = "running"}

Init ==
  /\ SchedulerInit
  /\ pc = "select"
  /\ batch = {}
  /\ dry_run \in BOOLEAN

-----------------------------------------------------------------------------
SelectBatch ==
  /\ pc = "select"
  /\ ~IsTerminal
  /\ ReadyNodes # {}
  /\ \E b \in SUBSET ReadyNodes :
       /\ IsFirstFitBatch(b, ReadyNodes)
       /\ batch' = b
  /\ pc' = "mark"
  /\ UNCHANGED <<schedulerVars, dry_run>>

MarkNext(n) ==
  /\ pc = "mark"
  /\ n \in batch \ Running
  /\ Before(batch \ Running, n) = {}
  /\ MarkRunning(n)
  /\ pc' = IF batch \ Running = {n} THEN "run" ELSE "mark"
  /\ UNCHANGED <<batch, dry_run>>

\* Variant: the loop goes on as soon as one member has returned.
LeaveEarly(n) ==
  /\ pc = "run"
  /\ n \in batch
  /\ batch' = {}
  /\ pc' = "select"
  /\ UNCHANGED dry_run

\* Variant: the loop waits for one result more than the batch has members.
LeaveLate(n) ==
  /\ pc = "run"
  /\ n \in batch
  /\ batch' = batch \ {n}
  /\ pc' = IF batch = {} THEN "select" ELSE "run"
  /\ UNCHANGED dry_run

\* The end of member n, whatever its result.
LeaveBatch(n) ==
  /\ pc = "run"
  /\ n \in batch
  /\ batch' = batch \ {n}
  /\ pc' = IF batch = {n} THEN "select" ELSE "run"
  /\ UNCHANGED dry_run

\* The runner returned success; in a dry run the loop itself marks the members
\* succeeded, in order.
NodeSucceeds(n) ==
  /\ dry_run => Before(batch, n) = {}
  /\ LeaveBatch(n)
  /\ MarkSucceeded(n)

\* The runner returned a failure or raised.
NodeFails(n) ==
  /\ ~dry_run
  /\ LeaveBatch(n)
  /\ MarkFailed(n)

\* No node is ready although the graph is not terminal.
BlockRest ==
  /\ pc = "select"
  /\ ~IsTerminal
  /\ ReadyNodes = {}
  /\ MarkRestBlocked
  /\ pc' = "done"
  /\ UNCHANGED <<batch, dry_run>>

Finish ==
  /\ pc = "select"
  /\ IsTerminal
  /\ pc' = "done"
  /\ UNCHANGED <<schedulerVars, batch, dry_run>>

\* The result has been returned.
Returned == pc = "done" /\ UNCHANGED vars

Next ==
  \/ SelectBatch
  \/ \E n \in Node : MarkNext(n) \/ NodeSucceeds(n) \/ NodeFails(n)
  \/ BlockRest
  \/ Finish
  \/ Returned

Spec == Init /\ [][Next]_vars

-----------------------------------------------------------------------------
(* Properties *)

\* Every variable has a value of its kind, and the batch the loop waits for is
\* the set of running nodes.
TypeOK ==
  /\ requires \in Graphs
  /\ writes \in WriteScopes
  /\ state \in [Node -> NodeState]
  /\ execution_order \in Seq(Node)
  /\ pc \in {"select", "mark", "run", "done"}
  /\ batch \in SUBSET Node
  /\ dry_run \in BOOLEAN
  /\ pc = "run" => batch = Running
  /\ pc \in {"select", "done"} => batch = {} /\ Running = {}

Started(n) == state[n] \in {"running", "succeeded", "failed"}

\* A node that was ever handed to a worker had all its required nodes
\* succeeded, and they still are: no interleaving of completions lets a
\* dependent start early, and no walk takes a success back.
StartedAfterSources ==
  \A n \in Node : Started(n) => \A m \in RequiresSources(n) : state[m] = "succeeded"

\* In an acyclic graph a node is blocked exactly when some node upstream of it
\* failed: propagation reaches every transitive dependent at once, and
\* independent branches are drained.
BlockedIffFailedUpstream ==
  AcyclicGraph(requires) => \A n \in Node :
    state[n] = "blocked" <=> \E f \in Node : state[f] = "failed" /\ n \in Downstream(f)

\* On an acyclic graph the loop never meets "no node ready, not terminal".
NeverStuck ==
  AcyclicGraph(requires) /\ pc = "select" /\ ~IsTerminal => ReadyNodes # {}

\* Nodes that run at the same time have disjoint write sets.
DisjointWriters ==
  \A m, n \in Node : m # n /\ {m, n} \subseteq Running => ~WritesOverlap(m, n)

\* The relation the loop selects its batch by has one solution, the one that
\* going through the ready nodes arrives at.
FirstFitIsGreedy ==
  pc = "select" =>
    {b \in SUBSET ReadyNodes : IsFirstFitBatch(b, ReadyNodes)} = {GreedyBatch(ReadyNodes)}

\* No more workers run at once than the caller allowed.
BoundedParallelism == Cardinality(Running) <= MaxParallel

\* execution_order lists each started node once, after everything it requires.
OrderIsTopological ==
  /\ \A n \in Node : Started(n) <=> \E i \in DOMAIN execution_order : execution_order[i] = n
  /\ \A i, j \in DOMAIN execution_order :
       /\ execution_order[i] = execution_order[j] => i = j
       /\ <<execution_order[i], execution_order[j]>> \in requires => i < j

\* What GraphResult reports at the end of an acyclic graph: it is terminal,
\* and it is a full success or has an explicit failure, never a "deadlock".
HonestResult ==
  AcyclicGraph(requires) /\ Node # {} /\ pc = "done" =>
    /\ IsTerminal
    /\ ~DeadlockDetected
    /\ AllSucceeded <=> ~HasFailures

\* A verdict is final: the state of a terminal node never changes again.
VerdictsAreFinal == [][\A n \in Node : state[n] \in Terminal => state'[n] = state[n]]_vars
=============================================================================
