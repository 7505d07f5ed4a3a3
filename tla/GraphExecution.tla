--------------------------- MODULE GraphExecution ---------------------------
(***************************************************************************)
(* A proposal from its compilation to the verdict on the root:             *)
(* graph_run_command of c4harness/cli/main.py and the service it calls     *)
(* (GraphExecutionService of application/run_graph.py), around the loop of *)
(* RunGraph.                                                               *)
(*   compile   the proposal is parsed, compiled and its workers assigned;  *)
(*             refused if a gate is not passed, before anything runs;      *)
(*   execute   RunGraph drives the graph; each node makes its attempts on  *)
(*             a thread of the pool and leaves a verification behind;      *)
(*   reported  the root verifier has judged what was left.                 *)
(* An attempt is one step here: NodeAttempts and NodeExecution have the    *)
(* steps it is made of.  RunGraph may also be given a graph that no        *)
(* proposal was compiled to; its runner is then unknown.                   *)
(***************************************************************************)
EXTENDS RunGraph, RootVerifier

CONSTANTS
  Proposals,    \* the proposals graph-run may be given
  NoProposal,   \* a graph that comes without one
  Histories,    \* what the execution history may hold: per worker, its outcomes
  Artifacts,    \* the paths a worker may cite as evidence
  MaxAttempts   \* the attempts at a node

ASSUME BudgetAssumption == MaxAttempts \in Nat \ {0}
ASSUME ProposalsAssumption ==
  /\ NoProposal \notin Proposals
  /\ \A p \in Proposals : p.nodes \in Seq(Members(p.nodes))
  /\ \A p \in Proposals : Compiles(p) => Ids(p.nodes) = Node
\* Weights are numbers, and what is counted is finite.
ASSUME WeightsAssumption ==
  /\ \A w \in DOMAIN Arm : Arm[w].preference \in Int
  /\ \A p \in Proposals : \A n \in Members(p.nodes) :
       /\ IsFiniteSet(DOMAIN n.soft)
       /\ \A w \in DOMAIN Arm : SoftMatch(n.soft, w) \in Int
ASSUME HistoriesAssumption ==
  \A h \in Histories : \A w \in DOMAIN Arm :
    /\ h[w] \in Seq(Members(h[w]))
    /\ \A o \in Members(h[w]) : IsFiniteSet(o.dimensions)

VARIABLES
  phase,       \* "compile", "execute", "reported" or "refused"
  proposal,
  settings,    \* whether private content may leave, whether a provider is configured
  candidates,  \* the plan's assignment records: per node, its candidates in order
  worker,      \* per node, the worker that has it
  attempt,     \* per node, the attempt under way
  node_verifications, \* per node, the verdict the report has: "none" if none
  node_evidence,      \* per node, the paths its worker cited
  root         \* the verdict on the root and the decisions it was given

resultVars == <<node_verifications, node_evidence>>
assignmentVars == <<candidates, worker, attempt>>
executionVars ==
  <<vars, phase, proposal, settings, assignmentVars, resultVars, root>>

Compiled == proposal # NoProposal

-----------------------------------------------------------------------------
(* Compilation *)

DeclaredEdges(p) == IF Compiles(p) THEN Edges(p) ELSE {}
DeclaredWrites(p) == IF Compiles(p) THEN Writes(p) ELSE [n \in Node |-> {}]

ExecutionInit ==
  /\ \/ proposal = NoProposal /\ phase = "execute"
     \/ /\ proposal \in Proposals
        /\ phase = "compile"
        /\ requires = DeclaredEdges(proposal)
        /\ writes = DeclaredWrites(proposal)
  /\ Init
  /\ settings \in IF Compiled THEN [external : BOOLEAN, provider : BOOLEAN]
                              ELSE {[external |-> TRUE, provider |-> TRUE]}
  /\ candidates = [n \in Node |-> << >>]
  /\ worker = [n \in Node |-> 0]
  /\ attempt = [n \in Node |-> 1]
  /\ node_verifications = [n \in Node |-> "none"]
  /\ node_evidence = [n \in Node |-> {}]
  /\ root = [confidence |-> "none", decisions |-> << >>]

PrimaryWorkers(ranking) == {Head(ranking[n]) : n \in Node}

\* _graph_execution_worker_ids: every candidate may become a fallback.
ExecutionWorkers(ranking) == PrimaryWorkers(ranking) \union UNION {Members(ranking[n]) : n \in Node}

\* The gates of graph_run_command between compilation and execution.
Permitted(ranking) ==
  LET backends(S) == {Arm[w].backend : w \in S} IN
  /\ backends(PrimaryWorkers(ranking)) \subseteq {"claude_cli", "codex_subagent"}
  /\ "claude_cli" \in backends(ExecutionWorkers(ranking)) => settings.external
  /\ "codex_subagent" \in backends(PrimaryWorkers(ranking)) => settings.provider

Compile ==
  /\ phase = "compile"
  /\ Compiles(proposal)
  /\ \E h \in Histories :
       /\ candidates' = Assignment(proposal, h)
       /\ dry_run \/ Permitted(candidates')
  /\ worker' = [n \in Node |-> Head(candidates'[n])]
  /\ phase' = "execute"
  /\ UNCHANGED <<vars, proposal, settings, attempt, resultVars, root>>

Refuse ==
  /\ phase = "compile"
  /\ \/ ~Compiles(proposal)
     \/ /\ Compiles(proposal) /\ ~dry_run
        /\ \E h \in Histories : ~Permitted(Assignment(proposal, h))
  /\ phase' = "refused"
  /\ UNCHANGED <<vars, proposal, settings, assignmentVars, resultVars, root>>

-----------------------------------------------------------------------------
(* Execution *)

Schedule ==
  /\ phase = "execute"
  /\ SelectBatch \/ BlockRest \/ Finish \/ \E n \in Node : MarkNext(n)
  /\ UNCHANGED <<phase, proposal, settings, assignmentVars, resultVars, root>>

\* A dry run, or a runner that is not the service's.
ReturnUnverified(n) ==
  /\ phase = "execute"
  /\ dry_run \/ ~Compiled
  /\ NodeSucceeds(n) \/ NodeFails(n)
  /\ UNCHANGED <<phase, proposal, settings, assignmentVars, resultVars, root>>

UnderWay(n) ==
  /\ phase = "execute"
  /\ Compiled /\ ~dry_run
  /\ pc = "run" /\ n \in batch

\* The report notes the verdict on an attempt and what its worker cited.
Note(n, verdict) ==
  /\ node_verifications' = [node_verifications EXCEPT ![n] = verdict]
  /\ \E cited \in SUBSET Artifacts : node_evidence' = [node_evidence EXCEPT ![n] = cited]

\* Variant: the node of a rejected attempt goes back to the scheduler.
TryAgainLater(n) ==
  /\ UnderWay(n)
  /\ attempt[n] < MaxAttempts
  /\ Note(n, "rejected")
  /\ attempt' = [attempt EXCEPT ![n] = @ + 1]
  /\ LeaveBatch(n)
  /\ state' = [state EXCEPT ![n] = "pending"]
  /\ UNCHANGED <<requires, writes, execution_order, phase, proposal, settings, candidates,
                 worker, root>>

\* A rejected attempt is followed by another one, with the fallback if there is one.
TryAgain(n) ==
  /\ UnderWay(n)
  /\ attempt[n] < MaxAttempts
  /\ Note(n, "rejected")
  /\ attempt' = [attempt EXCEPT ![n] = @ + 1]
  /\ LET fallback == FallbackCandidates(candidates[n], worker[n], settings.provider)
     IN worker' = IF fallback = << >> THEN worker
                  ELSE [worker EXCEPT ![n] = Head(fallback)]
  /\ UNCHANGED <<vars, phase, proposal, settings, candidates, root>>

\* The attempt is accepted, and its patch committed.  A node with a semantic check
\* never gets there.
Accept(n) ==
  /\ UnderWay(n)
  /\ ~Contract(proposal, n).semantic
  /\ NodeSucceeds(n)
  /\ Note(n, "accepted")
  /\ UNCHANGED <<phase, proposal, settings, assignmentVars, root>>

\* The last attempt is rejected.
Reject(n) ==
  /\ UnderWay(n)
  /\ NodeFails(n)
  /\ Note(n, "rejected")
  /\ UNCHANGED <<phase, proposal, settings, assignmentVars, root>>

\* The attempt raises before there is a verdict on it.
AttemptRaises(n) ==
  /\ UnderWay(n)
  /\ NodeFails(n)
  /\ UNCHANGED <<phase, proposal, settings, assignmentVars, resultVars, root>>

-----------------------------------------------------------------------------
(* The verdict on the root *)

SemanticCriteria(p) == {c.id : c \in {k \in Members(p.criteria) : k.check \notin DOMAIN Templates}}

\* graph-run passes no decisions; a caller of the service may.
Decisions(p) == UNION {[S -> BOOLEAN] : S \in SUBSET SemanticCriteria(p)}

Report ==
  /\ phase = "execute"
  /\ pc = "done"
  /\ phase' = "reported"
  /\ IF Compiled /\ ~dry_run
     THEN \E d \in Decisions(proposal) :
            root' = [confidence |-> RootConfidence(proposal,
                       [state |-> state, verification |-> node_verifications,
                        evidence |-> node_evidence, decisions |-> d]),
                     decisions |-> d]
     ELSE UNCHANGED root
  /\ UNCHANGED <<vars, proposal, settings, assignmentVars, resultVars>>

Over == phase \in {"reported", "refused"} /\ UNCHANGED executionVars

ExecutionNext ==
  \/ Compile \/ Refuse
  \/ Schedule
  \/ \E n \in Node : \/ ReturnUnverified(n) \/ TryAgain(n) \/ Accept(n)
                     \/ Reject(n) \/ AttemptRaises(n)
  \/ Report
  \/ Over

ExecutionSpec == ExecutionInit /\ [][ExecutionNext]_executionVars

\* The process goes on, and every attempt ends: workers run under a timeout.
FairExecutionSpec == ExecutionSpec /\ WF_executionVars(ExecutionNext)

-----------------------------------------------------------------------------
(* Properties *)

\* The loop inside is RunGraph's: what holds of its behaviours holds here, whatever
\* compilation, retries and the root verifier do.
ImplementsRunGraph == Spec

\* The root is accepted only if the graph was executed and every node of it ended
\* in success with an accepted verification that rests on a check or on evidence,
\* nothing required and no constraint was left out, a reviewer approved every
\* semantic criterion, and no path is claimed by two nodes.
AcceptedMeansDone ==
  root.confidence = "high" =>
    /\ ~dry_run /\ AllSucceeded
    /\ \A n \in Node :
         /\ node_verifications[n] = "accepted"
         /\ Contract(proposal, n).checks # {} \/ Contract(proposal, n).evidence
    /\ \A r \in Members(proposal.requirements) :
         r.required \/ r.kind = "constraint" => \E n \in Node : r.id \in Contract(proposal, n).refs
    /\ \A c \in SemanticCriteria(proposal) : c \in DOMAIN root.decisions /\ root.decisions[c]
    /\ \A m, n \in Node : m # n => node_evidence[m] \cap node_evidence[n] = {}

\* What the proposal itself leaves open although it compiles: a node that nothing
\* checks, an optional constraint or a criterion whose requirement no node has.
LeftOpen(p) ==
  \/ \E n \in Node : Contract(p, n).checks = {} /\ ~Contract(p, n).evidence
  \/ ~(OfKind(p, "constraint") \subseteq Referenced(p.nodes))
  \/ \E c \in Members(p.criteria) :
       c.id \notin SemanticCriteria(p) /\ ~(c.refs \subseteq Referenced(p.nodes))

\* The gates of the compiler are enough for the root verifier: a graph all of whose
\* nodes succeeded is turned down only because a reviewer did not approve, because
\* two nodes cite the same path, or for what the proposal left open.
SuccessIsAccepted ==
  phase = "reported" /\ Compiled /\ ~dry_run /\ AllSucceeded /\ root.confidence # "high" =>
    \/ \E c \in SemanticCriteria(proposal) : c \notin DOMAIN root.decisions \/ ~root.decisions[c]
    \/ \E m, n \in Node : m # n /\ node_evidence[m] \cap node_evidence[n] # {}
    \/ LeftOpen(proposal)

\* A graph that a proposal was compiled to never ends in the deadlock report.
CompiledNeverDeadlocks == phase = "reported" /\ Compiled => ~DeadlockDetected

\* A worker that is given a node, first or as a fallback, has what the node needs,
\* can be run, and may be sent the node's content: the gates look at the plan once,
\* the fallback is chosen long after.
WorkersArePermitted ==
  Compiled /\ ~dry_run /\ phase \in {"execute", "reported"} =>
    \A n \in Node :
      /\ worker[n] \in Eligible(NodeOf(proposal, n).needs)
      /\ Runnable(worker[n], settings.provider)
      /\ Arm[worker[n]].backend = "claude_cli" => settings.external

\* What the history says of a worker moves its score the right way, for every node
\* that is to be assigned.
EvidenceIsFair ==
  phase = "compile" =>
    \A n \in Members(proposal.nodes), h \in Histories : \A w \in DOMAIN Arm :
      ForgivesOthers(n.soft, w, h[w]) /\ LearnsFromEvidence(n.soft, w, h[w])

\* Every proposal comes to a refusal or a report.
Termination == <>(phase \in {"reported", "refused"})
=============================================================================
