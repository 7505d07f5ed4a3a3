------------------------ MODULE GraphExecutionProofs ------------------------
(***************************************************************************)
(* Proofs about GraphExecution, for every set of proposals, workers,       *)
(* histories and attempts: the execution of a compiled proposal is an      *)
(* execution of RunGraph, it never ends in the deadlock report, and the    *)
(* root verifier accepts what it should and nothing else.                  *)
(***************************************************************************)
EXTENDS GraphExecution, RunGraphProofs

-----------------------------------------------------------------------------
(* The loop inside is RunGraph *)

LEMMA StepImplementsRunGraph == [ExecutionNext]_executionVars => [Next]_vars
<1> SUFFICES ASSUME [ExecutionNext]_executionVars PROVE [Next]_vars
  OBVIOUS
<1>1. CASE Compile \/ Refuse \/ Report \/ Over \/ UNCHANGED executionVars
  BY <1>1 DEF Compile, Refuse, Report, Over, executionVars
<1>2. CASE Schedule
  BY <1>2 DEF Schedule, Next
<1>3. ASSUME NEW n \in Node, ReturnUnverified(n) PROVE Next
  BY <1>3 DEF ReturnUnverified, Next
<1>4. ASSUME NEW n \in Node, TryAgain(n) PROVE UNCHANGED vars
  BY <1>4 DEF TryAgain
<1>5. ASSUME NEW n \in Node, Accept(n) \/ Reject(n) \/ AttemptRaises(n)
      PROVE  Next
  BY <1>5 DEF Accept, Reject, AttemptRaises, Next
<1> QED
  BY <1>1, <1>2, <1>3, <1>4, <1>5 DEF ExecutionNext

\* Whatever compilation, retries, raising commits and the root verifier do, the
\* scheduler's loop makes only the steps of RunGraph: everything proved of RunGraph
\* holds of the execution of a proposal.
THEOREM ExecutionRunsTheGraph == ExecutionSpec => ImplementsRunGraph
<1>1. ExecutionInit => Init
  BY DEF ExecutionInit
<1> QED
  BY <1>1, StepImplementsRunGraph, PTL DEF ExecutionSpec, ImplementsRunGraph, Spec

-----------------------------------------------------------------------------
(* What a compiled proposal is *)

\* A proposal that compiles has one node of each id, and NodeOf finds it.
LEMMA NodeOfId ==
  ASSUME NEW p \in Proposals, Compiles(p), NEW n \in Members(p.nodes)
  PROVE  NodeOf(p, n.id) = n /\ n.id \in Node
<1>1. Distinct(p.nodes) /\ Ids(p.nodes) = Node
  BY ProposalsAssumption DEF Compiles, Parses
<1>2. \A m \in Members(p.nodes) : m.id = n.id => m = n
  BY <1>1 DEF Distinct, Members
<1> QED
  BY <1>1, <1>2 DEF NodeOf, Ids

LEMMA NodeOfNode ==
  ASSUME NEW p \in Proposals, Compiles(p), NEW id \in Node
  PROVE  NodeOf(p, id) \in Members(p.nodes) /\ NodeOf(p, id).id = id
<1>1. PICK n \in Members(p.nodes) : n.id = id
  BY ProposalsAssumption DEF Ids
<1> QED
  BY <1>1, NodeOfId

LEMMA CompiledHasNodes ==
  ASSUME NEW p \in Proposals, Compiles(p)
  PROVE  Node # {}
<1>1. p.nodes # << >> /\ p.nodes \in Seq(Members(p.nodes))
  BY ProposalsAssumption DEF Compiles
<1>2. 1 \in DOMAIN p.nodes
  BY <1>1
<1>3. Ids(p.nodes) # {}
  BY <1>2 DEF Ids, Members
<1> QED
  BY <1>3, ProposalsAssumption

\* The gate of the compiler is the acyclicity the scheduler relies on.
LEMMA CompiledIsAcyclic ==
  ASSUME NEW p \in Proposals, Compiles(p)
  PROVE  AcyclicGraph(Edges(p))
<1>1. SUFFICES ASSUME NEW S \in SUBSET Node, S # {}
               PROVE  \E m \in S : \A k \in S : <<k, m>> \notin Edges(p)
  BY DEF AcyclicGraph
<1>2. PICK m \in S : NodeOf(p, m).deps \cap S = {}
  <2>1. Ids(p.nodes) = Node
    BY ProposalsAssumption
  <2>2. GraphIsAcyclic(p)
    BY DEF Compiles
  <2> QED
    BY <1>1, <2>1, <2>2 DEF GraphIsAcyclic
<1>3. ASSUME NEW k \in S, <<k, m>> \in Edges(p) PROVE FALSE
  <2>1. PICK n \in Members(p.nodes) : <<k, m>> \in n.deps \X {n.id}
    BY <1>3 DEF Edges
  <2>2. k \in n.deps /\ n.id = m
    BY <2>1
  <2>3. NodeOf(p, m) = n
    BY <2>2, NodeOfId
  <2> QED
    BY <1>2, <2>2, <2>3
<1> QED
  BY <1>3

-----------------------------------------------------------------------------
(* No deadlock *)

\* The graph that is executed is the one that was compiled, and a report comes
\* after the end of the loop.
GraphInv ==
  /\ proposal \in Proposals \union {NoProposal}
  /\ Compiled => requires = DeclaredEdges(proposal)
  /\ Compiled /\ phase \in {"execute", "reported"} => Compiles(proposal)
  /\ phase = "reported" => pc = "done"

LEMMA StepGraph ==
  ASSUME GraphInv, [ExecutionNext]_executionVars
  PROVE  GraphInv'
<1>1. UNCHANGED requires
  BY StepImplementsRunGraph, GraphIsFixed
<1>2. UNCHANGED proposal
  BY DEF ExecutionNext, executionVars, Compile, Refuse, Schedule, ReturnUnverified, TryAgain,
         Accept, Reject, AttemptRaises, Report, Over
<1>3. DeclaredEdges(proposal)' = DeclaredEdges(proposal) /\ Compiled' = Compiled
  BY <1>2 DEF DeclaredEdges, Compiled
<1>4. Compiles(proposal)' = Compiles(proposal)
  BY <1>2
<1>5. phase' \in {"execute", "reported"} =>
        phase \in {"execute", "reported"} \/ Compiles(proposal)
  BY DEF ExecutionNext, executionVars, Compile, Refuse, Schedule, ReturnUnverified, TryAgain,
         Accept, Reject, AttemptRaises, Report, Over
<1>6. phase' = "reported" => pc' = "done"
  BY DEF GraphInv, ExecutionNext, executionVars, vars, Compile, Refuse, Schedule,
         ReturnUnverified, TryAgain, Accept, Reject, AttemptRaises, Report, Over, UnderWay
<1> QED
  BY <1>1, <1>2, <1>3, <1>4, <1>5, <1>6 DEF GraphInv

LEMMA InitGraph == ExecutionInit => GraphInv
BY DEF ExecutionInit, GraphInv, Compiled

LEMMA GraphInvariant == ExecutionSpec => []GraphInv
BY InitGraph, StepGraph, PTL DEF ExecutionSpec

\* A graph that was compiled from a proposal never ends in the deadlock report,
\* whatever its nodes do: what the compiler checks is what the loop needs.
THEOREM CompiledGraphsEnd == ExecutionSpec => []CompiledNeverDeadlocks
<1>1. GraphInv /\ HonestResult => CompiledNeverDeadlocks
  <2> SUFFICES ASSUME GraphInv, HonestResult, phase = "reported", Compiled
               PROVE  ~DeadlockDetected
    BY DEF CompiledNeverDeadlocks
  <2>1. Compiles(proposal) /\ proposal \in Proposals /\ pc = "done" /\ requires = Edges(proposal)
    BY DEF GraphInv, Compiled, DeclaredEdges
  <2>2. AcyclicGraph(requires) /\ Node # {}
    BY <2>1, CompiledIsAcyclic, CompiledHasNodes
  <2> QED
    BY <2>1, <2>2 DEF HonestResult
<1>2. ImplementsRunGraph => []HonestResult
  BY ResultIsHonest DEF ImplementsRunGraph
<1> QED
  BY <1>1, <1>2, ExecutionRunsTheGraph, GraphInvariant, PTL

-----------------------------------------------------------------------------
(* The verdict on the root *)

\* The results of the nodes are well typed.
ResultTyping ==
  /\ node_verifications \in [Node -> {"none", "accepted", "rejected"}]
  /\ node_evidence \in [Node -> SUBSET Artifacts]

LEMMA StepTyping ==
  ASSUME ResultTyping, [ExecutionNext]_executionVars
  PROVE  ResultTyping'
<1>1. CASE UNCHANGED resultVars
  BY <1>1 DEF resultVars, ResultTyping
<1>2. ASSUME NEW n \in Node, NEW v \in {"accepted", "rejected"}, Note(n, v)
      PROVE  ResultTyping'
  BY <1>2 DEF Note, ResultTyping
<1> QED
  BY <1>1, <1>2 DEF ExecutionNext, executionVars, resultVars, Compile, Refuse, Schedule, ReturnUnverified,
       TryAgain, Accept, Reject, AttemptRaises, Report, Over

\* Only the success of a node makes it succeed.
NoNewSuccess == \A k \in Node : state'[k] = "succeeded" => state[k] = "succeeded"

LEMMA OthersMakeNoSuccess ==
  /\ Schedule => NoNewSuccess
  /\ TypeInv => \A n \in Node : NodeFails(n) => NoNewSuccess
<1>1. ASSUME SelectBatch \/ BlockRest \/ Finish PROVE NoNewSuccess
  BY <1>1 DEF SelectBatch, BlockRest, Finish, schedulerVars, MarkRestBlocked, NoNewSuccess
<1>2. ASSUME NEW n \in Node, MarkNext(n) PROVE NoNewSuccess
  BY <1>2 DEF MarkNext, MarkRunning, NoNewSuccess
<1>3. ASSUME TypeInv, NEW n \in Node, NodeFails(n) PROVE NoNewSuccess
  BY <1>3 DEF TypeInv, TypeOK, NodeFails, MarkFailed, PropagateBlocked, NoNewSuccess
<1> QED
  BY <1>1, <1>2, <1>3 DEF Schedule

\* The first conjunct of RootInv.
SuccessesAreAccepted ==
  Compiled /\ ~dry_run => \A n \in Node :
    state[n] = "succeeded" =>
      node_verifications[n] = "accepted" /\ ~Contract(proposal, n).semantic

LEMMA StepSuccesses ==
  ASSUME TypeInv, ResultTyping, SuccessesAreAccepted, [ExecutionNext]_executionVars
  PROVE  SuccessesAreAccepted'
<1> USE DEF TypeInv
<1>1. UNCHANGED <<proposal, dry_run>>
  BY DEF ExecutionNext, executionVars, vars, Compile, Refuse, Schedule, ReturnUnverified, TryAgain,
         Accept, Reject, AttemptRaises, Report, Over, SelectBatch, BlockRest, Finish,
         MarkNext, NodeSucceeds, NodeFails, LeaveBatch
<1>2. SUFFICES ASSUME Compiled, ~dry_run, NEW k \in Node, state'[k] = "succeeded"
               PROVE  node_verifications'[k] = "accepted" /\ ~Contract(proposal, k).semantic
  BY <1>1 DEF SuccessesAreAccepted, Compiled
<1>3. CASE NoNewSuccess /\ UNCHANGED node_verifications
  BY <1>2, <1>3 DEF NoNewSuccess, SuccessesAreAccepted
<1>4. ASSUME NEW n \in Node, NEW v \in {"accepted", "rejected"},
             UnderWay(n), NoNewSuccess, Note(n, v)
      PROVE  node_verifications'[k] = "accepted" /\ ~Contract(proposal, k).semantic
  <2>1. state[n] = "running" /\ state[k] = "succeeded"
    BY <1>2, <1>4 DEF UnderWay, TypeOK, Running, NoNewSuccess
  <2> QED
    BY <1>2, <1>4, <2>1 DEF Note, ResultTyping, SuccessesAreAccepted
<1>5. ASSUME NEW n \in Node, Accept(n)
      PROVE  node_verifications'[k] = "accepted" /\ ~Contract(proposal, k).semantic
  <2>1. k = n \/ state[k] = "succeeded"
    BY <1>2, <1>5 DEF Accept, NodeSucceeds, MarkSucceeded, TypeOK
  <2> QED
    BY <1>2, <1>5, <2>1 DEF Accept, Note, ResultTyping, SuccessesAreAccepted
<1>6. CASE Compile \/ Refuse \/ Report \/ Over \/ UNCHANGED executionVars
  BY <1>3, <1>6 DEF Compile, Refuse, Report, Over, executionVars, vars, resultVars, NoNewSuccess
<1>7. CASE Schedule
  BY <1>3, <1>7, OthersMakeNoSuccess DEF Schedule, resultVars
<1>8. ASSUME NEW n \in Node, TryAgain(n)
      PROVE  node_verifications'[k] = "accepted" /\ ~Contract(proposal, k).semantic
  BY <1>4, <1>8 DEF TryAgain, vars, NoNewSuccess
<1>9. ASSUME NEW n \in Node, Reject(n)
      PROVE  node_verifications'[k] = "accepted" /\ ~Contract(proposal, k).semantic
  BY <1>4, <1>9, OthersMakeNoSuccess DEF Reject
<1>10. ASSUME NEW n \in Node, AttemptRaises(n)
       PROVE  node_verifications'[k] = "accepted" /\ ~Contract(proposal, k).semantic
  BY <1>3, <1>10, OthersMakeNoSuccess DEF AttemptRaises, resultVars
<1>11. ~\E n \in Node : ReturnUnverified(n)
  BY <1>2 DEF ReturnUnverified
<1> QED
  BY <1>5, <1>6, <1>7, <1>8, <1>9, <1>10, <1>11 DEF ExecutionNext

\* The root is judged once, at the end, by what the execution left behind.
LeftBehind ==
  [state |-> state, verification |-> node_verifications,
   evidence |-> node_evidence, decisions |-> root.decisions]

RootIsJudged ==
  /\ phase = "reported" /\ Compiled /\ ~dry_run =>
       root.confidence = RootConfidence(proposal, LeftBehind)
  /\ root.confidence # "none" => phase = "reported" /\ Compiled /\ ~dry_run

LEMMA StepRoot ==
  ASSUME RootIsJudged, [ExecutionNext]_executionVars
  PROVE  RootIsJudged'
<1>1. CASE Over \/ UNCHANGED executionVars
  BY <1>1 DEF Over, executionVars, vars, resultVars, RootIsJudged, LeftBehind, Compiled
<1>2. CASE Report
  <2>1. UNCHANGED <<state, node_verifications, node_evidence, proposal, dry_run>> /\ Compiled' = Compiled
    BY <1>2 DEF Report, vars, resultVars, Compiled
  <2>2. CASE Compiled /\ ~dry_run
    <3>1. PICK d \in Decisions(proposal) :
            root' = [confidence |-> RootConfidence(proposal,
                       [state |-> state, verification |-> node_verifications,
                        evidence |-> node_evidence, decisions |-> d]),
                     decisions |-> d]
      BY <1>2, <2>2 DEF Report
    <3>2. /\ root'.decisions = d
          /\ root'.confidence = RootConfidence(proposal,
                       [state |-> state, verification |-> node_verifications,
                        evidence |-> node_evidence, decisions |-> d])
      BY <3>1, Zenon
    <3>3. LeftBehind' = [state |-> state, verification |-> node_verifications,
                         evidence |-> node_evidence, decisions |-> d]
      BY <2>1, <3>2 DEF LeftBehind
    <3>4. RootConfidence(proposal, LeftBehind)' = RootConfidence(proposal', LeftBehind')
      OBVIOUS
    <3>5. root'.confidence = RootConfidence(proposal', LeftBehind')
      BY <2>1, <3>2, <3>3
    <3> QED
      BY <1>2, <2>1, <2>2, <3>4, <3>5 DEF Report, RootIsJudged
  <2>3. CASE ~(Compiled /\ ~dry_run)
    BY <1>2, <2>1, <2>3 DEF Report, RootIsJudged
  <2> QED
    BY <2>2, <2>3
<1>3. CASE /\ phase \in {"compile", "execute"} /\ phase' \in {"execute", "refused"}
           /\ UNCHANGED root
  BY <1>3 DEF RootIsJudged
<1> QED
  BY <1>1, <1>2, <1>3 DEF ExecutionNext, Compile, Refuse, Schedule, ReturnUnverified, TryAgain,
         Accept, Reject, AttemptRaises, UnderWay

RootInv == ResultTyping /\ SuccessesAreAccepted /\ RootIsJudged

LEMMA RootInvariant == ExecutionSpec => [](GraphInv /\ RootInv)
<1>1. ExecutionInit => RootInv
  BY DEF ExecutionInit, Init, SchedulerInit, RootInv, ResultTyping, SuccessesAreAccepted, RootIsJudged
<1>2. TypeInv /\ RootInv /\ [ExecutionNext]_executionVars => RootInv'
  BY StepTyping, StepSuccesses, StepRoot DEF RootInv
<1>3. ImplementsRunGraph => []TypeInv
  BY TypeInvariant DEF ImplementsRunGraph
<1> QED
  BY <1>1, <1>2, <1>3, ExecutionRunsTheGraph, GraphInvariant, PTL DEF ExecutionSpec

\* The verdict is "high" exactly if none of the checks found anything.
LEMMA HighMeansClean ==
  ASSUME NEW p, NEW r
  PROVE  RootConfidence(p, r) = "high" <=>
           /\ GraphIsHealthy(r)
           /\ ~HasIssues(p, r)
           /\ "inconclusive" \notin CriterionStatuses(p, r)
           /\ SelfReportClaims(p, r) = {}
BY DEF RootConfidence

\* Once every node succeeded, the nodes the root verifier counts are all of them.
LEMMA AllAccepted ==
  ASSUME RootInv, Compiled, ~dry_run, \A n \in Node : state[n] = "succeeded", TypeOK
  PROVE  /\ GraphIsHealthy(LeftBehind)
         /\ MissingVerifications(LeftBehind) = {}
         /\ AcceptedNodes(LeftBehind) = Node
<1>1. /\ DOMAIN LeftBehind.state = Node
      /\ \A n \in Node : LeftBehind.state[n] = "succeeded"
                        /\ LeftBehind.verification[n] = "accepted"
  BY DEF TypeOK, LeftBehind, RootInv, SuccessesAreAccepted
<1> QED
  BY <1>1 DEF GraphIsHealthy, MissingVerifications, AcceptedNodes

\* A healthy graph whose nodes have all ended is one whose nodes all succeeded.
LEMMA HealthyMeansSucceeded ==
  ASSUME TypeOK, IsTerminal, GraphIsHealthy(LeftBehind)
  PROVE  \A n \in Node : state[n] = "succeeded"
<1>1. LeftBehind.state = state /\ DOMAIN state = Node
  BY DEF LeftBehind, TypeOK
<1>2. {state[n] : n \in Node} \subseteq {"succeeded", "failed", "blocked"}
  BY DEF IsTerminal, Terminal
<1> QED
  BY <1>1, <1>2 DEF GraphIsHealthy

\* What the proposal's nodes have together is what the contracts of all nodes have.
LEMMA CoverageIsReference ==
  ASSUME NEW p \in Proposals, Compiles(p), NEW r, AcceptedNodes(r) = Node
  PROVE  CoveredRequirements(p, r) = Referenced(p.nodes)
<1>1. ASSUME NEW n \in Members(p.nodes)
      PROVE  n.id \in Node /\ Contract(p, n.id).refs = n.refs
  BY NodeOfId DEF Contract
<1>2. ASSUME NEW id \in Node
      PROVE  \E n \in Members(p.nodes) : Contract(p, id).refs = n.refs
  BY NodeOfNode DEF Contract
<1> QED
  BY <1>1, <1>2 DEF CoveredRequirements, Referenced

LEMMA EndInvariant == ExecutionSpec => [](TypeOK /\ EndIsTerminal)
<1>1. Spec => [](TypeInv /\ EndIsTerminal)
  <2>1. Init => EndIsTerminal
    BY DEF Init, EndIsTerminal
  <2> QED
    BY <2>1, InitType, StepType, StepEnd, PTL DEF Spec
<1>2. TypeInv => TypeOK
  BY DEF TypeInv
<1> QED
  BY <1>1, <1>2, ExecutionRunsTheGraph, PTL DEF ImplementsRunGraph

\* The root is accepted only if the graph was executed, every node of it succeeded
\* and was accepted on a check or on evidence, no requirement or constraint is left
\* out, every semantic criterion was approved, and no path is claimed twice.
THEOREM AcceptanceIsEarned == ExecutionSpec => []AcceptedMeansDone
<1>1. TypeOK /\ EndIsTerminal /\ GraphInv /\ RootInv => AcceptedMeansDone
  <2> SUFFICES ASSUME TypeOK, EndIsTerminal, GraphInv, RootInv, root.confidence = "high"
               PROVE  AcceptedMeansDone
    BY DEF AcceptedMeansDone
  <2> DEFINE r == LeftBehind
  <2>1. /\ phase = "reported" /\ Compiled /\ ~dry_run /\ pc = "done"
        /\ RootConfidence(proposal, r) = "high"
        /\ proposal \in Proposals /\ Compiles(proposal)
    BY DEF RootInv, RootIsJudged, GraphInv, Compiled
  <2>2. /\ GraphIsHealthy(r) /\ ~HasIssues(proposal, r)
        /\ "inconclusive" \notin CriterionStatuses(proposal, r)
        /\ SelfReportClaims(proposal, r) = {}
    BY <2>1, HighMeansClean
  <2>3. \A n \in Node : state[n] = "succeeded"
    BY <2>1, <2>2, HealthyMeansSucceeded DEF EndIsTerminal
  <2>4. AcceptedNodes(r) = Node
    BY <2>1, <2>3, AllAccepted
  <2>5. /\ r.evidence = node_evidence /\ r.decisions = root.decisions
        /\ \A n \in Node : node_verifications[n] = "accepted"
    BY <2>1, <2>3 DEF LeftBehind, RootInv, SuccessesAreAccepted
  <2> HIDE DEF r
  <2>6. AllSucceeded
    BY <2>1, <2>3, CompiledHasNodes DEF AllSucceeded
  <2>7. \A n \in Node : Contract(proposal, n).checks # {} \/ Contract(proposal, n).evidence
    BY <2>2, <2>4 DEF SelfReportClaims
  <2>8. ASSUME NEW q \in Members(proposal.requirements), q.required \/ q.kind = "constraint"
        PROVE  \E n \in Node : q.id \in Contract(proposal, n).refs
    <3>1. q.id \in RequiredIds(proposal) \union OfKind(proposal, "constraint")
      BY <2>8 DEF RequiredIds, OfKind
    <3>2. q.id \in CoveredRequirements(proposal, r)
      BY <2>2, <3>1 DEF HasIssues
    <3> QED
      BY <2>4, <3>2 DEF CoveredRequirements
  <2>9. ASSUME NEW c \in SemanticCriteria(proposal)
        PROVE  c \in DOMAIN root.decisions /\ root.decisions[c]
    <3>1. PICK k \in Members(proposal.criteria) : k.id = c /\ k.check \notin DOMAIN Templates
      BY DEF SemanticCriteria
    <3>2. CriterionStatus(proposal, r, k) \in CriterionStatuses(proposal, r)
      BY DEF CriterionStatuses
    <3>3. CriterionStatus(proposal, r, k) \notin {"inconclusive", "uncovered"}
      BY <2>2, <3>2 DEF HasIssues
    <3> QED
      BY <2>5, <3>1, <3>3 DEF CriterionStatus
  <2>10. ASSUME NEW m \in Node, NEW n \in Node, m # n
         PROVE  node_evidence[m] \cap node_evidence[n] = {}
    <3>1. ArtifactConflicts(r) = {}
      BY <2>2 DEF HasIssues
    <3> QED
      BY <2>4, <2>5, <2>10, <3>1 DEF ArtifactConflicts
  <2> QED
    BY <2>1, <2>5, <2>6, <2>7, <2>8, <2>9, <2>10 DEF AcceptedMeansDone
<1> QED
  BY <1>1, EndInvariant, RootInvariant, PTL

\* A proposal that passed the gates of the compiler and all of whose nodes succeeded
\* is accepted, unless a reviewer, a path cited twice or what the proposal itself
\* leaves open stands against it: no two gates contradict each other.
THEOREM CompiledSuccessIsAccepted == ExecutionSpec => []SuccessIsAccepted
<1>1. TypeOK /\ GraphInv /\ RootInv => SuccessIsAccepted
  <2> SUFFICES ASSUME TypeOK, GraphInv, RootInv,
                      phase = "reported", Compiled, ~dry_run, AllSucceeded,
                      \A c \in SemanticCriteria(proposal) :
                        c \in DOMAIN root.decisions /\ root.decisions[c],
                      \A m, n \in Node : m # n => node_evidence[m] \cap node_evidence[n] = {},
                      ~LeftOpen(proposal)
               PROVE  root.confidence = "high"
    BY DEF SuccessIsAccepted
  <2> DEFINE r == LeftBehind
             p == proposal
  <2>1. /\ root.confidence = RootConfidence(p, r)
        /\ p \in Proposals /\ Compiles(p)
    BY DEF RootInv, RootIsJudged, GraphInv, Compiled
  <2>2. /\ GraphIsHealthy(r)
        /\ MissingVerifications(r) = {}
        /\ AcceptedNodes(r) = Node
    BY AllAccepted DEF AllSucceeded
  <2>3. CoveredRequirements(p, r) = Referenced(p.nodes)
    BY <2>1, <2>2, CoverageIsReference
  <2>4. r.evidence = node_evidence /\ r.decisions = root.decisions
    BY DEF LeftBehind
  <2>5. RequiredIds(p) \union OfKind(p, "constraint") \subseteq CoveredRequirements(p, r)
    BY <2>1, <2>3 DEF Compiles, RequirementsAreCovered, LeftOpen
  <2>6. ASSUME NEW c \in Members(p.criteria)
        PROVE  CriterionStatus(p, r, c) = "covered"
    <3>1. CASE c.check \notin DOMAIN Templates
      <4>1. c.id \in SemanticCriteria(p)
        BY <3>1 DEF SemanticCriteria
      <4>2. c.id \in DOMAIN r.decisions /\ r.decisions[c.id]
        BY <2>4, <4>1
      <4> HIDE DEF r
      <4> QED
        BY <3>1, <4>2 DEF CriterionStatus
    <3>2. CASE c.check \in DOMAIN Templates
      <4>1. Distinct(p.criteria)
        BY <2>1 DEF Compiles, Parses
      <4>2. c.id \notin SemanticCriteria(p)
        BY <3>2, <4>1 DEF Distinct, Members, SemanticCriteria
      <4>3. c.refs \subseteq CoveredRequirements(p, r)
        BY <2>3, <4>2 DEF LeftOpen
      <4>4. AcceptedNodes(r) # {}
        BY <2>2 DEF AllSucceeded
      <4> HIDE DEF r
      <4> QED
        BY <3>2, <4>3, <4>4 DEF CriterionStatus
    <3> QED
      BY <3>1, <3>2
  <2>7. CriterionStatuses(p, r) \subseteq {"covered"}
    BY <2>6 DEF CriterionStatuses
  <2>8. ArtifactConflicts(r) = {}
    BY <2>2, <2>4 DEF ArtifactConflicts
  <2>9. SelfReportClaims(p, r) = {}
    BY <2>2 DEF SelfReportClaims, LeftOpen
  <2> HIDE DEF r
  <2> QED
    BY <2>1, <2>2, <2>5, <2>7, <2>8, <2>9, HighMeansClean DEF HasIssues
<1> QED
  BY <1>1, EndInvariant, RootInvariant, PTL

-----------------------------------------------------------------------------
(* Fractions                                                                 *)

Fraction == [num : Int, den : Nat \ {0}]

LEMMA FactorKept ==
  ASSUME NEW a \in Int, NEW b \in Int, NEW c \in Nat, a >= b
  PROVE  a * c >= b * c
OBVIOUS

LEMMA FactorDropped ==
  ASSUME NEW a \in Int, NEW b \in Int, NEW c \in Nat \ {0}, a * c >= b * c
  PROVE  a >= b
OBVIOUS

LEMMA AtLeastIsTotal ==
  ASSUME NEW x \in Fraction, NEW y \in Fraction
  PROVE  AtLeast(x, y) \/ AtLeast(y, x)
<1>1. x.num * y.den \in Int /\ y.num * x.den \in Int
  BY DEF Fraction
<1> QED
  BY <1>1 DEF AtLeast

LEMMA AtLeastIsTransitive ==
  ASSUME NEW x \in Fraction, NEW y \in Fraction, NEW z \in Fraction,
         AtLeast(x, y), AtLeast(y, z)
  PROVE  AtLeast(x, z)
<1> DEFINE a == x.num  b == x.den  c == y.num  d == y.den  e == z.num  f == z.den
<1>1. a \in Int /\ b \in Nat \ {0} /\ c \in Int /\ d \in Nat \ {0} /\ e \in Int /\ f \in Nat \ {0}
  BY DEF Fraction
<1>2. a * d >= c * b /\ c * f >= e * d
  BY DEF AtLeast
<1> HIDE DEF a, b, c, d, e, f
<1>3. (a * d) * f >= (c * b) * f
  BY <1>1, <1>2, FactorKept
<1>4. (c * f) * b >= (e * d) * b
  BY <1>1, <1>2, FactorKept
<1>5. (c * b) * f = (c * f) * b /\ (a * d) * f = (a * f) * d /\ (e * d) * b = (e * b) * d
  BY <1>1
<1>6. (a * f) * d >= (e * b) * d
  <2>1. (a * d) * f \in Int /\ (c * b) * f \in Int /\ (e * d) * b \in Int
    BY <1>1
  <2> QED
    BY <1>3, <1>4, <1>5, <2>1
<1>7. a * f >= e * b
  BY <1>1, <1>6, FactorDropped
<1> QED
  BY <1>7 DEF AtLeast, a, b, e, f

\* How a score of m, a share of a in b and a certainty of c compares with one of
\* the same m, a share of i in j and a certainty of k.
Worth(m, a, b, c) == [num |-> m * (b * c) + 20 * (a * c) - 10 * b, den |-> b * c]

LEMMA WorthCompared ==
  ASSUME NEW m \in Int, NEW a \in Nat, NEW b \in Nat \ {0}, NEW c \in Nat \ {0},
         NEW i \in Nat, NEW j \in Nat \ {0}, NEW k \in Nat \ {0},
         20 * ((a * j) * (c * k)) + 10 * ((b * j) * c) >= 20 * ((i * b) * (c * k)) + 10 * ((b * j) * k)
  PROVE  AtLeast(Worth(m, a, b, c), Worth(m, i, j, k))
<1>1. (m * (b * c) + 20 * (a * c) - 10 * b) * (j * k)
        = m * ((b * c) * (j * k)) + 20 * ((a * j) * (c * k)) - 10 * ((b * j) * k)
  OBVIOUS
<1>2. (m * (j * k) + 20 * (i * k) - 10 * j) * (b * c)
        = m * ((b * c) * (j * k)) + 20 * ((i * b) * (c * k)) - 10 * ((b * j) * c)
  OBVIOUS
<1>3. /\ m * ((b * c) * (j * k)) \in Int
      /\ (a * j) * (c * k) \in Int /\ (b * j) * k \in Int
      /\ (i * b) * (c * k) \in Int /\ (b * j) * c \in Int
  OBVIOUS
<1>4. (m * (b * c) + 20 * (a * c) - 10 * b) * (j * k)
        >= (m * (j * k) + 20 * (i * k) - 10 * j) * (b * c)
  BY <1>1, <1>2, <1>3
<1> QED
  BY <1>4 DEF Worth, AtLeast

-----------------------------------------------------------------------------
(* The evidence                                                              *)

\* A history: a list of outcomes, each with finitely many dimensions.
History(outcomes) ==
  /\ outcomes \in Seq(Members(outcomes))
  /\ \A o \in Members(outcomes) : IsFiniteSet(o.dimensions)

LEMMA EvidenceMembers ==
  ASSUME NEW soft, NEW outcomes, NEW b, NEW e
  PROVE  e \in Evidence(soft, outcomes, b)
           <=> \E i \in DOMAIN outcomes : \E d \in Dimensions(outcomes[i]) :
                 /\ e = <<i, d>>
                 /\ DOMAIN soft # {} => d \in DOMAIN soft
                 /\ Bucket(outcomes[i]) = b
<1>1. e \in UNION {{i} \X Dimensions(outcomes[i]) : i \in DOMAIN outcomes}
        <=> \E i \in DOMAIN outcomes : \E d \in Dimensions(outcomes[i]) : e = <<i, d>>
  OBVIOUS
<1> QED
  BY <1>1 DEF Evidence

LEMMA FiniteDimensions ==
  ASSUME NEW o, IsFiniteSet(o.dimensions)
  PROVE  IsFiniteSet(Dimensions(o))
BY FS_Singleton DEF Dimensions

LEMMA FiniteEvidence ==
  ASSUME NEW soft, NEW outcomes, History(outcomes), NEW b
  PROVE  IsFiniteSet(Evidence(soft, outcomes, b)) /\ Count(soft, outcomes, b) \in Nat
<1> DEFINE D == DOMAIN outcomes
           at(i) == {i} \X Dimensions(outcomes[i])
           f == [i \in D |-> at(i)]
           T == {at(i) : i \in D}
<1>1. IsFiniteSet(D)
  <2>1. Len(outcomes) \in Nat /\ D = 1..Len(outcomes)
    BY DEF History
  <2> QED
    BY <2>1, FS_Interval
<1>2. f \in Surjection(D, T)
  BY DEF Surjection
<1>3. IsFiniteSet(T)
  <2> HIDE DEF f, T, D
  <2> QED
    BY <1>1, <1>2, FS_Surjection
<1>4. \A i \in D : IsFiniteSet(at(i))
  <2> SUFFICES ASSUME NEW i \in D PROVE IsFiniteSet(at(i))
    OBVIOUS
  <2>1. IsFiniteSet(Dimensions(outcomes[i]))
    BY FiniteDimensions DEF History, Members
  <2>2. IsFiniteSet({i})
    BY FS_Singleton
  <2> QED
    BY <2>1, <2>2, FS_Product
<1>5. IsFiniteSet(UNION T)
  <2>1. \A S \in T : IsFiniteSet(S)
    BY <1>4
  <2> HIDE DEF T
  <2> QED
    BY <1>3, <2>1, FS_UNION
<1>6. Evidence(soft, outcomes, b) \subseteq UNION T
  BY DEF Evidence
<1> HIDE DEF T
<1> QED
  BY <1>5, <1>6, FS_Subset, FS_CardinalityType DEF Count

\* Outcomes that count for nothing add nothing to successes and failures.
LEMMA ExcludedCountForNothing ==
  ASSUME NEW soft, NEW outcomes, History(outcomes), NEW b \in {"success", "failure"}
  PROVE  Count(soft, At(outcomes, {i \in DOMAIN outcomes : outcomes[i].attribution \notin Excluded}), b)
           = Count(soft, outcomes, b)
<1> DEFINE P == {i \in DOMAIN outcomes : outcomes[i].attribution \notin Excluded}
           kept == At(outcomes, P)
           E == Evidence(soft, kept, b)
           F == Evidence(soft, outcomes, b)
<1>1. P \in SUBSET Nat /\ IsFiniteSet(P)
  <2>1. Len(outcomes) \in Nat /\ DOMAIN outcomes = 1..Len(outcomes)
    BY DEF History
  <2>2. IsFiniteSet(DOMAIN outcomes) /\ DOMAIN outcomes \subseteq Nat
    BY <2>1, FS_Interval
  <2> QED
    BY <2>2, FS_Subset
<1>2. PICK place \in Bijection(1..Cardinality(P), P) :
        kept = [k \in 1..Cardinality(P) |-> outcomes[place[k]]]
  BY <1>1, AtPlaces
<1>3. /\ place \in [1..Cardinality(P) -> P]
      /\ \A i, j \in 1..Cardinality(P) : place[i] = place[j] => i = j
      /\ \A p \in P : \E k \in 1..Cardinality(P) : place[k] = p
  BY <1>2 DEF Bijection, Injection, Surjection, IsInjective
<1>4. DOMAIN kept = 1..Cardinality(P) /\ \A k \in DOMAIN kept : kept[k] = outcomes[place[k]]
  BY <1>2
<1>5. \A i \in DOMAIN outcomes : Bucket(outcomes[i]) = b => i \in P
  BY DEF Bucket
<1> DEFINE g == [e \in E |-> <<place[e[1]], e[2]>>]
<1> HIDE DEF kept, P
<1>6. \A e : e \in E <=> \E i \in DOMAIN kept : \E d \in Dimensions(kept[i]) :
                           /\ e = <<i, d>>
                           /\ DOMAIN soft # {} => d \in DOMAIN soft
                           /\ Bucket(kept[i]) = b
  BY EvidenceMembers
<1>7. \A e : e \in F <=> \E i \in DOMAIN outcomes : \E d \in Dimensions(outcomes[i]) :
                           /\ e = <<i, d>>
                           /\ DOMAIN soft # {} => d \in DOMAIN soft
                           /\ Bucket(outcomes[i]) = b
  BY EvidenceMembers
<1> HIDE DEF E, F
<1>8. g \in [E -> F]
  <2> SUFFICES ASSUME NEW e \in E PROVE <<place[e[1]], e[2]>> \in F
    OBVIOUS
  <2>0. PICK i \in DOMAIN kept : \E d \in Dimensions(kept[i]) :
          e = <<i, d>> /\ (DOMAIN soft # {} => d \in DOMAIN soft) /\ Bucket(kept[i]) = b
    BY <1>6
  <2>1. PICK d \in Dimensions(kept[i]) :
          e = <<i, d>> /\ (DOMAIN soft # {} => d \in DOMAIN soft) /\ Bucket(kept[i]) = b
    BY <2>0
  <2>2. place[i] \in DOMAIN outcomes /\ kept[i] = outcomes[place[i]]
    BY <1>3, <1>4 DEF P
  <2>3. <<place[i], d>> \in F
    BY <2>1, <2>2, <1>7
  <2> QED
    BY <2>1, <2>3
<1>9. ASSUME NEW e \in E, NEW h \in E, g[e] = g[h] PROVE e = h
  <2>1. PICK i \in DOMAIN kept : \E d : e = <<i, d>>
    BY <1>6
  <2>2. PICK j \in DOMAIN kept : \E c : h = <<j, c>>
    BY <1>6
  <2>3. PICK d : e = <<i, d>>
    BY <2>1
  <2>4. PICK c : h = <<j, c>>
    BY <2>2
  <2>5. place[i] = place[j] /\ d = c
    BY <1>9, <2>3, <2>4
  <2> QED
    BY <2>3, <2>4, <2>5, <1>3, <1>4
<1>10. ASSUME NEW x \in F PROVE \E e \in E : g[e] = x
  <2>0. PICK i \in DOMAIN outcomes : \E d \in Dimensions(outcomes[i]) :
          x = <<i, d>> /\ (DOMAIN soft # {} => d \in DOMAIN soft) /\ Bucket(outcomes[i]) = b
    BY <1>7
  <2>1. PICK d \in Dimensions(outcomes[i]) :
          x = <<i, d>> /\ (DOMAIN soft # {} => d \in DOMAIN soft) /\ Bucket(outcomes[i]) = b
    BY <2>0
  <2>2. PICK k \in DOMAIN kept : place[k] = i
    BY <2>1, <1>3, <1>4, <1>5
  <2>3. <<k, d>> \in E
    BY <2>1, <2>2, <1>4, <1>6
  <2>4. g[<<k, d>>] = x
    BY <2>1, <2>2, <2>3
  <2> QED
    BY <2>3, <2>4
<1>11. g \in Injection(E, F) /\ g \in Surjection(E, F)
  <2> HIDE DEF g
  <2> QED
    BY <1>8, <1>9, <1>10 DEF Injection, Surjection, IsInjective
<1>12. IsFiniteSet(F)
  BY FiniteEvidence DEF F
<1>13. Cardinality(E) = Cardinality(F)
  <2> HIDE DEF g
  <2> QED
    BY <1>11, <1>12, FS_Injection
<1> QED
  BY <1>13 DEF E, F, kept, P, Count

\* How many dimensions an outcome speaks of that was made for a node's needs.
Asked(soft) == IF DOMAIN soft = {} THEN {"general"} ELSE DOMAIN soft

LEMMA AskedCounts ==
  ASSUME NEW soft, IsFiniteSet(DOMAIN soft)
  PROVE  IsFiniteSet(Asked(soft)) /\ Cardinality(Asked(soft)) \in Nat \ {0}
<1>1. IsFiniteSet(Asked(soft)) /\ Asked(soft) # {}
  BY FS_Singleton DEF Asked
<1> QED
  BY <1>1, FS_CardinalityType, FS_EmptySet

\* One more such outcome adds that many pieces of evidence to its bucket, and none
\* to the others.
LEMMA OneMoreOutcome ==
  ASSUME NEW soft, IsFiniteSet(DOMAIN soft), NEW outcomes, History(outcomes), NEW o, NEW b,
         o.dimensions = DOMAIN soft
  PROVE  /\ Count(soft, Append(outcomes, o), b)
              = Count(soft, outcomes, b) + IF Bucket(o) = b THEN Cardinality(Asked(soft)) ELSE 0
         /\ Count(soft, outcomes, b) \in Nat
<1> DEFINE n == Len(outcomes) + 1
           more == Append(outcomes, o)
           new == {n} \X Asked(soft)
           F == Evidence(soft, outcomes, b)
           G == Evidence(soft, more, b)
<1>1. /\ Len(outcomes) \in Nat /\ DOMAIN outcomes = 1..Len(outcomes) /\ DOMAIN more = 1..n
      /\ \A i \in DOMAIN outcomes : more[i] = outcomes[i]
      /\ more[n] = o /\ n \notin DOMAIN outcomes /\ DOMAIN more = DOMAIN outcomes \union {n}
  BY DEF History
<1>2. Dimensions(o) = Asked(soft)
  BY DEF Dimensions, Asked
<1>3. \A d \in Asked(soft) : DOMAIN soft # {} => d \in DOMAIN soft
  BY DEF Asked
<1> HIDE DEF more, n
<1>4. G = F \union (IF Bucket(o) = b THEN new ELSE {})
  <2> SUFFICES ASSUME NEW e PROVE e \in G <=> e \in F \/ (Bucket(o) = b /\ e \in new)
    OBVIOUS
  <2> DEFINE Is(i, d, x) == /\ e = <<i, d>> /\ (DOMAIN soft # {} => d \in DOMAIN soft)
                            /\ Bucket(x) = b
  <2>1. e \in F <=> \E i \in DOMAIN outcomes : \E d \in Dimensions(outcomes[i]) : Is(i, d, outcomes[i])
    BY EvidenceMembers
  <2>2. e \in G <=> \E i \in DOMAIN more : \E d \in Dimensions(more[i]) : Is(i, d, more[i])
    BY EvidenceMembers
  <2>3. Bucket(o) = b /\ e \in new <=> \E d \in Dimensions(o) : Is(n, d, o)
    BY <1>2, <1>3
  <2> HIDE DEF Is, F, G, new
  <2> QED
    BY <1>1, <2>1, <2>2, <2>3
<1>5. F \cap new = {}
  <2> SUFFICES ASSUME NEW e \in F, e \in new PROVE FALSE
    OBVIOUS
  <2>1. PICK i \in DOMAIN outcomes : \E d : e = <<i, d>>
    BY EvidenceMembers
  <2>2. e[1] = i /\ e[1] = n
    BY <2>1
  <2> QED
    BY <1>1, <2>2
<1>6. IsFiniteSet(F) /\ Count(soft, outcomes, b) \in Nat
  BY FiniteEvidence
<1>7. IsFiniteSet(new) /\ Cardinality(new) = Cardinality(Asked(soft))
  <2>1. IsFiniteSet({n}) /\ Cardinality({n}) = 1
    BY FS_Singleton
  <2>2. /\ IsFiniteSet(new) /\ Cardinality(new) = Cardinality({n}) * Cardinality(Asked(soft))
        /\ Cardinality(Asked(soft)) \in Nat
    BY <2>1, AskedCounts, FS_Product
  <2> QED
    BY <2>1, <2>2
<1> HIDE DEF F, G, new
<1>8. CASE Bucket(o) = b
  <2>1. Cardinality(F \union new) = Cardinality(F) + Cardinality(new) - Cardinality(F \cap new)
    BY <1>6, <1>7, FS_Union
  <2>2. Cardinality(F \cap new) = 0 /\ Cardinality(F) \in Nat /\ Cardinality(new) \in Nat
    BY <1>5, <1>6, <1>7, FS_EmptySet, FS_CardinalityType
  <2>3. Cardinality(G) = Cardinality(F) + Cardinality(Asked(soft))
    BY <2>1, <2>2, <1>4, <1>7, <1>8
  <2> QED
    BY <2>3, <1>6, <1>8 DEF F, G, Count, more
<1>9. CASE Bucket(o) # b
  <2>1. G = F
    BY <1>4, <1>9
  <2> QED
    BY <2>1, <1>6, <1>9 DEF F, G, Count, more
<1> QED
  BY <1>8, <1>9

-----------------------------------------------------------------------------
(* The score                                                                 *)

LEMMA SamplesCounted ==
  ASSUME NEW soft, NEW outcomes, History(outcomes)
  PROVE  /\ Samples(soft, outcomes) \in Nat
         /\ Count(soft, outcomes, "success") \in Nat
         /\ Count(soft, outcomes, "failure") \in Nat
         /\ Count(soft, outcomes, "success") <= Samples(soft, outcomes)
<1>1. Count(soft, outcomes, "success") \in Nat /\ Count(soft, outcomes, "failure") \in Nat
  BY FiniteEvidence
<1> QED
  BY <1>1 DEF Samples

LEMMA QualityType ==
  ASSUME NEW soft, NEW outcomes, History(outcomes)
  PROVE  /\ Quality(soft, outcomes).num \in Nat
         /\ Quality(soft, outcomes).den \in Nat \ {0}
         /\ Certainty(soft, outcomes) \in Nat \ {0}
BY SamplesCounted DEF Quality, Certainty

LEMMA ScoreIsWorth ==
  ASSUME NEW soft, NEW w, NEW outcomes
  PROVE  Score(soft, w, outcomes)
           = Worth(SoftMatch(soft, w) + Arm[w].preference, Quality(soft, outcomes).num,
                   Quality(soft, outcomes).den, Certainty(soft, outcomes))
BY DEF Score, Worth

LEMMA ScoreIsFraction ==
  ASSUME NEW soft, NEW w, NEW outcomes, History(outcomes),
         SoftMatch(soft, w) \in Int, Arm[w].preference \in Int
  PROVE  Score(soft, w, outcomes) \in Fraction
<1> DEFINE m == SoftMatch(soft, w) + Arm[w].preference
           a == Quality(soft, outcomes).num
           b == Quality(soft, outcomes).den
           c == Certainty(soft, outcomes)
<1>1. m \in Int /\ a \in Nat /\ b \in Nat \ {0} /\ c \in Nat \ {0}
  BY QualityType
<1>2. Score(soft, w, outcomes) = Worth(m, a, b, c)
  BY ScoreIsWorth
<1> HIDE DEF m, a, b, c
<1>3. m * (b * c) + 20 * (a * c) - 10 * b \in Int /\ b * c \in Nat /\ b * c # 0
  BY <1>1
<1> QED
  BY <1>2, <1>3 DEF Worth, Fraction

\* A score depends on the evidence of success and failure only.
LEMMA SameEvidenceSameScore ==
  ASSUME NEW soft, NEW w, NEW outcomes, NEW others,
         Count(soft, outcomes, "success") = Count(soft, others, "success"),
         Count(soft, outcomes, "failure") = Count(soft, others, "failure")
  PROVE  Score(soft, w, outcomes) = Score(soft, w, others)
<1>1. Samples(soft, outcomes) = Samples(soft, others)
  BY DEF Samples
<1>2. /\ Quality(soft, outcomes) = Quality(soft, others)
      /\ Certainty(soft, outcomes) = Certainty(soft, others)
  BY <1>1 DEF Quality, Certainty
<1> QED
  BY <1>2 DEF Score

LEMMA OthersAreForgiven ==
  ASSUME NEW soft, NEW w, NEW outcomes, History(outcomes)
  PROVE  ForgivesOthers(soft, w, outcomes)
BY ExcludedCountForNothing, SameEvidenceSameScore DEF ForgivesOthers

\* A share that is no smaller, on no less evidence, is worth no less.
LEMMA BetterShare ==
  ASSUME NEW m \in Int, NEW a \in Nat, NEW b \in Nat \ {0}, NEW c \in Nat \ {0},
         NEW i \in Nat, NEW j \in Nat \ {0}, NEW k \in Nat \ {0}, a * j >= i * b, c >= k
  PROVE  AtLeast(Worth(m, a, b, c), Worth(m, i, j, k))
<1>1. (a * j) * (c * k) >= (i * b) * (c * k)
  <2>1. a * j \in Int /\ i * b \in Int /\ c * k \in Nat
    OBVIOUS
  <2> QED
    BY <2>1, FactorKept
<1>2. (b * j) * c >= (b * j) * k
  <2>1. b * j \in Nat /\ c * (b * j) = (b * j) * c /\ k * (b * j) = (b * j) * k
    OBVIOUS
  <2>2. c * (b * j) >= k * (b * j)
    BY <2>1, FactorKept
  <2> QED
    BY <2>1, <2>2
<1>3. /\ (a * j) * (c * k) \in Int /\ (i * b) * (c * k) \in Int
      /\ (b * j) * c \in Int /\ (b * j) * k \in Int
  OBVIOUS
<1>4. 20 * ((a * j) * (c * k)) + 10 * ((b * j) * c) >= 20 * ((i * b) * (c * k)) + 10 * ((b * j) * k)
  BY <1>1, <1>2, <1>3
<1> QED
  BY <1>4, WorthCompared

\* A worker that has succeeded s times in n loses by k failures more: what the
\* share loses outweighs what the certainty gains.
LEMMA FailuresCost ==
  ASSUME NEW m \in Int, NEW s \in Nat \ {0}, NEW n \in Nat \ {0}, NEW k \in Nat \ {0}
  PROVE  AtLeast(Worth(m, s, n, 1 + n), Worth(m, s, n + k, 1 + (n + k)))
<1> DEFINE z == n + k  c == 1 + n  d == 1 + z  x == n * z  y == c * d
<1>1. z \in Nat \ {0} /\ c \in Nat \ {0} /\ d \in Nat \ {0} /\ x \in Nat /\ y \in Nat
  OBVIOUS
<1>2. y >= x
  <2>1. n * z <= c * z
    BY <1>1, FactorKept
  <2>2. z * c <= d * c
    BY <1>1, FactorKept
  <2>3. c * z = z * c /\ c * d = d * c /\ n * z \in Int /\ c * z \in Int /\ c * d \in Int
    BY <1>1
  <2> QED
    BY <2>1, <2>2, <2>3
<1>3. (s * k) * y >= k * x
  <2>1. s * k >= 1 * k /\ s * k \in Nat
    BY FactorKept
  <2>2. (s * k) * y >= k * y
    BY <1>1, <2>1, FactorKept
  <2>3. y * k >= x * k
    BY <1>1, <1>2, FactorKept
  <2>4. y * k = k * y /\ x * k = k * x /\ (s * k) * y \in Int /\ k * y \in Int /\ k * x \in Int
    BY <1>1, <2>1
  <2> QED
    BY <2>2, <2>3, <2>4
<1>4. (s * z) * y = (s * n) * y + (s * k) * y
  <2>1. s * z = s * n + s * k
    OBVIOUS
  <2>2. s * n \in Nat /\ s * k \in Nat
    OBVIOUS
  <2> HIDE DEF y, z
  <2> QED
    BY <1>1, <2>1, <2>2
<1>5. x * d = x * c + k * x
  <2>1. d = c + k
    OBVIOUS
  <2> HIDE DEF x, c, d, z
  <2> QED
    BY <1>1, <2>1
<1>6. /\ (s * z) * y \in Int /\ (s * n) * y \in Int /\ (s * k) * y \in Int
      /\ x * d \in Int /\ x * c \in Int /\ k * x \in Nat
  <2>1. s * z \in Int /\ s * n \in Int /\ s * k \in Int
    BY <1>1
  <2> HIDE DEF x, y, c, d, z
  <2> QED
    BY <1>1, <2>1
<1>7. 20 * ((s * z) * y) + 10 * (x * c) >= 20 * ((s * n) * y) + 10 * (x * d)
  <2> HIDE DEF x, y, c, d, z
  <2> QED
    BY <1>3, <1>4, <1>5, <1>6
<1>8. AtLeast(Worth(m, s, n, c), Worth(m, s, z, d))
  BY <1>1, <1>7, WorthCompared
<1> QED
  BY <1>8

\* The first failures of a worker that was never tried cost it, too.
LEMMA FirstFailuresCost ==
  ASSUME NEW m \in Int, NEW k \in Nat \ {0}
  PROVE  AtLeast(Worth(m, 1, 2, 1), Worth(m, 0, k, 1 + k))
<1>1. /\ (1 * k) * (1 * (1 + k)) = k * (1 + k) /\ (2 * k) * 1 = 2 * k
      /\ (0 * 2) * (1 * (1 + k)) = 0 /\ (2 * k) * (1 + k) = 2 * (k * (1 + k)) /\ k * (1 + k) \in Nat
  OBVIOUS
<1>2. 20 * ((1 * k) * (1 * (1 + k))) + 10 * ((2 * k) * 1)
        >= 20 * ((0 * 2) * (1 * (1 + k))) + 10 * ((2 * k) * (1 + k))
  BY <1>1
<1>3. 1 + k \in Nat \ {0} /\ 0 \in Nat /\ 1 \in Nat \ {0} /\ 2 \in Nat \ {0}
  OBVIOUS
<1> QED
  BY <1>2, <1>3, WorthCompared

\* One more outcome of a node's own dimensions moves the score the right way.
LEMMA EvidenceIsLearned ==
  ASSUME NEW soft, IsFiniteSet(DOMAIN soft), NEW w, NEW outcomes, History(outcomes),
         SoftMatch(soft, w) \in Int, Arm[w].preference \in Int
  PROVE  LearnsFromEvidence(soft, w, outcomes)
<1> DEFINE m == SoftMatch(soft, w) + Arm[w].preference
           s == Count(soft, outcomes, "success")
           n == Samples(soft, outcomes)
           k == Cardinality(Asked(soft))
           outcome(status, attribution) ==
             [dimensions |-> DOMAIN soft, status |-> status, attribution |-> attribution]
           win == Append(outcomes, outcome("success", "none"))
           loss == Append(outcomes, outcome("failed", "worker_error"))
<1>1. m \in Int /\ s \in Nat /\ n \in Nat /\ s <= n /\ k \in Nat \ {0}
  BY SamplesCounted, AskedCounts
<1>2. Bucket(outcome("success", "none")) = "success" /\ Bucket(outcome("failed", "worker_error")) = "failure"
  BY DEF Bucket, Excluded
<1>3. Count(soft, win, "success") = s + k /\ Samples(soft, win) = n + k
  <2> DEFINE o == outcome("success", "none")
  <2>0. o.dimensions = DOMAIN soft /\ Bucket(o) = "success"
    BY <1>2
  <2> HIDE DEF o
  <2>1. /\ Count(soft, win, "success") = s + k
        /\ Count(soft, win, "failure") = Count(soft, outcomes, "failure") + 0
        /\ Count(soft, outcomes, "failure") \in Nat
    BY <2>0, OneMoreOutcome DEF o
  <2> QED
    BY <1>1, <2>1 DEF Samples
<1>4. Count(soft, loss, "success") = s /\ Samples(soft, loss) = n + k
  <2> DEFINE o == outcome("failed", "worker_error")
  <2>0. o.dimensions = DOMAIN soft /\ Bucket(o) = "failure"
    BY <1>2
  <2> HIDE DEF o
  <2>1. /\ Count(soft, loss, "success") = s + 0
        /\ Count(soft, loss, "failure") = Count(soft, outcomes, "failure") + k
        /\ Count(soft, outcomes, "failure") \in Nat
    BY <2>0, OneMoreOutcome DEF o
  <2> QED
    BY <1>1, <2>1 DEF Samples
<1>5. /\ n = 0 => Score(soft, w, outcomes) = Worth(m, 1, 2, 1)
      /\ n # 0 => Score(soft, w, outcomes) = Worth(m, s, n, 1 + n)
  BY ScoreIsWorth DEF Quality, Certainty
<1>6. Score(soft, w, win) = Worth(m, s + k, n + k, 1 + (n + k))
  <2>1. n + k # 0
    BY <1>1
  <2> HIDE DEF win, s, n, k
  <2> QED
    BY <1>3, <2>1, ScoreIsWorth DEF Quality, Certainty
<1>7. Score(soft, w, loss) = Worth(m, s, n + k, 1 + (n + k))
  <2>1. n + k # 0
    BY <1>1
  <2> HIDE DEF loss, s, n, k
  <2> QED
    BY <1>4, <2>1, ScoreIsWorth DEF Quality, Certainty
<1> DEFINE old == Score(soft, w, outcomes)
<1>8. AtLeast(Score(soft, w, win), old)
  <2> HIDE DEF m, s, n, k, win, old
  <2>1. CASE n = 0
    <3>1. s + k \in Nat /\ n + k \in Nat \ {0} /\ 1 + (n + k) \in Nat \ {0}
          /\ (s + k) * 2 >= 1 * (n + k) /\ 1 + (n + k) >= 1
      BY <1>1, <2>1
    <3>2. 1 \in Nat \ {0} /\ 2 \in Nat \ {0} /\ 1 \in Nat
      OBVIOUS
    <3> QED
      BY <1>1, <1>5, <1>6, <2>1, <3>1, <3>2, BetterShare DEF old
  <2>2. CASE n # 0
    <3>1. (s + k) * n >= s * (n + k)
      <4>1. n * k >= s * k
        BY <1>1, FactorKept
      <4>2. /\ (s + k) * n = s * n + n * k /\ s * (n + k) = s * n + s * k
            /\ s * n \in Int /\ n * k \in Int /\ s * k \in Int
        BY <1>1
      <4> QED
        BY <4>1, <4>2
    <3>2. s + k \in Nat /\ n + k \in Nat \ {0} /\ 1 + (n + k) \in Nat \ {0}
          /\ 1 + n \in Nat \ {0} /\ 1 + (n + k) >= 1 + n
      BY <1>1
    <3>3. n \in Nat \ {0} /\ old = Worth(m, s, n, 1 + n)
      BY <1>1, <1>5, <2>2 DEF old
    <3> DEFINE a == s + k  b == n + k  c == 1 + (n + k)  d == 1 + n
    <3> HIDE DEF a, b, c, d
    <3>4. AtLeast(Worth(m, a, b, c), Worth(m, s, n, d))
      BY <1>1, <3>1, <3>2, <3>3, BetterShare DEF a, b, c, d
    <3> QED
      BY <1>6, <3>3, <3>4 DEF a, b, c, d
  <2> QED
    BY <2>1, <2>2
<1>9. ASSUME s > 0 \/ n = 0 PROVE AtLeast(old, Score(soft, w, loss))
  <2> HIDE DEF m, s, n, k, loss, old
  <2>1. CASE n = 0
    <3>1. s = 0 /\ n + k = k /\ 1 + (n + k) = 1 + k
      BY <1>1, <2>1
    <3> QED
      BY <1>1, <1>5, <1>7, <2>1, <3>1, FirstFailuresCost DEF old
  <2>2. CASE n # 0
    <3>1. s \in Nat \ {0} /\ n \in Nat \ {0}
      BY <1>1, <1>9, <2>2
    <3> QED
      BY <1>1, <1>5, <1>7, <2>2, <3>1, FailuresCost DEF old
  <2> QED
    BY <2>1, <2>2
<1> QED
  BY <1>8, <1>9 DEF LearnsFromEvidence

\* Only a proposal is compiled.
CompilesProposal == phase = "compile" => Compiled

LEMMA CompilesProposalInvariant == ExecutionSpec => []CompilesProposal
<1>1. ExecutionInit => CompilesProposal
  BY ProposalsAssumption DEF ExecutionInit, CompilesProposal, Compiled
<1>2. CompilesProposal /\ [ExecutionNext]_executionVars => CompilesProposal'
  BY DEF CompilesProposal, Compiled, ExecutionNext, executionVars, Compile, Refuse, Schedule,
         ReturnUnverified, TryAgain, Accept, Reject, AttemptRaises, Report, Over, UnderWay
<1> QED
  BY <1>1, <1>2, PTL DEF ExecutionSpec

\* What the history says of a worker moves its score the right way, whatever the
\* proposal asks for, whatever the workers are and whatever happened to them.
THEOREM HistoryIsFair == ExecutionSpec => []EvidenceIsFair
<1>1. GraphInv /\ CompilesProposal => EvidenceIsFair
  <2> SUFFICES ASSUME GraphInv, Compiled, NEW n \in Members(proposal.nodes),
                      NEW h \in Histories, NEW w \in DOMAIN Arm
               PROVE  ForgivesOthers(n.soft, w, h[w]) /\ LearnsFromEvidence(n.soft, w, h[w])
    BY DEF EvidenceIsFair, CompilesProposal
  <2>1. proposal \in Proposals
    BY DEF GraphInv, Compiled
  <2>2. IsFiniteSet(DOMAIN n.soft) /\ SoftMatch(n.soft, w) \in Int /\ Arm[w].preference \in Int
    BY <2>1, WeightsAssumption
  <2>3. History(h[w])
    BY HistoriesAssumption DEF History
  <2> QED
    BY <2>2, <2>3, OthersAreForgiven, EvidenceIsLearned
<1> QED
  BY <1>1, CompilesProposalInvariant, GraphInvariant, PTL

-----------------------------------------------------------------------------
(* The workers                                                               *)

LEMMA EligibleAreFew ==
  ASSUME NEW needs
  PROVE  /\ Eligible(needs) \subseteq DOMAIN Arm /\ Eligible(needs) \subseteq Nat
         /\ IsFiniteSet(Eligible(needs))
<1>1. Eligible(needs) \subseteq DOMAIN Arm
  BY DEF Eligible
<1> QED
  BY <1>1, ArmAssumption, FS_Subset

\* The ranking orders the eligible workers strictly: equal scores go by the id.
LEMMA RankingIsStrict ==
  ASSUME NEW needs, NEW soft, NEW h,
         \A w \in Eligible(needs) : Score(soft, w, h[w]) \in Fraction
  PROVE  StrictTotalOrder({e \in Eligible(needs) \X Eligible(needs) : RanksBefore(soft, e[1], e[2], h)},
                          Eligible(needs))
<1> DEFINE S == Eligible(needs)
           R == {e \in S \X S : RanksBefore(soft, e[1], e[2], h)}
           sc(w) == Score(soft, w, h[w])
<1>1. \A v, w \in S : <<v, w>> \in R <=> AtLeast(sc(v), sc(w)) /\ (AtLeast(sc(w), sc(v)) => v < w)
  BY DEF RanksBefore
<1>2. \A w \in S : w \in Nat /\ sc(w) \in Fraction
  BY EligibleAreFew
<1> HIDE DEF S, R, sc
<1>3. ASSUME NEW x \in S PROVE <<x, x>> \notin R
  BY <1>1, <1>2
<1>4. ASSUME NEW x \in S, NEW y \in S, x # y PROVE <<x, y>> \in R \/ <<y, x>> \in R
  <2>1. AtLeast(sc(x), sc(y)) \/ AtLeast(sc(y), sc(x))
    BY <1>2, AtLeastIsTotal
  <2>2. x < y \/ y < x
    BY <1>2, <1>4
  <2> QED
    BY <1>1, <2>1, <2>2
<1>5. ASSUME NEW x \in S, NEW y \in S, NEW z \in S, <<x, y>> \in R, <<y, z>> \in R
      PROVE  <<x, z>> \in R
  <2>1. /\ AtLeast(sc(x), sc(y)) /\ (AtLeast(sc(y), sc(x)) => x < y)
        /\ AtLeast(sc(y), sc(z)) /\ (AtLeast(sc(z), sc(y)) => y < z)
    BY <1>1, <1>5
  <2>2. AtLeast(sc(x), sc(z))
    BY <1>2, <2>1, AtLeastIsTransitive
  <2>3. ASSUME AtLeast(sc(z), sc(x)) PROVE x < z
    <3>1. AtLeast(sc(y), sc(x)) /\ AtLeast(sc(z), sc(y))
      BY <1>2, <2>1, <2>3, AtLeastIsTransitive
    <3>2. x < y /\ y < z
      BY <2>1, <3>1
    <3> QED
      BY <1>2, <3>2
  <2> QED
    BY <1>1, <2>2, <2>3
<1>6. StrictTotalOrder(R, S)
  BY <1>3, <1>4, <1>5 DEF StrictTotalOrder
<1> QED
  BY <1>6 DEF R, S

\* The ranking is a list of the eligible workers, of as many as there are.
LEMMA RankingFacts ==
  ASSUME NEW needs, NEW soft, NEW h,
         \A w \in Eligible(needs) : Score(soft, w, h[w]) \in Fraction
  PROVE  /\ List(Ranking(needs, soft, h))
         /\ Members(Ranking(needs, soft, h)) \subseteq Eligible(needs)
         /\ Len(Ranking(needs, soft, h)) = Cardinality(Eligible(needs))
<1> DEFINE S == Eligible(needs)
           R == {e \in S \X S : RanksBefore(soft, e[1], e[2], h)}
           ahead(w) == Cardinality({v \in S : RanksBefore(soft, v, w, h)})
           r == Ranking(needs, soft, h)
<1>1. IsFiniteSet(S) /\ StrictTotalOrder(R, S)
  BY EligibleAreFew, RankingIsStrict
<1>2. \A w \in S : ahead(w) = Cardinality(Below(R, S, w))
  <2> SUFFICES ASSUME NEW w \in S PROVE {v \in S : RanksBefore(soft, v, w, h)} = Below(R, S, w)
    OBVIOUS
  <2> QED
    BY DEF Below
<1>3. r = [k \in 1..Cardinality(S) |-> CHOOSE w \in S : ahead(w) = k - 1]
  BY DEF Ranking
<1> HIDE DEF S, R, ahead, r
<1>4. \A k \in 1..Cardinality(S) : \E w \in S : ahead(w) = k - 1
  BY <1>1, <1>2, NumberedFromBelow
<1>5. \A k \in 1..Cardinality(S) : r[k] \in S
  BY <1>3, <1>4
<1>6. Cardinality(S) \in Nat /\ DOMAIN r = 1..Cardinality(S)
  BY <1>1, <1>3, FS_CardinalityType
<1>7. List(r)
  BY <1>3, <1>6 DEF List
<1>8. Members(r) \subseteq S
  BY <1>5, <1>6 DEF Members
<1>9. Len(r) = Cardinality(S)
  <2>1. Len(r) \in Nat /\ DOMAIN r = 1..Len(r)
    BY <1>7, ListFacts
  <2> QED
    BY <1>6, <2>1
<1> QED
  BY <1>7, <1>8, <1>9 DEF r, S

\* A list that is not empty begins with one of its members.
LEMMA HeadIsMember ==
  ASSUME NEW s, List(s), s # << >>
  PROVE  Head(s) = s[1] /\ 1 \in DOMAIN s /\ Head(s) \in Members(s)
<1>1. s \in Seq({s[i] : i \in DOMAIN s}) /\ DOMAIN s = 1..Len(s) /\ Len(s) \in Nat
  BY ListFacts
<1>2. Len(s) # 0 /\ Head(s) = s[1]
  BY <1>1
<1>3. 1 \in DOMAIN s
  BY <1>1, <1>2
<1> QED
  BY <1>2, <1>3 DEF Members

\* What the plan keeps for the nodes of a proposal that compiles.
LEMMA AssignmentFacts ==
  ASSUME NEW p \in Proposals, Compiles(p), NEW h \in Histories, NEW id \in Node
  PROVE  /\ List(Assignment(p, h)[id]) /\ Assignment(p, h)[id] # << >>
         /\ Members(Assignment(p, h)[id]) \subseteq Eligible(NodeOf(p, id).needs)
<1> DEFINE n == NodeOf(p, id)
           r == Ranking(n.needs, n.soft, h)
<1>1. n \in Members(p.nodes)
  BY NodeOfNode
<1>2. Ids(p.nodes) = Node
  BY ProposalsAssumption
<1>3. Assignment(p, h)[id] = r
  BY <1>2 DEF Assignment
<1>4. ASSUME NEW w \in Eligible(n.needs) PROVE Score(n.soft, w, h[w]) \in Fraction
  <2>1. w \in DOMAIN Arm
    BY EligibleAreFew
  <2>2. SoftMatch(n.soft, w) \in Int /\ Arm[w].preference \in Int
    BY <1>1, <2>1, WeightsAssumption
  <2>3. History(h[w])
    BY <2>1, HistoriesAssumption DEF History
  <2> QED
    BY <2>2, <2>3, ScoreIsFraction
<1>5. List(r) /\ Members(r) \subseteq Eligible(n.needs) /\ Len(r) = Cardinality(Eligible(n.needs))
  BY <1>4, RankingFacts
<1>6. r # << >>
  <2>1. Eligible(n.needs) # {} /\ IsFiniteSet(Eligible(n.needs))
    BY <1>1, EligibleAreFew DEF Compiles, WorkersExist
  <2>2. Cardinality(Eligible(n.needs)) # 0
    BY <2>1, FS_EmptySet
  <2> QED
    BY <1>5, <2>2
<1> QED
  BY <1>3, <1>5, <1>6

\* A fallback is another candidate, one that can be run.
LEMMA FallbackFacts ==
  ASSUME NEW ranking, List(ranking), NEW current, NEW provider,
         FallbackCandidates(ranking, current, provider) # << >>
  PROVE  /\ Head(FallbackCandidates(ranking, current, provider)) \in Members(ranking)
         /\ Runnable(Head(FallbackCandidates(ranking, current, provider)), provider)
<1> DEFINE P == {i \in DOMAIN ranking : ranking[i] # current /\ Runnable(ranking[i], provider)}
           f == FallbackCandidates(ranking, current, provider)
<1>1. f = At(ranking, P)
  BY DEF FallbackCandidates
<1>2. \A i \in P : i \in DOMAIN ranking /\ Runnable(ranking[i], provider)
  OBVIOUS
<1>3. P \subseteq DOMAIN ranking
  OBVIOUS
<1> HIDE DEF P, f
<1>4. List(f) /\ \A k \in DOMAIN f : \E i \in P : f[k] = ranking[i]
  BY <1>1, <1>3, AtIsList
<1>5. Head(f) = f[1] /\ 1 \in DOMAIN f
  BY <1>4, HeadIsMember DEF f
<1>6. PICK i \in P : Head(f) = ranking[i]
  BY <1>4, <1>5
<1> QED
  BY <1>2, <1>6 DEF f, Members

\* The candidates of every node are eligible for it, may be sent its content, and
\* its worker is one of them that can be run.
CandidatesFit ==
  Compiled /\ phase \in {"execute", "reported"} =>
    /\ worker \in [Node -> DOMAIN Arm]
    /\ \A n \in Node :
         /\ List(candidates[n])
         /\ Members(candidates[n]) \subseteq Eligible(NodeOf(proposal, n).needs)
         /\ worker[n] \in Members(candidates[n])
         /\ ~dry_run =>
              /\ Runnable(worker[n], settings.provider)
              /\ \A w \in Members(candidates[n]) : Arm[w].backend = "claude_cli" => settings.external

LEMMA CompileFits ==
  ASSUME GraphInv, Compiled, Compile
  PROVE  CandidatesFit'
<1>1. PICK h \in Histories :
        candidates' = Assignment(proposal, h) /\ (dry_run \/ Permitted(candidates'))
  BY DEF Compile
<1>2. proposal \in Proposals /\ Compiles(proposal)
  BY DEF Compile, GraphInv, Compiled
<1>3. /\ UNCHANGED <<proposal, dry_run, settings>>
      /\ worker' = [n \in Node |-> Head(candidates'[n])]
  BY DEF Compile, vars
<1>4. ASSUME NEW n \in Node
      PROVE  /\ List(candidates'[n])
             /\ Members(candidates'[n]) \subseteq Eligible(NodeOf(proposal, n).needs)
             /\ worker'[n] = Head(candidates'[n]) /\ worker'[n] \in Members(candidates'[n])
             /\ worker'[n] \in DOMAIN Arm
  <2>1. /\ List(candidates'[n]) /\ candidates'[n] # << >>
        /\ Members(candidates'[n]) \subseteq Eligible(NodeOf(proposal, n).needs)
    BY <1>1, <1>2, AssignmentFacts
  <2>2. worker'[n] = Head(candidates'[n])
    BY <1>3
  <2>3. worker'[n] \in Members(candidates'[n])
    BY <2>1, <2>2, HeadIsMember
  <2> QED
    BY <2>1, <2>2, <2>3, EligibleAreFew
<1>5. worker' \in [Node -> DOMAIN Arm]
  BY <1>3, <1>4
<1>6. ASSUME ~dry_run, NEW n \in Node
      PROVE  /\ Runnable(worker'[n], settings.provider)
             /\ \A w \in Members(candidates'[n]) : Arm[w].backend = "claude_cli" => settings.external
  <2>1. /\ worker'[n] \in PrimaryWorkers(candidates')
        /\ Members(candidates'[n]) \subseteq ExecutionWorkers(candidates')
    BY <1>4 DEF PrimaryWorkers, ExecutionWorkers
  <2>2. Permitted(candidates')
    BY <1>1, <1>6
  <2> QED
    BY <2>1, <2>2 DEF Permitted, Runnable
<1> QED
  BY <1>3, <1>4, <1>5, <1>6 DEF CandidatesFit

LEMMA FallbackFits ==
  ASSUME CandidatesFit, NEW n \in Node, TryAgain(n)
  PROVE  CandidatesFit'
<1>1. /\ Compiled /\ phase = "execute" /\ ~dry_run
      /\ UNCHANGED <<proposal, phase, dry_run, settings, candidates>>
  BY DEF TryAgain, UnderWay, vars
<1> DEFINE f == FallbackCandidates(candidates[n], worker[n], settings.provider)
<1>2. worker' = IF f = << >> THEN worker ELSE [worker EXCEPT ![n] = Head(f)]
  BY DEF TryAgain
<1>3. CandidatesFit!2
  BY <1>1 DEF CandidatesFit
<1>4. CASE f = << >>
  BY <1>1, <1>2, <1>3, <1>4 DEF CandidatesFit, Compiled
<1>5. CASE f # << >>
  <2>1. Head(f) \in Members(candidates[n]) /\ Runnable(Head(f), settings.provider)
    BY <1>3, <1>5, FallbackFacts
  <2>2. Head(f) \in DOMAIN Arm
    BY <1>3, <2>1, EligibleAreFew
  <2> HIDE DEF f
  <2>3. \A k \in Node : worker'[k] = IF k = n THEN Head(f) ELSE worker[k]
    BY <1>2, <1>3, <1>5
  <2>4. worker' \in [Node -> DOMAIN Arm]
    BY <1>2, <1>3, <1>5, <2>2
  <2> QED
    BY <1>1, <1>3, <2>1, <2>3, <2>4 DEF CandidatesFit, Compiled
<1> QED
  BY <1>4, <1>5

LEMMA StepCandidates ==
  ASSUME GraphInv, CandidatesFit, CompilesProposal, [ExecutionNext]_executionVars
  PROVE  CandidatesFit'
<1>1. CASE Compile
  BY <1>1, CompileFits DEF Compile, CompilesProposal
<1>2. CASE \E n \in Node : TryAgain(n)
  BY <1>2, FallbackFits
<1>3. CASE /\ UNCHANGED <<proposal, dry_run, settings, candidates, worker>>
           /\ phase' \in {"execute", "reported"} => phase \in {"execute", "reported"}
  BY <1>3 DEF CandidatesFit, Compiled
<1> QED
  BY <1>1, <1>2, <1>3 DEF ExecutionNext, executionVars, vars, assignmentVars, Refuse, Schedule,
     ReturnUnverified, Accept, Reject, AttemptRaises, Report, Over, UnderWay,
     SelectBatch, BlockRest, Finish, MarkNext, NodeSucceeds, NodeFails, LeaveBatch

\* Whatever the workers, the needs and the histories are: a worker that is given a
\* node, first or as a fallback, has what the node needs, can be run, and may be
\* sent the node's content.
THEOREM WorkersFitTheirNodes == ExecutionSpec => []WorkersArePermitted
<1>1. ExecutionInit => CandidatesFit
  BY ProposalsAssumption DEF ExecutionInit, CandidatesFit, Compiled
<1>2. CandidatesFit => WorkersArePermitted
  BY DEF CandidatesFit, WorkersArePermitted
<1> QED
  BY <1>1, <1>2, StepCandidates, CompilesProposalInvariant, GraphInvariant, PTL DEF ExecutionSpec
=============================================================================
