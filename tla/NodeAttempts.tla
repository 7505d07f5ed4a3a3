---------------------------- MODULE NodeAttempts ----------------------------
(***************************************************************************)
(* The attempts at one node step by step: DelegationRuntime.dispatch of    *)
(* c4harness/delegator/runtime.py inside the loop of RetryLoop, with the   *)
(* verification of ContractVerifier and the two stores an attempt is       *)
(* written to, each in transactions of its own:                            *)
(*   the shared ledger   c4harness/memory/store.py: a row of the run, then *)
(*                       in one transaction the subtask, its worker node,  *)
(*                       its events and its facts;                         *)
(*   the history         c4harness/history/store.py: the outcome.          *)
(* Any step may raise, and the process may die before any of them: what    *)
(* has been written stays.                                                 *)
(***************************************************************************)
EXTENDS RetryLoop, ContractVerifier

CONSTANTS
  Contracts  \* the node's contract: its templates, whether it patches, has
             \* evidence requirements, has a semantic check

VARIABLES
  contract,     \* the contract of the node
  pc,           \* where dispatch is
  observed,     \* what the attempt under way is judged by
  verification, \* the verdict on it
  run_row,      \* whether the ledger has a row of the run
  subtasks,     \* the ledger's subtask rows
  facts,        \* its facts, each with the subtask it comes from
  node_verification  \* what the graph report keeps: the last attempt verified, its verdict

ledgerVars == <<run_row, subtasks, facts>>
attemptVars == <<vars, contract, pc, observed, verification, ledgerVars, node_verification>>

-----------------------------------------------------------------------------
(* What an attempt can be judged by. *)

Observation(c, exception, status, violations, checks, evidence, integration, lifecycle) ==
  [contract |-> c, exception |-> exception, status |-> status,
   policy_violations |-> violations, checks |-> checks, evidence |-> evidence,
   integration |-> integration, lifecycle |-> lifecycle]

\* The checks of c with all they can find.
Examined(c) ==
  LET possible(t) == {[template |-> t, found |-> f] : f \in DOMAIN Runner[t]} IN
  {s \in [DOMAIN c.templates -> UNION {possible(c.templates[i]) : i \in DOMAIN c.templates}] :
     \A i \in DOMAIN c.templates : s[i].template = c.templates[i]}

\* How the proposal of a patching node can fare, if it comes to its integration.
Integrations(c, s) ==
  IF c.patch /\ ExecuteChecks(ProposalChecks(s), "none", FALSE).accepted
  THEN DOMAIN IntegrationFailure \union {"applied"}
  ELSE {"none"}

\* A worker that returned success.
Returned(c) ==
  UNION {{Observation(c, "none", "success", FALSE, s, e, g, l) :
            e \in IF c.evidence THEN {"present", "missing", "escapes"} ELSE {"none"},
            g \in Integrations(c, s),
            l \in {"none", "after"}} :
         s \in Examined(c)}

\* One that did not, or broke a policy, or whose hook raises: no check is looked at.
Unchecked(c) ==
  {Observation(c, e, "failed", FALSE, << >>, "none", "none", l) :
     e \in DOMAIN ExceptionAttribution \union {"none"}, l \in {"none", "before"}}
  \union {Observation(c, "none", "success", v, << >>, "none", "none",
                      IF v THEN "none" ELSE "before") : v \in BOOLEAN}

Observations(c) == Returned(c) \union Unchecked(c)

ASSUME ContractsAssumption == \A c \in Contracts :
  /\ c.templates \in Seq(DOMAIN Runner)
  /\ {c.patch, c.evidence, c.semantic} \subseteq BOOLEAN
ASSUME OutcomesAssumption ==
  \A c \in Contracts : {OutcomeOf(o) : o \in Observations(c)} \subseteq Outcomes

-----------------------------------------------------------------------------
Nothing == [none |-> TRUE]

AttemptInit ==
  /\ Init
  /\ contract \in Contracts
  /\ pc = "work"
  /\ observed = Nothing
  /\ verification = Nothing
  /\ run_row = FALSE
  /\ subtasks = << >>
  /\ facts = {}
  /\ node_verification = [attempt |-> 0, accepted |-> FALSE]

Running == verdict = "running"

\* The worker is routed, prepared and run, and its result verified.
Judge ==
  /\ Running
  /\ pc = "work"
  /\ observed' \in Observations(contract)
  /\ verification' = Verification(observed')
  /\ pc' = "run_row"
  /\ UNCHANGED <<vars, contract, ledgerVars, node_verification>>

\* Variant: a locked ledger is tried again without end.
RecordRunAgain ==
  /\ Running
  /\ pc = "run_row"
  /\ run_row' = ~run_row
  /\ UNCHANGED <<vars, contract, pc, observed, verification, subtasks, facts, node_verification>>

\* record_run: a transaction of its own, idempotent.
RecordRun ==
  /\ Running
  /\ pc = "run_row"
  /\ run_row' = TRUE
  /\ pc' = "subtask"
  /\ UNCHANGED <<vars, contract, observed, verification, subtasks, facts, node_verification>>

\* What _record_worker_graph makes of the result: the status of the worker's node,
\* and the events that are appended.
WorkerNode == IF verification.accepted THEN "verified" ELSE "done"
Events ==
  {IF verification.accepted THEN "verified" ELSE "rejected"}
  \union {"error" : e \in {observed.status} \ {"success"}}

SubtaskRow ==
  [worker |-> worker, status |-> observed.status, accepted |-> verification.accepted,
   node |-> WorkerNode, events |-> Events]

\* Variant: the facts are tied to the row before.
RecordFactsOfRowBefore ==
  /\ Running
  /\ pc = "subtask"
  /\ subtasks' = Append(subtasks, SubtaskRow)
  /\ facts' = facts \union {[subtask |-> Len(subtasks), template |-> t] : t \in verification.facts}
  /\ pc' = "append"
  /\ UNCHANGED <<vars, contract, observed, verification, run_row, node_verification>>

\* record_subtask, one transaction; every fact of the verification is stored as
\* verified, whether it accepted the result or not.
RecordSubtask ==
  /\ Running
  /\ pc = "subtask"
  /\ subtasks' = Append(subtasks, SubtaskRow)
  /\ facts' = facts \union {[subtask |-> Len(subtasks) + 1, template |-> t] : t \in verification.facts}
  /\ pc' = "append"
  /\ UNCHANGED <<vars, contract, observed, verification, run_row, node_verification>>

\* Variant: the report notes what the worker says of itself.
AppendOutcomeOnTrust ==
  /\ pc = "append"
  /\ Finish(OutcomeOf(observed))
  /\ pc' = "settle"
  /\ node_verification' = [attempt |-> attempt, accepted |-> observed.status = "success"]
  /\ UNCHANGED <<contract, observed, verification, ledgerVars>>

\* append_outcome; dispatch returns, and the report notes the verdict.
AppendOutcome ==
  /\ pc = "append"
  /\ Finish(OutcomeOf(observed))
  /\ pc' = "settle"
  /\ node_verification' = [attempt |-> attempt, accepted |-> verification.accepted]
  /\ UNCHANGED <<contract, observed, verification, ledgerVars>>

\* Variant: a commit that fails sends the node to another attempt.
SettleAgain ==
  /\ pc = "settle"
  /\ \/ Succeed \/ RetryAttempt \/ GiveUp
     \/ Unsettled /\ attempt < MaxAttempts /\ attempt' = attempt + 1
        /\ UNCHANGED <<worker, history, verdict>>
  /\ pc' = "work"
  /\ observed' = Nothing
  /\ verification' = Nothing
  /\ UNCHANGED <<contract, ledgerVars, node_verification>>

\* The patch is committed or rolled back and the next step decided.
Settle ==
  /\ pc = "settle"
  /\ Succeed \/ RetryAttempt \/ GiveUp
  /\ pc' = "work"
  /\ observed' = Nothing
  /\ verification' = Nothing
  /\ UNCHANGED <<contract, ledgerVars, node_verification>>

\* The step under way raises, or the process dies; an open transaction is undone.
Abort ==
  /\ Raise
  /\ UNCHANGED <<contract, pc, observed, verification, ledgerVars, node_verification>>

Over == ~Running /\ UNCHANGED attemptVars

Step ==
  \/ Judge \/ RecordRun \/ RecordSubtask \/ AppendOutcome \/ Settle

AttemptNext == Step \/ Abort \/ Over

AttemptSpec == AttemptInit /\ [][AttemptNext]_attemptVars

\* The process goes on, and workers, checks and stores answer within a timeout.
FairAttemptSpec == AttemptSpec /\ WF_attemptVars(Step)

-----------------------------------------------------------------------------
(* Properties *)

\* The check is one the node's verification looks at.
Counts(check) == contract.patch \/ check.template \notin PROPOSAL_CHECKS

\* A result is accepted exactly if everything it was asked for was proved: the
\* worker succeeded and broke no policy, no hook raised, its patch went in, each
\* check of both phases passed, the evidence is there, and there was no question
\* only a reviewer can answer.  Every rejection carries a failure to decide by and
\* every acceptance none: with neither, the loop would be left without a decision.
VerdictIsGrounded ==
  observed # Nothing =>
    /\ verification.accepted <=>
         /\ PassesPrecheck(observed) /\ observed.lifecycle = "none"
         /\ contract.patch => observed.integration = "applied"
         /\ \A i \in DOMAIN observed.checks :
              Counts(observed.checks[i]) => RunCheck(observed.checks[i]).status = "ok"
         /\ observed.evidence \in {"none", "present"}
         /\ ~contract.semantic
    /\ verification.accepted <=> verification.failures = << >>
    /\ verification.accepted <=> verification.confidence \in {"high", "medium"}

\* The three records of the attempts tell the same story, up to the one attempt
\* whose outcome is not in the history yet, or never will be: ledger and history
\* have the same workers in the same order, and the ledger's verdict is the
\* history's attribution; a verdict the report still has of an earlier attempt is a
\* rejection, so that the root verifier is not shown a stale acceptance when the
\* attempt under way raises.
RecordsAgree ==
  /\ Len(subtasks) \in {Len(history), Len(history) + 1}
  /\ subtasks # << >> => run_row
  /\ \A i \in 1..Len(history) :
       /\ subtasks[i].worker = history[i].worker
       /\ subtasks[i].accepted <=> Charged(i) = "none"
  /\ node_verification.attempt < attempt => ~node_verification.accepted
  /\ verdict = "succeeded" =>
       /\ subtasks[Len(subtasks)].accepted
       /\ node_verification = [attempt |-> attempt, accepted |-> TRUE]

\* A stored fact comes from a recorded subtask whose worker succeeded, and from a
\* check its contract has and its verification looked at; an accepted subtask has
\* the fact of each of them.
FactsHaveGrounds ==
  /\ \A f \in facts :
       /\ f.subtask \in DOMAIN subtasks
       /\ subtasks[f.subtask].status = "success"
       /\ \E i \in DOMAIN contract.templates :
            f.template = contract.templates[i] /\ Counts([template |-> f.template])
  /\ \A s \in DOMAIN subtasks : subtasks[s].accepted =>
       \A i \in DOMAIN contract.templates :
         Counts([template |-> contract.templates[i]]) =>
           [subtask |-> s, template |-> contract.templates[i]] \in facts

\* The steps of dispatch make up the attempts of RetryLoop.
ImplementsRetryLoop == Spec

\* Every node comes to an end: its attempts are bounded and each of them ends.
AttemptsEnd == <>(verdict # "running")
=============================================================================
