----------------------------- MODULE RetryLoop -----------------------------
(***************************************************************************)
(* The attempts at one node: the loop of run_node in                       *)
(* c4harness/application/run_graph.py, with everything an attempt does     *)
(* reduced to its outcome.  Each attempt leaves one entry in the history   *)
(* of the worker that made it, unless it raises before.  NodeAttempts has  *)
(* the steps an attempt is made of.                                        *)
(***************************************************************************)
EXTENDS RetryPolicy, FiniteSets

CONSTANTS
  Worker,      \* the eligible workers, best candidate first
  MaxAttempts, \* the node's attempt budget
  Outcomes     \* the outcomes an attempt can have

ASSUME WorkerAssumption == Worker \in Seq({Worker[w] : w \in DOMAIN Worker}) /\ Worker # << >>
ASSUME MaxAttemptsAssumption == MaxAttempts \in Nat \ {0}
\* An outcome without a failure to decide by is a success with nothing against it.
ASSUME OutcomeAssumption == \A o \in Outcomes :
  /\ o.exception \in DOMAIN ExceptionAttribution \union {"none"}
  /\ o.failures \in Seq(FailureKind)
  /\ o.failures = << >> => /\ o.status = "success" /\ o.exception = "none"
                          /\ ~o.policy_violations /\ ~o.conflict

VARIABLES
  attempt,   \* the number of the attempt under way
  worker,    \* the worker assigned to it (an index of Worker)
  history,   \* per finished attempt: its worker and its outcome
  verdict    \* "running", "succeeded", "raised", or the decision that ended the loop

vars == <<attempt, worker, history, verdict>>

\* The fallback factory: the best candidate other than the current worker.
Fallback(w) ==
  {v \in DOMAIN Worker \ {w} : \A u \in DOMAIN Worker \ {w} : v <= u}

Init ==
  /\ attempt = 1
  /\ worker \in DOMAIN Worker
  /\ history = << >>
  /\ verdict = "running"

Record(o) ==
  history' = Append(history, [worker |-> worker, outcome |-> o])

\* dispatch returns, with the outcome in the history; the attempt is not settled.
Finish(o) ==
  /\ verdict = "running"
  /\ Len(history) = attempt - 1
  /\ Record(o)
  /\ UNCHANGED <<attempt, worker, verdict>>

Unsettled == verdict = "running" /\ Len(history) = attempt
Latest == history[attempt].outcome

Decision(o) ==
  Executable(DecideRetry(o, attempt, MaxAttempts,
                         attempt < MaxAttempts /\ Fallback(worker) # {}))

Succeed ==
  /\ Unsettled
  /\ Accepted(Latest)
  /\ verdict' = "succeeded"
  /\ UNCHANGED <<attempt, worker, history>>

RetryAttempt ==
  /\ Unsettled
  /\ ~Accepted(Latest)
  /\ Decision(Latest) \in Retries
  /\ attempt' = attempt + 1
  /\ IF Decision(Latest) = "select_another_worker" THEN worker' \in Fallback(worker)
                                                   ELSE UNCHANGED worker
  /\ UNCHANGED <<history, verdict>>

GiveUp ==
  /\ Unsettled
  /\ ~Accepted(Latest)
  /\ Decision(Latest) \notin Retries
  /\ verdict' = Decision(Latest)
  /\ UNCHANGED <<attempt, worker, history>>

\* Preparing the worker, writing the ledger, the commit or the rollback of the
\* patch raises out of the loop; the attempt may or may not be in the history.
Raise ==
  /\ verdict = "running"
  /\ verdict' = "raised"
  /\ UNCHANGED <<attempt, worker, history>>

Ended == verdict # "running" /\ UNCHANGED vars

Next == \/ \E o \in Outcomes : Finish(o)
        \/ Succeed \/ RetryAttempt \/ GiveUp \/ Raise
        \/ Ended

Spec == Init /\ [][Next]_vars

-----------------------------------------------------------------------------
(* Properties *)

TypeOK ==
  /\ attempt \in 1..MaxAttempts
  /\ worker \in DOMAIN Worker
  /\ history \in Seq([worker : DOMAIN Worker, outcome : Outcomes])
  /\ verdict \in {"running", "succeeded", "raised", "stop", "escalate_main_agent"}
  /\ Len(history) \in {attempt - 1, attempt}
  /\ verdict \notin {"running", "raised"} => Len(history) = attempt

Made == 1..Len(history)

\* What history charges attempt i to.
Charged(i) == Attribution(history[i].outcome)

\* An attempt that history charges to the policy, to the environment or to a
\* conflict is the last one, in whatever place of the list of failures the
\* reason stands: the decision and the attribution agree, although they are
\* computed by different rules.
ExcludedIsFinal ==
  \A i \in Made :
    Charged(i) \in {"permission_blocked", "environment_failure",
                                "integration_conflict"}
      => i = attempt

\* An outcome with a failure that must not be retried is the last one.
VetoIsFinal ==
  \A i \in Made :
    Categories(history[i].outcome) \cap (NonRetryable \union {"missing_context"}) # {}
      => i = attempt

\* The loop gives up before its budget is spent only if what went wrong is not
\* the worker's: a failure the code calls retryable never costs a node its
\* second attempt, unless an unprovable check stands beside it.
BudgetIsUsed ==
  verdict \in {"stop", "escalate_main_agent"} /\ attempt < MaxAttempts =>
    \/ Latest.conflict \/ Latest.policy_violations \/ Latest.exception \in OSErrors
    \/ \E i \in DOMAIN Latest.failures : ~Latest.failures[i].retryable

\* While there is another candidate, no worker is asked twice in a row.
FailedWorkerIsReplaced ==
  Len(Worker) > 1 =>
    \A i \in 1..(Len(history) - 1) : history[i].worker # history[i + 1].worker

\* A success is never followed by another attempt and never charged to a worker;
\* a node succeeds only with one.  A node whose commit raises keeps the success
\* in its worker's history.
SuccessIsLast ==
  /\ \A i \in Made :
       Charged(i) = "none" => i = attempt /\ verdict \in {"running", "succeeded", "raised"}
  /\ verdict = "succeeded" => Charged(attempt) = "none"

\* A worker that returned its result gets no negative evidence for what went
\* wrong in the environment afterwards.
EnvironmentNotBlamed ==
  \A i \in Made :
    history[i].outcome.status = "success" /\ Blamed(Charged(i)) =>
      \A j \in DOMAIN history[i].outcome.failures :
        history[i].outcome.failures[j].cause # "environment"
=============================================================================
