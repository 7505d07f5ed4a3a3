---------------------------- MODULE RetryPolicy ----------------------------
(***************************************************************************)
(* What is made of one finished attempt at a node, twice over: the bounded *)
(* retry decision (c4harness/decompose/replan.py) and the attribution that *)
(* enters the worker's history (c4harness/history/attribution.py).  The    *)
(* two are computed apart, from the same evidence.                         *)
(*                                                                         *)
(* An outcome is a record                                                  *)
(*   exception          what the worker backend raised, "none" if nothing  *)
(*   status             "success" or "failed", as the worker reports       *)
(*   policy_violations  whether the worker's result lists any              *)
(*   failures           the verifier's structured failures, in the order   *)
(*                      they were found; empty when it accepted            *)
(*   conflict           whether integration met a conflict                 *)
(***************************************************************************)
EXTENDS Naturals, Sequences

\* The failures the verifier and the integration step produce: category and
\* retryable flag; cause is what went wrong, which the code does not record.
Failure(category, retryable, cause) ==
  [category |-> category, retryable |-> retryable, cause |-> cause]

WorkerFailed == Failure("worker", TRUE, "worker")
CheckRejected == Failure("deterministic_rejection", TRUE, "worker")
FileMissing == Failure("deterministic_rejection", TRUE, "missing_file")
PatchMissing == Failure("contract", TRUE, "worker")
ContractBlocked == Failure("contract", FALSE, "contract")
PolicyBlocked == Failure("policy_permission", FALSE, "policy")
EnvironmentBlocked == Failure("environment", FALSE, "environment")
Conflicting == Failure("integration_conflict", FALSE, "conflict")
EvidenceMissing == Failure("missing_context", FALSE, "context")
Inconclusive == Failure("semantic_inconclusive", FALSE, "context")
\* A rename of the patch transaction raised OSError.
TransactionFailed == Failure("deterministic_rejection", TRUE, "environment")

FailureKind ==
  {WorkerFailed, CheckRejected, FileMissing, PatchMissing, ContractBlocked, PolicyBlocked,
   EnvironmentBlocked, Conflicting, EvidenceMissing, Inconclusive, TransactionFailed}

Categories(o) == {o.failures[i].category : i \in DOMAIN o.failures}

Accepted(o) == o.status = "success" /\ o.failures = << >>

-----------------------------------------------------------------------------
(* Classification *)

OSErrors == {"permission", "not_found", "os_error"}

DecisiveReason ==
  [policy_permission    |-> "permission_blocked",
   environment          |-> "environment_failure",
   integration_conflict |-> "conflict_detected",
   missing_context      |-> "missing_context"]

\* The places of the failures that decide the reason on their own.
Decisive(o) == {i \in DOMAIN o.failures : o.failures[i].category \in DOMAIN DecisiveReason}

First(places) == CHOOSE i \in places : \A j \in places : i <= j

\* Variant: the last failure decides.
LastFailureReason(o) ==
  LET last == o.failures[Len(o.failures)].category IN
  IF o.conflict THEN "conflict_detected"
  ELSE IF o.failures = << >> THEN "none"
  ELSE IF last \in DOMAIN DecisiveReason THEN DecisiveReason[last]
  ELSE "verification_failed"

\* classify_replan_reason, "none" for an accepted outcome.
Reason(o) ==
  IF o.conflict THEN "conflict_detected"
  ELSE IF o.policy_violations THEN "permission_blocked"
  ELSE IF o.exception \in OSErrors THEN "environment_failure"
  ELSE IF o.failures = << >> THEN "none"
  ELSE IF Decisive(o) # {} THEN DecisiveReason[o.failures[First(Decisive(o))].category]
  ELSE IF "semantic_inconclusive" \in Categories(o) THEN "verification_inconclusive"
  ELSE "verification_failed"

NonRetryable == {"policy_permission", "environment", "integration_conflict"}

\* Variant: only what the worker itself reported may be retried.
RetryableWorkerOnly(o) == \A i \in DOMAIN o.failures : o.failures[i].category = "worker"

\* _is_retryable_by_failures
Retryable(o) ==
  \A i \in DOMAIN o.failures :
    /\ o.failures[i].category \notin NonRetryable
    /\ \/ o.failures[i].retryable
       \/ o.failures[i].category \in {"worker", "semantic_inconclusive"}

-----------------------------------------------------------------------------
(* decide_retry, "none" when there is nothing to decide. *)

Retries == {"retry_same_worker", "select_another_worker"}

\* Variant: the budget is one attempt too large.
DecideRetryOnceMore(o, attempt, budget, fallback) ==
  LET reason == Reason(o) IN
  IF reason = "none" THEN "none"
  ELSE IF reason = "environment_failure" THEN "stop"
  ELSE IF reason \in {"permission_blocked", "conflict_detected"} \/ ~Retryable(o)
       THEN "escalate_main_agent"
  ELSE IF attempt <= budget THEN "retry_same_worker"
  ELSE "escalate_main_agent"

DecideRetry(o, attempt, budget, fallback) ==
  LET reason == Reason(o) IN
  IF reason = "none" THEN "none"
  ELSE IF reason \in {"permission_blocked", "conflict_detected"}
       THEN "escalate_main_agent"
  ELSE IF reason = "environment_failure" THEN "stop"
  ELSE IF attempt < budget /\ reason = "missing_context" THEN "add_context"
  ELSE IF attempt < budget /\ reason = "verification_inconclusive" THEN "revise_contract"
  ELSE IF attempt >= budget \/ ~Retryable(o) THEN "escalate_main_agent"
  ELSE IF fallback THEN "select_another_worker"
  ELSE "retry_same_worker"

\* The actions the graph service cannot carry out become an escalation.
Executable(action) ==
  IF action \in {"add_context", "revise_contract"} THEN "escalate_main_agent" ELSE action

-----------------------------------------------------------------------------
(* attribute_outcome *)

ExceptionAttribution ==
  [permission |-> "permission_blocked",
   not_found  |-> "missing_context",
   os_error   |-> "environment_failure",
   timeout_expired |-> "worker_error",
   other      |-> "worker_error"]

\* Variant: a status other than success decides before the exception does.
AttributionByStatus(o) ==
  IF o.status # "success" THEN "worker_error" ELSE "none"

Attribution(o) ==
  LET has(c) == c \in Categories(o) IN
  IF o.exception # "none" THEN ExceptionAttribution[o.exception]
  ELSE IF o.policy_violations THEN "permission_blocked"
  ELSE IF o.status # "success" THEN "worker_error"
  ELSE IF o.failures = << >> THEN "none"
  ELSE IF \E i \in DOMAIN o.failures : o.failures[i].cause = "missing_file"
       THEN "missing_context"
  ELSE IF has("policy_permission") THEN "permission_blocked"
  ELSE IF has("environment") THEN "environment_failure"
  ELSE IF has("integration_conflict") THEN "integration_conflict"
  ELSE IF has("missing_context") THEN "missing_context"
  ELSE IF has("contract") THEN "decomposition_error"
  ELSE IF has("semantic_inconclusive") THEN "verification_inconclusive"
  ELSE "worker_error"

\* What build_capability_profile leaves out of a worker's evidence.
Excluded ==
  {"environment_failure", "permission_blocked", "consent_scope_changed",
   "missing_context", "decomposition_error", "assignment_error",
   "integration_conflict"}

\* Negative evidence against the worker.
Blamed(attribution) == attribution = "worker_error"
=============================================================================
