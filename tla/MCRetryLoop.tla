---------------------------- MODULE MCRetryLoop ----------------------------
(***************************************************************************)
(* RetryLoop for TLC.  The outcomes are those the flow can produce: checks *)
(* go on after a rejection and stop at the first blocked one, a worker     *)
(* that raised or reports failure is not checked at all, and a verifier or *)
(* hook that raises replaces the whole list.                               *)
(***************************************************************************)
EXTENDS RetryLoop

CONSTANTS W1, W2, W3
ThreeWorkers == <<W1, W2, W3>>

Outcome(exception, status, violations, failures) ==
  [exception |-> exception, status |-> status, policy_violations |-> violations,
   failures |-> failures,
   conflict |-> \E i \in DOMAIN failures : failures[i].category = "integration_conflict"]

GoOn == {CheckRejected, FileMissing, Inconclusive, EvidenceMissing}
Stop == {ContractBlocked, PolicyBlocked, EnvironmentBlocked}

CheckFailures ==
  {<< >>} \union {<<f>> : f \in GoOn \union Stop}
          \union {<<f, g>> : f \in {CheckRejected, FileMissing, Inconclusive}, g \in GoOn \union Stop}

IntegrationFailures == {<<PatchMissing>>, <<Conflicting>>, <<TransactionFailed>>}

FlowOutcomes ==
  {Outcome("none", "success", FALSE, fs) : fs \in CheckFailures \union IntegrationFailures}
  \union {Outcome("none", "success", TRUE, fs) : fs \in {<<PolicyBlocked>>, <<EnvironmentBlocked>>}}
  \union {Outcome(e, "failed", FALSE, fs) :
            e \in DOMAIN ExceptionAttribution \union {"none"},
            fs \in {<<WorkerFailed>>, <<EnvironmentBlocked>>}}
=============================================================================
