--------------------------- MODULE MCNodeAttempts ---------------------------
(* NodeAttempts for TLC. *)
EXTENDS NodeAttempts

CONSTANTS W1, W2, W3
ThreeWorkers == <<W1, W2, W3>>

Contract(templates, patch, evidence, semantic) ==
  [templates |-> templates, patch |-> patch, evidence |-> evidence, semantic |-> semantic]

\* A patching node with the checks the compiler adds and one of its own; reporting
\* nodes with every other template, evidence and a question for a reviewer.
MCContracts ==
  {Contract(<<"patch_non_empty", "file_exists">>, TRUE, FALSE, FALSE),
   Contract(<<"changed_paths_within_allowlist", "requirement_coverage">>, TRUE, FALSE, FALSE),
   Contract(<<"command_exit_zero", "json_schema_valid">>, FALSE, FALSE, FALSE),
   Contract(<<"requirement_coverage", "file_contains">>, FALSE, TRUE, FALSE),
   Contract(<<"tests_pass", "unparsable">>, FALSE, FALSE, FALSE),
   Contract(<<"output_matches">>, FALSE, FALSE, TRUE)}

Outcome(exception, status, violations, failures, conflict) ==
  [exception |-> exception, status |-> status, policy_violations |-> violations,
   failures |-> failures, conflict |-> conflict]

\* The lists of failures the flow can produce: checks go on after a rejection and
\* stop at the first blocked one; a worker that raised or failed is not checked at
\* all; what ends the integration, or raises, replaces the whole list.
GoOn == {CheckRejected, FileMissing, Inconclusive, EvidenceMissing}
Stop == {ContractBlocked, PolicyBlocked, EnvironmentBlocked}
Lists ==
  {<< >>} \union {<<f>> : f \in GoOn \union Stop \union {PatchMissing, TransactionFailed}}
  \union {<<f, g>> : f \in GoOn, g \in GoOn \union Stop}
  \union {<<f, g, h>> : f \in GoOn, g \in GoOn, h \in GoOn \union Stop}

MCOutcomes ==
  {Outcome("none", "success", FALSE, fs, FALSE) : fs \in Lists}
  \union {Outcome("none", "success", FALSE, <<f>>, TRUE) : f \in {Conflicting, EnvironmentBlocked}}
  \union {Outcome("none", "success", TRUE, <<PolicyBlocked>>, FALSE)}
  \union {Outcome(e, "failed", FALSE, <<f>>, FALSE) :
            e \in DOMAIN ExceptionAttribution \union {"none"},
            f \in {WorkerFailed, EnvironmentBlocked}}
=============================================================================
