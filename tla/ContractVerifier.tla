-------------------------- MODULE ContractVerifier --------------------------
(***************************************************************************)
(* The verification of one worker result against its node's contract: the  *)
(* deterministic checks (c4harness/verifier/executable.py), the two phases *)
(* they run in around the integration of the patch (verifier/phases.py),   *)
(* and the sequence of gates between them (phased_verifier in              *)
(* application/run_graph.py).                                              *)
(*                                                                         *)
(* A check is a record [template, found]: what a runner finds when it      *)
(* looks (a file that is missing, a command that exits with 127, ...) is   *)
(* an input, what it makes of it is the code.  A result of a check has a   *)
(* status, the failures it reports and whether it states a fact; a result  *)
(* of a verification has                                                   *)
(*   accepted, confidence   as VerificationResult,                         *)
(*   failures               the structured failures, in order,             *)
(*   facts                  the templates that stated a fact.              *)
(***************************************************************************)
EXTENDS RetryPolicy, Excerpts

CheckResult(status, failures, fact) ==
  [status |-> status, failures |-> failures, fact |-> fact]

Passed == CheckResult("ok", << >>, TRUE)
Rejected(f) == CheckResult("failed", <<f>>, FALSE)
Unproved(f) == CheckResult("inconclusive", <<f>>, FALSE)
Blocked(f) == CheckResult("blocked", <<f>>, FALSE)
\* A fact is stated although nothing was proved; nothing is wrong but nothing stated.
UnprovedFact(f) == CheckResult("inconclusive", <<f>>, TRUE)
Satisfied == CheckResult("ok", << >>, FALSE)

-----------------------------------------------------------------------------
(* The runners: per template, the result of each finding. *)

FileExists ==
  [escapes |-> Rejected(CheckRejected),
   missing |-> Rejected(FileMissing),
   present |-> Passed]

\* The expected content is the observation the worker itself attached to the
\* file; without one the check stays open, but its fact is stated all the same.
FileContains ==
  [escapes    |-> Rejected(CheckRejected),
   missing    |-> Rejected(FileMissing),
   not_a_file |-> Rejected(CheckRejected),
   no_hint    |-> UnprovedFact(Inconclusive),
   unreadable |-> Unproved(Inconclusive),
   contains   |-> Passed,
   differs    |-> Rejected(CheckRejected)]

\* A command that cannot be found is the environment's fault; one that may not
\* be run, or cannot be started for another reason, is the contract's.
CommandExitZero ==
  [empty     |-> Blocked(ContractBlocked),
   not_found |-> Blocked(EnvironmentBlocked),
   denied    |-> Blocked(ContractBlocked),
   os_error  |-> Blocked(ContractBlocked),
   timed_out |-> Unproved(Inconclusive),
   exit_0    |-> Passed,
   exit_127  |-> Blocked(EnvironmentBlocked),
   exit_1    |-> Rejected(CheckRejected)]

OutputMatches ==
  [bad_pattern |-> Blocked(ContractBlocked),
   no_output   |-> Unproved(Inconclusive),
   matches     |-> Passed,
   differs     |-> Rejected(CheckRejected)]

JsonSchemaValid ==
  [escapes    |-> Rejected(CheckRejected),
   missing    |-> Rejected(CheckRejected),
   not_a_file |-> Rejected(CheckRejected),
   unreadable |-> Unproved(Inconclusive),
   malformed  |-> Rejected(CheckRejected),
   valid      |-> Passed]

\* Without a "test_command:" among the evidence requirements nothing is run.
TestsPass ==
  [no_command |-> Unproved(Inconclusive),
   not_found  |-> Blocked(EnvironmentBlocked),
   denied     |-> Blocked(ContractBlocked),
   os_error   |-> Blocked(ContractBlocked),
   timed_out  |-> Unproved(Inconclusive),
   exit_0     |-> Passed,
   exit_127   |-> Blocked(EnvironmentBlocked),
   exit_1     |-> Rejected(CheckRejected)]

ChangedPathsWithinAllowlist ==
  [no_changes   |-> Unproved(Inconclusive),
   no_allowlist |-> Rejected(CheckRejected),
   outside      |-> Rejected(CheckRejected),
   within       |-> Passed]

PatchNonEmpty ==
  [no_path    |-> Rejected(CheckRejected),
   missing    |-> Rejected(CheckRejected),
   unreadable |-> Unproved(Inconclusive),
   empty      |-> Rejected(CheckRejected),
   no_hunk    |-> Rejected(CheckRejected),
   has_hunk   |-> Passed]

\* The node is asked for its own references, so none is ever missing.
RequirementCoverage ==
  [no_refs |-> Unproved(Inconclusive),
   covered |-> Passed]

\* An expression parse_template_check refuses.
Unparsable == [any |-> Blocked(ContractBlocked)]

EvidenceRequirements ==
  [none    |-> Satisfied,
   present |-> Satisfied,
   missing |-> Unproved(EvidenceMissing),
   escapes |-> Blocked(PolicyBlocked)]

Runner ==
  [file_exists       |-> FileExists,
   file_contains     |-> FileContains,
   command_exit_zero |-> CommandExitZero,
   output_matches    |-> OutputMatches,
   json_schema_valid |-> JsonSchemaValid,
   tests_pass        |-> TestsPass,
   changed_paths_within_allowlist |-> ChangedPathsWithinAllowlist,
   patch_non_empty      |-> PatchNonEmpty,
   requirement_coverage |-> RequirementCoverage,
   unparsable           |-> Unparsable]

RunCheck(check) == Runner[check.template][check.found]

-----------------------------------------------------------------------------
(* execute_checks *)

Result(accepted, confidence, failures, facts) ==
  [accepted |-> accepted, confidence |-> confidence, failures |-> failures, facts |-> facts]

\* The places of the blocked checks.
Halts(checks) == {i \in DOMAIN checks : RunCheck(checks[i]).status = "blocked"}

\* The checks that are executed: all up to the first that is blocked.
Executed(checks) ==
  IF Halts(checks) = {} THEN checks ELSE SubSeq(checks, 1, First(Halts(checks)))

\* Evidence and the semantic question are looked at when nothing is blocked; the
\* question can only be answered by a reviewer.
Closing(checks, evidence, semantic) ==
  IF Halts(checks) # {} THEN << >>
  ELSE <<EvidenceRequirements[evidence]>>
       \o IF semantic /\ evidence # "escapes" THEN <<Unproved(Inconclusive)>> ELSE << >>

Confidence(statuses, any_checks) ==
  IF "blocked" \in statuses THEN "blocked"
  ELSE IF "failed" \in statuses THEN "low"
  ELSE IF "inconclusive" \in statuses THEN "inconclusive"
  ELSE IF any_checks THEN "high" ELSE "medium"

\* The failures that are reported, in order; a result reports one or none.
Reported(results) ==
  LET reporting == At(results, {i \in DOMAIN results : results[i].failures # << >>}) IN
  [k \in DOMAIN reporting |-> reporting[k].failures[1]]

ExecuteChecks(checks, evidence, semantic) ==
  LET run == Executed(checks)
      results == [i \in DOMAIN run |-> RunCheck(run[i])]
      closing == Closing(checks, evidence, semantic)
      statuses == {results[i].status : i \in DOMAIN results}
                  \union {closing[i].status : i \in DOMAIN closing}
      confidence == Confidence(statuses, checks # << >>)
  IN Result(confidence \in {"high", "medium"}, confidence,
            Reported(results) \o Reported(closing),
            {run[i].template : i \in {j \in DOMAIN run : RunCheck(run[j]).fact}})

-----------------------------------------------------------------------------
(* The phases.  An observation gathers what one attempt is judged by:      *)
(*   contract   the node's: whether it patches, has a semantic check,      *)
(*   exception, status, policy_violations   how the worker returned,       *)
(*   checks     the contract's checks with what each finds,                *)
(*   evidence   what the evidence requirements find,                       *)
(*   integration   how the proposal fares when it is applied,              *)
(*   lifecycle  where a hook or the verifier raises: "before" the patch is *)
(*              applied, "after", or "none".                               *)

PROPOSAL_CHECKS ==
  {"changed_paths_within_allowlist", "patch_non_empty", "requirement_coverage"}

ProposalPlaces(checks) == {i \in DOMAIN checks : checks[i].template \in PROPOSAL_CHECKS}
ProposalChecks(checks) == At(checks, ProposalPlaces(checks))
IntegratedChecks(checks) == At(checks, DOMAIN checks \ ProposalPlaces(checks))

\* What _precheck answers for a worker that did not succeed or broke a policy;
\* a worker that did neither goes on to the checks.
Refusal(o) ==
  IF o.status # "success" THEN Result(FALSE, "low", <<WorkerFailed>>, {})
  ELSE Result(FALSE, "blocked", <<PolicyBlocked>>, {})

PassesPrecheck(o) == o.status = "success" /\ ~o.policy_violations

VerifyPatchProposal(o) ==
  IF ~PassesPrecheck(o) THEN Refusal(o)
  ELSE ExecuteChecks(ProposalChecks(o.checks), "none", FALSE)

VerifyIntegratedNode(o) ==
  IF ~PassesPrecheck(o) THEN Refusal(o)
  ELSE ExecuteChecks(IntegratedChecks(o.checks), o.evidence, o.contract.semantic)

CombinePhaseResults(p, q) ==
  Result(p.accepted /\ q.accepted,
         IF "blocked" \in {p.confidence, q.confidence} THEN "blocked"
         ELSE IF \E r \in {p, q} : ~r.accepted /\ r.confidence # "inconclusive" THEN "low"
         ELSE IF ~(p.accepted /\ q.accepted) THEN "inconclusive"
         ELSE IF p.confidence = "high" /\ q.confidence = "high" THEN "high" ELSE "medium",
         p.failures \o q.failures, p.facts \union q.facts)

\* Why the proposal is turned down between the phases.
IntegrationFailure ==
  [no_patch    |-> Result(FALSE, "low", <<PatchMissing>>, {}),
   conflict    |-> Result(FALSE, "blocked", <<Conflicting>>, {}),
   refused     |-> Result(FALSE, "low", <<CheckRejected>>, {}),
   os_error    |-> Result(FALSE, "low", <<TransactionFailed>>, {}),
   mismatch    |-> Result(FALSE, "low", <<PolicyBlocked>>, {}),
   side_effect |-> Result(FALSE, "blocked", <<PolicyBlocked>>, {})]

\* Variant: what the second phase found replaces what the first one did.
PostPhaseOnly(o) ==
  LET post == VerifyIntegratedNode(o) IN
  IF o.integration \in DOMAIN IntegrationFailure THEN IntegrationFailure[o.integration] ELSE post

\* phased_verifier of a patch node.
PhasedVerification(o) ==
  LET proposal == VerifyPatchProposal(o)
      post == VerifyIntegratedNode(o)
  IN IF ~proposal.accepted THEN proposal
     ELSE IF o.integration \in DOMAIN IntegrationFailure
          THEN IntegrationFailure[o.integration]
     ELSE CombinePhaseResults(proposal, post)

\* A verifier or hook that raises replaces the whole verdict.
LifecycleError == Result(FALSE, "blocked", <<EnvironmentBlocked>>, {})

\* A node that writes nothing has only the second phase: the checks of the
\* first are never looked at.
Verification(o) ==
  IF o.lifecycle # "none" THEN LifecycleError
  ELSE IF o.contract.patch THEN PhasedVerification(o)
  ELSE VerifyIntegratedNode(o)

\* The integration met a conflict; a hook that raises later does not undo that.
Conflicts(o) ==
  /\ o.contract.patch
  /\ o.lifecycle # "before"
  /\ VerifyPatchProposal(o).accepted
  /\ o.integration = "conflict"

\* What decide_retry and attribute_outcome are given.
OutcomeOf(o) ==
  [exception |-> o.exception, status |-> o.status,
   policy_violations |-> o.policy_violations,
   failures |-> Verification(o).failures,
   conflict |-> Conflicts(o)]
=============================================================================
