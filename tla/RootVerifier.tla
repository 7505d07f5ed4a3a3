---------------------------- MODULE RootVerifier ----------------------------
(***************************************************************************)
(* The verification of a whole graph against the root contract             *)
(* (c4harness/verifier/root.py, application/verify_root.py).  It looks at  *)
(*   p   the proposal the plan was compiled from,                          *)
(*   r   what the execution left behind: per node its state, what is known *)
(*       of its verification ("accepted", "rejected", "none") and the      *)
(*       paths its evidence cites; and the decisions on semantic criteria, *)
(*       a function of criterion ids.                                      *)
(***************************************************************************)
EXTENDS ProposalCompiler

\* Variant: only blocked nodes are looked for.
NothingIsBlocked(r) == \A n \in DOMAIN r.state : r.state[n] # "blocked"

\* _check_graph_health: no failure and, once every node is at its end, nothing
\* blocked and no deadlock.
GraphIsHealthy(r) ==
  LET states == {r.state[n] : n \in DOMAIN r.state} IN
  /\ "failed" \notin states
  /\ states \subseteq {"succeeded", "failed", "blocked"} => states \subseteq {"succeeded"}

MissingVerifications(r) ==
  {n \in DOMAIN r.state : r.state[n] = "succeeded" /\ r.verification[n] = "none"}

AcceptedNodes(r) ==
  {n \in DOMAIN r.state : r.state[n] = "succeeded" /\ r.verification[n] = "accepted"}

CoveredRequirements(p, r) == UNION {Contract(p, n).refs : n \in AcceptedNodes(r)}

\* A criterion with a known template is decided by coverage alone: the template
\* is not run.  Any other one is left to a reviewer.
CriterionStatus(p, r, c) ==
  IF c.check \notin DOMAIN Templates
  THEN IF c.id \notin DOMAIN r.decisions THEN "inconclusive"
       ELSE IF r.decisions[c.id] THEN "covered" ELSE "uncovered"
  ELSE IF c.refs # {} THEN
         IF c.refs \subseteq CoveredRequirements(p, r) THEN "covered" ELSE "uncovered"
  ELSE IF AcceptedNodes(r) # {} THEN "covered" ELSE "uncovered"

CriterionStatuses(p, r) == {CriterionStatus(p, r, c) : c \in Members(p.criteria)}

\* The paths that the evidence of two accepted nodes cites.
ArtifactConflicts(r) ==
  {a \in UNION {r.evidence[n] : n \in AcceptedNodes(r)} :
     \E m, n \in AcceptedNodes(r) : m # n /\ a \in r.evidence[m] \cap r.evidence[n]}

SelfReportClaims(p, r) ==
  {n \in AcceptedNodes(r) : Contract(p, n).checks = {} /\ ~Contract(p, n).evidence}

\* What stands against acceptance whatever a reviewer says: a constraint has to be
\* covered even when it is optional.
HasIssues(p, r) ==
  \/ MissingVerifications(r) # {}
  \/ ~(RequiredIds(p) \union OfKind(p, "constraint") \subseteq CoveredRequirements(p, r))
  \/ "uncovered" \in CriterionStatuses(p, r)
  \/ ArtifactConflicts(r) # {}

\* RootVerificationResult.confidence; the root is accepted when it is "high".
RootConfidence(p, r) ==
  IF ~GraphIsHealthy(r) THEN "blocked"
  ELSE IF HasIssues(p, r) THEN "low"
  ELSE IF "inconclusive" \in CriterionStatuses(p, r) THEN "inconclusive"
  ELSE IF SelfReportClaims(p, r) # {} THEN "inconclusive"
  ELSE "high"
=============================================================================
