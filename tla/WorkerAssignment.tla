-------------------------- MODULE WorkerAssignment --------------------------
(***************************************************************************)
(* Which worker gets a node: the hard filter                               *)
(* (c4harness/decompose/capabilities.py), the soft score over it           *)
(* (decompose/assignment.py) with its evidence from the execution history  *)
(* (history/profiles.py), and the fallback of graph-run (cli/main.py).     *)
(*                                                                         *)
(* A worker has the capabilities that are either there or not in offers,   *)
(* and one value each for isolation, protocol and zone; a node's needs     *)
(* name the ones it must have (all), and the values it allows (any), where *)
(* no value means every value.  Weights, soft capabilities and preferences *)
(* are counted in tenths.  A score is an exact fraction of hundredths, num *)
(* over den; the code has the same sum in floating point.                  *)
(***************************************************************************)
EXTENDS RetryPolicy, Integers, Excerpts
LOCAL INSTANCE FiniteSetsExt

CONSTANTS
  Arm  \* the worker manifest: per worker id, its arm and its preference

ASSUME ArmAssumption == DOMAIN Arm \subseteq Nat /\ IsFiniteSet(DOMAIN Arm)

-----------------------------------------------------------------------------
(* The hard filter *)

\* match_capabilities
Matches(needs, w) ==
  /\ Arm[w].enabled
  /\ needs.all \subseteq Arm[w].offers
  /\ needs.context <= Arm[w].context
  /\ \A k \in DOMAIN needs.any : needs.any[k] # {} => Arm[w].value[k] \in needs.any[k]

Eligible(needs) == {w \in DOMAIN Arm : Matches(needs, w)}

-----------------------------------------------------------------------------
(* The evidence: a worker's history is a sequence of outcomes, each with   *)
(* the capability dimensions of its node, a status and an attribution.     *)

Dimensions(outcome) == IF outcome.dimensions = {} THEN {"general"} ELSE outcome.dimensions

\* Variant: what the environment did counts against the worker.
BucketByStatus(outcome) ==
  CASE outcome.status = "success" -> "success"
    [] outcome.status \in {"failed", "blocked"} -> "failure"
    [] OTHER -> "inconclusive"

\* build_capability_profile
Bucket(outcome) ==
  CASE outcome.attribution \in Excluded -> "excluded"
    [] outcome.attribution \notin Excluded /\ outcome.status = "success" -> "success"
    [] outcome.attribution \notin Excluded /\ outcome.status = "failed" -> "failure"
    [] OTHER -> "inconclusive"

\* The evidence of one bucket in the dimensions a node asks for, by outcome and
\* dimension; a node that asks for none is shown all of it.
Evidence(soft, outcomes, bucket) ==
  {e \in UNION {{i} \X Dimensions(outcomes[i]) : i \in DOMAIN outcomes} :
     /\ DOMAIN soft # {} => e[2] \in DOMAIN soft
     /\ Bucket(outcomes[e[1]]) = bucket}

Count(soft, outcomes, bucket) == Cardinality(Evidence(soft, outcomes, bucket))

Samples(soft, outcomes) == Count(soft, outcomes, "success") + Count(soft, outcomes, "failure")

\* The share of the successes, a half without evidence.
Quality(soft, outcomes) ==
  IF Samples(soft, outcomes) = 0 THEN [num |-> 1, den |-> 2]
  ELSE [num |-> Count(soft, outcomes, "success"), den |-> Samples(soft, outcomes)]

\* The uncertainty is one over this.
Certainty(soft, outcomes) == 1 + Samples(soft, outcomes)

SoftMatch(soft, w) ==
  MapThenSumSet(LAMBDA d : soft[d] * Arm[w].soft[d], DOMAIN soft \cap DOMAIN Arm[w].soft)

\* ScoreBreakdown.total, the quality weighted with 0.20 and the uncertainty with
\* 0.10; the compiler passes no token, latency or risk estimates.
Score(soft, w, outcomes) ==
  LET q == Quality(soft, outcomes)
      c == Certainty(soft, outcomes)
  IN [num |-> (SoftMatch(soft, w) + Arm[w].preference) * (q.den * c) + 20 * (q.num * c) - 10 * q.den,
      den |-> q.den * c]

AtLeast(x, y) == x.num * y.den >= y.num * x.den

-----------------------------------------------------------------------------
(* The decision *)

\* The higher score goes first, among equal ones the lower id.
RanksBefore(soft, v, w, histories) ==
  LET s == Score(soft, v, histories[v])
      t == Score(soft, w, histories[w])
  IN AtLeast(s, t) /\ (AtLeast(t, s) => v < w)

\* The eligible workers in that order, the assigned one first.
Ranking(needs, soft, histories) ==
  LET ahead(w) == Cardinality({v \in Eligible(needs) : RanksBefore(soft, v, w, histories)}) IN
  [k \in 1..Cardinality(Eligible(needs)) |-> CHOOSE w \in Eligible(needs) : ahead(w) = k - 1]

\* The backends graph-run can materialize for a fallback.
Runnable(w, provider) ==
  \/ Arm[w].backend = "claude_cli"
  \/ Arm[w].backend = "codex_subagent" /\ provider

\* fallback_worker: the candidates other than the current worker, best first.
FallbackCandidates(ranking, current, provider) ==
  At(ranking, {i \in DOMAIN ranking : ranking[i] # current /\ Runnable(ranking[i], provider)})

-----------------------------------------------------------------------------
(* Properties of the score *)

\* No outcome that is charged to the environment, the policy, a conflict or the
\* decomposition changes what a worker is worth.
ForgivesOthers(soft, w, outcomes) ==
  Score(soft, w, outcomes)
    = Score(soft, w, At(outcomes, {i \in DOMAIN outcomes : outcomes[i].attribution \notin Excluded}))

\* One more success in a dimension the node asks for never lowers the score; one
\* more failure never raises it, provided the worker has succeeded before or has
\* never been tried: a worker with failures only gains by the next one, because
\* the uncertainty it takes off weighs more than the quality it costs.
LearnsFromEvidence(soft, w, outcomes) ==
  LET more(status, attribution) ==
        Append(outcomes, [dimensions |-> DOMAIN soft, status |-> status,
                          attribution |-> attribution])
  IN /\ AtLeast(Score(soft, w, more("success", "none")), Score(soft, w, outcomes))
     /\ Count(soft, outcomes, "success") > 0 \/ Samples(soft, outcomes) = 0
          => AtLeast(Score(soft, w, outcomes), Score(soft, w, more("failed", "worker_error")))
=============================================================================
