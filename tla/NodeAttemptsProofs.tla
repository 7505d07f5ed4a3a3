------------------------- MODULE NodeAttemptsProofs -------------------------
(***************************************************************************)
(* Proofs about NodeAttempts and the contract verifier, for any contract,  *)
(* workers and budget: what the verdict rests on, that the records of the  *)
(* attempts agree, and that dispatch implements RetryLoop.                 *)
(***************************************************************************)
EXTENDS NodeAttempts, RetryLoopProofs

-----------------------------------------------------------------------------
(* The checks *)

\* A result reports a failure exactly if it is not ok.
Sound(r) ==
  /\ r.status \in {"ok", "failed", "inconclusive", "blocked"}
  /\ r.failures = << >> <=> r.status = "ok"

LEMMA ResultsAreSound ==
  /\ Sound(Passed)
  /\ \A f : Sound(Rejected(f)) /\ Sound(Unproved(f)) /\ Sound(Blocked(f))
  /\ \A f : Sound(UnprovedFact(f))
  /\ Sound(Satisfied)
<1>1. \A f : << f >> # << >>
  OBVIOUS
<1>2. \A status, failures, fact :
        /\ CheckResult(status, failures, fact).status = status
        /\ CheckResult(status, failures, fact).failures = failures
  BY DEF CheckResult
<1>3. \A f, b : /\ Sound(CheckResult("inconclusive", <<f>>, b))
                /\ Sound(CheckResult("failed", <<f>>, b))
                /\ Sound(CheckResult("blocked", <<f>>, b))
                /\ Sound(CheckResult("ok", << >>, b))
  BY <1>1, <1>2 DEF Sound
<1> QED
  BY <1>3 DEF Passed, Rejected, Unproved, Blocked, UnprovedFact, Satisfied

AllSound(runner) == \A f \in DOMAIN runner : Sound(runner[f])

LEMMA PathRunnersAreSound == AllSound(FileExists) /\ AllSound(FileContains) /\ AllSound(JsonSchemaValid)
<1>1. AllSound(FileExists)
  BY ResultsAreSound DEF AllSound, FileExists
<1>2. AllSound(FileContains)
  BY ResultsAreSound DEF AllSound, FileContains
<1>3. AllSound(JsonSchemaValid)
  BY ResultsAreSound DEF AllSound, JsonSchemaValid
<1> QED
  BY <1>1, <1>2, <1>3

LEMMA CommandRunnersAreSound ==
  AllSound(CommandExitZero) /\ AllSound(OutputMatches) /\ AllSound(TestsPass)
<1>1. AllSound(CommandExitZero)
  BY ResultsAreSound DEF AllSound, CommandExitZero
<1>2. AllSound(OutputMatches)
  BY ResultsAreSound DEF AllSound, OutputMatches
<1>3. AllSound(TestsPass)
  BY ResultsAreSound DEF AllSound, TestsPass
<1> QED
  BY <1>1, <1>2, <1>3

LEMMA ProposalRunnersAreSound ==
  /\ AllSound(ChangedPathsWithinAllowlist) /\ AllSound(PatchNonEmpty)
  /\ AllSound(RequirementCoverage) /\ AllSound(Unparsable)
<1>1. AllSound(ChangedPathsWithinAllowlist)
  BY ResultsAreSound DEF AllSound, ChangedPathsWithinAllowlist
<1>2. AllSound(PatchNonEmpty)
  BY ResultsAreSound DEF AllSound, PatchNonEmpty
<1>3. AllSound(RequirementCoverage)
  BY ResultsAreSound DEF AllSound, RequirementCoverage
<1>4. AllSound(Unparsable)
  BY ResultsAreSound DEF AllSound, Unparsable
<1> QED
  BY <1>1, <1>2, <1>3, <1>4

\* A check a contract can have, with something its runner can find.
Possible(check) == check.template \in DOMAIN Runner /\ check.found \in DOMAIN Runner[check.template]

LEMMA ChecksAreSound ==
  ASSUME NEW check, Possible(check)
  PROVE  Sound(RunCheck(check))
<1>1. \A t \in DOMAIN Runner : AllSound(Runner[t])
  BY PathRunnersAreSound, CommandRunnersAreSound, ProposalRunnersAreSound DEF Runner
<1> QED
  BY <1>1 DEF Possible, RunCheck, AllSound

LEMMA EvidenceIsSound ==
  ASSUME NEW e \in DOMAIN EvidenceRequirements
  PROVE  /\ Sound(EvidenceRequirements[e])
         /\ EvidenceRequirements[e].status = "ok" <=> e \in {"none", "present"}
<1>1. AllSound(EvidenceRequirements)
  BY ResultsAreSound DEF AllSound, EvidenceRequirements
<1>2. EvidenceRequirements[e].status = "ok" <=> e \in {"none", "present"}
  BY DEF EvidenceRequirements, Unproved, Blocked, Satisfied, CheckResult
<1> QED
  BY <1>1, <1>2 DEF AllSound

-----------------------------------------------------------------------------
(* One execution of checks *)

\* Nothing is reported exactly if every result is ok.
LEMMA ReportedFacts ==
  ASSUME NEW results, List(results), \A i \in DOMAIN results : Sound(results[i])
  PROVE  /\ List(Reported(results))
         /\ Reported(results) = << >> <=> \A i \in DOMAIN results : results[i].status = "ok"
<1> DEFINE P == {i \in DOMAIN results : results[i].failures # << >>}
           t == At(results, P)
           r == [k \in DOMAIN t |-> t[k].failures[1]]
<1>1. Reported(results) = r
  BY DEF Reported
<1>2. List(t) /\ (t = << >> <=> P = {})
  BY AtIsList
<1>3. P = {} <=> \A i \in DOMAIN results : results[i].status = "ok"
  BY DEF Sound
<1> HIDE DEF P, t
<1>4. Len(t) \in Nat /\ DOMAIN t = 1..Len(t) /\ t \in Seq({t[i] : i \in DOMAIN t})
  BY <1>2, ListFacts
<1>5. List(r)
  BY <1>4 DEF List
<1>6. r = << >> <=> t = << >>
  <2>1. DOMAIN r = 1..Len(t)
    BY <1>4
  <2>2. r \in Seq({r[i] : i \in DOMAIN r})
    BY <1>5, ListFacts
  <2>3. r = << >> <=> Len(t) = 0
    BY <1>4, <2>1, <2>2
  <2>4. t = << >> <=> Len(t) = 0
    BY <1>4
  <2> QED
    BY <2>3, <2>4
<1> QED
  BY <1>1, <1>2, <1>3, <1>5, <1>6

\* What is looked at after the checks: nothing is wrong with it exactly if the
\* evidence is there and there is no question to a reviewer.
LEMMA ClosingFacts ==
  ASSUME NEW checks, NEW e \in DOMAIN EvidenceRequirements, NEW semantic \in BOOLEAN
  PROVE  LET closing == Closing(checks, e, semantic) IN
         /\ List(closing) /\ \A i \in DOMAIN closing : Sound(closing[i])
         /\ Halts(checks) = {} =>
              (\A i \in DOMAIN closing : closing[i].status = "ok")
                <=> e \in {"none", "present"} /\ ~semantic
<1> DEFINE closing == Closing(checks, e, semantic)
           ev == EvidenceRequirements[e]
<1>1. Sound(ev) /\ (ev.status = "ok" <=> e \in {"none", "present"})
  BY EvidenceIsSound
<1> HIDE DEF ev
<1>2. Sound(Unproved(Inconclusive)) /\ Unproved(Inconclusive).status = "inconclusive"
  BY ResultsAreSound DEF Unproved, CheckResult
<1>3. CASE Halts(checks) # {}
  <2>1. closing = << >>
    BY <1>3 DEF Closing
  <2>2. List(<< >>)
    BY DEF List
  <2> QED
    BY <1>3, <2>1, <2>2
<1>4. CASE Halts(checks) = {} /\ semantic /\ e # "escapes"
  <2>1. closing = << ev >> \o << Unproved(Inconclusive) >>
    BY <1>4, Zenon DEF Closing, ev
  <2> DEFINE S == {ev, Unproved(Inconclusive)}
  <2>2. << ev >> \in Seq(S) /\ << Unproved(Inconclusive) >> \in Seq(S)
    OBVIOUS
  <2>3. closing \in Seq(S) /\ Len(closing) = 2
    BY <2>1, <2>2
  <2>4. DOMAIN closing = 1..2 /\ closing[1] = ev /\ closing[2] = Unproved(Inconclusive)
    BY <2>1, <2>2, <2>3
  <2>5. List(closing)
    BY <2>3, SequenceIsList
  <2>6. \A i \in DOMAIN closing : i = 1 \/ i = 2
    BY <2>4
  <2> HIDE DEF closing
  <2>7. \A i \in DOMAIN closing : Sound(closing[i])
    BY <1>1, <1>2, <2>4, <2>6
  <2>8. closing[2].status # "ok" /\ 2 \in DOMAIN closing
    BY <1>2, <2>4
  <2> QED
    BY <1>4, <2>5, <2>7, <2>8 DEF closing
<1>5. CASE Halts(checks) = {} /\ ~(semantic /\ e # "escapes")
  <2>1. closing = << ev >> \o << >>
    BY <1>5, Zenon DEF Closing, ev
  <2>2. closing = << ev >>
    BY <2>1
  <2>3. List(<< ev >>)
    BY DEF List
  <2>4. DOMAIN closing = 1..1 /\ closing[1] = ev
    BY <2>2
  <2> QED
    BY <1>1, <1>5, <2>2, <2>3, <2>4
<1> QED
  BY <1>3, <1>4, <1>5

\* The executed checks are among the checks; they are all of them if none of them is
\* blocked, and have a blocked one otherwise.
LEMMA ExecutedFacts ==
  ASSUME NEW checks, List(checks)
  PROVE  LET run == Executed(checks) IN
         /\ List(run)
         /\ \A k \in DOMAIN run : \E i \in DOMAIN checks : run[k] = checks[i]
         /\ Halts(checks) = {} => run = checks
         /\ Halts(checks) # {} => \E k \in DOMAIN run : RunCheck(run[k]).status = "blocked"
<1>1. CASE Halts(checks) = {}
  BY <1>1 DEF Executed
<1>2. CASE Halts(checks) # {}
  <2> DEFINE h == First(Halts(checks))
  <2>1. Len(checks) \in Nat /\ DOMAIN checks = 1..Len(checks)
        /\ checks \in Seq({checks[i] : i \in DOMAIN checks})
    BY ListFacts
  <2>2. Halts(checks) \in SUBSET (1..Len(checks))
    BY <2>1 DEF Halts
  <2>3. h \in Halts(checks)
    <3>1. Halts(checks) \in SUBSET Nat /\ IsFiniteSet(Halts(checks))
      <4>1. IsFiniteSet(1..Len(checks))
        BY <2>1, FS_Interval
      <4> QED
        BY <2>1, <2>2, <4>1, FS_Subset
    <3> QED
      BY <1>2, <3>1, LeastExists DEF First
  <2>4. h \in 1..Len(checks) /\ RunCheck(checks[h]).status = "blocked"
    BY <2>2, <2>3 DEF Halts
  <2> HIDE DEF h
  <2> DEFINE run == SubSeq(checks, 1, h)
  <2>5. Executed(checks) = run
    BY <1>2 DEF Executed, h
  <2>6. Len(run) = h /\ DOMAIN run = 1..h /\ \A k \in 1..h : run[k] = checks[k]
    BY <2>1, <2>4
  <2>7. List(run)
    <3>1. run \in Seq({checks[i] : i \in DOMAIN checks})
      BY <2>1, <2>4
    <3> QED
      BY <3>1, SequenceIsList
  <2> QED
    <3>1. \A k \in DOMAIN run : k \in DOMAIN checks /\ run[k] = checks[k]
      BY <2>1, <2>4, <2>6
    <3>2. h \in DOMAIN run /\ RunCheck(run[h]).status = "blocked"
      BY <2>4, <2>6
    <3> HIDE DEF run
    <3> QED
      BY <1>2, <2>5, <2>7, <3>1, <3>2
<1> QED
  BY <1>1, <1>2

\* What a verdict has to be like: accepted if nothing is reported, and by confidence.
Coherent(r) ==
  /\ r.accepted \in BOOLEAN
  /\ List(r.failures)
  /\ r.accepted <=> r.failures = << >>
  /\ r.accepted <=> r.confidence \in {"high", "medium"}

LEMMA ResultFields ==
  ASSUME NEW accepted, NEW confidence, NEW failures, NEW fs
  PROVE  LET r == Result(accepted, confidence, failures, fs) IN
         /\ r.accepted = accepted /\ r.confidence = confidence
         /\ r.failures = failures /\ r.facts = fs
BY Zenon DEF Result

LEMMA ConcatIsList ==
  ASSUME NEW s, NEW t, List(s), List(t)
  PROVE  List(s \o t) /\ (s \o t = << >> <=> s = << >> /\ t = << >>)
<1> DEFINE S == {s[i] : i \in DOMAIN s} \union {t[i] : i \in DOMAIN t}
<1>1. s \in Seq({s[i] : i \in DOMAIN s}) /\ t \in Seq({t[i] : i \in DOMAIN t})
  BY ListFacts
<1>2. s \in Seq(S) /\ t \in Seq(S)
  BY <1>1
<1> HIDE DEF S
<1>3. s \o t \in Seq(S) /\ Len(s \o t) = Len(s) + Len(t)
  BY <1>2
<1>4. List(s \o t)
  BY <1>3, SequenceIsList
<1> QED
  BY <1>2, <1>3, <1>4

\* execute_checks accepts exactly what was proved.
LEMMA ExecutionFacts ==
  ASSUME NEW checks, List(checks), \A i \in DOMAIN checks : Possible(checks[i]),
         NEW e \in DOMAIN EvidenceRequirements, NEW semantic \in BOOLEAN
  PROVE  /\ Coherent(ExecuteChecks(checks, e, semantic))
         /\ ExecuteChecks(checks, e, semantic).accepted <=>
              /\ \A i \in DOMAIN checks : RunCheck(checks[i]).status = "ok"
              /\ e \in {"none", "present"} /\ ~semantic
<1> DEFINE run == Executed(checks)
           results == [i \in DOMAIN run |-> RunCheck(run[i])]
           closing == Closing(checks, e, semantic)
           statuses == {results[i].status : i \in DOMAIN results}
                       \union {closing[i].status : i \in DOMAIN closing}
           confidence == Confidence(statuses, checks # << >>)
           failures == Reported(results) \o Reported(closing)
           fs == {run[i].template : i \in {j \in DOMAIN run : RunCheck(run[j]).fact}}
           r == ExecuteChecks(checks, e, semantic)
           AllOk == /\ \A i \in DOMAIN results : results[i].status = "ok"
                    /\ \A i \in DOMAIN closing : closing[i].status = "ok"
<1>1. r = Result(confidence \in {"high", "medium"}, confidence, failures, fs)
  BY DEF ExecuteChecks
<1>2. /\ r.accepted = (confidence \in {"high", "medium"}) /\ r.confidence = confidence
      /\ r.failures = failures
  <2> HIDE DEF r, confidence, failures, fs
  <2> QED
    BY <1>1, ResultFields
<1> HIDE DEF r
<1>3. /\ List(run) /\ \A k \in DOMAIN run : \E i \in DOMAIN checks : run[k] = checks[i]
      /\ Halts(checks) = {} => run = checks
      /\ Halts(checks) # {} => \E k \in DOMAIN run : RunCheck(run[k]).status = "blocked"
  BY ExecutedFacts
<1> HIDE DEF run
<1>4. /\ List(results) /\ DOMAIN results = DOMAIN run
      /\ \A i \in DOMAIN results : Sound(results[i])
  <2>1. List(results)
    BY <1>3, ListFacts DEF List
  <2>2. \A i \in DOMAIN run : Possible(run[i])
    BY <1>3
  <2> QED
    BY <2>1, <2>2, ChecksAreSound
<1>5. /\ List(closing) /\ \A i \in DOMAIN closing : Sound(closing[i])
      /\ Halts(checks) = {} => (\A i \in DOMAIN closing : closing[i].status = "ok")
                                  <=> e \in {"none", "present"} /\ ~semantic
  BY ClosingFacts
<1>6. AllOk <=> /\ \A i \in DOMAIN checks : RunCheck(checks[i]).status = "ok"
                /\ e \in {"none", "present"} /\ ~semantic
  <2>1. CASE Halts(checks) = {}
    BY <1>3, <1>4, <1>5, <2>1
  <2>2. CASE Halts(checks) # {}
    BY <1>3, <2>2 DEF Halts
  <2> QED
    BY <2>1, <2>2
<1> HIDE DEF results, closing
<1>7. statuses \subseteq {"ok", "failed", "inconclusive", "blocked"}
  BY <1>4, <1>5 DEF Sound
<1>8. AllOk <=> \A s \in statuses : s = "ok"
  OBVIOUS
<1>9. failures = << >> <=> AllOk
  BY <1>4, <1>5, ReportedFacts, ConcatIsList
<1>10. List(failures)
  BY <1>4, <1>5, ReportedFacts, ConcatIsList
<1> HIDE DEF AllOk, statuses, failures
<1>11. confidence \in {"high", "medium"} <=> AllOk
  BY <1>7, <1>8 DEF Confidence
<1> QED
  <2>1. r.accepted <=> AllOk
    BY <1>2, <1>11
  <2>2. r.accepted \in BOOLEAN
    BY <1>2
  <2>3. Coherent(r)
    BY <1>2, <1>9, <1>10, <1>11, <2>1, <2>2 DEF Coherent
  <2> QED
    BY <1>6, <2>1, <2>3 DEF r

-----------------------------------------------------------------------------
(* The phases *)

\* A rejection with one failure.
Rejection(r) == Coherent(r) /\ ~r.accepted

LEMMA RejectionFacts ==
  ASSUME NEW f, NEW confidence \in {"low", "blocked"}
  PROVE  Rejection(Result(FALSE, confidence, <<f>>, {}))
<1> DEFINE r == Result(FALSE, confidence, <<f>>, {})
<1>1. r.accepted = FALSE /\ r.confidence = confidence /\ r.failures = <<f>>
  BY Zenon DEF Result
<1> HIDE DEF r
<1>2. List(<<f>>) /\ <<f>> # << >>
  BY DEF List
<1>3. Rejection(r)
  BY <1>1, <1>2 DEF Rejection, Coherent
<1> QED
  BY <1>3 DEF r

LEMMA RefusalIsRejection ==
  ASSUME NEW o
  PROVE  Rejection(Refusal(o)) /\ Rejection(LifecycleError)
<1>1. Rejection(Result(FALSE, "low", <<WorkerFailed>>, {}))
  BY RejectionFacts
<1>2. Rejection(Result(FALSE, "blocked", <<PolicyBlocked>>, {}))
  BY RejectionFacts
<1>3. Rejection(Result(FALSE, "blocked", <<EnvironmentBlocked>>, {}))
  BY RejectionFacts
<1> QED
  BY <1>1, <1>2, <1>3 DEF Refusal, LifecycleError

LEMMA IntegrationIsRejection ==
  /\ \A g \in DOMAIN IntegrationFailure : Rejection(IntegrationFailure[g])
  /\ "applied" \notin DOMAIN IntegrationFailure /\ "none" \notin DOMAIN IntegrationFailure
<1>1. \A f : Rejection(Result(FALSE, "low", <<f>>, {})) /\ Rejection(Result(FALSE, "blocked", <<f>>, {}))
  BY RejectionFacts
<1>2. ASSUME NEW g \in DOMAIN IntegrationFailure PROVE Rejection(IntegrationFailure[g])
  <2>1. g \in {"no_patch", "conflict", "refused", "os_error", "mismatch", "side_effect"}
    BY DEF IntegrationFailure
  <2>2. /\ IntegrationFailure["no_patch"] = Result(FALSE, "low", <<PatchMissing>>, {})
        /\ IntegrationFailure["conflict"] = Result(FALSE, "blocked", <<Conflicting>>, {})
        /\ IntegrationFailure["refused"] = Result(FALSE, "low", <<CheckRejected>>, {})
        /\ IntegrationFailure["os_error"] = Result(FALSE, "low", <<TransactionFailed>>, {})
        /\ IntegrationFailure["mismatch"] = Result(FALSE, "low", <<PolicyBlocked>>, {})
        /\ IntegrationFailure["side_effect"] = Result(FALSE, "blocked", <<PolicyBlocked>>, {})
    BY Zenon DEF IntegrationFailure
  <2> QED
    BY <1>1, <2>1, <2>2
<1>3. "applied" \notin DOMAIN IntegrationFailure /\ "none" \notin DOMAIN IntegrationFailure
  BY DEF IntegrationFailure
<1> QED
  BY <1>2, <1>3

\* Two phases together accept what both accept.
LEMMA CombinationFacts ==
  ASSUME NEW p, NEW q, Coherent(p), Coherent(q)
  PROVE  /\ Coherent(CombinePhaseResults(p, q))
         /\ CombinePhaseResults(p, q).accepted <=> p.accepted /\ q.accepted
<1> DEFINE accepted == p.accepted /\ q.accepted
           confidence ==
             IF "blocked" \in {p.confidence, q.confidence} THEN "blocked"
             ELSE IF \E r \in {p, q} : ~r.accepted /\ r.confidence # "inconclusive" THEN "low"
             ELSE IF ~(p.accepted /\ q.accepted) THEN "inconclusive"
             ELSE IF p.confidence = "high" /\ q.confidence = "high" THEN "high" ELSE "medium"
           failures == p.failures \o q.failures
           c == CombinePhaseResults(p, q)
<1>1. c = Result(accepted, confidence, failures, p.facts \union q.facts)
  BY DEF CombinePhaseResults
<1>2. c.accepted = accepted /\ c.confidence = confidence /\ c.failures = failures
  <2> HIDE DEF accepted, confidence, failures, c
  <2> QED
    BY <1>1, ResultFields
<1>3. List(failures) /\ (failures = << >> <=> accepted)
  BY ConcatIsList DEF Coherent
<1>4. confidence \in {"high", "medium"} <=> accepted
  BY DEF Coherent
<1> HIDE DEF accepted, confidence, failures, c
<1>5. accepted \in BOOLEAN
  BY DEF accepted
<1>6. Coherent(c) /\ (c.accepted <=> accepted)
  BY <1>2, <1>3, <1>4, <1>5 DEF Coherent
<1> QED
  BY <1>6 DEF c, accepted

\* The checks a node's verification looks at.
CountsFor(c, check) == c.patch \/ check.template \notin PROPOSAL_CHECKS

\* Whether a result was earned: VerdictIsGrounded's ground for an acceptance.
Earned(c, o) ==
  /\ PassesPrecheck(o) /\ o.lifecycle = "none"
  /\ c.patch => o.integration = "applied"
  /\ \A i \in DOMAIN o.checks :
       CountsFor(c, o.checks[i]) => RunCheck(o.checks[i]).status = "ok"
  /\ o.evidence \in {"none", "present"}
  /\ ~c.semantic

\* What a verdict can be made of.
LEMMA ContractFacts ==
  ASSUME NEW c \in Contracts
  PROVE  /\ c.templates \in Seq(DOMAIN Runner)
         /\ c.patch \in BOOLEAN /\ c.semantic \in BOOLEAN
BY ContractsAssumption

LEMMA ExaminedFacts ==
  ASSUME NEW c \in Contracts, NEW s \in Examined(c)
  PROVE  List(s) /\ \A i \in DOMAIN s : Possible(s[i])
<1>1. c.templates \in Seq(DOMAIN Runner)
  BY ContractFacts
<1>2. DOMAIN s = DOMAIN c.templates
  BY DEF Examined
<1> DEFINE possible(t) == {[template |-> t, found |-> f] : f \in DOMAIN Runner[t]}
<1> HIDE DEF possible
<1>3. s \in [DOMAIN c.templates -> UNION {possible(c.templates[i]) : i \in DOMAIN c.templates}]
  BY Zenon DEF Examined, possible
<1>4. ASSUME NEW i \in DOMAIN s PROVE Possible(s[i])
  <2>1. PICK j \in DOMAIN c.templates : s[i] \in possible(c.templates[j])
    BY <1>2, <1>3
  <2>2. PICK f \in DOMAIN Runner[c.templates[j]] :
          s[i] = [template |-> c.templates[j], found |-> f]
    BY <2>1 DEF possible
  <2>3. s[i].template = c.templates[j] /\ s[i].found = f /\ c.templates[j] \in DOMAIN Runner
    BY <1>1, <2>2
  <2> QED
    BY <2>2, <2>3 DEF Possible
<1>5. List(s)
  <2>1. \E n \in Nat : DOMAIN s = 1..n
    BY <1>1, <1>2
  <2>2. s = [i \in DOMAIN s |-> s[i]]
    BY DEF Examined
  <2> QED
    BY <2>1, <2>2 DEF List
<1> QED
  BY <1>4, <1>5

LEMMA ReturnedFacts ==
  ASSUME NEW c \in Contracts, NEW o \in Returned(c)
  PROVE  /\ o.contract = c /\ o.status = "success" /\ PassesPrecheck(o)
         /\ List(o.checks) /\ \A i \in DOMAIN o.checks : Possible(o.checks[i])
         /\ o.evidence \in DOMAIN EvidenceRequirements
         /\ o.integration \in Integrations(c, o.checks)
         /\ o.checks \in Examined(c)
<1>1. PICK s \in Examined(c) :
        \E e \in {"none", "present", "missing", "escapes"}, g \in Integrations(c, s),
           l \in {"none", "after"} :
          o = Observation(c, "none", "success", FALSE, s, e, g, l)
  BY SMT DEF Returned, Observation
<1>2. PICK e \in {"none", "present", "missing", "escapes"}, g \in Integrations(c, s),
           l \in {"none", "after"} :
        o = Observation(c, "none", "success", FALSE, s, e, g, l)
  BY <1>1, Zenon
<1>3. /\ o.contract = c /\ o.status = "success" /\ o.policy_violations = FALSE
      /\ o.checks = s /\ o.evidence = e /\ o.integration = g
  BY <1>2, Zenon DEF Observation
<1>4. e \in DOMAIN EvidenceRequirements
  BY DEF EvidenceRequirements
<1> QED
  BY <1>3, <1>4, ExaminedFacts DEF PassesPrecheck

LEMMA UncheckedFacts ==
  ASSUME NEW c, NEW o \in Unchecked(c)
  PROVE  /\ o.contract = c /\ o.status \in {"success", "failed"}
         /\ ~PassesPrecheck(o) \/ o.lifecycle = "before"
<1>1. \/ \E e \in DOMAIN ExceptionAttribution \union {"none"}, l \in {"none", "before"} :
           o = Observation(c, e, "failed", FALSE, << >>, "none", "none", l)
      \/ \E v \in BOOLEAN :
           o = Observation(c, "none", "success", v, << >>, "none", "none",
                           IF v THEN "none" ELSE "before")
  BY SMT DEF Unchecked, Observation
<1>2. ASSUME NEW e, NEW l, o = Observation(c, e, "failed", FALSE, << >>, "none", "none", l)
      PROVE  o.contract = c /\ o.status = "failed"
  BY <1>2, Zenon DEF Observation
<1>3. ASSUME NEW v \in BOOLEAN,
             o = Observation(c, "none", "success", v, << >>, "none", "none",
                             IF v THEN "none" ELSE "before")
      PROVE  /\ o.contract = c /\ o.status = "success"
             /\ ~PassesPrecheck(o) \/ o.lifecycle = "before"
  <2>1. /\ o.contract = c /\ o.status = "success" /\ o.policy_violations = v
        /\ o.lifecycle = IF v THEN "none" ELSE "before"
    BY <1>3, Zenon DEF Observation
  <2> QED
    BY <2>1 DEF PassesPrecheck
<1>4. o.contract = c /\ o.status = "failed" => ~PassesPrecheck(o)
  BY DEF PassesPrecheck
<1> QED
  BY <1>1, <1>2, <1>3, <1>4, Zenon

\* What an attempt can be judged by: results that come to the checks, and others.
LEMMA ObservationFacts ==
  ASSUME NEW c \in Contracts, NEW o \in Observations(c)
  PROVE  /\ o.contract = c
         /\ o.status \in {"success", "failed"}
         /\ \/ /\ PassesPrecheck(o)
               /\ List(o.checks) /\ \A i \in DOMAIN o.checks : Possible(o.checks[i])
               /\ o.evidence \in DOMAIN EvidenceRequirements
               /\ o.integration \in Integrations(c, o.checks)
               /\ o.checks \in Examined(c)
            \/ ~PassesPrecheck(o)
            \/ o.lifecycle = "before"
<1>1. CASE o \in Returned(c)
  BY <1>1, ReturnedFacts
<1>2. CASE o \in Unchecked(c)
  BY <1>2, UncheckedFacts
<1> QED
  BY <1>1, <1>2 DEF Observations

\* The checks of a phase are checks of the contract.
LEMMA PhaseFacts ==
  ASSUME NEW checks, List(checks), \A i \in DOMAIN checks : Possible(checks[i]),
         NEW P \in SUBSET DOMAIN checks
  PROVE  /\ List(At(checks, P)) /\ \A k \in DOMAIN At(checks, P) : Possible(At(checks, P)[k])
         /\ (\A k \in DOMAIN At(checks, P) : RunCheck(At(checks, P)[k]).status = "ok")
              <=> \A i \in P : RunCheck(checks[i]).status = "ok"
BY AtIsList

\* phased_verifier and execute_checks: a verdict is an acceptance exactly if it was
\* earned, and reports a failure exactly if it is a rejection.
LEMMA VerdictFacts ==
  ASSUME NEW c \in Contracts, NEW o \in Observations(c)
  PROVE  Coherent(Verification(o)) /\ (Verification(o).accepted <=> Earned(c, o))
<1> DEFINE Good == Coherent(Verification(o)) /\ (Verification(o).accepted <=> Earned(c, o))
<1>1. o.contract = c /\ c.patch \in BOOLEAN /\ c.semantic \in BOOLEAN
  BY ObservationFacts, ContractFacts
<1>2. CASE o.lifecycle # "none"
  BY <1>2, RefusalIsRejection DEF Verification, Earned, Rejection
<1>3. CASE o.lifecycle = "none" /\ ~PassesPrecheck(o)
  <2>1. Verification(o) = Refusal(o)
    <3>1. VerifyPatchProposal(o) = Refusal(o) /\ VerifyIntegratedNode(o) = Refusal(o)
      BY <1>3 DEF VerifyPatchProposal, VerifyIntegratedNode
    <3>2. ~Refusal(o).accepted
      BY RefusalIsRejection DEF Rejection
    <3> QED
      BY <1>3, <3>1, <3>2 DEF Verification, PhasedVerification
  <2> QED
    BY <1>3, <2>1, RefusalIsRejection DEF Earned, Rejection
<1>4. CASE o.lifecycle = "none" /\ PassesPrecheck(o)
  <2>1. /\ List(o.checks) /\ \A i \in DOMAIN o.checks : Possible(o.checks[i])
        /\ o.evidence \in DOMAIN EvidenceRequirements
        /\ o.integration \in Integrations(c, o.checks)
    BY <1>4, ObservationFacts
  <2> DEFINE P == ProposalPlaces(o.checks)
             Q == DOMAIN o.checks \ P
             proposal == VerifyPatchProposal(o)
             post == VerifyIntegratedNode(o)
             OkAt(S) == \A i \in S : RunCheck(o.checks[i]).status = "ok"
  <2>2. P \in SUBSET DOMAIN o.checks /\ Q \in SUBSET DOMAIN o.checks
    BY DEF ProposalPlaces
  <2>3. "none" \in DOMAIN EvidenceRequirements
    BY DEF EvidenceRequirements
  <2>4. Coherent(proposal) /\ (proposal.accepted <=> OkAt(P))
    <3>1. proposal = ExecuteChecks(At(o.checks, P), "none", FALSE)
      BY <1>4 DEF VerifyPatchProposal, ProposalChecks
    <3>2. /\ List(At(o.checks, P)) /\ \A k \in DOMAIN At(o.checks, P) : Possible(At(o.checks, P)[k])
          /\ (\A k \in DOMAIN At(o.checks, P) : RunCheck(At(o.checks, P)[k]).status = "ok") <=> OkAt(P)
      BY <2>1, <2>2, PhaseFacts
    <3> HIDE DEF P, proposal, OkAt
    <3>3. Coherent(proposal) /\ (proposal.accepted <=>
            \A k \in DOMAIN At(o.checks, P) : RunCheck(At(o.checks, P)[k]).status = "ok")
      BY <2>3, <3>1, <3>2, ExecutionFacts
    <3> QED
      BY <3>2, <3>3
  <2>5. /\ Coherent(post)
        /\ post.accepted <=> OkAt(Q) /\ o.evidence \in {"none", "present"} /\ ~c.semantic
    <3>1. post = ExecuteChecks(At(o.checks, Q), o.evidence, c.semantic)
      BY <1>1, <1>4 DEF VerifyIntegratedNode, IntegratedChecks
    <3>2. /\ List(At(o.checks, Q)) /\ \A k \in DOMAIN At(o.checks, Q) : Possible(At(o.checks, Q)[k])
          /\ (\A k \in DOMAIN At(o.checks, Q) : RunCheck(At(o.checks, Q)[k]).status = "ok") <=> OkAt(Q)
      BY <2>1, <2>2, PhaseFacts
    <3> HIDE DEF Q, post, OkAt
    <3>3. Coherent(post) /\ (post.accepted <=>
            /\ \A k \in DOMAIN At(o.checks, Q) : RunCheck(At(o.checks, Q)[k]).status = "ok"
            /\ o.evidence \in {"none", "present"} /\ ~c.semantic)
      BY <1>1, <2>1, <3>1, <3>2, ExecutionFacts
    <3> QED
      BY <3>2, <3>3
  <2>6. /\ ~c.patch => (Earned(c, o) <=> OkAt(Q) /\ o.evidence \in {"none", "present"} /\ ~c.semantic)
        /\ c.patch => (Earned(c, o) <=> /\ o.integration = "applied" /\ OkAt(P) /\ OkAt(Q)
                                        /\ o.evidence \in {"none", "present"} /\ ~c.semantic)
    BY <1>1, <1>4 DEF Earned, CountsFor, ProposalPlaces
  <2> HIDE DEF P, Q, OkAt, proposal, post
  <2>7. CASE ~c.patch
    <3>1. Verification(o) = post
      BY <1>1, <1>4, <2>7 DEF Verification, post
    <3> QED
      BY <2>5, <2>6, <2>7, <3>1
  <2>8. CASE c.patch /\ ~proposal.accepted
    <3>1. Verification(o) = proposal
      BY <1>1, <1>4, <2>8 DEF Verification, PhasedVerification, proposal
    <3> QED
      BY <2>4, <2>6, <2>8, <3>1
  <2>9. CASE c.patch /\ proposal.accepted /\ o.integration \in DOMAIN IntegrationFailure
    <3>1. Verification(o) = IntegrationFailure[o.integration]
      BY <1>1, <1>4, <2>9 DEF Verification, PhasedVerification, proposal
    <3> QED
      BY <2>6, <2>9, <3>1, IntegrationIsRejection DEF Rejection
  <2>10. CASE c.patch /\ proposal.accepted /\ o.integration \notin DOMAIN IntegrationFailure
    <3>1. Verification(o) = CombinePhaseResults(proposal, post)
      BY <1>1, <1>4, <2>10 DEF Verification, PhasedVerification, proposal, post
    <3>2. o.integration = "applied"
      <4>1. proposal = ExecuteChecks(ProposalChecks(o.checks), "none", FALSE)
        BY <1>4 DEF VerifyPatchProposal, proposal
      <4> QED
        BY <2>1, <2>10, <4>1 DEF Integrations
    <3> QED
      BY <2>4, <2>5, <2>6, <2>10, <3>1, <3>2, CombinationFacts
  <2> QED
    BY <1>1, <2>7, <2>8, <2>9, <2>10
<1> QED
  BY <1>2, <1>3, <1>4

-----------------------------------------------------------------------------
(* The facts *)

\* A check that passes states its fact.
Telling(runner) == \A f \in DOMAIN runner : runner[f].status = "ok" => runner[f].fact

LEMMA RunnersTell == \A t \in DOMAIN Runner : Telling(Runner[t])
<1>1. /\ Passed.fact
      /\ \A f : Rejected(f).status # "ok" /\ Unproved(f).status # "ok"
                /\ Blocked(f).status # "ok" /\ UnprovedFact(f).status # "ok"
  BY DEF Passed, Rejected, Unproved, Blocked, UnprovedFact, CheckResult
<1>2. Telling(FileExists) /\ Telling(FileContains) /\ Telling(JsonSchemaValid)
  BY <1>1 DEF Telling, FileExists, FileContains, JsonSchemaValid
<1>3. Telling(CommandExitZero) /\ Telling(OutputMatches) /\ Telling(TestsPass)
  BY <1>1 DEF Telling, CommandExitZero, OutputMatches, TestsPass
<1>4. Telling(ChangedPathsWithinAllowlist) /\ Telling(PatchNonEmpty)
  BY <1>1 DEF Telling, ChangedPathsWithinAllowlist, PatchNonEmpty
<1>5. Telling(RequirementCoverage) /\ Telling(Unparsable)
  BY <1>1 DEF Telling, RequirementCoverage, Unparsable
<1> QED
  BY <1>2, <1>3, <1>4, <1>5 DEF Runner

\* execute_checks states facts of its checks only, and one of each it accepts.
LEMMA ExecutionTells ==
  ASSUME NEW checks, List(checks), \A i \in DOMAIN checks : Possible(checks[i]),
         NEW e \in DOMAIN EvidenceRequirements, NEW semantic \in BOOLEAN
  PROVE  LET r == ExecuteChecks(checks, e, semantic) IN
         /\ \A t \in r.facts : \E i \in DOMAIN checks : t = checks[i].template
         /\ r.accepted => \A i \in DOMAIN checks : checks[i].template \in r.facts
<1> DEFINE run == Executed(checks)
           fs == {run[i].template : i \in {j \in DOMAIN run : RunCheck(run[j]).fact}}
           r == ExecuteChecks(checks, e, semantic)
<1>1. r.facts = fs
  BY Zenon DEF ExecuteChecks, Result
<1>2. /\ \A k \in DOMAIN run : \E i \in DOMAIN checks : run[k] = checks[i]
      /\ Halts(checks) = {} => run = checks
  BY ExecutedFacts
<1>3. \A t \in fs : \E i \in DOMAIN checks : t = checks[i].template
  BY <1>2
<1>4. ASSUME r.accepted, NEW i \in DOMAIN checks PROVE checks[i].template \in fs
  <2>1. \A j \in DOMAIN checks : RunCheck(checks[j]).status = "ok"
    BY <1>4, ExecutionFacts
  <2>2. run = checks
    BY <1>2, <2>1 DEF Halts
  <2>3. RunCheck(checks[i]).fact
    BY <2>1, RunnersTell DEF Possible, RunCheck, Telling
  <2> QED
    BY <2>2, <2>3
<1> HIDE DEF r, fs
<1>5. /\ \A t \in r.facts : \E i \in DOMAIN checks : t = checks[i].template
      /\ r.accepted => \A i \in DOMAIN checks : checks[i].template \in r.facts
  BY <1>1, <1>3, <1>4
<1> QED
  BY <1>5 DEF r

\* The facts of a verdict: of checks of the contract that count, only if the worker
\* succeeded, and of all of them if the result is accepted.
FactsFit(c, o, fs, accepted) ==
  /\ \A t \in fs : /\ o.status = "success"
                   /\ \E i \in DOMAIN c.templates :
                        t = c.templates[i] /\ CountsFor(c, [template |-> t])
  /\ accepted => \A i \in DOMAIN c.templates :
                   CountsFor(c, [template |-> c.templates[i]]) => c.templates[i] \in fs

LEMMA NoFacts ==
  /\ \A o : Refusal(o).facts = {}
  /\ LifecycleError.facts = {}
  /\ \A g \in DOMAIN IntegrationFailure : IntegrationFailure[g].facts = {}
<1>1. \A accepted, confidence, failures : Result(accepted, confidence, failures, {}).facts = {}
  BY Zenon DEF Result
<1>2. \A o : Refusal(o).facts = {}
  <2> TAKE o
  <2>1. CASE o.status # "success"
    BY <2>1, Zenon DEF Refusal, Result
  <2>2. CASE o.status = "success"
    BY <2>2, Zenon DEF Refusal, Result
  <2> QED
    BY <2>1, <2>2
<1>3. LifecycleError.facts = {}
  BY Zenon DEF LifecycleError, Result
<1>4. \A g \in DOMAIN IntegrationFailure : IntegrationFailure[g].facts = {}
  BY DEF IntegrationFailure, Result
<1> QED
  BY <1>2, <1>3, <1>4

LEMMA PhaseTells ==
  ASSUME NEW checks, List(checks), \A i \in DOMAIN checks : Possible(checks[i]),
         NEW P \in SUBSET DOMAIN checks,
         NEW e \in DOMAIN EvidenceRequirements, NEW semantic \in BOOLEAN
  PROVE  LET r == ExecuteChecks(At(checks, P), e, semantic) IN
         /\ \A t \in r.facts : \E i \in P : t = checks[i].template
         /\ r.accepted => \A i \in P : checks[i].template \in r.facts
<1> DEFINE s == At(checks, P)
           r == ExecuteChecks(s, e, semantic)
<1>1. /\ List(s) /\ \A k \in DOMAIN s : Possible(s[k])
      /\ \A k \in DOMAIN s : \E i \in P : s[k] = checks[i]
      /\ \A i \in P : \E k \in DOMAIN s : s[k] = checks[i]
  BY PhaseFacts, AtIsList
<1> HIDE DEF s
<1>2. /\ \A t \in r.facts : \E k \in DOMAIN s : t = s[k].template
      /\ r.accepted => \A k \in DOMAIN s : s[k].template \in r.facts
  BY <1>1, ExecutionTells
<1> HIDE DEF r
<1>3. /\ \A t \in r.facts : \E i \in P : t = checks[i].template
      /\ r.accepted => \A i \in P : checks[i].template \in r.facts
  BY <1>1, <1>2
<1> QED
  BY <1>3 DEF r, s

LEMMA VerdictTells ==
  ASSUME NEW c \in Contracts, NEW o \in Observations(c)
  PROVE  FactsFit(c, o, Verification(o).facts, Verification(o).accepted)
<1> DEFINE v == Verification(o)
<1>1. o.contract = c /\ c.patch \in BOOLEAN /\ c.semantic \in BOOLEAN
      /\ (v.accepted <=> Earned(c, o))
  BY ObservationFacts, ContractFacts, VerdictFacts
<1>2. CASE v.facts = {} /\ ~v.accepted
  BY <1>2 DEF FactsFit
<1>3. ASSUME o.lifecycle = "none", PassesPrecheck(o)
      PROVE  FactsFit(c, o, v.facts, v.accepted)
  <2>1. /\ List(o.checks) /\ \A i \in DOMAIN o.checks : Possible(o.checks[i])
        /\ o.evidence \in DOMAIN EvidenceRequirements
        /\ o.checks \in Examined(c) /\ o.status = "success"
    BY <1>3, ObservationFacts DEF PassesPrecheck
  <2>2. /\ DOMAIN o.checks = DOMAIN c.templates
        /\ \A i \in DOMAIN o.checks : o.checks[i].template = c.templates[i]
    BY <2>1 DEF Examined
  <2> DEFINE P == ProposalPlaces(o.checks)
             Q == DOMAIN o.checks \ P
             proposal == VerifyPatchProposal(o)
             post == VerifyIntegratedNode(o)
  <2>3. P \in SUBSET DOMAIN o.checks /\ Q \in SUBSET DOMAIN o.checks
    BY DEF ProposalPlaces
  <2>4. \A i \in DOMAIN o.checks : i \in P <=> c.templates[i] \in PROPOSAL_CHECKS
    BY <2>2 DEF ProposalPlaces
  <2>5. /\ \A t \in proposal.facts : \E i \in P : t = o.checks[i].template
        /\ proposal.accepted => \A i \in P : o.checks[i].template \in proposal.facts
    <3>1. proposal = ExecuteChecks(At(o.checks, P), "none", FALSE)
      BY <1>3 DEF VerifyPatchProposal, ProposalChecks
    <3>2. "none" \in DOMAIN EvidenceRequirements
      BY DEF EvidenceRequirements
    <3> HIDE DEF P, proposal
    <3> QED
      BY <2>1, <2>3, <3>1, <3>2, PhaseTells
  <2>6. /\ \A t \in post.facts : \E i \in Q : t = o.checks[i].template
        /\ post.accepted => \A i \in Q : o.checks[i].template \in post.facts
    <3>1. post = ExecuteChecks(At(o.checks, Q), o.evidence, c.semantic)
      BY <1>1, <1>3 DEF VerifyIntegratedNode, IntegratedChecks
    <3> HIDE DEF Q, post
    <3> QED
      BY <1>1, <2>1, <2>3, <3>1, PhaseTells
  <2>7. DOMAIN o.checks = P \union Q
    BY <2>3
  <2>8. \A i \in Q : i \in DOMAIN o.checks /\ c.templates[i] \notin PROPOSAL_CHECKS
    BY <2>4
  <2> HIDE DEF P, Q, proposal, post, v
  <2>9. CASE ~c.patch
    <3>1. v = post
      BY <1>1, <1>3, <2>9 DEF Verification, post, v
    <3>2. \A i \in DOMAIN c.templates : CountsFor(c, [template |-> c.templates[i]]) => i \in Q
      BY <2>2, <2>4, <2>7, <2>9 DEF CountsFor
    <3>3. \A i \in Q : CountsFor(c, [template |-> c.templates[i]])
      BY <2>8 DEF CountsFor
    <3> QED
      BY <2>1, <2>2, <2>6, <2>8, <3>1, <3>2, <3>3 DEF FactsFit
  <2>10. CASE c.patch /\ ~proposal.accepted
    <3>1. v = proposal
      BY <1>1, <1>3, <2>10 DEF Verification, PhasedVerification, proposal, v
    <3> QED
      BY <2>1, <2>2, <2>3, <2>5, <2>10, <3>1 DEF FactsFit, CountsFor
  <2>11. CASE c.patch /\ proposal.accepted /\ o.integration \in DOMAIN IntegrationFailure
    <3>1. v = IntegrationFailure[o.integration]
      BY <1>1, <1>3, <2>11 DEF Verification, PhasedVerification, proposal, v
    <3> QED
      BY <2>11, <3>1, NoFacts, IntegrationIsRejection DEF FactsFit, Rejection
  <2>12. CASE c.patch /\ proposal.accepted /\ o.integration \notin DOMAIN IntegrationFailure
    <3>1. v = CombinePhaseResults(proposal, post)
      BY <1>1, <1>3, <2>12 DEF Verification, PhasedVerification, proposal, post, v
    <3>2. v.facts = proposal.facts \union post.facts /\ (v.accepted => post.accepted)
      <4>1. v.facts = proposal.facts \union post.facts
        BY <3>1, Zenon DEF CombinePhaseResults, Result
      <4>2. v.accepted = (proposal.accepted /\ post.accepted)
        BY <3>1, Zenon DEF CombinePhaseResults, Result
      <4> QED
        BY <4>1, <4>2
    <3> QED
      BY <2>1, <2>2, <2>3, <2>5, <2>6, <2>7, <2>12, <3>2 DEF FactsFit, CountsFor
  <2> QED
    BY <1>1, <2>9, <2>10, <2>11, <2>12
<1>4. CASE o.lifecycle # "none"
  BY <1>2, <1>4, NoFacts, RefusalIsRejection DEF Verification, Rejection
<1>5. CASE o.lifecycle = "none" /\ ~PassesPrecheck(o)
  <2>1. VerifyPatchProposal(o) = Refusal(o) /\ VerifyIntegratedNode(o) = Refusal(o)
    BY <1>5 DEF VerifyPatchProposal, VerifyIntegratedNode
  <2>2. v = Refusal(o)
    BY <1>5, <2>1, RefusalIsRejection DEF Verification, PhasedVerification, Rejection
  <2> QED
    BY <1>2, <2>2, NoFacts, RefusalIsRejection DEF Rejection
<1> QED
  BY <1>3, <1>4, <1>5

\* What is recorded as accepted is what history charges to nobody.
LEMMA AcceptedVerdict ==
  ASSUME NEW c \in Contracts, NEW o \in Observations(c)
  PROVE  /\ OutcomeOf(o) \in Outcomes
         /\ Verification(o).accepted \in BOOLEAN
         /\ Verification(o).accepted <=> Attribution(OutcomeOf(o)) = "none"
<1>1. OutcomeOf(o) \in Outcomes
  BY OutcomesAssumption
<1>2. OutcomeOf(o).failures = Verification(o).failures /\ OutcomeOf(o).status = o.status
  BY Zenon DEF OutcomeOf
<1>3. Coherent(Verification(o)) /\ (Verification(o).accepted => o.status = "success")
  BY VerdictFacts DEF Earned, PassesPrecheck
<1>4. Verification(o).accepted <=> Accepted(OutcomeOf(o))
  BY <1>2, <1>3 DEF Coherent, Accepted
<1> QED
  BY <1>1, <1>3, <1>4, AcceptedIsUncharged DEF Coherent

-----------------------------------------------------------------------------
(* The attempts *)

Places == {"work", "run_row", "subtask", "append", "settle"}

\* What an attempt is judged by fits its contract, from its judgement to its end.
JudgedInv ==
  /\ contract \in Contracts
  /\ pc \in Places
  /\ pc # "work" => observed \in Observations(contract) /\ verification = Verification(observed)
  /\ pc = "work" => observed = Nothing

LEMMA JudgedInit == AttemptInit => JudgedInv
BY DEF AttemptInit, JudgedInv, Places

LEMMA JudgedStep == JudgedInv /\ [AttemptNext]_attemptVars => JudgedInv'
<1> SUFFICES ASSUME JudgedInv, [AttemptNext]_attemptVars PROVE JudgedInv'
  OBVIOUS
<1>1. CASE Judge
  BY <1>1 DEF Judge, JudgedInv, Places
<1>2. CASE RecordRun
  BY <1>2 DEF RecordRun, JudgedInv, Places
<1>3. CASE RecordSubtask
  BY <1>3 DEF RecordSubtask, JudgedInv, Places
<1>4. CASE AppendOutcome
  BY <1>4 DEF AppendOutcome, JudgedInv, Places
<1>5. CASE Settle
  BY <1>5 DEF Settle, JudgedInv, Places
<1>6. CASE Abort
  BY <1>6 DEF Abort, JudgedInv
<1>7. CASE UNCHANGED attemptVars
  BY <1>7 DEF attemptVars, JudgedInv
<1> QED
  BY <1>1, <1>2, <1>3, <1>4, <1>5, <1>6, <1>7 DEF AttemptNext, Step, Over

LEMMA JudgedInvariant == AttemptSpec => []JudgedInv
BY JudgedInit, JudgedStep, PTL DEF AttemptSpec

\* Every step of dispatch is a step of the loop, or none.
LEMMA StepRefines == JudgedInv /\ [AttemptNext]_attemptVars => [Next]_vars
<1> SUFFICES ASSUME JudgedInv, [AttemptNext]_attemptVars PROVE [Next]_vars
  OBVIOUS
<1>1. CASE Judge \/ RecordRun \/ RecordSubtask
  BY <1>1 DEF Judge, RecordRun, RecordSubtask
<1>2. CASE AppendOutcome
  <2>1. Finish(OutcomeOf(observed)) /\ OutcomeOf(observed) \in Outcomes
    BY <1>2, AcceptedVerdict DEF AppendOutcome, JudgedInv
  <2> QED
    BY <2>1 DEF Next
<1>3. CASE Settle
  BY <1>3 DEF Settle, Next
<1>4. CASE Abort
  BY <1>4 DEF Abort, Next
<1>5. CASE UNCHANGED attemptVars
  BY <1>5 DEF attemptVars, vars
<1> QED
  BY <1>1, <1>2, <1>3, <1>4, <1>5 DEF AttemptNext, Step, Over

-----------------------------------------------------------------------------
(* The records *)

Row ==
  [worker : DOMAIN Worker, status : {"success", "failed"}, accepted : BOOLEAN,
   node : {"verified", "done"}, events : SUBSET {"verified", "rejected", "error"}]

\* Where the records stand while an attempt is under way.
RecordsInv ==
  /\ subtasks \in Seq(Row)
  /\ Len(subtasks) = IF pc = "append" THEN Len(history) + 1 ELSE Len(history)
  /\ verdict = "running" => (pc = "settle" <=> Len(history) = attempt)
  /\ verdict \notin {"running", "raised"} => pc = "work"
  /\ subtasks # << >> \/ pc \in {"subtask", "append", "settle"} => run_row
  /\ pc = "append" =>
       /\ subtasks[Len(subtasks)].worker = worker
       /\ subtasks[Len(subtasks)].accepted <=> verification.accepted
  /\ \A i \in 1..Len(history) :
       /\ subtasks[i].worker = history[i].worker
       /\ subtasks[i].accepted <=> Charged(i) = "none"
  /\ node_verification \in [attempt : Nat, accepted : BOOLEAN]
  /\ node_verification.attempt = Len(history)
  /\ node_verification.accepted <=> Len(history) > 0 /\ Charged(Len(history)) = "none"

AttemptInv == LoopInv /\ JudgedInv /\ RecordsInv

\* The facts of the ledger fit its rows.
FactsOf(fs, s) == {f.template : f \in {g \in fs : g.subtask = s}}

FactsInv ==
  /\ \A f \in facts : /\ f.subtask \in DOMAIN subtasks
                        /\ f = [subtask |-> f.subtask, template |-> f.template]
  /\ \A s \in DOMAIN subtasks : FactsFit(contract, subtasks[s], FactsOf(facts, s), subtasks[s].accepted)

LEMMA RecordsInit == AttemptInit => RecordsInv
<1> SUFFICES ASSUME AttemptInit PROVE RecordsInv
  OBVIOUS
<1>1. subtasks = << >> /\ history = << >> /\ pc = "work" /\ verdict = "running" /\ attempt = 1
      /\ node_verification = [attempt |-> 0, accepted |-> FALSE]
  BY DEF AttemptInit, Init
<1>2. subtasks \in Seq(Row) /\ Len(subtasks) = 0 /\ Len(history) = 0
  BY <1>1
<1> QED
  BY <1>1, <1>2 DEF RecordsInv

\* Nothing is recorded by a step that leaves the records alone.
LEMMA SameRecords ==
  ASSUME RecordsInv, UNCHANGED <<vars, subtasks, node_verification>>
  PROVE  /\ subtasks' \in Seq(Row)
         /\ \A i \in 1..Len(history') :
              /\ subtasks'[i].worker = history'[i].worker
              /\ subtasks'[i].accepted <=> Charged(i)' = "none"
         /\ node_verification' \in [attempt : Nat, accepted : BOOLEAN]
         /\ node_verification'.attempt = Len(history')
         /\ node_verification'.accepted <=> Len(history') > 0 /\ Charged(Len(history))' = "none"
BY DEF RecordsInv, vars, Charged

LEMMA JudgeKeeps ==
  ASSUME AttemptInv, Judge \/ RecordRun
  PROVE  RecordsInv'
<1>1. UNCHANGED <<vars, subtasks, node_verification>> /\ verdict = "running"
      /\ (run_row => run_row') /\ (pc' = "subtask" => run_row')
      /\ pc \in {"work", "run_row"} /\ pc' \in {"run_row", "subtask"}
  BY DEF Judge, RecordRun, Running, ledgerVars
<1> QED
  BY <1>1, SameRecords DEF AttemptInv, RecordsInv, vars

LEMMA RecordSubtaskKeeps ==
  ASSUME AttemptInv, RecordSubtask
  PROVE  RecordsInv'
<1>1. /\ verdict = "running" /\ pc = "subtask" /\ pc' = "append"
      /\ subtasks' = Append(subtasks, SubtaskRow)
      /\ UNCHANGED <<attempt, worker, history, verdict, verification, run_row, node_verification>>
  BY DEF RecordSubtask, Running, vars
<1>2. observed \in Observations(contract) /\ verification = Verification(observed) /\ contract \in Contracts
  BY <1>1 DEF AttemptInv, JudgedInv
<1>3. verification.accepted \in BOOLEAN /\ observed.status \in {"success", "failed"}
  BY <1>2, AcceptedVerdict, ObservationFacts
<1>4. worker \in DOMAIN Worker
  BY DEF AttemptInv, LoopInv, TypeOK
<1>5. SubtaskRow \in Row /\ SubtaskRow.worker = worker
      /\ SubtaskRow.accepted = verification.accepted
  <2>1. WorkerNode \in {"verified", "done"} /\ Events \in SUBSET {"verified", "rejected", "error"}
    BY DEF WorkerNode, Events
  <2> HIDE DEF WorkerNode, Events
  <2> QED
    BY <1>3, <1>4, <2>1 DEF SubtaskRow, Row
<1>6. subtasks \in Seq(Row) /\ Len(subtasks) = Len(history) /\ Len(history) \in Nat /\ run_row
  BY <1>1, TypeFacts DEF AttemptInv, RecordsInv, LoopInv
<1>7. /\ subtasks' \in Seq(Row) /\ Len(subtasks') = Len(history) + 1
      /\ subtasks'[Len(subtasks')] = SubtaskRow
      /\ \A i \in 1..Len(history) : subtasks'[i] = subtasks[i]
  BY <1>1, <1>5, <1>6
<1> QED
  BY <1>1, <1>5, <1>6, <1>7 DEF AttemptInv, RecordsInv, Charged

LEMMA AppendOutcomeKeeps ==
  ASSUME AttemptInv, AppendOutcome
  PROVE  RecordsInv'
<1> DEFINE o == OutcomeOf(observed)
           entry == [worker |-> worker, outcome |-> o]
<1>1. /\ verdict = "running" /\ pc = "append" /\ pc' = "settle"
      /\ history' = Append(history, entry) /\ Len(history) = attempt - 1
      /\ node_verification' = [attempt |-> attempt, accepted |-> verification.accepted]
      /\ UNCHANGED <<attempt, worker, verdict, subtasks, run_row>>
  BY DEF AppendOutcome, Finish, Record, ledgerVars
<1>2. observed \in Observations(contract) /\ verification = Verification(observed) /\ contract \in Contracts
  BY <1>1 DEF AttemptInv, JudgedInv
<1>3. verification.accepted \in BOOLEAN /\ o \in Outcomes
      /\ (verification.accepted <=> Attribution(o) = "none")
  BY <1>2, AcceptedVerdict
<1>4. worker \in DOMAIN Worker /\ history \in Seq(Entry) /\ attempt \in Nat \ {0}
  BY TypeFacts DEF AttemptInv, LoopInv, TypeOK
<1> HIDE DEF o
<1>5. entry \in Entry /\ entry.worker = worker /\ entry.outcome = o
  BY <1>3, <1>4 DEF Entry
<1> HIDE DEF entry
<1>6. /\ Len(history') = attempt /\ history'[attempt] = entry
      /\ \A i \in 1..(attempt - 1) : history'[i] = history[i]
  BY <1>1, <1>4, <1>5
<1>7. Len(subtasks) = attempt /\ subtasks # << >> /\ subtasks \in Seq(Row) /\ run_row
      /\ subtasks[attempt].worker = worker /\ (subtasks[attempt].accepted <=> verification.accepted)
  BY <1>1, <1>4 DEF AttemptInv, RecordsInv
<1>8. \A i \in 1..Len(history') :
        /\ subtasks'[i].worker = history'[i].worker
        /\ subtasks'[i].accepted <=> Charged(i)' = "none"
  <2> SUFFICES ASSUME NEW i \in 1..attempt
               PROVE  /\ subtasks[i].worker = history'[i].worker
                      /\ subtasks[i].accepted <=> Attribution(history'[i].outcome) = "none"
    BY <1>1, <1>6 DEF Charged
  <2>1. CASE i = attempt
    BY <1>3, <1>5, <1>6, <1>7, <2>1
  <2>2. CASE i # attempt
    <3>1. i \in 1..(attempt - 1) /\ i \in 1..Len(history)
      BY <1>1, <1>4, <2>2
    <3> QED
      BY <1>6, <3>1 DEF AttemptInv, RecordsInv, Charged
  <2> QED
    BY <2>1, <2>2
<1>9. /\ node_verification' \in [attempt : Nat, accepted : BOOLEAN]
      /\ node_verification'.attempt = attempt
      /\ node_verification'.accepted = verification.accepted
  BY <1>1, <1>3, <1>4
<1>10. Charged(Len(history))' = Attribution(o)
  BY <1>5, <1>6 DEF Charged
<1> QED
  BY <1>1, <1>3, <1>4, <1>6, <1>7, <1>8, <1>9, <1>10 DEF RecordsInv

LEMMA SettleKeeps ==
  ASSUME AttemptInv, Settle
  PROVE  RecordsInv'
<1>1. /\ pc = "settle" /\ pc' = "work" /\ verdict = "running" /\ Len(history) = attempt
      /\ UNCHANGED <<history, subtasks, run_row, node_verification>>
      /\ \/ attempt' = attempt + 1 /\ verdict' = "running"
         \/ attempt' = attempt /\ verdict' # "running"
  <2>1. CASE Succeed
    BY <2>1 DEF Settle, Succeed, Unsettled, ledgerVars
  <2>2. CASE RetryAttempt
    BY <2>2 DEF Settle, RetryAttempt, Unsettled, ledgerVars
  <2>3. CASE GiveUp
    <3>1. Decision(Latest) # "running"
      <4>1. Latest \in Outcomes /\ attempt \in Nat
        BY <2>3, TypeFacts DEF GiveUp, Unsettled, AttemptInv, LoopInv
      <4> QED
        BY <2>3, <4>1, GivenUpIsExplained DEF GiveUp, Decision
    <3> QED
      BY <2>3, <3>1 DEF Settle, GiveUp, Unsettled, ledgerVars
  <2> QED
    BY <2>1, <2>2, <2>3 DEF Settle
<1>2. attempt \in Nat
  BY TypeFacts DEF AttemptInv, LoopInv
<1> QED
  BY <1>1, <1>2 DEF AttemptInv, RecordsInv, Charged

LEMMA AbortKeeps ==
  ASSUME AttemptInv, Abort
  PROVE  RecordsInv'
BY DEF Abort, Raise, AttemptInv, RecordsInv, Charged, ledgerVars

LEMMA RecordsStep == AttemptInv /\ [AttemptNext]_attemptVars => RecordsInv'
<1> SUFFICES ASSUME AttemptInv, [AttemptNext]_attemptVars PROVE RecordsInv'
  OBVIOUS
<1>1. CASE UNCHANGED attemptVars
  BY <1>1 DEF attemptVars, vars, ledgerVars, AttemptInv, RecordsInv, Charged
<1> QED
  BY <1>1, JudgeKeeps, RecordSubtaskKeeps, AppendOutcomeKeeps, SettleKeeps, AbortKeeps
     DEF AttemptNext, Step, Over

LEMMA RecordSubtaskKeepsFacts ==
  ASSUME AttemptInv, FactsInv, RecordSubtask
  PROVE  FactsInv'
<1> DEFINE n == Len(subtasks) + 1
           new == {[subtask |-> n, template |-> t] : t \in verification.facts}
<1>1. /\ pc = "subtask" /\ contract' = contract
      /\ subtasks' = Append(subtasks, SubtaskRow) /\ facts' = facts \union new
  BY DEF RecordSubtask
<1>2. observed \in Observations(contract) /\ verification = Verification(observed) /\ contract \in Contracts
  BY <1>1 DEF AttemptInv, JudgedInv
<1>3. FactsFit(contract, observed, verification.facts, verification.accepted)
  BY <1>2, VerdictTells
<1>4. SubtaskRow.status = observed.status /\ SubtaskRow.accepted = verification.accepted
  BY Zenon DEF SubtaskRow
<1>5. SubtaskRow \in Row
  <2>1. WorkerNode \in {"verified", "done"} /\ Events \in SUBSET {"verified", "rejected", "error"}
    BY DEF WorkerNode, Events
  <2> HIDE DEF WorkerNode, Events
  <2> QED
    BY <1>2, <2>1, AcceptedVerdict, ObservationFacts DEF AttemptInv, LoopInv, TypeOK, SubtaskRow, Row
<1> HIDE DEF n
<1>6. /\ n \in Nat /\ DOMAIN subtasks = 1..(n - 1) /\ DOMAIN subtasks' = 1..n
      /\ subtasks'[n] = SubtaskRow /\ \A s \in DOMAIN subtasks : subtasks'[s] = subtasks[s]
  BY <1>1, <1>5 DEF AttemptInv, RecordsInv, n
<1>7. \A g \in new : g.subtask = n
  OBVIOUS
<1>8. /\ \A g \in new : g = [subtask |-> g.subtask, template |-> g.template]
      /\ {g.template : g \in new} = verification.facts
  <2>1. \A t : [subtask |-> n, template |-> t].template = t
    OBVIOUS
  <2>2. \A g \in new : g.template \in verification.facts
    OBVIOUS
  <2>3. \A t \in verification.facts : \E g \in new : g.template = t
    BY <2>1
  <2> QED
    BY <2>2, <2>3
<1> HIDE DEF new
<1>9. \A f \in facts' : /\ f.subtask \in DOMAIN subtasks'
                         /\ f = [subtask |-> f.subtask, template |-> f.template]
  BY <1>1, <1>6, <1>7, <1>8 DEF FactsInv
<1>10. FactsOf(facts', n) = verification.facts
  <2>1. \A g \in facts : g.subtask # n
    BY <1>6 DEF FactsInv
  <2>2. {g \in facts' : g.subtask = n} = new
    BY <1>1, <1>7, <2>1
  <2> QED
    BY <1>8, <2>2 DEF FactsOf
<1>11. \A s \in DOMAIN subtasks : FactsOf(facts', s) = FactsOf(facts, s)
  <2> TAKE s \in DOMAIN subtasks
  <2>1. s # n
    BY <1>6
  <2>2. {g \in facts' : g.subtask = s} = {g \in facts : g.subtask = s}
    BY <1>1, <1>7, <2>1
  <2> QED
    BY <2>2 DEF FactsOf
<1>12. ASSUME NEW s \in DOMAIN subtasks'
       PROVE  FactsFit(contract, subtasks'[s], FactsOf(facts', s), subtasks'[s].accepted)
  <2>1. CASE s = n
    BY <1>3, <1>4, <1>6, <1>10, <2>1 DEF FactsFit
  <2>2. CASE s # n
    <3>1. s \in DOMAIN subtasks
      BY <1>6, <2>2
    <3> QED
      BY <1>6, <1>11, <3>1 DEF FactsInv
  <2> QED
    BY <2>1, <2>2
<1> QED
  BY <1>1, <1>9, <1>12 DEF FactsInv

LEMMA FactsStep == AttemptInv /\ FactsInv /\ [AttemptNext]_attemptVars => FactsInv'
<1> SUFFICES ASSUME AttemptInv, FactsInv, [AttemptNext]_attemptVars PROVE FactsInv'
  OBVIOUS
<1>1. CASE RecordSubtask
  BY <1>1, RecordSubtaskKeepsFacts
<1>2. CASE ~RecordSubtask
  <2>1. UNCHANGED <<contract, subtasks, facts>>
    BY <1>2 DEF AttemptNext, Step, Over, Judge, RecordRun, AppendOutcome, Settle, Abort,
                attemptVars, ledgerVars
  <2> QED
    BY <2>1 DEF FactsInv, FactsOf
<1> QED
  BY <1>1, <1>2

LEMMA AttemptInvariant == AttemptSpec => []AttemptInv
<1>1. AttemptInit => AttemptInv
  BY JudgedInit, RecordsInit, LoopInit DEF AttemptInit, AttemptInv
<1>2. AttemptInv /\ [AttemptNext]_attemptVars => AttemptInv'
  BY JudgedStep, StepRefines, LoopStep, RecordsStep DEF AttemptInv
<1> QED
  BY <1>1, <1>2, PTL DEF AttemptSpec

-----------------------------------------------------------------------------
(* Theorems *)

\* DelegationRuntime.dispatch inside run_node: its steps make up the attempts of
\* RetryLoop, whatever the contract, so that what holds of the loop holds of them.
THEOREM AttemptsImplementTheLoop == AttemptSpec => ImplementsRetryLoop
<1>1. AttemptInit => Init
  BY DEF AttemptInit
<1> QED
  BY <1>1, JudgedInvariant, StepRefines, PTL DEF AttemptSpec, ImplementsRetryLoop, Spec

\* phased_verifier and execute_checks: a result is accepted exactly if everything its
\* contract asks for was proved, and a failure is reported exactly if it is not.
THEOREM VerdictsAreGrounded == AttemptSpec => []VerdictIsGrounded
<1>1. AttemptInv => VerdictIsGrounded
  <2> SUFFICES ASSUME AttemptInv, observed # Nothing PROVE VerdictIsGrounded
    BY DEF VerdictIsGrounded
  <2>1. observed \in Observations(contract) /\ verification = Verification(observed) /\ contract \in Contracts
    BY DEF AttemptInv, JudgedInv
  <2>2. Coherent(verification) /\ (verification.accepted <=> Earned(contract, observed))
    BY <2>1, VerdictFacts
  <2> QED
    BY <2>2 DEF VerdictIsGrounded, Coherent, Earned, CountsFor, Counts
<1> QED
  BY <1>1, AttemptInvariant, PTL

\* record_subtask, append_outcome and the graph report: the three records of an
\* attempt agree, wherever the process stops.
THEOREM RecordsTellTheSame == AttemptSpec => []RecordsAgree
<1>1. AttemptInv /\ SuccessIsLast => RecordsAgree
  <2> SUFFICES ASSUME AttemptInv, SuccessIsLast PROVE RecordsAgree
    OBVIOUS
  <2>1. /\ Len(history) \in Nat /\ attempt \in Nat \ {0}
        /\ verdict \notin {"running", "raised"} => Len(history) = attempt
    BY TypeFacts DEF AttemptInv, LoopInv, TypeOK
  <2>2. Len(subtasks) \in {Len(history), Len(history) + 1}
    BY DEF AttemptInv, RecordsInv
  <2>3. node_verification.attempt < attempt => ~node_verification.accepted
    <3> SUFFICES ASSUME Len(history) < attempt, Len(history) > 0, Charged(Len(history)) = "none"
                 PROVE  FALSE
      BY DEF AttemptInv, RecordsInv
    <3> QED
      BY <2>1 DEF SuccessIsLast, Made
  <2>4. ASSUME verdict = "succeeded"
        PROVE  /\ subtasks[Len(subtasks)].accepted
               /\ node_verification = [attempt |-> attempt, accepted |-> TRUE]
    <3>1. Len(history) = attempt /\ Charged(attempt) = "none" /\ pc = "work"
      BY <2>1, <2>4 DEF AttemptInv, RecordsInv, SuccessIsLast
    <3>2. Len(subtasks) = attempt /\ subtasks[attempt].accepted
      BY <2>1, <3>1 DEF AttemptInv, RecordsInv
    <3>3. /\ node_verification \in [attempt : Nat, accepted : BOOLEAN]
          /\ node_verification.attempt = attempt /\ node_verification.accepted
      BY <2>1, <3>1 DEF AttemptInv, RecordsInv
    <3> QED
      BY <3>2, <3>3
  <2> QED
    BY <2>2, <2>3, <2>4 DEF AttemptInv, RecordsInv, RecordsAgree
<1>2. AttemptSpec => []SuccessIsLast
  BY AttemptsImplementTheLoop, SuccessEndsTheLoop DEF ImplementsRetryLoop
<1> QED
  BY <1>1, <1>2, AttemptInvariant, PTL

\* What is proved of the loop holds of the attempts, step by step: nothing charged to
\* policy, environment or a conflict is repeated, the budget is used, a success ends.
THEOREM AttemptsInheritTheLoop ==
  AttemptSpec => [](TypeOK /\ ExcludedIsFinal /\ BudgetIsUsed /\ SuccessIsLast)
BY AttemptsImplementTheLoop, LoopTypeCorrect, ExcludedEndsTheLoop, AttemptsAreUsed,
   SuccessEndsTheLoop, PTL DEF ImplementsRetryLoop

\* record_subtask: a stored fact is one of a recorded success and of a check that was
\* looked at, and an accepted row has the fact of each.
THEOREM FactsAreGrounded == AttemptSpec => []FactsHaveGrounds
<1>1. AttemptInit => FactsInv
  BY DEF AttemptInit, FactsInv
<1>2. AttemptInv /\ FactsInv => FactsHaveGrounds
  <2> SUFFICES ASSUME AttemptInv, FactsInv PROVE FactsHaveGrounds
    OBVIOUS
  <2>1. ASSUME NEW f \in facts
        PROVE  /\ f.subtask \in DOMAIN subtasks
               /\ subtasks[f.subtask].status = "success"
               /\ \E i \in DOMAIN contract.templates :
                    f.template = contract.templates[i] /\ Counts([template |-> f.template])
    <3>1. f.subtask \in DOMAIN subtasks
      BY DEF FactsInv
    <3>2. f.template \in FactsOf(facts, f.subtask)
      BY DEF FactsOf
    <3> QED
      BY <3>1, <3>2 DEF FactsInv, FactsFit, Counts, CountsFor
  <2>2. ASSUME NEW s \in DOMAIN subtasks, subtasks[s].accepted,
               NEW i \in DOMAIN contract.templates, Counts([template |-> contract.templates[i]])
        PROVE  [subtask |-> s, template |-> contract.templates[i]] \in facts
    <3>1. contract.templates[i] \in FactsOf(facts, s)
      BY <2>2 DEF FactsInv, FactsFit, Counts, CountsFor
    <3>2. PICK f \in facts : f.subtask = s /\ f.template = contract.templates[i]
      BY <3>1 DEF FactsOf
    <3> QED
      BY <3>2 DEF FactsInv
  <2> QED
    BY <2>1, <2>2 DEF FactsHaveGrounds
<1> QED
  BY <1>1, <1>2, FactsStep, AttemptInvariant, PTL DEF AttemptSpec
=============================================================================
