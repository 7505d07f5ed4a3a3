--------------------------- MODULE RetryLoopProofs ---------------------------
(***************************************************************************)
(* Proofs about RetryLoop and the retry policy, for any workers, budget    *)
(* and outcomes.                                                           *)
(***************************************************************************)
EXTENDS RetryLoop, FiniteOrderProofs

-----------------------------------------------------------------------------
(* The policy *)

\* What an outcome has to be like to be followed by another attempt.
Benign(o) ==
  /\ Retryable(o)
  /\ ~o.conflict /\ ~o.policy_violations /\ o.exception \notin OSErrors
  /\ o.failures # << >>

\* Whatever the place of the decisive failure in the list, an attempt is repeated
\* only within the budget, and after failures that may all be retried.
LEMMA RetriedIsBenign ==
  ASSUME NEW o \in Outcomes, NEW a \in Nat, NEW f,
         Executable(DecideRetry(o, a, MaxAttempts, f)) \in Retries
  PROVE  a < MaxAttempts /\ Benign(o)
<1>1. DecideRetry(o, a, MaxAttempts, f) \in Retries
  BY DEF Executable, Retries
<1>2. /\ Reason(o) \notin {"none", "permission_blocked", "conflict_detected", "environment_failure"}
      /\ ~(a >= MaxAttempts) /\ Retryable(o)
  BY <1>1 DEF DecideRetry, Retries
<1>3. ~o.conflict /\ ~o.policy_violations /\ o.exception \notin OSErrors /\ o.failures # << >>
  BY <1>2 DEF Reason
<1> QED
  BY <1>2, <1>3, MaxAttemptsAssumption DEF Benign

LEMMA FailureFields ==
  ASSUME NEW category, NEW retryable, NEW cause
  PROVE  /\ Failure(category, retryable, cause).category = category
         /\ Failure(category, retryable, cause).retryable = retryable
BY Zenon DEF Failure

LEMMA WorkersOwnKinds ==
  ASSUME NEW k \in {WorkerFailed, CheckRejected, FileMissing, PatchMissing, TransactionFailed}
  PROVE  k.category \in {"worker", "deterministic_rejection", "contract"} /\ k.retryable = TRUE
<1>1. WorkerFailed.category = "worker" /\ WorkerFailed.retryable = TRUE
  BY FailureFields, Zenon DEF WorkerFailed
<1>2. CheckRejected.category = "deterministic_rejection" /\ CheckRejected.retryable = TRUE
  BY FailureFields, Zenon DEF CheckRejected
<1>3. FileMissing.category = "deterministic_rejection" /\ FileMissing.retryable = TRUE
  BY FailureFields, Zenon DEF FileMissing
<1>4. PatchMissing.category = "contract" /\ PatchMissing.retryable = TRUE
  BY FailureFields, Zenon DEF PatchMissing
<1>5. TransactionFailed.category = "deterministic_rejection" /\ TransactionFailed.retryable = TRUE
  BY FailureFields, Zenon DEF TransactionFailed
<1> QED
  BY <1>1, <1>2, <1>3, <1>4, <1>5

LEMMA FinalKinds ==
  ASSUME NEW k \in {ContractBlocked, PolicyBlocked, EnvironmentBlocked, Conflicting,
                    EvidenceMissing, Inconclusive}
  PROVE  k.retryable = FALSE
<1>1. ContractBlocked.retryable = FALSE
  BY FailureFields, Zenon DEF ContractBlocked
<1>2. PolicyBlocked.retryable = FALSE
  BY FailureFields, Zenon DEF PolicyBlocked
<1>3. EnvironmentBlocked.retryable = FALSE
  BY FailureFields, Zenon DEF EnvironmentBlocked
<1>4. Conflicting.retryable = FALSE
  BY FailureFields, Zenon DEF Conflicting
<1>5. EvidenceMissing.retryable = FALSE
  BY FailureFields, Zenon DEF EvidenceMissing
<1>6. Inconclusive.retryable = FALSE
  BY FailureFields, Zenon DEF Inconclusive
<1> QED
  BY <1>1, <1>2, <1>3, <1>4, <1>5, <1>6

\* The decisive failures and the unprovable checks are never retryable.
LEMMA VetoKinds ==
  \A k \in FailureKind :
    /\ k.retryable \in BOOLEAN
    /\ k.category \in NonRetryable \union {"missing_context", "semantic_inconclusive"}
         => ~k.retryable
    /\ k.category \in DOMAIN DecisiveReason => ~k.retryable
<1> SUFFICES ASSUME NEW k \in FailureKind
             PROVE  /\ k.retryable \in BOOLEAN
                    /\ k.category \in {"policy_permission", "environment", "integration_conflict",
                                      "missing_context", "semantic_inconclusive"} => ~k.retryable
  BY DEF NonRetryable, DecisiveReason
<1>1. CASE k \in {WorkerFailed, CheckRejected, FileMissing, PatchMissing, TransactionFailed}
  <2>1. k.category \in {"worker", "deterministic_rejection", "contract"} /\ k.retryable = TRUE
    BY <1>1, WorkersOwnKinds
  <2> QED
    BY <2>1
<1>2. CASE k \in {ContractBlocked, PolicyBlocked, EnvironmentBlocked, Conflicting,
                  EvidenceMissing, Inconclusive}
  <2>1. k.retryable = FALSE
    BY <1>2, FinalKinds
  <2> QED
    BY <2>1
<1> QED
  BY <1>1, <1>2 DEF FailureKind

\* The first of some places of a list is one of them.
LEMMA FirstIsFirst ==
  ASSUME NEW o \in Outcomes, NEW S \in SUBSET DOMAIN o.failures, S # {}
  PROVE  First(S) \in S
<1>1. o.failures \in Seq(FailureKind)
  BY OutcomeAssumption
<1>2. S \in SUBSET (1..Len(o.failures)) /\ Len(o.failures) \in Nat
  BY <1>1
<1>3. IsFiniteSet(1..Len(o.failures))
  BY <1>2, FS_Interval
<1>4. S \in SUBSET Nat /\ IsFiniteSet(S)
  BY <1>2, <1>3, FS_Subset
<1> QED
  BY <1>4, LeastExists DEF First

\* A benign outcome has no failure that stops the loop.
LEMMA BenignCategories ==
  ASSUME NEW o \in Outcomes, Benign(o)
  PROVE  Categories(o) \cap (NonRetryable \union {"missing_context"}) = {}
<1> SUFFICES ASSUME NEW i \in DOMAIN o.failures,
                    o.failures[i].category \in NonRetryable \union {"missing_context"}
             PROVE  FALSE
  BY DEF Categories
<1>1. o.failures[i] \in FailureKind
  BY OutcomeAssumption
<1>2. ~o.failures[i].retryable
  BY <1>1, VetoKinds
<1> QED
  BY <1>2 DEF Benign, Retryable, NonRetryable

\* History charges a benign outcome to nothing the code excuses a worker for at
\* once, although attribution follows an order of its own.
LEMMA BenignAttribution ==
  ASSUME NEW o \in Outcomes, Benign(o)
  PROVE  Attribution(o) \notin
           {"none", "permission_blocked", "environment_failure", "integration_conflict"}
<1>1. /\ "policy_permission" \notin Categories(o) /\ "environment" \notin Categories(o)
      /\ "integration_conflict" \notin Categories(o)
  BY BenignCategories DEF NonRetryable
<1>2. o.exception \in {"none", "timeout_expired", "other", "not_found"}
  BY OutcomeAssumption DEF Benign, OSErrors, ExceptionAttribution
<1>3. o.exception \in {"none", "timeout_expired", "other"}
  BY <1>2 DEF Benign, OSErrors
<1>4. CASE o.exception # "none"
  BY <1>3, <1>4 DEF Attribution, ExceptionAttribution
<1>5. CASE o.exception = "none"
  BY <1>1, <1>5 DEF Attribution, Benign
<1> QED
  BY <1>4, <1>5

\* An outcome is charged to nothing exactly if it is accepted.
LEMMA AcceptedIsUncharged ==
  ASSUME NEW o \in Outcomes
  PROVE  Accepted(o) <=> Attribution(o) = "none"
<1>1. CASE Accepted(o)
  BY <1>1, OutcomeAssumption DEF Accepted, Attribution
<1>2. CASE ~Accepted(o)
  <2>1. CASE o.exception # "none"
    BY <1>2, <2>1, OutcomeAssumption DEF Attribution, ExceptionAttribution
  <2>2. CASE o.exception = "none"
    BY <1>2, <2>2 DEF Attribution, Accepted
  <2> QED
    BY <1>2, <2>1, <2>2
<1> QED
  BY <1>1, <1>2

\* What is not accepted and not tried again, although the budget is not spent, has
\* something against it that is not the worker's.
LEMMA GivenUpIsExplained ==
  ASSUME NEW o \in Outcomes, ~Accepted(o), NEW a \in Nat, NEW f \in BOOLEAN
  PROVE  LET d == Executable(DecideRetry(o, a, MaxAttempts, f)) IN
         d \notin Retries =>
           /\ d \in {"stop", "escalate_main_agent"}
           /\ a < MaxAttempts =>
                \/ o.conflict \/ o.policy_violations \/ o.exception \in OSErrors
                \/ \E i \in DOMAIN o.failures : ~o.failures[i].retryable
<1>1. o.failures # << >>
  BY OutcomeAssumption DEF Accepted
<1>2. \A i \in DOMAIN o.failures : o.failures[i] \in FailureKind
  BY OutcomeAssumption
<1> DEFINE d == DecideRetry(o, a, MaxAttempts, f)
           Excused == \/ o.conflict \/ o.policy_violations \/ o.exception \in OSErrors
                      \/ \E i \in DOMAIN o.failures : ~o.failures[i].retryable
<1>3. d # "none"
  <2>1. Decisive(o) # {} => o.failures[First(Decisive(o))].category \in DOMAIN DecisiveReason
    BY FirstIsFirst DEF Decisive
  <2>2. \A c \in DOMAIN DecisiveReason : DecisiveReason[c] # "none"
    BY DEF DecisiveReason
  <2>3. Reason(o) # "none"
    BY <1>1, <2>1, <2>2 DEF Reason
  <2> QED
    BY <2>3 DEF DecideRetry
<1>4. Reason(o) # "verification_failed" => Excused
  <2>1. SUFFICES ASSUME ~o.conflict, ~o.policy_violations, o.exception \notin OSErrors,
                        Decisive(o) # {} \/ "semantic_inconclusive" \in Categories(o)
                 PROVE  \E i \in DOMAIN o.failures : ~o.failures[i].retryable
    BY <1>1 DEF Reason
  <2> QED
    BY <1>2, <2>1, VetoKinds DEF Decisive, Categories
<1>5. ~Retryable(o) => Excused
  BY <1>2, VetoKinds DEF Retryable
<1>6. d \notin {"retry_same_worker", "select_another_worker"} =>
        Executable(d) \in {"stop", "escalate_main_agent"}
  BY <1>3 DEF DecideRetry, Executable
<1>7. d \notin {"retry_same_worker", "select_another_worker"} /\ a < MaxAttempts =>
        Reason(o) # "verification_failed" \/ ~Retryable(o)
  BY MaxAttemptsAssumption DEF DecideRetry
<1>8. Executable(d) \in Retries <=> d \in Retries
  BY DEF Executable, Retries
<1> HIDE DEF Excused, d
<1>9. Executable(d) \notin Retries =>
        /\ Executable(d) \in {"stop", "escalate_main_agent"}
        /\ a < MaxAttempts => Excused
  BY <1>4, <1>5, <1>6, <1>7, <1>8 DEF Retries
<1> QED
  BY <1>9 DEF d, Excused

-----------------------------------------------------------------------------
(* The loop *)

\* What is the case of every finished attempt but the last: it was repeated, so
\* nothing stood against its repetition.
RepeatedAreBenign == \A i \in Made : i < attempt => Benign(history[i].outcome)

\* A loop that has ended, ended by the last outcome.
EndIsExplained ==
  /\ verdict = "succeeded" => Accepted(Latest)
  /\ verdict \in {"stop", "escalate_main_agent"} => ~Accepted(Latest)
  /\ BudgetIsUsed

\* With a second candidate, the worker of an attempt is not that of the one before,
\* in particular not while the attempt is under way.
WorkersAlternate ==
  Len(Worker) > 1 =>
    /\ FailedWorkerIsReplaced
    /\ Len(history) = attempt => history[attempt].worker = worker
    /\ Len(history) = attempt - 1 /\ attempt > 1 => history[attempt - 1].worker # worker

LoopInv == TypeOK /\ RepeatedAreBenign /\ EndIsExplained /\ WorkersAlternate

Entry == [worker : DOMAIN Worker, outcome : Outcomes]

LEMMA WorkerFacts == Len(Worker) \in Nat \ {0} /\ DOMAIN Worker = 1..Len(Worker)
BY WorkerAssumption

\* The typing of the state, without the definitions.
LEMMA TypeFacts ==
  ASSUME TypeOK
  PROVE  /\ attempt \in Nat \ {0} /\ MaxAttempts \in Nat \ {0}
         /\ history \in Seq(Entry) /\ Len(history) \in Nat /\ DOMAIN history = 1..Len(history)
         /\ Made = DOMAIN history
         /\ \A i \in Made : history[i] \in Entry /\ history[i].outcome \in Outcomes
         /\ Len(history) = attempt => Latest \in Outcomes
<1>1. history \in Seq(Entry)
  BY DEF TypeOK, Entry
<1>2. Made = DOMAIN history
  BY <1>1 DEF Made
<1>3. \A i \in Made : history[i] \in Entry
  BY <1>1, <1>2
<1>4. \A i \in Made : history[i].outcome \in Outcomes
  BY <1>3 DEF Entry
<1>5. attempt \in Nat \ {0} /\ MaxAttempts \in Nat \ {0}
  BY MaxAttemptsAssumption DEF TypeOK
<1>6. Len(history) = attempt => attempt \in Made
  BY <1>1, <1>5 DEF Made
<1> QED
  BY <1>1, <1>2, <1>3, <1>4, <1>5, <1>6 DEF Latest

\* Fallback names one worker, another one, and there is one if there are two.
LEMMA FallbackFacts ==
  ASSUME NEW w \in DOMAIN Worker
  PROVE  /\ \A v \in Fallback(w) : v \in DOMAIN Worker /\ v # w
         /\ Len(Worker) > 1 => Fallback(w) # {}
<1>1. \A v \in Fallback(w) : v \in DOMAIN Worker /\ v # w
  BY DEF Fallback
<1>2. ASSUME Len(Worker) > 1 PROVE Fallback(w) # {}
  <2>1. CASE w = 1
    <3>1. 2 \in Fallback(w)
      BY <1>2, <2>1, WorkerFacts DEF Fallback
    <3> QED
      BY <3>1
  <2>2. CASE w # 1
    <3>1. 1 \in Fallback(w)
      BY <1>2, <2>2, WorkerFacts DEF Fallback
    <3> QED
      BY <3>1
  <2> QED
    BY <2>1, <2>2
<1> QED
  BY <1>1, <1>2

LEMMA LoopInit == Init => LoopInv
<1> SUFFICES ASSUME Init PROVE LoopInv
  OBVIOUS
<1>1. TypeOK
  <2>1. history \in Seq([worker : DOMAIN Worker, outcome : Outcomes]) /\ Len(history) = 0
    BY DEF Init
  <2> QED
    BY <2>1, MaxAttemptsAssumption DEF Init, TypeOK
<1>2. Len(history) = 0 /\ attempt = 1 /\ verdict = "running"
  BY DEF Init
<1> QED
  BY <1>1, <1>2 DEF LoopInv, RepeatedAreBenign, EndIsExplained, BudgetIsUsed, WorkersAlternate,
                    FailedWorkerIsReplaced, Made

\* A finished attempt is the latest: what was recorded before is not touched.
LEMMA FinishKeeps ==
  ASSUME LoopInv, NEW o \in Outcomes, Finish(o)
  PROVE  LoopInv'
<1> DEFINE entry == [worker |-> worker, outcome |-> o]
<1>1. TypeOK /\ worker \in DOMAIN Worker
  BY DEF LoopInv, TypeOK
<1>2. /\ history' = Append(history, entry) /\ verdict = "running" /\ Len(history) = attempt - 1
      /\ attempt' = attempt /\ worker' = worker /\ verdict' = verdict
  BY DEF Finish, Record
<1>3. entry \in Entry
  BY <1>1 DEF Entry
<1>4. history' \in Seq(Entry)
  BY <1>1, <1>2, <1>3, TypeFacts
<1>5. /\ Len(history') = attempt /\ history'[attempt] = entry
      /\ \A i \in 1..(attempt - 1) : history'[i] = history[i]
  BY <1>1, <1>2, <1>3, TypeFacts
<1>6. TypeOK'
  BY <1>1, <1>2, <1>4, <1>5 DEF TypeOK, Entry
<1>7. RepeatedAreBenign'
  BY <1>1, <1>2, <1>5, TypeFacts DEF LoopInv, RepeatedAreBenign, Made
<1>8. EndIsExplained'
  BY <1>2 DEF EndIsExplained, BudgetIsUsed
<1>9. WorkersAlternate'
  <2> SUFFICES ASSUME Len(Worker) > 1 PROVE
        /\ FailedWorkerIsReplaced'
        /\ history'[attempt].worker = worker
    BY <1>1, <1>2, <1>5, TypeFacts DEF WorkersAlternate
  <2>1. history'[attempt].worker = worker
    BY <1>5
  <2>2. ASSUME NEW i \in 1..(Len(history') - 1)
        PROVE  history'[i].worker # history'[i + 1].worker
    <3>1. i \in 1..(attempt - 1) /\ i + 1 \in 1..attempt /\ attempt \in Nat
      BY <1>1, <1>5, <2>2, TypeFacts
    <3>2. CASE i + 1 = attempt
      <4>1. history[attempt - 1].worker # worker
        BY <1>2, <3>1, <3>2 DEF LoopInv, WorkersAlternate
      <4> QED
        BY <1>5, <2>1, <3>1, <3>2, <4>1
    <3>3. CASE i + 1 # attempt
      <4>1. i \in 1..(Len(history) - 1) /\ i + 1 \in 1..(attempt - 1)
        BY <1>2, <3>1, <3>3
      <4>2. history[i].worker # history[i + 1].worker
        BY <4>1 DEF LoopInv, WorkersAlternate, FailedWorkerIsReplaced
      <4> QED
        BY <1>5, <3>1, <4>1, <4>2
    <3> QED
      BY <3>2, <3>3
  <2> QED
    BY <2>1, <2>2 DEF FailedWorkerIsReplaced
<1> QED
  BY <1>6, <1>7, <1>8, <1>9 DEF LoopInv

LEMMA SucceedKeeps ==
  ASSUME LoopInv, Succeed
  PROVE  LoopInv'
<1>1. /\ Len(history) = attempt /\ Accepted(Latest) /\ verdict' = "succeeded"
      /\ attempt' = attempt /\ worker' = worker /\ history' = history /\ Latest' = Latest
  BY DEF Succeed, Unsettled, Latest
<1>2. TypeOK'
  BY <1>1 DEF LoopInv, TypeOK
<1> QED
  BY <1>1, <1>2 DEF LoopInv, RepeatedAreBenign, Made, EndIsExplained, BudgetIsUsed,
                    WorkersAlternate, FailedWorkerIsReplaced

\* Repeated is only what may be, and by another worker if there is one.
LEMMA RetryKeeps ==
  ASSUME LoopInv, RetryAttempt
  PROVE  LoopInv'
<1>1. /\ verdict = "running" /\ Len(history) = attempt /\ Decision(Latest) \in Retries
      /\ attempt' = attempt + 1 /\ history' = history /\ verdict' = verdict
      /\ IF Decision(Latest) = "select_another_worker" THEN worker' \in Fallback(worker)
                                                       ELSE worker' = worker
  BY DEF RetryAttempt, Unsettled
<1>2. TypeOK /\ worker \in DOMAIN Worker /\ Latest \in Outcomes /\ attempt \in Nat \ {0}
  BY <1>1, TypeFacts DEF LoopInv, TypeOK
<1>3. attempt < MaxAttempts /\ Benign(Latest)
  BY <1>1, <1>2, RetriedIsBenign DEF Decision
<1>4. worker' \in DOMAIN Worker
  BY <1>1, <1>2, FallbackFacts
<1>5. TypeOK'
  BY <1>1, <1>2, <1>3, <1>4, MaxAttemptsAssumption DEF TypeOK
<1>6. RepeatedAreBenign'
  BY <1>1, <1>2, <1>3, TypeFacts DEF LoopInv, RepeatedAreBenign, Made, Latest
<1>7. EndIsExplained'
  BY <1>1 DEF EndIsExplained, BudgetIsUsed
<1>8. WorkersAlternate'
  <2> SUFFICES ASSUME Len(Worker) > 1
               PROVE  FailedWorkerIsReplaced /\ history[attempt].worker # worker'
    BY <1>1, <1>2, TypeFacts DEF WorkersAlternate, FailedWorkerIsReplaced
  <2>1. FailedWorkerIsReplaced /\ history[attempt].worker = worker
    BY <1>1 DEF LoopInv, WorkersAlternate
  <2>2. Fallback(worker) # {}
    BY <1>2, FallbackFacts
  <2>3. Decision(Latest) = "select_another_worker"
    BY <1>1, <1>3, <2>2 DEF Decision, DecideRetry, Executable, Retries
  <2> QED
    BY <1>1, <1>2, <2>1, <2>3, FallbackFacts
<1> QED
  BY <1>5, <1>6, <1>7, <1>8 DEF LoopInv

LEMMA GiveUpKeeps ==
  ASSUME LoopInv, GiveUp
  PROVE  LoopInv'
<1>1. /\ Len(history) = attempt /\ ~Accepted(Latest) /\ Decision(Latest) \notin Retries
      /\ verdict' = Decision(Latest)
      /\ attempt' = attempt /\ worker' = worker /\ history' = history /\ Latest' = Latest
  BY DEF GiveUp, Unsettled, Latest
<1>2. TypeOK /\ Latest \in Outcomes /\ attempt \in Nat
  BY <1>1, TypeFacts DEF LoopInv
<1>3. /\ verdict' \in {"stop", "escalate_main_agent"}
      /\ attempt < MaxAttempts =>
           \/ Latest.conflict \/ Latest.policy_violations \/ Latest.exception \in OSErrors
           \/ \E i \in DOMAIN Latest.failures : ~Latest.failures[i].retryable
  BY <1>1, <1>2, GivenUpIsExplained DEF Decision
<1>4. TypeOK'
  BY <1>1, <1>2, <1>3 DEF TypeOK
<1> QED
  BY <1>1, <1>3, <1>4 DEF LoopInv, RepeatedAreBenign, Made, EndIsExplained, BudgetIsUsed,
                          WorkersAlternate, FailedWorkerIsReplaced

LEMMA RaiseKeeps ==
  ASSUME LoopInv, Raise
  PROVE  LoopInv'
<1>1. /\ verdict' = "raised" /\ attempt' = attempt /\ worker' = worker /\ history' = history
  BY DEF Raise
<1>2. TypeOK'
  BY <1>1 DEF LoopInv, TypeOK
<1> QED
  BY <1>1, <1>2 DEF LoopInv, RepeatedAreBenign, Made, EndIsExplained, BudgetIsUsed,
                    WorkersAlternate, FailedWorkerIsReplaced

LEMMA StutterKeeps ==
  ASSUME LoopInv, UNCHANGED vars
  PROVE  LoopInv'
<1>1. attempt' = attempt /\ worker' = worker /\ history' = history /\ verdict' = verdict
  BY DEF vars
<1>2. TypeOK'
  BY <1>1 DEF LoopInv, TypeOK
<1> QED
  BY <1>1, <1>2 DEF LoopInv, RepeatedAreBenign, Made, EndIsExplained, BudgetIsUsed, Latest,
                    WorkersAlternate, FailedWorkerIsReplaced

LEMMA LoopStep == LoopInv /\ [Next]_vars => LoopInv'
BY FinishKeeps, SucceedKeeps, RetryKeeps, GiveUpKeeps, RaiseKeeps, StutterKeeps DEF Next, Ended

LEMMA LoopInvariant == Spec => []LoopInv
BY LoopInit, LoopStep, PTL DEF Spec

-----------------------------------------------------------------------------
(* Theorems *)

\* run_node: the state of the loop is well formed, the history has one entry per
\* finished attempt, and a loop that ended by a decision has finished its attempt.
THEOREM LoopTypeCorrect == Spec => []TypeOK
<1>1. LoopInv => TypeOK
  BY DEF LoopInv
<1> QED
  BY <1>1, LoopInvariant, PTL

\* decide_retry and attribute_outcome agree: an attempt that history charges to the
\* policy, the environment or a conflict is the last.
THEOREM ExcludedEndsTheLoop == Spec => []ExcludedIsFinal
<1>1. LoopInv => ExcludedIsFinal
  <2> SUFFICES ASSUME LoopInv, NEW i \in Made,
                      Charged(i) \in {"permission_blocked", "environment_failure",
                                      "integration_conflict"}
               PROVE  i = attempt
    BY DEF ExcludedIsFinal
  <2>1. TypeOK /\ i \in 1..Len(history) /\ Len(history) \in {attempt - 1, attempt}
    BY DEF LoopInv, TypeOK, Made
  <2>2. history[i].outcome \in Outcomes
    BY <2>1, TypeFacts
  <2>3. ~Benign(history[i].outcome)
    BY <2>2, BenignAttribution DEF Charged
  <2>4. ~(i < attempt)
    BY <2>3 DEF LoopInv, RepeatedAreBenign
  <2> QED
    BY <2>1, <2>4, TypeFacts
<1> QED
  BY <1>1, LoopInvariant, PTL

\* decide_retry: after a failure that may not be retried nothing follows.
THEOREM VetoEndsTheLoop == Spec => []VetoIsFinal
<1>1. LoopInv => VetoIsFinal
  <2> SUFFICES ASSUME LoopInv, NEW i \in Made,
                      Categories(history[i].outcome) \cap (NonRetryable \union {"missing_context"}) # {}
               PROVE  i = attempt
    BY DEF VetoIsFinal
  <2>1. TypeOK /\ i \in 1..Len(history) /\ Len(history) \in {attempt - 1, attempt}
    BY DEF LoopInv, TypeOK, Made
  <2>2. history[i].outcome \in Outcomes
    BY <2>1, TypeFacts
  <2>3. ~(i < attempt)
    BY <2>2, BenignCategories DEF LoopInv, RepeatedAreBenign
  <2> QED
    BY <2>1, <2>3, TypeFacts
<1> QED
  BY <1>1, LoopInvariant, PTL

\* The attempt budget is spent, or the reason why not is not the worker's.
THEOREM AttemptsAreUsed == Spec => []BudgetIsUsed
<1>1. LoopInv => BudgetIsUsed
  BY DEF LoopInv, EndIsExplained
<1> QED
  BY <1>1, LoopInvariant, PTL

\* The fallback factory: with two candidates no worker is asked twice in a row.
THEOREM WorkersAreReplaced == Spec => []FailedWorkerIsReplaced
<1>1. LoopInv => FailedWorkerIsReplaced
  BY DEF LoopInv, WorkersAlternate, FailedWorkerIsReplaced
<1> QED
  BY <1>1, LoopInvariant, PTL

\* A success is the last attempt and charged to nobody, and only it lets the node
\* succeed.
THEOREM SuccessEndsTheLoop == Spec => []SuccessIsLast
<1>1. LoopInv => SuccessIsLast
  <2> SUFFICES ASSUME LoopInv PROVE SuccessIsLast
    OBVIOUS
  <2>1. TypeOK /\ Len(history) \in {attempt - 1, attempt}
    BY DEF LoopInv, TypeOK
  <2>2. ASSUME NEW i \in Made, Charged(i) = "none"
        PROVE  i = attempt /\ verdict \in {"running", "succeeded", "raised"}
    <3>1. i \in 1..Len(history) /\ history[i].outcome \in Outcomes
      BY <2>1, TypeFacts DEF Made
    <3>2. ~(i < attempt)
      BY <2>2, <3>1, BenignAttribution DEF LoopInv, RepeatedAreBenign, Charged
    <3>3. i = attempt
      BY <2>1, <3>1, <3>2, TypeFacts
    <3>4. Accepted(Latest)
      BY <2>2, <3>1, <3>3, AcceptedIsUncharged DEF Charged, Latest
    <3> QED
      BY <3>3, <3>4 DEF LoopInv, TypeOK, EndIsExplained
  <2>3. ASSUME verdict = "succeeded" PROVE Charged(attempt) = "none"
    <3>1. Latest \in Outcomes
      BY <2>1, <2>3, TypeFacts DEF TypeOK
    <3>2. Accepted(Latest)
      BY <2>3 DEF LoopInv, EndIsExplained
    <3> QED
      BY <3>1, <3>2, AcceptedIsUncharged DEF Charged, Latest
  <2> QED
    BY <2>2, <2>3 DEF SuccessIsLast
<1> QED
  BY <1>1, LoopInvariant, PTL
=============================================================================
