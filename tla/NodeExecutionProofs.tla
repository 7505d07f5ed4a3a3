------------------------ MODULE NodeExecutionProofs ------------------------
(* Proofs about NodeExecution, for any nodes, files, scopes and faults.      *)
EXTENDS NodeExecution, TLAPS

\* Who has the workspace: the holder of the lock while a transaction is built,
\* the node that is pending from then on, even when it has lost the lock.
Ownership ==
  /\ pc \in [Node -> Place]
  /\ after \in [Node -> {"none", "record", "decide", "release"}]
  /\ pending \in Node \union {NoNode}
  /\ \A n \in Node :
       /\ pc[n] \in {"built", "moved"} => lock = n /\ pending = NoNode
       /\ pc[n] \in {"installed", "scan", "undo", "undoing"} => pending = n
       /\ pc[n] \in {"undo", "undoing"} => after[n] # "none"

LEMMA OwnershipInitially == Init => Ownership
BY NobodyAssumption DEF Init, WorkspaceInit, Ownership, Place

LEMMA OwnershipKept == Ownership /\ [Next]_vars => Ownership'
<1> SUFFICES ASSUME Ownership, [Next]_vars PROVE Ownership'
  OBVIOUS
<1> USE NobodyAssumption DEF Ownership, Place, Goto
<1>1. ASSUME NEW n \in Node, RunNode(n) PROVE Ownership'
  <2>0. CASE \E f \in File : StageFile(n, f)
    BY <2>0 DEF StageFile, workspaceVars
  <2>29. CASE StageRaises(n)
    BY <2>29 DEF StageRaises, Raise, workspaceVars
  <2>30. CASE TransactionNotBegun(n)
    BY <2>30 DEF TransactionNotBegun, Conclude, workspaceVars
  <2>1. CASE ReserveAndStart(n)
    BY <2>1 DEF ReserveAndStart, StartAttempt, workspaceVars
  <2>2. CASE ReservationRefused(n)
    BY <2>2 DEF ReservationRefused, Raise, workspaceVars
  <2>3. CASE WorkerFails(n)
    BY <2>3 DEF WorkerFails, Conclude, workspaceVars
  <2>4. CASE Proposes(n)
    BY <2>4 DEF Proposes, workspaceVars
  <2>5. CASE Reports(n)
    BY <2>5 DEF Reports, workspaceVars
  <2>6. CASE CheckReport(n)
    BY <2>6 DEF CheckReport, Conclude, ChecksWrite, workspaceVars
  <2>7. CASE MeetConflict(n)
    BY <2>7 DEF MeetConflict, Conclude, workspaceVars
  <2>8. CASE Refuse(n)
    BY <2>8 DEF Refuse, Conclude, workspaceVars
  <2>9. CASE Build(n)
    BY <2>9 DEF Build, MayBegin, BuildTransaction, LockFree, workspaceVars
  <2>10. CASE MoveAway(n)
    BY <2>10 DEF MoveAway, MoveRootAway, workspaceVars
  <2>11. CASE Install(n)
    BY <2>11 DEF Install, InstallTransaction, workspaceVars
  <2>12. CASE TransactionFails(n)
    BY <2>12 DEF TransactionFails, Conclude, AbandonTransaction, workspaceVars
  <2>13. CASE PathsMismatch(n)
    BY <2>13 DEF PathsMismatch, RollBackThen, workspaceVars
  <2>14. CASE VerifyIntegrated(n)
    BY <2>14 DEF VerifyIntegrated, ChecksWrite, workspaceVars
  <2>15. CASE VerifierRaises(n)
    BY <2>15 DEF VerifierRaises, Conclude, workspaceVars
  <2>16. CASE ScanFindsNothing(n)
    BY <2>16 DEF ScanFindsNothing, workspaceVars
  <2>17. CASE ScanRejects(n)
    BY <2>17 DEF ScanRejects, RollBackThen, workspaceVars
  <2>18. CASE UndoBegins(n)
    BY <2>18 DEF UndoBegins, MoveRejectedAway, workspaceVars
  <2>19. CASE UndoEnds(n)
    BY <2>19 DEF UndoEnds, RestoreBackup, ReleaseLock, workspaceVars
  <2>20. CASE UndoFindsNothing(n)
    BY <2>20 DEF UndoFindsNothing, ReleaseLock, workspaceVars
  <2>21. CASE UndoRaises(n)
    BY <2>21 DEF UndoRaises, Conclude, Raise, RollbackRaises, RescanRaises, ReleaseLock, workspaceVars
  <2>22. CASE RecordOutcome(n)
    BY <2>22 DEF RecordOutcome, workspaceVars
  <2>23. CASE RecordRaises(n)
    BY <2>23 DEF RecordRaises, RollBackThen, workspaceVars
  <2>24. CASE Accept(n)
    BY <2>24 DEF Accept, Commit, ReleaseLock, workspaceVars
  <2>25. CASE DropLeftover(n)
    BY <2>25 DEF DropLeftover, RollBackThen, workspaceVars
  <2>26. CASE Retry(n)
    BY <2>26 DEF Retry, StartAttempt, workspaceVars
  <2>27. CASE GiveUp(n)
    BY <2>27 DEF GiveUp, workspaceVars
  <2>28. CASE ReleaseAndEnd(n)
    BY <2>28 DEF ReleaseAndEnd, workspaceVars
  <2> QED BY <1>1, <2>0, <2>1, <2>2, <2>3, <2>4, <2>5, <2>6, <2>7, <2>8, <2>9, <2>10, <2>11, <2>12, <2>13, <2>14, <2>15, <2>16, <2>17, <2>18, <2>19, <2>20, <2>21, <2>22, <2>23, <2>24, <2>25, <2>26, <2>27, <2>28, <2>29, <2>30 DEF RunNode
<1>2. CASE \E f \in File : EditSource(f)
  BY <1>2 DEF EditSource, workspaceVars, threadVars
<1>3. CASE UNCHANGED vars
  BY <1>3 DEF vars, workspaceVars, threadVars
<1> QED BY <1>1, <1>2, <1>3 DEF Next, AllEnded

\* Transactions never overlap, whatever fails and whoever has lost the lock
\* (apply_proposal, commit and rollback of GraphIntegrationSession).
THEOREM OneAtATime == Spec => []OneTransaction
<1>1. Ownership => OneTransaction
  BY NobodyAssumption DEF Ownership, OneTransaction, InTransaction
<1> QED BY OwnershipInitially, OwnershipKept, <1>1, PTL DEF Spec

-----------------------------------------------------------------------------
(* The verdicts.                                                             *)

LEMMA VerdictNames ==
  Verdict = {"accepted", "rejected", "policy", "environment", "conflict", "context"}
BY DEF Verdict, Failures

\* An attempt the environment spoilt is never made again.
LEMMA EnvironmentEnds ==
  ASSUME NEW n \in Node, verdict[n] = "environment"
  PROVE  Decision(n) \notin Policy!Retries
<1> DEFINE o == [exception |-> "none", status |-> "success", policy_violations |-> FALSE,
                 failures |-> Failures[verdict[n]], conflict |-> verdict[n] = "conflict"]
<1>0. Failures["environment"] = <<Policy!EnvironmentBlocked>>
  BY DEF Failures
<1>1. /\ o.failures = <<Policy!EnvironmentBlocked>>
      /\ o.conflict = ("environment" = "conflict")
      /\ o.policy_violations = FALSE /\ o.exception = "none"
  BY <1>0
<1> HIDE DEF o
<1>2. /\ o.failures # << >> /\ DOMAIN o.failures = {1}
      /\ o.failures[1].category = "environment"
  BY <1>1 DEF Policy!EnvironmentBlocked, Policy!Failure
<1>3. /\ "environment" \in DOMAIN Policy!DecisiveReason
      /\ Policy!DecisiveReason["environment"] = "environment_failure"
  BY DEF Policy!DecisiveReason
<1>4. Policy!Decisive(o) = {1}
  BY <1>2, <1>3 DEF Policy!Decisive
<1>5. Policy!First({1}) = 1
  BY DEF Policy!First
<1>6. Policy!Reason(o) = "environment_failure"
  BY <1>1, <1>2, <1>3, <1>4, <1>5 DEF Policy!Reason, Policy!OSErrors
<1>7. Policy!DecideRetry(o, attempt[n], MaxAttempts, FALSE) = "stop"
  BY <1>6 DEF Policy!DecideRetry
<1> QED BY <1>7 DEF o, Decision, Policy!Executable, Policy!Retries


-----------------------------------------------------------------------------
(* The proposals.                                                            *)

Proposal(n) == UNION {[S -> Output[n]] : S \in SUBSET Scope(n)}

Edits ==
  /\ edit \in [Node -> UNION {[S -> Content] : S \in SUBSET File}]
  /\ \A n \in Node : edit[n] \in Proposal(n)

-----------------------------------------------------------------------------
(* The directories.                                                          *)

\* Whoever has to fall back on the kept copy finds it.
Backups ==
  /\ root \in Tree \union {NoTree}
  /\ backup \in Tree \union {NoTree}
  /\ side \in Tree \union {NoTree}
  /\ \A n \in Node :
       /\ pc[n] = "built" => root \in Tree
       /\ \/ pc[n] \in {"moved", "installed", "scan", "undoing"}
          \/ pc[n] = "undo" /\ after[n] = "record"
          => backup \in Tree

\* What is known of an attempt, by the place its node has reached.
Standing ==
  /\ verdict \in [Node -> Verdict \union {"none", "raised"}]
  /\ \A n \in Node :
       /\ pc[n] \in {"idle", "stage", "working", "check", "propose"} => pending # n
       /\ pc[n] = "check" => n \notin Patcher
       /\ pc[n] = "scan" => verdict[n] \in Verdict
       /\ pc[n] \in {"undo", "undoing"} =>
            /\ after[n] = "record" => verdict[n] \in Verdict \ {"accepted"}
            /\ after[n] = "decide" => verdict[n] = "environment"
            /\ after[n] = "release" => verdict[n] = "raised"
       /\ pc[n] \in {"record", "settle", "decide"} =>
            /\ verdict[n] \in Verdict
            /\ pending = n => verdict[n] \in {"accepted", "environment"}
       /\ pc[n] = "decide" => verdict[n] # "accepted"
       /\ pc[n] \in {"release", "succeeded"} /\ verdict[n] = "accepted" => pending # n

\* What the three trees are, by the place the owner of the workspace has reached.
TreesOf(n) ==
  /\ pc[n] = "built" =>
       root = file_states /\ backup = NoTree /\ side = Patched(root, edit[n])
  /\ pc[n] = "moved" =>
       root = NoTree /\ file_states = backup /\ side = Patched(backup, edit[n])
  /\ pc[n] = "installed" => root = file_states
  /\ pc[n] \in {"installed", "scan"} => file_states = Patched(backup, edit[n])
  /\ pc[n] = "undoing" => root = NoTree /\ side \in Tree
  /\ pending = n /\ pc[n] # "undoing" => root \in Tree /\ side = NoTree
  /\ pending = n /\ pc[n] \in {"record", "settle"} /\ verdict[n] = "accepted" =>
       backup \in Tree /\ root = Patched(backup, edit[n]) /\ file_states = root

Calm == root \in Tree /\ root = file_states /\ backup = NoTree /\ side = NoTree

Trees ==
  /\ file_states \in Tree
  /\ (pending = NoNode /\ \A n \in Node : pc[n] \notin {"built", "moved"}) => Calm
  /\ \A n \in Node : TreesOf(n)

LEMMA EditsInitially == Init => Edits
<1> SUFFICES ASSUME Init PROVE Edits
  OBVIOUS
<1>1. ASSUME NEW n \in Node PROVE Nothing \in Proposal(n)
  BY DEF Nothing, Proposal
<1>2. Nothing \in UNION {[S -> Content] : S \in SUBSET File}
  BY DEF Nothing
<1> QED BY <1>1, <1>2 DEF Init, Edits

LEMMA EditsKept == Edits /\ [Next]_vars => Edits'
<1> SUFFICES ASSUME Edits, [Next]_vars PROVE Edits'
  OBVIOUS
<1>1. ASSUME NEW n \in Node, NEW e \in Proposal(n), edit' = [edit EXCEPT ![n] = e]
      PROVE  Edits'
  <2>1. e \in UNION {[S -> Content] : S \in SUBSET File}
    <3>1. PICK S \in SUBSET Scope(n) : e \in [S -> Output[n]]
      BY <1>1 DEF Proposal
    <3>2. S \in SUBSET File /\ e \in [S -> Content]
      BY <3>1, OutputAssumption DEF Scope
    <3> QED BY <3>2
  <2> QED BY <1>1, <2>1 DEF Edits, Proposal, Scope
<1>2. ASSUME NEW n \in Node, Proposes(n) PROVE Edits'
  <2>1. PICK S \in SUBSET Scope(n) : \E e \in [S -> Output[n]] : edit' = [edit EXCEPT ![n] = e]
    BY <1>2 DEF Proposes
  <2> QED BY <2>1, <1>1 DEF Proposal
<1>3. ASSUME NEW n \in Node, Retry(n) PROVE Edits'
  <2>1. Nothing \in Proposal(n)
    BY DEF Nothing, Proposal
  <2> QED BY <2>1, <1>1, <1>3 DEF Retry
<1>4. ASSUME NEW n \in Node, RunNode(n) PROVE UNCHANGED edit \/ Proposes(n) \/ Retry(n)
  BY <1>4
     DEF RunNode, StageFile, ReserveAndStart, ReservationRefused, StageRaises, WorkerFails, Reports, CheckReport, MeetConflict, Refuse, Build, MoveAway, Install, TransactionNotBegun, TransactionFails, PathsMismatch, VerifyIntegrated, VerifierRaises, ScanFindsNothing, ScanRejects, UndoBegins, UndoEnds, UndoFindsNothing, UndoRaises, RecordOutcome, RecordRaises, Accept, DropLeftover, GiveUp, ReleaseAndEnd
<1>5. ASSUME UNCHANGED edit PROVE Edits'
  BY <1>5 DEF Edits, Proposal, Scope
<1>6. ASSUME NEW f \in File, EditSource(f) PROVE UNCHANGED edit
  BY <1>6 DEF EditSource, threadVars
<1> QED BY <1>2, <1>3, <1>4, <1>5, <1>6 DEF Next, AllEnded, vars, threadVars

LEMMA PatchedTree ==
  ASSUME NEW t \in Tree, NEW n \in Node, NEW e \in Proposal(n)
  PROVE  Patched(t, e) \in Tree
BY OutputAssumption DEF Proposal, Patched, Tree, Scope

LEMMA LitteredTree ==
  ASSUME NEW fs, NEW c \in Content, ChecksWrite(fs, c),
         root \in Tree \union {NoTree}
  PROVE  root' \in Tree /\ root \in Tree
BY NoTreeAssumption DEF ChecksWrite, Tree

LEMMA BackupsInitially == Init => Backups
BY SourceAssumption DEF Init, WorkspaceInit, Backups

LEMMA BackupsKept == Ownership /\ Edits /\ Backups /\ [Next]_vars => Backups'
<1> SUFFICES ASSUME Ownership, Edits, Backups, [Next]_vars PROVE Backups'
  OBVIOUS
<1> USE NobodyAssumption, NoTreeAssumption DEF Ownership, Backups, Place, Goto
<1>1. ASSUME NEW n \in Node, RunNode(n) PROVE Backups'
  <2>0. CASE \E f \in File : StageFile(n, f)
    BY <2>0 DEF StageFile, workspaceVars
  <2>29. CASE StageRaises(n)
    BY <2>29 DEF StageRaises, Raise, workspaceVars
  <2>30. CASE TransactionNotBegun(n)
    BY <2>30 DEF TransactionNotBegun, Conclude, workspaceVars
  <2>1. CASE ReserveAndStart(n)
    BY <2>1 DEF ReserveAndStart, StartAttempt, workspaceVars
  <2>2. CASE ReservationRefused(n)
    BY <2>2 DEF ReservationRefused, Raise, workspaceVars
  <2>3. CASE WorkerFails(n)
    BY <2>3 DEF WorkerFails, Conclude, workspaceVars
  <2>4. CASE Proposes(n)
    BY <2>4 DEF Proposes, workspaceVars
  <2>5. CASE Reports(n)
    BY <2>5 DEF Reports, workspaceVars
  <2>6. CASE CheckReport(n)
    <3>1. CASE ChecksWrite(Litter[n], Scribble)
      BY <2>6, <3>1, LitteredTree, LitterAssumption DEF CheckReport, Conclude, ChecksWrite
    <3>2. CASE UNCHANGED workspaceVars
      BY <2>6, <3>2 DEF CheckReport, Conclude, workspaceVars
    <3> QED BY <2>6, <3>1, <3>2 DEF CheckReport
  <2>7. CASE MeetConflict(n)
    BY <2>7 DEF MeetConflict, Conclude, workspaceVars
  <2>8. CASE Refuse(n)
    BY <2>8 DEF Refuse, Conclude, workspaceVars
  <2>9. CASE Build(n)
    <3>1. root \in Tree /\ Patched(root, edit[n]) \in Tree
      BY <2>9, PatchedTree DEF Build, MayBegin, HunksValid, Edits
    <3> QED BY <2>9, <3>1 DEF Build, MayBegin, BuildTransaction, LockFree
  <2>10. CASE MoveAway(n)
    BY <2>10 DEF MoveAway, MoveRootAway, workspaceVars
  <2>11. CASE Install(n)
    BY <2>11 DEF Install, InstallTransaction, workspaceVars
  <2>12. CASE TransactionFails(n)
    BY <2>12 DEF TransactionFails, Conclude, AbandonTransaction, workspaceVars
  <2>13. CASE PathsMismatch(n)
    BY <2>13 DEF PathsMismatch, RollBackThen, workspaceVars
  <2>14. CASE VerifyIntegrated(n)
    <3>1. CASE ChecksWrite(Litter[n], Scribble)
      BY <2>14, <3>1, LitteredTree, LitterAssumption DEF VerifyIntegrated, ChecksWrite
    <3>2. CASE UNCHANGED workspaceVars
      BY <2>14, <3>2 DEF VerifyIntegrated, workspaceVars
    <3> QED BY <2>14, <3>1, <3>2 DEF VerifyIntegrated
  <2>15. CASE VerifierRaises(n)
    BY <2>15 DEF VerifierRaises, Conclude, workspaceVars
  <2>16. CASE ScanFindsNothing(n)
    BY <2>16 DEF ScanFindsNothing, SideEffects, workspaceVars
  <2>17. CASE ScanRejects(n)
    BY <2>17 DEF ScanRejects, RollBackThen, workspaceVars
  <2>18. CASE UndoBegins(n)
    BY <2>18 DEF UndoBegins, MoveRejectedAway, workspaceVars
  <2>19. CASE UndoEnds(n)
    BY <2>19 DEF UndoEnds, RestoreBackup, ReleaseLock, workspaceVars
  <2>20. CASE UndoFindsNothing(n)
    BY <2>20 DEF UndoFindsNothing, ReleaseLock, workspaceVars
  <2>21. CASE UndoRaises(n)
    BY <2>21 DEF UndoRaises, Conclude, Raise, RollbackRaises, RescanRaises, ReleaseLock, workspaceVars
  <2>22. CASE RecordOutcome(n)
    BY <2>22 DEF RecordOutcome, workspaceVars
  <2>23. CASE RecordRaises(n)
    BY <2>23 DEF RecordRaises, RollBackThen, workspaceVars
  <2>24. CASE Accept(n)
    BY <2>24 DEF Accept, Commit, ReleaseLock, workspaceVars
  <2>25. CASE DropLeftover(n)
    BY <2>25 DEF DropLeftover, RollBackThen, workspaceVars
  <2>26. CASE Retry(n)
    BY <2>26 DEF Retry, StartAttempt, workspaceVars
  <2>27. CASE GiveUp(n)
    BY <2>27 DEF GiveUp, workspaceVars
  <2>28. CASE ReleaseAndEnd(n)
    BY <2>28 DEF ReleaseAndEnd, workspaceVars
  <2> QED BY <1>1, <2>0, <2>1, <2>2, <2>3, <2>4, <2>5, <2>6, <2>7, <2>8, <2>9, <2>10, <2>11, <2>12, <2>13, <2>14, <2>15, <2>16, <2>17, <2>18, <2>19, <2>20, <2>21, <2>22, <2>23, <2>24, <2>25, <2>26, <2>27, <2>28, <2>29, <2>30 DEF RunNode
<1>2. CASE \E f \in File : EditSource(f)
  BY <1>2 DEF EditSource, workspaceVars, threadVars
<1>3. CASE UNCHANGED vars
  BY <1>3 DEF vars, workspaceVars, threadVars
<1> QED BY <1>1, <1>2, <1>3 DEF Next, AllEnded

LEMMA StandingInitially == Init => Standing
BY NobodyAssumption DEF Init, WorkspaceInit, Standing

LEMMA StandingKept == Ownership /\ Backups /\ Standing /\ [Next]_vars => Standing'
<1> SUFFICES ASSUME Ownership, Backups, Standing, [Next]_vars PROVE Standing'
  OBVIOUS
<1> USE NobodyAssumption, NoTreeAssumption, VerdictNames DEF Ownership, Backups, Standing, Place, Goto
<1>1. ASSUME NEW n \in Node, RunNode(n) PROVE Standing'
  <2>0. CASE \E f \in File : StageFile(n, f)
    BY <2>0 DEF StageFile, workspaceVars
  <2>29. CASE StageRaises(n)
    BY <2>29 DEF StageRaises, Raise, workspaceVars
  <2>30. CASE TransactionNotBegun(n)
    BY <2>30 DEF TransactionNotBegun, Conclude, workspaceVars
  <2>1. CASE ReserveAndStart(n)
    BY <2>1 DEF ReserveAndStart, StartAttempt, workspaceVars
  <2>2. CASE ReservationRefused(n)
    BY <2>2 DEF ReservationRefused, Raise, workspaceVars
  <2>3. CASE WorkerFails(n)
    BY <2>3 DEF WorkerFails, Conclude, workspaceVars
  <2>4. CASE Proposes(n)
    BY <2>4 DEF Proposes, workspaceVars
  <2>5. CASE Reports(n)
    BY <2>5 DEF Reports, workspaceVars
  <2>6. CASE CheckReport(n)
    BY <2>6 DEF CheckReport, Conclude, ChecksWrite, workspaceVars
  <2>7. CASE MeetConflict(n)
    BY <2>7 DEF MeetConflict, Conclude, workspaceVars
  <2>8. CASE Refuse(n)
    BY <2>8 DEF Refuse, Conclude, workspaceVars
  <2>9. CASE Build(n)
    BY <2>9 DEF Build, MayBegin, HunksValid, BuildTransaction, LockFree, workspaceVars
  <2>10. CASE MoveAway(n)
    BY <2>10 DEF MoveAway, MoveRootAway, workspaceVars
  <2>11. CASE Install(n)
    BY <2>11 DEF Install, InstallTransaction, workspaceVars
  <2>12. CASE TransactionFails(n)
    BY <2>12 DEF TransactionFails, Conclude, AbandonTransaction, workspaceVars
  <2>13. CASE PathsMismatch(n)
    BY <2>13 DEF PathsMismatch, RollBackThen, workspaceVars
  <2>14. CASE VerifyIntegrated(n)
    BY <2>14 DEF VerifyIntegrated, ChecksWrite, workspaceVars
  <2>15. CASE VerifierRaises(n)
    BY <2>15 DEF VerifierRaises, Conclude, workspaceVars
  <2>16. CASE ScanFindsNothing(n)
    BY <2>16 DEF ScanFindsNothing, SideEffects, workspaceVars
  <2>17. CASE ScanRejects(n)
    BY <2>17 DEF ScanRejects, RollBackThen, workspaceVars
  <2>18. CASE UndoBegins(n)
    BY <2>18 DEF UndoBegins, MoveRejectedAway, workspaceVars
  <2>19. CASE UndoEnds(n)
    BY <2>19 DEF UndoEnds, RestoreBackup, ReleaseLock, workspaceVars
  <2>20. CASE UndoFindsNothing(n)
    BY <2>20 DEF UndoFindsNothing, ReleaseLock, workspaceVars
  <2>21. CASE UndoRaises(n)
    BY <2>21 DEF UndoRaises, Conclude, Raise, RollbackRaises, RescanRaises, ReleaseLock, workspaceVars
  <2>22. CASE RecordOutcome(n)
    BY <2>22 DEF RecordOutcome, workspaceVars
  <2>23. CASE RecordRaises(n)
    BY <2>23 DEF RecordRaises, RollBackThen, workspaceVars
  <2>24. CASE Accept(n)
    BY <2>24 DEF Accept, Commit, ReleaseLock, workspaceVars
  <2>25. CASE DropLeftover(n)
    BY <2>25 DEF DropLeftover, RollBackThen, workspaceVars
  <2>26. CASE Retry(n)
    <3>1. pending # n
      BY <2>26, EnvironmentEnds DEF Retry, StartAttempt
    <3> QED BY <2>26, <3>1 DEF Retry, StartAttempt, workspaceVars
  <2>27. CASE GiveUp(n)
    BY <2>27 DEF GiveUp, workspaceVars
  <2>28. CASE ReleaseAndEnd(n)
    BY <2>28 DEF ReleaseAndEnd, workspaceVars
  <2> QED BY <1>1, <2>0, <2>1, <2>2, <2>3, <2>4, <2>5, <2>6, <2>7, <2>8, <2>9, <2>10, <2>11, <2>12, <2>13, <2>14, <2>15, <2>16, <2>17, <2>18, <2>19, <2>20, <2>21, <2>22, <2>23, <2>24, <2>25, <2>26, <2>27, <2>28, <2>29, <2>30 DEF RunNode
<1>2. CASE \E f \in File : EditSource(f)
  BY <1>2 DEF EditSource, workspaceVars, threadVars
<1>3. CASE UNCHANGED vars
  BY <1>3 DEF vars, workspaceVars, threadVars
<1> QED BY <1>1, <1>2, <1>3 DEF Next, AllEnded

LEMMA TreesInitially == Init => Trees
BY NobodyAssumption, SourceAssumption DEF Init, WorkspaceInit, Trees, TreesOf, Calm

\* Nodes that are not alone with the workspace leave it alone.
ReportsCleanly == \A n \in Node \ Patcher : Litter[n] = {}

LEMMA NoLitterNoChange ==
  ASSUME NEW c, root \in Tree \union {NoTree}, ChecksWrite({}, c)
  PROVE  UNCHANGED root
BY DEF ChecksWrite, Tree

LEMMA TreesKept ==
  ReportsCleanly /\ Ownership /\ Edits /\ Backups /\ Standing /\ Trees /\ [Next]_vars => Trees'
<1> SUFFICES ASSUME ReportsCleanly, Ownership, Edits, Backups, Standing, Trees, [Next]_vars
              PROVE  Trees'
  OBVIOUS
<1> USE NobodyAssumption, NoTreeAssumption, VerdictNames DEF Ownership, Edits, Backups, Standing, Trees, TreesOf, Calm, Place, Goto
<1>1. ASSUME NEW n \in Node, RunNode(n) PROVE Trees'
  <2>0. CASE \E f \in File : StageFile(n, f)
    BY <2>0 DEF StageFile, workspaceVars
  <2>29. CASE StageRaises(n)
    BY <2>29 DEF StageRaises, Raise, workspaceVars
  <2>30. CASE TransactionNotBegun(n)
    BY <2>30 DEF TransactionNotBegun, Conclude, workspaceVars
  <2>1. CASE ReserveAndStart(n)
    BY <2>1 DEF ReserveAndStart, StartAttempt, workspaceVars
  <2>2. CASE ReservationRefused(n)
    BY <2>2 DEF ReservationRefused, Raise, workspaceVars
  <2>3. CASE WorkerFails(n)
    BY <2>3 DEF WorkerFails, Conclude, workspaceVars
  <2>4. CASE Proposes(n)
    BY <2>4 DEF Proposes, workspaceVars
  <2>5. CASE Reports(n)
    BY <2>5 DEF Reports, workspaceVars
  <2>6. CASE CheckReport(n)
    <3>1. UNCHANGED workspaceVars
      <4>1. CASE ChecksWrite(Litter[n], Scribble)
        <5>1. Litter[n] = {}
          BY <2>6 DEF CheckReport, Conclude, Standing, ReportsCleanly
        <5> QED BY <4>1, <5>1, NoLitterNoChange DEF ChecksWrite, workspaceVars
      <4> QED BY <2>6, <4>1 DEF CheckReport
    <3> QED BY <2>6, <3>1 DEF CheckReport, Conclude, workspaceVars
  <2>7. CASE MeetConflict(n)
    BY <2>7 DEF MeetConflict, Conclude, workspaceVars
  <2>8. CASE Refuse(n)
    BY <2>8 DEF Refuse, Conclude, workspaceVars
  <2>9. CASE Build(n)
    BY <2>9 DEF Build, MayBegin, HunksValid, BuildTransaction, LockFree
  <2>10. CASE MoveAway(n)
    BY <2>10 DEF MoveAway, MoveRootAway, workspaceVars
  <2>11. CASE Install(n)
    <3>1. Patched(file_states, edit[n]) = side /\ side \in Tree
      BY <2>11, PatchedTree DEF Install
    <3> QED BY <2>11, <3>1 DEF Install, InstallTransaction, workspaceVars
  <2>12. CASE TransactionFails(n)
    BY <2>12 DEF TransactionFails, Conclude, AbandonTransaction, workspaceVars
  <2>13. CASE PathsMismatch(n)
    BY <2>13 DEF PathsMismatch, RollBackThen, workspaceVars
  <2>14. CASE VerifyIntegrated(n)
    <3>1. CASE ChecksWrite(Litter[n], Scribble)
      <4>1. root' \in Tree
        BY <3>1, LitteredTree, LitterAssumption
      <4>2. UNCHANGED <<backup, side, file_states, pending>>
        BY <3>1 DEF ChecksWrite
      <4>3. pc[n] = "installed" /\ pc' = [pc EXCEPT ![n] = "scan"] /\ UNCHANGED edit
        BY <2>14 DEF VerifyIntegrated
      <4>4. \A m \in Node \ {n} : verdict'[m] = verdict[m]
        BY <2>14 DEF VerifyIntegrated
      <4> QED BY <4>1, <4>2, <4>3, <4>4
    <3>2. CASE UNCHANGED workspaceVars
      BY <2>14, <3>2 DEF VerifyIntegrated, workspaceVars
    <3> QED BY <2>14, <3>1, <3>2 DEF VerifyIntegrated
  <2>15. CASE VerifierRaises(n)
    BY <2>15 DEF VerifierRaises, Conclude, workspaceVars
  <2>16. CASE ScanFindsNothing(n)
    BY <2>16 DEF ScanFindsNothing, SideEffects, workspaceVars
  <2>17. CASE ScanRejects(n)
    BY <2>17 DEF ScanRejects, RollBackThen, workspaceVars
  <2>18. CASE UndoBegins(n)
    BY <2>18 DEF UndoBegins, MoveRejectedAway, workspaceVars
  <2>19. CASE UndoEnds(n)
    BY <2>19 DEF UndoEnds, RestoreBackup, ReleaseLock, workspaceVars
  <2>20. CASE UndoFindsNothing(n)
    BY <2>20 DEF UndoFindsNothing, ReleaseLock, workspaceVars
  <2>21. CASE UndoRaises(n)
    BY <2>21 DEF UndoRaises, Conclude, Raise, RollbackRaises, RescanRaises, ReleaseLock, workspaceVars
  <2>22. CASE RecordOutcome(n)
    BY <2>22 DEF RecordOutcome, workspaceVars
  <2>23. CASE RecordRaises(n)
    BY <2>23 DEF RecordRaises, RollBackThen, workspaceVars
  <2>24. CASE Accept(n)
    BY <2>24 DEF Accept, Commit, ReleaseLock, workspaceVars
  <2>25. CASE DropLeftover(n)
    BY <2>25 DEF DropLeftover, RollBackThen, workspaceVars
  <2>26. CASE Retry(n)
    BY <2>26 DEF Retry, StartAttempt, workspaceVars
  <2>27. CASE GiveUp(n)
    BY <2>27 DEF GiveUp, workspaceVars
  <2>28. CASE ReleaseAndEnd(n)
    BY <2>28 DEF ReleaseAndEnd, workspaceVars
  <2> QED BY <1>1, <2>0, <2>1, <2>2, <2>3, <2>4, <2>5, <2>6, <2>7, <2>8, <2>9, <2>10, <2>11, <2>12, <2>13, <2>14, <2>15, <2>16, <2>17, <2>18, <2>19, <2>20, <2>21, <2>22, <2>23, <2>24, <2>25, <2>26, <2>27, <2>28, <2>29, <2>30 DEF RunNode
<1>2. CASE \E f \in File : EditSource(f)
  BY <1>2 DEF EditSource, workspaceVars, threadVars
<1>3. CASE UNCHANGED vars
  BY <1>3 DEF vars, workspaceVars, threadVars
<1> QED BY <1>1, <1>2, <1>3 DEF Next, AllEnded

-----------------------------------------------------------------------------
(* The theorems.                                                             *)

Consistent == Ownership /\ Edits /\ Backups /\ Standing /\ Trees

LEMMA ConsistentAlways == ASSUME ReportsCleanly PROVE Spec => []Consistent
<1>1. Init => Consistent
  BY OwnershipInitially, EditsInitially, BackupsInitially, StandingInitially,
     TreesInitially DEF Consistent
<1>2. Consistent /\ [Next]_vars => Consistent'
  BY OwnershipKept, EditsKept, BackupsKept, StandingKept, TreesKept DEF Consistent
<1> QED BY <1>1, <1>2, PTL DEF Spec

\* Between transactions the workspace is whole and the snapshot knows it
\* (commit and rollback of GraphIntegrationSession, with all the ways apply,
\* rollback and the ledger can fail); checks of report nodes must not write.
THEOREM QuietBetweenTransactions ==
  ASSUME ReportsCleanly PROVE Spec => []QuietWorkspace
<1>1. Consistent => QuietWorkspace
  BY DEF Consistent, Ownership, Trees, Calm, QuietWorkspace, InTransaction
<1> QED BY <1>1, ConsistentAlways, PTL

\* A transaction starts from what was committed (apply_proposal after any
\* history of failed attempts).
THEOREM StartsFromCommitted ==
  ASSUME ReportsCleanly PROVE Spec => []BuiltOnCommitted
<1>1. Consistent => BuiltOnCommitted
  BY DEF Consistent, Trees, TreesOf, BuiltOnCommitted, Canonical
<1> QED BY <1>1, ConsistentAlways, PTL

AcceptedNodes == {n \in Node : verdict[n] = "accepted" /\ pc[n] \in {"release", "succeeded"}}

LEMMA StepKeepsPromise ==
  ReportsCleanly /\ Consistent /\ [Next]_vars => [Promise!Next]_<<Canonical, AcceptedNodes>>
<1> SUFFICES ASSUME ReportsCleanly, Consistent, [Next]_vars PROVE [Promise!Next]_<<Canonical, AcceptedNodes>>
  OBVIOUS
<1> USE NoTreeAssumption, NobodyAssumption, VerdictNames DEF Consistent, Ownership, Edits, Backups, Standing, Trees, TreesOf, Calm, Place, Goto,
           Canonical, AcceptedNodes
<1>1. ASSUME NEW n \in Node, RunNode(n) PROVE [Promise!Next]_<<Canonical, AcceptedNodes>>
  <2>0. CASE \E f \in File : StageFile(n, f)
    BY <2>0 DEF StageFile, workspaceVars
  <2>29. CASE StageRaises(n)
    BY <2>29 DEF StageRaises, Raise, workspaceVars
  <2>30. CASE TransactionNotBegun(n)
    BY <2>30 DEF TransactionNotBegun, Conclude, workspaceVars
  <2>1. CASE ReserveAndStart(n)
    BY <2>1 DEF ReserveAndStart, StartAttempt, workspaceVars
  <2>2. CASE ReservationRefused(n)
    BY <2>2 DEF ReservationRefused, Raise, workspaceVars
  <2>3. CASE WorkerFails(n)
    BY <2>3 DEF WorkerFails, Conclude, workspaceVars
  <2>4. CASE Proposes(n)
    BY <2>4 DEF Proposes, workspaceVars
  <2>5. CASE Reports(n)
    BY <2>5 DEF Reports, workspaceVars
  <2>6. CASE CheckReport(n)
    <3>1. UNCHANGED <<root, backup>>
      <4>1. CASE ChecksWrite(Litter[n], Scribble)
        <5>1. Litter[n] = {}
          BY <2>6 DEF CheckReport, Conclude, Standing, ReportsCleanly
        <5> QED BY <4>1, <5>1, NoLitterNoChange DEF ChecksWrite
      <4> QED BY <2>6, <4>1 DEF CheckReport, workspaceVars
    <3> QED BY <2>6, <3>1 DEF CheckReport, Conclude
  <2>7. CASE MeetConflict(n)
    BY <2>7 DEF MeetConflict, Conclude, workspaceVars
  <2>8. CASE Refuse(n)
    BY <2>8 DEF Refuse, Conclude, workspaceVars
  <2>9. CASE Build(n)
    BY <2>9 DEF Build, MayBegin, HunksValid, BuildTransaction, LockFree, workspaceVars
  <2>10. CASE MoveAway(n)
    BY <2>10 DEF MoveAway, MoveRootAway, workspaceVars
  <2>11. CASE Install(n)
    BY <2>11, NoTreeAssumption DEF Install, InstallTransaction
  <2>12. CASE TransactionFails(n)
    BY <2>12 DEF TransactionFails, Conclude, AbandonTransaction, workspaceVars
  <2>13. CASE PathsMismatch(n)
    BY <2>13 DEF PathsMismatch, RollBackThen, workspaceVars
  <2>14. CASE VerifyIntegrated(n)
    BY <2>14, NoTreeAssumption DEF VerifyIntegrated, ChecksWrite, workspaceVars
  <2>15. CASE VerifierRaises(n)
    BY <2>15 DEF VerifierRaises, Conclude, workspaceVars
  <2>16. CASE ScanFindsNothing(n)
    BY <2>16 DEF ScanFindsNothing, SideEffects, workspaceVars
  <2>17. CASE ScanRejects(n)
    BY <2>17 DEF ScanRejects, RollBackThen, workspaceVars
  <2>18. CASE UndoBegins(n)
    BY <2>18 DEF UndoBegins, MoveRejectedAway, workspaceVars
  <2>19. CASE UndoEnds(n)
    BY <2>19 DEF UndoEnds, RestoreBackup, ReleaseLock, workspaceVars
  <2>20. CASE UndoFindsNothing(n)
    BY <2>20 DEF UndoFindsNothing, ReleaseLock, workspaceVars
  <2>21. CASE UndoRaises(n)
    BY <2>21 DEF UndoRaises, Conclude, Raise, RollbackRaises, RescanRaises, ReleaseLock, workspaceVars
  <2>22. CASE RecordOutcome(n)
    BY <2>22 DEF RecordOutcome, workspaceVars
  <2>23. CASE RecordRaises(n)
    BY <2>23 DEF RecordRaises, RollBackThen, workspaceVars
  <2>24. CASE Accept(n)
    <3>1. AcceptedNodes' = AcceptedNodes \union {n} /\ n \notin AcceptedNodes
      BY <2>24 DEF Accept
    <3>2. CASE pending # n
      <4>1. UNCHANGED Canonical
        BY <2>24, <3>2 DEF Accept, workspaceVars
      <4> QED BY <3>1, <4>1 DEF Promise!Next, Promise!AcceptReport, Promise!AcceptNode, AcceptedNodes
    <3>3. CASE pending = n
      <4>1. Canonical' = Patched(Canonical, edit[n])
        BY <2>24, <3>3 DEF Accept, Commit
      <4>2. PICK S \in SUBSET Scope(n) : edit[n] \in [S -> Output[n]]
        BY DEF Proposal
      <4>3. Canonical' = [f \in File |-> IF f \in S THEN edit[n][f] ELSE Canonical[f]]
        BY <4>1, <4>2 DEF Patched
      <4>4. S \in SUBSET [m \in Node |-> Scope(m)][n]
        BY <4>2
      <4>5. Promise!AcceptNode(n)
        BY <3>1 DEF Promise!AcceptNode, AcceptedNodes
      <4> HIDE DEF Canonical
      <4>6. Promise!AcceptPatch(n)
        BY <4>2, <4>3, <4>4, <4>5 DEF Promise!AcceptPatch
      <4> QED BY <4>6 DEF Promise!Next
    <3> QED BY <3>2, <3>3
  <2>25. CASE DropLeftover(n)
    BY <2>25 DEF DropLeftover, RollBackThen, workspaceVars
  <2>26. CASE Retry(n)
    BY <2>26 DEF Retry, StartAttempt, workspaceVars
  <2>27. CASE GiveUp(n)
    BY <2>27 DEF GiveUp, workspaceVars
  <2>28. CASE ReleaseAndEnd(n)
    BY <2>28 DEF ReleaseAndEnd, workspaceVars
  <2> QED BY <1>1, <2>0, <2>1, <2>2, <2>3, <2>4, <2>5, <2>6, <2>7, <2>8, <2>9, <2>10, <2>11, <2>12, <2>13, <2>14, <2>15, <2>16, <2>17, <2>18, <2>19, <2>20, <2>21, <2>22, <2>23, <2>24, <2>25, <2>26, <2>27, <2>28, <2>29, <2>30 DEF RunNode
<1>2. CASE \E f \in File : EditSource(f)
  BY <1>2 DEF EditSource, workspaceVars, threadVars
<1>3. CASE UNCHANGED vars
  BY <1>3 DEF vars, workspaceVars, threadVars
<1> QED BY <1>1, <1>2, <1>3 DEF Next, AllEnded

\* With everything that can fail, be undone and be made again in between, the
\* workspace passes for one to which the accepted patches are applied whole, one
\* after the other, each inside its node's write scope (run_node, phased_verifier
\* and GraphIntegrationSession together).
THEOREM PromiseIsKept == ASSUME ReportsCleanly PROVE Spec => KeepsPromise
<1>1. Init => Promise!Init
  BY DEF Init, WorkspaceInit, Promise!Init, Canonical
<1>2. Consistent /\ [Next]_vars => [Promise!Next]_<<Canonical, AcceptedNodes>>
  BY StepKeepsPromise
<1> QED BY <1>1, <1>2, ConsistentAlways, PTL DEF Spec, KeepsPromise, Promise!Spec, AcceptedNodes

-----------------------------------------------------------------------------
(* The lock, and the ends.                                                   *)

\* Who holds the lock, and how far its node has got.
Locked ==
  /\ lock \in Node \union {NoNode}
  /\ \A n \in Node : lock = n =>
       \/ pc[n] \in {"built", "moved"}
       \/ pending = n /\ pc[n] \in {"installed", "scan", "undo", "undoing", "record", "settle"}

LEMMA LockedInitially == Init => Locked
BY NobodyAssumption DEF Init, WorkspaceInit, Locked

LEMMA LockedKept == Ownership /\ Backups /\ Locked /\ [Next]_vars => Locked'
<1> SUFFICES ASSUME Ownership, Backups, Locked, [Next]_vars PROVE Locked'
  OBVIOUS
<1> USE NobodyAssumption, NoTreeAssumption DEF Ownership, Backups, Locked, Place, Goto
<1>1. ASSUME NEW n \in Node, RunNode(n) PROVE Locked'
  <2>0. CASE \E f \in File : StageFile(n, f)
    BY <2>0 DEF StageFile, workspaceVars
  <2>29. CASE StageRaises(n)
    BY <2>29 DEF StageRaises, Raise, workspaceVars
  <2>30. CASE TransactionNotBegun(n)
    BY <2>30 DEF TransactionNotBegun, Conclude, workspaceVars
  <2>1. CASE ReserveAndStart(n)
    BY <2>1 DEF ReserveAndStart, StartAttempt, workspaceVars
  <2>2. CASE ReservationRefused(n)
    BY <2>2 DEF ReservationRefused, Raise, workspaceVars
  <2>3. CASE WorkerFails(n)
    BY <2>3 DEF WorkerFails, Conclude, workspaceVars
  <2>4. CASE Proposes(n)
    BY <2>4 DEF Proposes, workspaceVars
  <2>5. CASE Reports(n)
    BY <2>5 DEF Reports, workspaceVars
  <2>6. CASE CheckReport(n)
    BY <2>6 DEF CheckReport, Conclude, ChecksWrite, workspaceVars
  <2>7. CASE MeetConflict(n)
    BY <2>7 DEF MeetConflict, Conclude, workspaceVars
  <2>8. CASE Refuse(n)
    BY <2>8 DEF Refuse, Conclude, workspaceVars
  <2>9. CASE Build(n)
    BY <2>9 DEF Build, MayBegin, HunksValid, BuildTransaction, LockFree, workspaceVars
  <2>10. CASE MoveAway(n)
    BY <2>10 DEF MoveAway, MoveRootAway, workspaceVars
  <2>11. CASE Install(n)
    BY <2>11 DEF Install, InstallTransaction, workspaceVars
  <2>12. CASE TransactionFails(n)
    BY <2>12 DEF TransactionFails, Conclude, AbandonTransaction, workspaceVars
  <2>13. CASE PathsMismatch(n)
    BY <2>13 DEF PathsMismatch, RollBackThen, workspaceVars
  <2>14. CASE VerifyIntegrated(n)
    BY <2>14 DEF VerifyIntegrated, ChecksWrite, workspaceVars
  <2>15. CASE VerifierRaises(n)
    BY <2>15 DEF VerifierRaises, Conclude, workspaceVars
  <2>16. CASE ScanFindsNothing(n)
    BY <2>16 DEF ScanFindsNothing, SideEffects, workspaceVars
  <2>17. CASE ScanRejects(n)
    BY <2>17 DEF ScanRejects, RollBackThen, workspaceVars
  <2>18. CASE UndoBegins(n)
    BY <2>18 DEF UndoBegins, MoveRejectedAway, workspaceVars
  <2>19. CASE UndoEnds(n)
    BY <2>19 DEF UndoEnds, RestoreBackup, ReleaseLock, workspaceVars
  <2>20. CASE UndoFindsNothing(n)
    BY <2>20 DEF UndoFindsNothing, ReleaseLock, workspaceVars
  <2>21. CASE UndoRaises(n)
    BY <2>21 DEF UndoRaises, Conclude, Raise, RollbackRaises, RescanRaises, ReleaseLock, workspaceVars
  <2>22. CASE RecordOutcome(n)
    BY <2>22 DEF RecordOutcome, workspaceVars
  <2>23. CASE RecordRaises(n)
    BY <2>23 DEF RecordRaises, RollBackThen, workspaceVars
  <2>24. CASE Accept(n)
    BY <2>24 DEF Accept, Commit, ReleaseLock, workspaceVars
  <2>25. CASE DropLeftover(n)
    BY <2>25 DEF DropLeftover, RollBackThen, workspaceVars
  <2>26. CASE Retry(n)
    BY <2>26 DEF Retry, StartAttempt, workspaceVars
  <2>27. CASE GiveUp(n)
    BY <2>27 DEF GiveUp, workspaceVars
  <2>28. CASE ReleaseAndEnd(n)
    BY <2>28 DEF ReleaseAndEnd, workspaceVars
  <2> QED BY <1>1, <2>0, <2>1, <2>2, <2>3, <2>4, <2>5, <2>6, <2>7, <2>8, <2>9, <2>10, <2>11, <2>12, <2>13, <2>14, <2>15, <2>16, <2>17, <2>18, <2>19, <2>20, <2>21, <2>22, <2>23, <2>24, <2>25, <2>26, <2>27, <2>28, <2>29, <2>30 DEF RunNode
<1>2. CASE \E f \in File : EditSource(f)
  BY <1>2 DEF EditSource, workspaceVars, threadVars
<1>3. CASE UNCHANGED vars
  BY <1>3 DEF vars, workspaceVars, threadVars
<1> QED BY <1>1, <1>2, <1>3 DEF Next, AllEnded

\* However an attempt ends, by success, rejection or an exception, its node does
\* not keep the integration lock (the finally clauses of apply_proposal, commit
\* and rollback): no other node waits for one that has nothing left to do.
THEOREM LockComesBack == Spec => []LockIsReturned
<1>1. Locked => LockIsReturned
  BY DEF Locked, LockIsReturned, Ended
<1>2. Init => Ownership /\ Edits /\ Backups /\ Locked
  BY OwnershipInitially, EditsInitially, BackupsInitially, LockedInitially
<1>3. Ownership /\ Edits /\ Backups /\ Locked /\ [Next]_vars
        => (Ownership /\ Edits /\ Backups /\ Locked)'
  BY OwnershipKept, EditsKept, BackupsKept, LockedKept
<1> QED BY <1>1, <1>2, <1>3, PTL DEF Spec

\* Without a failing file operation a transaction stays open only while its node
\* is at work on it.
Completed ==
  /\ faults = 0
  /\ \A n \in Node : pending = n =>
       backup # NoTree /\ pc[n] \notin {"decide", "release", "succeeded", "failed"}

LEMMA CompletedInitially == Init => Completed
BY NobodyAssumption DEF Init, WorkspaceInit, Completed

LEMMA CompletedKept == MaxFaults = 0 /\ Ownership /\ Backups /\ Standing /\ Completed /\ [Next]_vars => Completed'
<1> SUFFICES ASSUME MaxFaults = 0, Ownership, Backups, Standing, Completed, [Next]_vars PROVE Completed'
  OBVIOUS
<1> USE NobodyAssumption, NoTreeAssumption DEF Ownership, Backups, Standing, Completed, Place, Goto, Fault
<1>1. ASSUME NEW n \in Node, RunNode(n) PROVE Completed'
  <2>0. CASE \E f \in File : StageFile(n, f)
    BY <2>0 DEF StageFile, workspaceVars
  <2>29. CASE StageRaises(n)
    BY <2>29 DEF StageRaises, Raise, workspaceVars
  <2>30. CASE TransactionNotBegun(n)
    BY <2>30 DEF TransactionNotBegun, Conclude, workspaceVars
  <2>1. CASE ReserveAndStart(n)
    BY <2>1 DEF ReserveAndStart, StartAttempt, workspaceVars
  <2>2. CASE ReservationRefused(n)
    BY <2>2 DEF ReservationRefused, Raise, workspaceVars
  <2>3. CASE WorkerFails(n)
    BY <2>3 DEF WorkerFails, Conclude, workspaceVars
  <2>4. CASE Proposes(n)
    BY <2>4 DEF Proposes, workspaceVars
  <2>5. CASE Reports(n)
    BY <2>5 DEF Reports, workspaceVars
  <2>6. CASE CheckReport(n)
    BY <2>6 DEF CheckReport, Conclude, ChecksWrite, workspaceVars
  <2>7. CASE MeetConflict(n)
    BY <2>7 DEF MeetConflict, Conclude, workspaceVars
  <2>8. CASE Refuse(n)
    BY <2>8 DEF Refuse, Conclude, workspaceVars
  <2>9. CASE Build(n)
    BY <2>9 DEF Build, MayBegin, HunksValid, BuildTransaction, LockFree, workspaceVars
  <2>10. CASE MoveAway(n)
    BY <2>10 DEF MoveAway, MoveRootAway, workspaceVars
  <2>11. CASE Install(n)
    BY <2>11 DEF Install, InstallTransaction, workspaceVars
  <2>12. CASE TransactionFails(n)
    BY <2>12 DEF TransactionFails, Conclude, AbandonTransaction, workspaceVars
  <2>13. CASE PathsMismatch(n)
    BY <2>13 DEF PathsMismatch, RollBackThen, workspaceVars
  <2>14. CASE VerifyIntegrated(n)
    BY <2>14 DEF VerifyIntegrated, ChecksWrite, workspaceVars
  <2>15. CASE VerifierRaises(n)
    BY <2>15 DEF VerifierRaises, Conclude, workspaceVars
  <2>16. CASE ScanFindsNothing(n)
    BY <2>16 DEF ScanFindsNothing, SideEffects, workspaceVars
  <2>17. CASE ScanRejects(n)
    BY <2>17 DEF ScanRejects, RollBackThen, workspaceVars
  <2>18. CASE UndoBegins(n)
    BY <2>18 DEF UndoBegins, MoveRejectedAway, workspaceVars
  <2>19. CASE UndoEnds(n)
    BY <2>19 DEF UndoEnds, RestoreBackup, ReleaseLock, workspaceVars
  <2>20. CASE UndoFindsNothing(n)
    BY <2>20 DEF UndoFindsNothing, ReleaseLock, workspaceVars
  <2>21. CASE UndoRaises(n)
    BY <2>21 DEF UndoRaises, Conclude, Raise, RollbackRaises, RescanRaises, ReleaseLock, workspaceVars
  <2>22. CASE RecordOutcome(n)
    BY <2>22 DEF RecordOutcome, workspaceVars
  <2>23. CASE RecordRaises(n)
    BY <2>23 DEF RecordRaises, RollBackThen, workspaceVars
  <2>24. CASE Accept(n)
    BY <2>24 DEF Accept, Commit, ReleaseLock, workspaceVars
  <2>25. CASE DropLeftover(n)
    BY <2>25 DEF DropLeftover, RollBackThen, workspaceVars
  <2>26. CASE Retry(n)
    BY <2>26 DEF Retry, StartAttempt, workspaceVars
  <2>27. CASE GiveUp(n)
    BY <2>27 DEF GiveUp, workspaceVars
  <2>28. CASE ReleaseAndEnd(n)
    BY <2>28 DEF ReleaseAndEnd, workspaceVars
  <2> QED BY <1>1, <2>0, <2>1, <2>2, <2>3, <2>4, <2>5, <2>6, <2>7, <2>8, <2>9, <2>10, <2>11, <2>12, <2>13, <2>14, <2>15, <2>16, <2>17, <2>18, <2>19, <2>20, <2>21, <2>22, <2>23, <2>24, <2>25, <2>26, <2>27, <2>28, <2>29, <2>30 DEF RunNode
<1>2. CASE \E f \in File : EditSource(f)
  BY <1>2 DEF EditSource, workspaceVars, threadVars
<1>3. CASE UNCHANGED vars
  BY <1>3 DEF vars, workspaceVars, threadVars
<1> QED BY <1>1, <1>2, <1>3 DEF Next, AllEnded

\* As long as no file operation fails, a graph that is through has left the
\* workspace with exactly the accepted patches in it.
THEOREM EndsAsCommitted ==
  ASSUME ReportsCleanly, MaxFaults = 0 PROVE Spec => []EndsCommitted
<1>1. Consistent /\ Completed => EndsCommitted
  <2> SUFFICES ASSUME Consistent, Completed, \A n \in Node : pc[n] \in Ended
               PROVE  root = Canonical
    BY DEF EndsCommitted
  <2>1. pending = NoNode
    BY DEF Consistent, Ownership, Completed, Ended
  <2> QED BY <2>1 DEF Consistent, Trees, Calm, Canonical, Ended
<1>2. Init => Completed
  BY CompletedInitially
<1>3. Consistent /\ Completed /\ [Next]_vars => Completed'
  BY CompletedKept DEF Consistent
<1> QED BY <1>1, <1>2, <1>3, ConsistentAlways, PTL DEF Spec

-----------------------------------------------------------------------------
(* The types.                                                                *)

LEMMA RetriesAreCounted ==
  ASSUME NEW n \in Node, attempt[n] \in Nat, Decision(n) \in Policy!Retries
  PROVE  attempt[n] < MaxAttempts
<1> DEFINE o == [exception |-> "none", status |-> "success", policy_violations |-> FALSE,
                 failures |-> Failures[verdict[n]], conflict |-> verdict[n] = "conflict"]
<1> HIDE DEF o
<1>1. Policy!Executable(Policy!DecideRetry(o, attempt[n], MaxAttempts, FALSE)) \in Policy!Retries
  BY DEF o, Decision
<1>2. Policy!DecideRetry(o, attempt[n], MaxAttempts, FALSE) \in Policy!Retries
  BY <1>1 DEF Policy!Executable, Policy!Retries
<1> QED BY <1>2, BudgetAssumption DEF Policy!DecideRetry, Policy!Retries

Counted ==
  /\ attempt \in [Node -> 0..MaxAttempts]
  /\ \A n \in Node : pc[n] = "idle" => attempt[n] = 0
  /\ faults \in 0..MaxFaults
  /\ edited \subseteq Editable

LEMMA CountedInitially == Init => Counted
BY BudgetAssumption, FaultsAssumption DEF Init, WorkspaceInit, Counted

LEMMA CountedKept == Ownership /\ Counted /\ [Next]_vars => Counted'
<1> SUFFICES ASSUME Ownership, Counted, [Next]_vars PROVE Counted'
  OBVIOUS
<1> USE BudgetAssumption, FaultsAssumption DEF Ownership, Counted, Place, Goto, Fault
<1>1. ASSUME NEW n \in Node, RunNode(n) PROVE Counted'
  <2>0. CASE \E f \in File : StageFile(n, f)
    BY <2>0 DEF StageFile, workspaceVars
  <2>29. CASE StageRaises(n)
    BY <2>29 DEF StageRaises, Raise, workspaceVars
  <2>30. CASE TransactionNotBegun(n)
    BY <2>30 DEF TransactionNotBegun, Conclude, workspaceVars
  <2>1. CASE ReserveAndStart(n)
    BY <2>1 DEF ReserveAndStart, StartAttempt, workspaceVars
  <2>2. CASE ReservationRefused(n)
    BY <2>2 DEF ReservationRefused, Raise, workspaceVars
  <2>3. CASE WorkerFails(n)
    BY <2>3 DEF WorkerFails, Conclude, workspaceVars
  <2>4. CASE Proposes(n)
    BY <2>4 DEF Proposes, workspaceVars
  <2>5. CASE Reports(n)
    BY <2>5 DEF Reports, workspaceVars
  <2>6. CASE CheckReport(n)
    BY <2>6 DEF CheckReport, Conclude, ChecksWrite, workspaceVars
  <2>7. CASE MeetConflict(n)
    BY <2>7 DEF MeetConflict, Conclude, workspaceVars
  <2>8. CASE Refuse(n)
    BY <2>8 DEF Refuse, Conclude, workspaceVars
  <2>9. CASE Build(n)
    BY <2>9 DEF Build, MayBegin, HunksValid, BuildTransaction, LockFree, workspaceVars
  <2>10. CASE MoveAway(n)
    BY <2>10 DEF MoveAway, MoveRootAway, workspaceVars
  <2>11. CASE Install(n)
    BY <2>11 DEF Install, InstallTransaction, workspaceVars
  <2>12. CASE TransactionFails(n)
    BY <2>12 DEF TransactionFails, Conclude, AbandonTransaction, workspaceVars
  <2>13. CASE PathsMismatch(n)
    BY <2>13 DEF PathsMismatch, RollBackThen, workspaceVars
  <2>14. CASE VerifyIntegrated(n)
    BY <2>14 DEF VerifyIntegrated, ChecksWrite, workspaceVars
  <2>15. CASE VerifierRaises(n)
    BY <2>15 DEF VerifierRaises, Conclude, workspaceVars
  <2>16. CASE ScanFindsNothing(n)
    BY <2>16 DEF ScanFindsNothing, SideEffects, workspaceVars
  <2>17. CASE ScanRejects(n)
    BY <2>17 DEF ScanRejects, RollBackThen, workspaceVars
  <2>18. CASE UndoBegins(n)
    BY <2>18 DEF UndoBegins, MoveRejectedAway, workspaceVars
  <2>19. CASE UndoEnds(n)
    BY <2>19 DEF UndoEnds, RestoreBackup, ReleaseLock, workspaceVars
  <2>20. CASE UndoFindsNothing(n)
    BY <2>20 DEF UndoFindsNothing, ReleaseLock, workspaceVars
  <2>21. CASE UndoRaises(n)
    BY <2>21 DEF UndoRaises, Conclude, Raise, RollbackRaises, RescanRaises, ReleaseLock, workspaceVars
  <2>22. CASE RecordOutcome(n)
    BY <2>22 DEF RecordOutcome, workspaceVars
  <2>23. CASE RecordRaises(n)
    BY <2>23 DEF RecordRaises, RollBackThen, workspaceVars
  <2>24. CASE Accept(n)
    BY <2>24 DEF Accept, Commit, ReleaseLock, workspaceVars
  <2>25. CASE DropLeftover(n)
    BY <2>25 DEF DropLeftover, RollBackThen, workspaceVars
  <2>26. CASE Retry(n)
    <3>1. attempt[n] \in 0..MaxAttempts /\ attempt[n] < MaxAttempts
      BY <2>26, RetriesAreCounted DEF Retry
    <3> QED BY <2>26, <3>1 DEF Retry, StartAttempt, workspaceVars
  <2>27. CASE GiveUp(n)
    BY <2>27 DEF GiveUp, workspaceVars
  <2>28. CASE ReleaseAndEnd(n)
    BY <2>28 DEF ReleaseAndEnd, workspaceVars
  <2> QED BY <1>1, <2>0, <2>1, <2>2, <2>3, <2>4, <2>5, <2>6, <2>7, <2>8, <2>9, <2>10, <2>11, <2>12, <2>13, <2>14, <2>15, <2>16, <2>17, <2>18, <2>19, <2>20, <2>21, <2>22, <2>23, <2>24, <2>25, <2>26, <2>27, <2>28, <2>29, <2>30 DEF RunNode
<1>2. CASE \E f \in File : EditSource(f)
  BY <1>2 DEF EditSource, workspaceVars, threadVars
<1>3. CASE UNCHANGED vars
  BY <1>3 DEF vars, workspaceVars, threadVars
<1> QED BY <1>1, <1>2, <1>3 DEF Next, AllEnded

Views ==
  /\ view \in [Node -> UNION {[S -> Content] : S \in SUBSET File}]
  /\ \A n \in Node : DOMAIN view[n] \subseteq Staged(n)

LEMMA NothingIsThere ==
  Nothing \in UNION {[S -> Content] : S \in SUBSET File} /\ DOMAIN Nothing = {}
<1>1. Nothing \in [{} -> Content] /\ {} \in SUBSET File
  BY DEF Nothing
<1> QED BY <1>1

LEMMA ViewsInitially == Init => Views
BY NothingIsThere DEF Init, Views

LEMMA ViewsKept == Backups /\ Views /\ [Next]_vars => Views'
<1> SUFFICES ASSUME Backups, Views, [Next]_vars PROVE Views'
  OBVIOUS
<1>1. ASSUME UNCHANGED view PROVE Views'
  BY <1>1 DEF Views, Staged, Scope
<1>0. ASSUME NEW n \in Node, NEW v \in UNION {[S -> Content] : S \in SUBSET File},
             DOMAIN v \subseteq Staged(n), view' = [view EXCEPT ![n] = v]
      PROVE  Views'
  <2>1. view' \in [Node -> UNION {[S -> Content] : S \in SUBSET File}]
    BY <1>0 DEF Views
  <2>2. \A m \in Node : DOMAIN view'[m] \subseteq Staged(m)
    BY <1>0 DEF Views
  <2> QED BY <2>1, <2>2 DEF Views, Staged, Scope
<1>2. ASSUME NEW n \in Node, view' = [view EXCEPT ![n] = Nothing] PROVE Views'
  BY <1>0, <1>2, NothingIsThere
<1>3. ASSUME NEW n \in Node, NEW f \in File, StageFile(n, f) PROVE Views'
  <2> DEFINE v == [g \in DOMAIN view[n] \union {f} |->
                     IF g # f THEN view[n][g]
                     ELSE IF root # NoTree /\ Copied(n, f) THEN root[f] ELSE Absent]
  <2>1. PICK S \in SUBSET File : view[n] \in [S -> Content]
    BY DEF Views
  <2>2. v \in [S \union {f} -> Content]
    BY <2>1, AbsentAssumption DEF Backups, Tree
  <2>3. view' = [view EXCEPT ![n] = v] /\ f \in Staged(n)
    BY <1>3 DEF StageFile
  <2>4. v \in UNION {[R -> Content] : R \in SUBSET File}
    BY <2>1, <2>2
  <2>5. DOMAIN v \subseteq Staged(n)
    BY <2>3 DEF Views
  <2> HIDE DEF v
  <2> QED BY <1>0, <2>3, <2>4, <2>5
<1>4. ASSUME NEW n \in Node, RunNode(n)
      PROVE  UNCHANGED view \/ view' = [view EXCEPT ![n] = Nothing]
               \/ \E f \in File : StageFile(n, f)
  BY <1>4
     DEF RunNode, Conclude, Raise, ReserveAndStart, ReservationRefused, StageRaises, WorkerFails, Proposes, Reports, CheckReport, MeetConflict, Refuse, Build, MoveAway, Install, TransactionNotBegun, TransactionFails, PathsMismatch, VerifyIntegrated, VerifierRaises, ScanFindsNothing, ScanRejects, UndoBegins, UndoEnds, UndoFindsNothing, UndoRaises, RecordOutcome, RecordRaises, Accept, DropLeftover, Retry, GiveUp, ReleaseAndEnd
<1>5. ASSUME NEW f \in File, EditSource(f) PROVE UNCHANGED view
  BY <1>5 DEF EditSource, threadVars
<1> QED BY <1>1, <1>2, <1>3, <1>4, <1>5 DEF Next, AllEnded, vars, threadVars

\* Every variable keeps to its type; a node never has more attempts than its
\* budget (decide_retry with max_attempts).
THEOREM NodesTypeCorrect == ASSUME ReportsCleanly PROVE Spec => []TypeOK
<1>1. Consistent /\ Locked /\ Counted /\ Views => TypeOK
  <2> SUFFICES ASSUME Consistent, Locked, Counted, Views PROVE TypeOK
    OBVIOUS
  <2>1. \A n \in Node : DOMAIN edit[n] \subseteq Scope(n)
    BY DEF Consistent, Edits, Proposal
  <2> QED BY <2>1 DEF Consistent, Ownership, Backups, Standing, Trees, Locked, Counted, Views, TypeOK
<1>2. Init => Locked /\ Counted /\ Views
  BY LockedInitially, CountedInitially, ViewsInitially
<1>3. Consistent /\ Locked /\ Counted /\ Views /\ [Next]_vars => (Locked /\ Counted /\ Views)'
  BY LockedKept, CountedKept, ViewsKept DEF Consistent
<1> QED BY <1>1, <1>2, <1>3, ConsistentAlways, PTL DEF Spec

-----------------------------------------------------------------------------
(* The staged copies.                                                        *)

\* Whom the table of reservations names for a path.
Table == active \in [Reservations!Path -> Node \union {NoNode}]

\* A node in an attempt holds all its write paths.
Holding(n) == attempt[n] # 0 /\ pc[n] \notin Ended
Held ==
  /\ \A n \in Node : Holding(n) => \A p \in WritePaths[n] : active[p] = n
  /\ \A n \in Node : pc[n] \notin {"idle", "release"} \union Ended => attempt[n] # 0
  /\ \A n \in Node : pending = n => attempt[n] # 0

LEMMA TableChanges ==
  ASSUME [Next]_vars
  PROVE  UNCHANGED active \/ \E n \in Node : ReserveAndStart(n) \/ ReleaseAndEnd(n)
<1>1. ASSUME NEW n \in Node, RunNode(n) PROVE UNCHANGED active \/ ReserveAndStart(n) \/ ReleaseAndEnd(n)
  BY <1>1
     DEF RunNode, StageFile, ReservationRefused, StageRaises, WorkerFails, Proposes, Reports, CheckReport, MeetConflict, Refuse, Build, MoveAway, Install, TransactionNotBegun, TransactionFails, PathsMismatch, VerifyIntegrated, VerifierRaises, ScanFindsNothing, ScanRejects, UndoBegins, UndoEnds, UndoFindsNothing, UndoRaises, RecordOutcome, RecordRaises, Accept, DropLeftover, Retry, GiveUp
<1>2. ASSUME NEW f \in File, EditSource(f) PROVE UNCHANGED active
  BY <1>2 DEF EditSource
<1> QED BY <1>1, <1>2 DEF Next, AllEnded, vars

LEMMA TableKept == Table /\ [Next]_vars => Table'
<1> SUFFICES ASSUME Table, [Next]_vars PROVE Table'
  OBVIOUS
<1>1. ASSUME NEW n \in Node, ReserveAndStart(n) PROVE Table'
  BY <1>1 DEF Table, ReserveAndStart, Reservations!Reserve
<1>2. ASSUME NEW n \in Node, ReleaseAndEnd(n) PROVE Table'
  BY <1>2 DEF Table, ReleaseAndEnd, Reservations!ReleaseNode, Reservations!DropPaths
<1> QED BY <1>1, <1>2, TableChanges DEF Table

\* Nodes reserve nothing that overlaps what another one has.
LEMMA NoOverlapKept == Table /\ Reservations!NoOverlap /\ [Next]_vars => Reservations!NoOverlap'
<1> SUFFICES ASSUME Table, Reservations!NoOverlap, [Next]_vars PROVE Reservations!NoOverlap'
  OBVIOUS
<1> USE DEF Reservations!NoOverlap, Reservations!Reserved, Reservations!PathsOverlap
<1>1. ASSUME NEW n \in Node, ReserveAndStart(n) PROVE Reservations!NoOverlap'
  <2>1. \A p \in Reservations!Path : active'[p] = IF p \in WritePaths[n] THEN n ELSE active[p]
    BY <1>1 DEF ReserveAndStart, Reservations!Reserve
  <2>2. ~Reservations!ReservationConflict(n, WritePaths[n])
    BY <1>1 DEF ReserveAndStart, Reservations!Reserve
  <2>3. ASSUME NEW p \in WritePaths[n], NEW q \in Reservations!Path, active[q] \notin {n, NoNode}
        PROVE  ~Reservations!PathsOverlap(p, q) /\ ~Reservations!PathsOverlap(q, p)
    BY <2>2, <2>3 DEF Reservations!ReservationConflict
  <2> QED BY <2>1, <2>3
<1>2. ASSUME NEW n \in Node, ReleaseAndEnd(n) PROVE Reservations!NoOverlap'
  BY <1>2 DEF ReleaseAndEnd, Reservations!ReleaseNode, Reservations!DropPaths
<1> QED BY <1>1, <1>2, TableChanges

LEMMA HeldInitially == Init => Held
BY NobodyAssumption DEF Init, WorkspaceInit, Held, Holding

LEMMA HeldKept == Ownership /\ Counted /\ Table /\ Held /\ [Next]_vars => Held'
<1> SUFFICES ASSUME Ownership, Counted, Table, Held, [Next]_vars PROVE Held'
  OBVIOUS
<1> USE NobodyAssumption, BudgetAssumption DEF Ownership, Counted, Table, Held, Holding, Ended, Place, Goto
<1>1. ASSUME NEW n \in Node, RunNode(n) PROVE Held'
  <2>0. CASE \E f \in File : StageFile(n, f)
    BY <2>0 DEF StageFile, workspaceVars
  <2>29. CASE StageRaises(n)
    BY <2>29 DEF StageRaises, Raise, workspaceVars
  <2>30. CASE TransactionNotBegun(n)
    BY <2>30 DEF TransactionNotBegun, Conclude, workspaceVars
  <2>1. CASE ReserveAndStart(n)
    <3>1. \A p \in Reservations!Path : active'[p] = IF p \in WritePaths[n] THEN n ELSE active[p]
      BY <2>1 DEF ReserveAndStart, Reservations!Reserve
    <3>2. ASSUME NEW m \in Node, m # n, NEW p \in WritePaths[m], active[p] = m
          PROVE  active'[p] = m
      <4>1. p \in Reservations!Path /\ active[p] # NoNode
        BY <3>2, PathsAssumption
      <4>2. p \notin WritePaths[n]
        BY <4>1, <3>2, <2>1
           DEF ReserveAndStart, Reservations!Reserve, Reservations!ReservationConflict,
               Reservations!Reserved, Reservations!PathsOverlap
      <4> QED BY <4>1, <4>2, <3>1, <3>2
    <3>3. \A p \in WritePaths[n] : active'[p] = n
      BY <3>1, PathsAssumption
    <3>4. \A m \in Node \ {n} : pc'[m] = pc[m] /\ attempt'[m] = attempt[m]
      BY <2>1 DEF ReserveAndStart, StartAttempt
    <3>5. attempt'[n] # 0 /\ UNCHANGED pending
      BY <2>1 DEF ReserveAndStart, StartAttempt, workspaceVars
    <3> QED BY <3>2, <3>3, <3>4, <3>5
  <2>2. CASE ReservationRefused(n)
    BY <2>2 DEF ReservationRefused, Raise, workspaceVars
  <2>3. CASE WorkerFails(n)
    BY <2>3 DEF WorkerFails, Conclude, workspaceVars
  <2>4. CASE Proposes(n)
    BY <2>4 DEF Proposes, workspaceVars
  <2>5. CASE Reports(n)
    BY <2>5 DEF Reports, workspaceVars
  <2>6. CASE CheckReport(n)
    BY <2>6 DEF CheckReport, Conclude, ChecksWrite, workspaceVars
  <2>7. CASE MeetConflict(n)
    BY <2>7 DEF MeetConflict, Conclude, workspaceVars
  <2>8. CASE Refuse(n)
    BY <2>8 DEF Refuse, Conclude, workspaceVars
  <2>9. CASE Build(n)
    BY <2>9 DEF Build, MayBegin, HunksValid, BuildTransaction, LockFree, workspaceVars
  <2>10. CASE MoveAway(n)
    BY <2>10 DEF MoveAway, MoveRootAway, workspaceVars
  <2>11. CASE Install(n)
    BY <2>11 DEF Install, InstallTransaction, workspaceVars
  <2>12. CASE TransactionFails(n)
    BY <2>12 DEF TransactionFails, Conclude, AbandonTransaction, workspaceVars
  <2>13. CASE PathsMismatch(n)
    BY <2>13 DEF PathsMismatch, RollBackThen, workspaceVars
  <2>14. CASE VerifyIntegrated(n)
    BY <2>14 DEF VerifyIntegrated, ChecksWrite, workspaceVars
  <2>15. CASE VerifierRaises(n)
    BY <2>15 DEF VerifierRaises, Conclude, workspaceVars
  <2>16. CASE ScanFindsNothing(n)
    BY <2>16 DEF ScanFindsNothing, SideEffects, workspaceVars
  <2>17. CASE ScanRejects(n)
    BY <2>17 DEF ScanRejects, RollBackThen, workspaceVars
  <2>18. CASE UndoBegins(n)
    BY <2>18 DEF UndoBegins, MoveRejectedAway, workspaceVars
  <2>19. CASE UndoEnds(n)
    BY <2>19 DEF UndoEnds, RestoreBackup, ReleaseLock, workspaceVars
  <2>20. CASE UndoFindsNothing(n)
    BY <2>20 DEF UndoFindsNothing, ReleaseLock, workspaceVars
  <2>21. CASE UndoRaises(n)
    BY <2>21 DEF UndoRaises, Conclude, Raise, RollbackRaises, RescanRaises, ReleaseLock, workspaceVars
  <2>22. CASE RecordOutcome(n)
    BY <2>22 DEF RecordOutcome, workspaceVars
  <2>23. CASE RecordRaises(n)
    BY <2>23 DEF RecordRaises, RollBackThen, workspaceVars
  <2>24. CASE Accept(n)
    BY <2>24 DEF Accept, Commit, ReleaseLock, workspaceVars
  <2>25. CASE DropLeftover(n)
    BY <2>25 DEF DropLeftover, RollBackThen, workspaceVars
  <2>26. CASE Retry(n)
    BY <2>26 DEF Retry, StartAttempt, workspaceVars
  <2>27. CASE GiveUp(n)
    BY <2>27 DEF GiveUp, workspaceVars
  <2>28. CASE ReleaseAndEnd(n)
    <3>1. \A p \in Reservations!Path : active[p] # n => active'[p] = active[p]
      BY <2>28 DEF ReleaseAndEnd, Reservations!ReleaseNode, Reservations!DropPaths, Reservations!NodePaths
    <3>2. \A m \in Node \ {n} : \A p \in WritePaths[m] : active[p] = m => active'[p] = m
      BY <3>1, PathsAssumption
    <3>3. pc'[n] \in Ended /\ UNCHANGED <<attempt, pending>> /\ \A m \in Node \ {n} : pc'[m] = pc[m]
      BY <2>28 DEF ReleaseAndEnd, workspaceVars
    <3> QED BY <3>2, <3>3
  <2> QED BY <1>1, <2>0, <2>1, <2>2, <2>3, <2>4, <2>5, <2>6, <2>7, <2>8, <2>9, <2>10, <2>11, <2>12, <2>13, <2>14, <2>15, <2>16, <2>17, <2>18, <2>19, <2>20, <2>21, <2>22, <2>23, <2>24, <2>25, <2>26, <2>27, <2>28, <2>29, <2>30 DEF RunNode
<1>2. CASE \E f \in File : EditSource(f)
  BY <1>2 DEF EditSource, workspaceVars, threadVars
<1>3. CASE UNCHANGED vars
  BY <1>3 DEF vars, workspaceVars, threadVars
<1> QED BY <1>1, <1>2, <1>3 DEF Next, AllEnded

\* Two nodes in an attempt have no file in common that both may write.
LEMMA ScopesApart ==
  ASSUME Reservations!NoOverlap, Held, NEW m \in Node, NEW n \in Node, m # n,
         Holding(m), Holding(n)
  PROVE  Scope(m) \cap Scope(n) = {}
<1> SUFFICES ASSUME NEW f \in Scope(m) \cap Scope(n) PROVE FALSE
  OBVIOUS
<1>1. PICK p \in WritePaths[m] : \A i \in DOMAIN p : p[i] = f[i]
  BY DEF Scope
<1>2. PICK q \in WritePaths[n] : \A i \in DOMAIN q : q[i] = f[i]
  BY DEF Scope
<1>3. Reservations!PathsOverlap(p, q)
  BY <1>1, <1>2 DEF Reservations!PathsOverlap
<1>4. /\ p \in Reservations!Path /\ active[p] = m
      /\ q \in Reservations!Path /\ active[q] = n
  BY PathsAssumption DEF Held
<1>5. p \in Reservations!Reserved /\ q \in Reservations!Reserved
  BY <1>4, NobodyAssumption DEF Reservations!Reserved
<1> QED BY <1>3, <1>4, <1>5 DEF Reservations!NoOverlap

\* Whatever fails, the reservations of a graph's nodes never overlap, and two nodes
\* that are both between reserve and release_node have no file that both may write.
THEOREM NodesAtWorkAreApart ==
  Spec => []( /\ Reservations!NoOverlap
              /\ \A m, n \in Node : m # n /\ Holding(m) /\ Holding(n) => Scope(m) \cap Scope(n) = {} )
<1> DEFINE Inv == Ownership /\ Counted /\ Table /\ Reservations!NoOverlap /\ Held
           Disjoint == \A m, n \in Node :
                         m # n /\ Holding(m) /\ Holding(n) => Scope(m) \cap Scope(n) = {}
<1>1. Init => Inv
  <2> SUFFICES ASSUME Init PROVE Inv
    OBVIOUS
  <2>1. Table /\ Reservations!NoOverlap
    BY DEF Init, Reservations!ReservationInit, Table, Reservations!NoOverlap, Reservations!Reserved
  <2> QED BY <2>1, OwnershipInitially, CountedInitially, HeldInitially
<1>2. Inv /\ [Next]_vars => Inv'
  BY OwnershipKept, CountedKept, TableKept, NoOverlapKept, HeldKept
<1>3. Inv => Reservations!NoOverlap /\ Disjoint
  BY ScopesApart
<1> QED BY <1>1, <1>2, <1>3, PTL DEF Spec

\* What was staged does not outlive the attempt it was staged for.
Emptied ==
  \A n \in Node : pc[n] \notin {"stage", "working", "propose", "check"} => view[n] = Nothing

LEMMA EmptiedInitially == Init => Emptied
BY DEF Init, Emptied

LEMMA EmptiedKept == Ownership /\ Views /\ Emptied /\ [Next]_vars => Emptied'
<1> SUFFICES ASSUME Ownership, Views, Emptied, [Next]_vars PROVE Emptied'
  OBVIOUS
<1> USE DEF Ownership, Views, Emptied, Place, Goto
<1>1. ASSUME NEW n \in Node, RunNode(n) PROVE Emptied'
  <2>0. CASE \E f \in File : StageFile(n, f)
    BY <2>0 DEF StageFile, workspaceVars
  <2>29. CASE StageRaises(n)
    BY <2>29 DEF StageRaises, Raise, workspaceVars
  <2>30. CASE TransactionNotBegun(n)
    BY <2>30 DEF TransactionNotBegun, Conclude, workspaceVars
  <2>1. CASE ReserveAndStart(n)
    BY <2>1 DEF ReserveAndStart, StartAttempt, workspaceVars
  <2>2. CASE ReservationRefused(n)
    BY <2>2 DEF ReservationRefused, Raise, workspaceVars
  <2>3. CASE WorkerFails(n)
    BY <2>3 DEF WorkerFails, Conclude, workspaceVars
  <2>4. CASE Proposes(n)
    BY <2>4 DEF Proposes, workspaceVars
  <2>5. CASE Reports(n)
    BY <2>5 DEF Reports, workspaceVars
  <2>6. CASE CheckReport(n)
    BY <2>6 DEF CheckReport, Conclude, ChecksWrite, workspaceVars
  <2>7. CASE MeetConflict(n)
    BY <2>7 DEF MeetConflict, Conclude, workspaceVars
  <2>8. CASE Refuse(n)
    BY <2>8 DEF Refuse, Conclude, workspaceVars
  <2>9. CASE Build(n)
    BY <2>9 DEF Build, MayBegin, HunksValid, BuildTransaction, LockFree, workspaceVars
  <2>10. CASE MoveAway(n)
    BY <2>10 DEF MoveAway, MoveRootAway, workspaceVars
  <2>11. CASE Install(n)
    BY <2>11 DEF Install, InstallTransaction, workspaceVars
  <2>12. CASE TransactionFails(n)
    BY <2>12 DEF TransactionFails, Conclude, AbandonTransaction, workspaceVars
  <2>13. CASE PathsMismatch(n)
    BY <2>13 DEF PathsMismatch, RollBackThen, workspaceVars
  <2>14. CASE VerifyIntegrated(n)
    BY <2>14 DEF VerifyIntegrated, ChecksWrite, workspaceVars
  <2>15. CASE VerifierRaises(n)
    BY <2>15 DEF VerifierRaises, Conclude, workspaceVars
  <2>16. CASE ScanFindsNothing(n)
    BY <2>16 DEF ScanFindsNothing, SideEffects, workspaceVars
  <2>17. CASE ScanRejects(n)
    BY <2>17 DEF ScanRejects, RollBackThen, workspaceVars
  <2>18. CASE UndoBegins(n)
    BY <2>18 DEF UndoBegins, MoveRejectedAway, workspaceVars
  <2>19. CASE UndoEnds(n)
    BY <2>19 DEF UndoEnds, RestoreBackup, ReleaseLock, workspaceVars
  <2>20. CASE UndoFindsNothing(n)
    BY <2>20 DEF UndoFindsNothing, ReleaseLock, workspaceVars
  <2>21. CASE UndoRaises(n)
    BY <2>21 DEF UndoRaises, Conclude, Raise, RollbackRaises, RescanRaises, ReleaseLock, workspaceVars
  <2>22. CASE RecordOutcome(n)
    BY <2>22 DEF RecordOutcome, workspaceVars
  <2>23. CASE RecordRaises(n)
    BY <2>23 DEF RecordRaises, RollBackThen, workspaceVars
  <2>24. CASE Accept(n)
    BY <2>24 DEF Accept, Commit, ReleaseLock, workspaceVars
  <2>25. CASE DropLeftover(n)
    BY <2>25 DEF DropLeftover, RollBackThen, workspaceVars
  <2>26. CASE Retry(n)
    BY <2>26 DEF Retry, StartAttempt, workspaceVars
  <2>27. CASE GiveUp(n)
    BY <2>27 DEF GiveUp, workspaceVars
  <2>28. CASE ReleaseAndEnd(n)
    BY <2>28 DEF ReleaseAndEnd, workspaceVars
  <2> QED BY <1>1, <2>0, <2>1, <2>2, <2>3, <2>4, <2>5, <2>6, <2>7, <2>8, <2>9, <2>10, <2>11, <2>12, <2>13, <2>14, <2>15, <2>16, <2>17, <2>18, <2>19, <2>20, <2>21, <2>22, <2>23, <2>24, <2>25, <2>26, <2>27, <2>28, <2>29, <2>30 DEF RunNode
<1>2. CASE \E f \in File : EditSource(f)
  BY <1>2 DEF EditSource, workspaceVars, threadVars
<1>3. CASE UNCHANGED vars
  BY <1>3 DEF vars, workspaceVars, threadVars
<1> QED BY <1>1, <1>2, <1>3 DEF Next, AllEnded

\* A node whose checks write files of its write paths only.
ChecksStayInScope == \A n \in Node : Litter[n] \subseteq Scope(n)

\* While a patch is neither committed nor rolled back, the files outside its
\* node's write paths are what was committed.
Apart ==
  \A n \in Node : pending = n =>
    \A f \in File \ Scope(n) :
      IF pc[n] = "undoing" THEN side[f] = Canonical[f] ELSE root[f] = Canonical[f]

LEMMA ApartInitially == Init => Apart
BY NobodyAssumption DEF Init, WorkspaceInit, Apart

LEMMA PatchedOutside ==
  ASSUME NEW t, NEW n \in Node, Edits, NEW f \in File \ Scope(n)
  PROVE  Patched(t, edit[n])[f] = t[f]
<1>1. PICK S \in SUBSET Scope(n) : edit[n] \in [S -> Output[n]]
  BY DEF Edits, Proposal
<1>2. f \notin DOMAIN edit[n]
  BY <1>1
<1> QED BY <1>2 DEF Patched

LEMMA LitteredOutside ==
  ASSUME NEW fs, NEW c, ChecksWrite(fs, c), NEW f \in File \ fs
  PROVE  root'[f] = root[f]
BY DEF ChecksWrite

LEMMA ApartKept ==
  ReportsCleanly /\ ChecksStayInScope /\ Consistent /\ Apart /\ [Next]_vars => Apart'
<1> SUFFICES ASSUME ReportsCleanly, ChecksStayInScope, Consistent, Apart, [Next]_vars PROVE Apart'
  OBVIOUS
<1> USE NobodyAssumption, NoTreeAssumption, VerdictNames DEF Consistent, Ownership, Edits, Backups, Standing, Trees, TreesOf, Calm, Place, Goto, Canonical, Apart
<1>1. ASSUME NEW n \in Node, RunNode(n) PROVE Apart'
  <2>0. CASE \E f \in File : StageFile(n, f)
    BY <2>0 DEF StageFile, workspaceVars
  <2>29. CASE StageRaises(n)
    BY <2>29 DEF StageRaises, Raise, workspaceVars
  <2>30. CASE TransactionNotBegun(n)
    BY <2>30 DEF TransactionNotBegun, Conclude, workspaceVars
  <2>1. CASE ReserveAndStart(n)
    BY <2>1 DEF ReserveAndStart, StartAttempt, workspaceVars
  <2>2. CASE ReservationRefused(n)
    BY <2>2 DEF ReservationRefused, Raise, workspaceVars
  <2>3. CASE WorkerFails(n)
    BY <2>3 DEF WorkerFails, Conclude, workspaceVars
  <2>4. CASE Proposes(n)
    BY <2>4 DEF Proposes, workspaceVars
  <2>5. CASE Reports(n)
    BY <2>5 DEF Reports, workspaceVars
  <2>6. CASE CheckReport(n)
    <3>1. UNCHANGED workspaceVars
      <4>1. CASE ChecksWrite(Litter[n], Scribble)
        <5>1. Litter[n] = {}
          BY <2>6 DEF CheckReport, Conclude, Standing, ReportsCleanly
        <5> QED BY <4>1, <5>1, NoLitterNoChange DEF ChecksWrite, workspaceVars
      <4> QED BY <2>6, <4>1 DEF CheckReport
    <3> QED BY <2>6, <3>1 DEF CheckReport, Conclude, workspaceVars
  <2>7. CASE MeetConflict(n)
    BY <2>7 DEF MeetConflict, Conclude, workspaceVars
  <2>8. CASE Refuse(n)
    BY <2>8 DEF Refuse, Conclude, workspaceVars
  <2>9. CASE Build(n)
    BY <2>9 DEF Build, MayBegin, HunksValid, BuildTransaction, LockFree, workspaceVars
  <2>10. CASE MoveAway(n)
    BY <2>10 DEF MoveAway, MoveRootAway, workspaceVars
  <2>11. CASE Install(n)
    <3>1. \A f \in File \ Scope(n) : side[f] = backup[f]
      BY <2>11, PatchedOutside DEF Install
    <3>2. /\ root' = side /\ backup' = backup /\ backup # NoTree /\ pending' = n
          /\ pc'[n] = "installed"
      BY <2>11 DEF Install, InstallTransaction
    <3> QED BY <3>1, <3>2
  <2>12. CASE TransactionFails(n)
    BY <2>12 DEF TransactionFails, Conclude, AbandonTransaction, workspaceVars
  <2>13. CASE PathsMismatch(n)
    BY <2>13 DEF PathsMismatch, RollBackThen, workspaceVars
  <2>14. CASE VerifyIntegrated(n)
    <3>1. CASE ChecksWrite(Litter[n], Scribble)
      <4>1. \A f \in File \ Scope(n) : root'[f] = root[f]
        BY <3>1, LitteredOutside DEF ChecksStayInScope
      <4>2. UNCHANGED <<backup, side, pending>> /\ pending = n /\ backup # NoTree /\ pc'[n] = "scan"
        BY <2>14, <3>1 DEF VerifyIntegrated, ChecksWrite
      <4>3. \A f \in File \ Scope(n) : root[f] = backup[f]
        BY <2>14 DEF VerifyIntegrated
      <4> QED BY <4>1, <4>2, <4>3
    <3>2. CASE UNCHANGED workspaceVars
      BY <2>14, <3>2 DEF VerifyIntegrated, workspaceVars
    <3> QED BY <2>14, <3>1, <3>2 DEF VerifyIntegrated
  <2>15. CASE VerifierRaises(n)
    BY <2>15 DEF VerifierRaises, Conclude, workspaceVars
  <2>16. CASE ScanFindsNothing(n)
    BY <2>16 DEF ScanFindsNothing, SideEffects, workspaceVars
  <2>17. CASE ScanRejects(n)
    BY <2>17 DEF ScanRejects, RollBackThen, workspaceVars
  <2>18. CASE UndoBegins(n)
    BY <2>18 DEF UndoBegins, MoveRejectedAway, workspaceVars
  <2>19. CASE UndoEnds(n)
    BY <2>19 DEF UndoEnds, RestoreBackup, ReleaseLock, workspaceVars
  <2>20. CASE UndoFindsNothing(n)
    BY <2>20 DEF UndoFindsNothing, ReleaseLock, workspaceVars
  <2>21. CASE UndoRaises(n)
    BY <2>21 DEF UndoRaises, Conclude, Raise, RollbackRaises, RescanRaises, ReleaseLock, workspaceVars
  <2>22. CASE RecordOutcome(n)
    BY <2>22 DEF RecordOutcome, workspaceVars
  <2>23. CASE RecordRaises(n)
    BY <2>23 DEF RecordRaises, RollBackThen, workspaceVars
  <2>24. CASE Accept(n)
    BY <2>24 DEF Accept, Commit, ReleaseLock, workspaceVars
  <2>25. CASE DropLeftover(n)
    BY <2>25 DEF DropLeftover, RollBackThen, workspaceVars
  <2>26. CASE Retry(n)
    BY <2>26 DEF Retry, StartAttempt, workspaceVars
  <2>27. CASE GiveUp(n)
    BY <2>27 DEF GiveUp, workspaceVars
  <2>28. CASE ReleaseAndEnd(n)
    BY <2>28 DEF ReleaseAndEnd, workspaceVars
  <2> QED BY <1>1, <2>0, <2>1, <2>2, <2>3, <2>4, <2>5, <2>6, <2>7, <2>8, <2>9, <2>10, <2>11, <2>12, <2>13, <2>14, <2>15, <2>16, <2>17, <2>18, <2>19, <2>20, <2>21, <2>22, <2>23, <2>24, <2>25, <2>26, <2>27, <2>28, <2>29, <2>30 DEF RunNode
<1>2. CASE \E f \in File : EditSource(f)
  BY <1>2 DEF EditSource, workspaceVars, threadVars
<1>3. CASE UNCHANGED vars
  BY <1>3 DEF vars, workspaceVars, threadVars
<1> QED BY <1>1, <1>2, <1>3 DEF Next, AllEnded

\* A node that is through has left its patch in the workspace: its rollback
\* failed, and nothing is going to make it good.
LeftOpen == \E m \in Node : pending = m /\ pc[m] \in Ended

LEMMA OpenForGood == Ownership /\ LeftOpen /\ [Next]_vars => LeftOpen'
<1> SUFFICES ASSUME Ownership, LeftOpen, [Next]_vars PROVE LeftOpen'
  OBVIOUS
<1> USE NobodyAssumption DEF Ownership, LeftOpen, Ended, Place, Goto
<1>1. ASSUME NEW n \in Node, RunNode(n) PROVE LeftOpen'
  <2>0. CASE \E f \in File : StageFile(n, f)
    BY <2>0 DEF StageFile, workspaceVars
  <2>29. CASE StageRaises(n)
    BY <2>29 DEF StageRaises, Raise, workspaceVars
  <2>30. CASE TransactionNotBegun(n)
    BY <2>30 DEF TransactionNotBegun, Conclude, workspaceVars
  <2>1. CASE ReserveAndStart(n)
    BY <2>1 DEF ReserveAndStart, StartAttempt, workspaceVars
  <2>2. CASE ReservationRefused(n)
    BY <2>2 DEF ReservationRefused, Raise, workspaceVars
  <2>3. CASE WorkerFails(n)
    BY <2>3 DEF WorkerFails, Conclude, workspaceVars
  <2>4. CASE Proposes(n)
    BY <2>4 DEF Proposes, workspaceVars
  <2>5. CASE Reports(n)
    BY <2>5 DEF Reports, workspaceVars
  <2>6. CASE CheckReport(n)
    BY <2>6 DEF CheckReport, Conclude, ChecksWrite, workspaceVars
  <2>7. CASE MeetConflict(n)
    BY <2>7 DEF MeetConflict, Conclude, workspaceVars
  <2>8. CASE Refuse(n)
    BY <2>8 DEF Refuse, Conclude, workspaceVars
  <2>9. CASE Build(n)
    BY <2>9 DEF Build, MayBegin, HunksValid, BuildTransaction, LockFree, workspaceVars
  <2>10. CASE MoveAway(n)
    BY <2>10 DEF MoveAway, MoveRootAway, workspaceVars
  <2>11. CASE Install(n)
    BY <2>11 DEF Install, InstallTransaction, workspaceVars
  <2>12. CASE TransactionFails(n)
    BY <2>12 DEF TransactionFails, Conclude, AbandonTransaction, workspaceVars
  <2>13. CASE PathsMismatch(n)
    BY <2>13 DEF PathsMismatch, RollBackThen, workspaceVars
  <2>14. CASE VerifyIntegrated(n)
    BY <2>14 DEF VerifyIntegrated, ChecksWrite, workspaceVars
  <2>15. CASE VerifierRaises(n)
    BY <2>15 DEF VerifierRaises, Conclude, workspaceVars
  <2>16. CASE ScanFindsNothing(n)
    BY <2>16 DEF ScanFindsNothing, SideEffects, workspaceVars
  <2>17. CASE ScanRejects(n)
    BY <2>17 DEF ScanRejects, RollBackThen, workspaceVars
  <2>18. CASE UndoBegins(n)
    BY <2>18 DEF UndoBegins, MoveRejectedAway, workspaceVars
  <2>19. CASE UndoEnds(n)
    BY <2>19 DEF UndoEnds, RestoreBackup, ReleaseLock, workspaceVars
  <2>20. CASE UndoFindsNothing(n)
    BY <2>20 DEF UndoFindsNothing, ReleaseLock, workspaceVars
  <2>21. CASE UndoRaises(n)
    BY <2>21 DEF UndoRaises, Conclude, Raise, RollbackRaises, RescanRaises, ReleaseLock, workspaceVars
  <2>22. CASE RecordOutcome(n)
    BY <2>22 DEF RecordOutcome, workspaceVars
  <2>23. CASE RecordRaises(n)
    BY <2>23 DEF RecordRaises, RollBackThen, workspaceVars
  <2>24. CASE Accept(n)
    BY <2>24 DEF Accept, Commit, ReleaseLock, workspaceVars
  <2>25. CASE DropLeftover(n)
    BY <2>25 DEF DropLeftover, RollBackThen, workspaceVars
  <2>26. CASE Retry(n)
    BY <2>26 DEF Retry, StartAttempt, workspaceVars
  <2>27. CASE GiveUp(n)
    BY <2>27 DEF GiveUp, workspaceVars
  <2>28. CASE ReleaseAndEnd(n)
    BY <2>28 DEF ReleaseAndEnd, workspaceVars
  <2> QED BY <1>1, <2>0, <2>1, <2>2, <2>3, <2>4, <2>5, <2>6, <2>7, <2>8, <2>9, <2>10, <2>11, <2>12, <2>13, <2>14, <2>15, <2>16, <2>17, <2>18, <2>19, <2>20, <2>21, <2>22, <2>23, <2>24, <2>25, <2>26, <2>27, <2>28, <2>29, <2>30 DEF RunNode
<1>2. CASE \E f \in File : EditSource(f)
  BY <1>2 DEF EditSource, workspaceVars, threadVars
<1>3. CASE UNCHANGED vars
  BY <1>3 DEF vars, workspaceVars, threadVars
<1> QED BY <1>1, <1>2, <1>3 DEF Next, AllEnded

\* Only an accepted patch is ever added to what was committed.
CommitsPatch(n) == pc[n] = "settle" /\ pending = n /\ Canonical' = Patched(Canonical, edit[n])

LEMMA CommitSteps ==
  ReportsCleanly /\ Consistent /\ [Next]_vars
    => UNCHANGED Canonical \/ \E n \in Node : CommitsPatch(n)
<1> SUFFICES ASSUME ReportsCleanly, Consistent, [Next]_vars
             PROVE  UNCHANGED Canonical \/ \E n \in Node : CommitsPatch(n)
  OBVIOUS
<1> USE NoTreeAssumption, NobodyAssumption, VerdictNames DEF Consistent, Ownership, Edits, Backups, Standing, Trees, TreesOf, Calm, Place, Goto, Canonical
<1>1. ASSUME NEW n \in Node, RunNode(n) PROVE UNCHANGED Canonical \/ \E m \in Node : CommitsPatch(m)
  <2>0. CASE \E f \in File : StageFile(n, f)
    BY <2>0 DEF StageFile, workspaceVars
  <2>29. CASE StageRaises(n)
    BY <2>29 DEF StageRaises, Raise, workspaceVars
  <2>30. CASE TransactionNotBegun(n)
    BY <2>30 DEF TransactionNotBegun, Conclude, workspaceVars
  <2>1. CASE ReserveAndStart(n)
    BY <2>1 DEF ReserveAndStart, StartAttempt, workspaceVars
  <2>2. CASE ReservationRefused(n)
    BY <2>2 DEF ReservationRefused, Raise, workspaceVars
  <2>3. CASE WorkerFails(n)
    BY <2>3 DEF WorkerFails, Conclude, workspaceVars
  <2>4. CASE Proposes(n)
    BY <2>4 DEF Proposes, workspaceVars
  <2>5. CASE Reports(n)
    BY <2>5 DEF Reports, workspaceVars
  <2>6. CASE CheckReport(n)
    <3>1. UNCHANGED <<root, backup>>
      <4>1. CASE ChecksWrite(Litter[n], Scribble)
        <5>1. Litter[n] = {}
          BY <2>6 DEF CheckReport, Conclude, Standing, ReportsCleanly
        <5> QED BY <4>1, <5>1, NoLitterNoChange DEF ChecksWrite
      <4> QED BY <2>6, <4>1 DEF CheckReport, workspaceVars
    <3> QED BY <2>6, <3>1 DEF CheckReport, Conclude
  <2>7. CASE MeetConflict(n)
    BY <2>7 DEF MeetConflict, Conclude, workspaceVars
  <2>8. CASE Refuse(n)
    BY <2>8 DEF Refuse, Conclude, workspaceVars
  <2>9. CASE Build(n)
    BY <2>9 DEF Build, MayBegin, HunksValid, BuildTransaction, LockFree, workspaceVars
  <2>10. CASE MoveAway(n)
    BY <2>10 DEF MoveAway, MoveRootAway, workspaceVars
  <2>11. CASE Install(n)
    BY <2>11 DEF Install, InstallTransaction, workspaceVars
  <2>12. CASE TransactionFails(n)
    BY <2>12 DEF TransactionFails, Conclude, AbandonTransaction, workspaceVars
  <2>13. CASE PathsMismatch(n)
    BY <2>13 DEF PathsMismatch, RollBackThen, workspaceVars
  <2>14. CASE VerifyIntegrated(n)
    BY <2>14 DEF VerifyIntegrated, ChecksWrite, workspaceVars
  <2>15. CASE VerifierRaises(n)
    BY <2>15 DEF VerifierRaises, Conclude, workspaceVars
  <2>16. CASE ScanFindsNothing(n)
    BY <2>16 DEF ScanFindsNothing, SideEffects, workspaceVars
  <2>17. CASE ScanRejects(n)
    BY <2>17 DEF ScanRejects, RollBackThen, workspaceVars
  <2>18. CASE UndoBegins(n)
    BY <2>18 DEF UndoBegins, MoveRejectedAway, workspaceVars
  <2>19. CASE UndoEnds(n)
    BY <2>19 DEF UndoEnds, RestoreBackup, ReleaseLock, workspaceVars
  <2>20. CASE UndoFindsNothing(n)
    BY <2>20 DEF UndoFindsNothing, ReleaseLock, workspaceVars
  <2>21. CASE UndoRaises(n)
    BY <2>21 DEF UndoRaises, Conclude, Raise, RollbackRaises, RescanRaises, ReleaseLock, workspaceVars
  <2>22. CASE RecordOutcome(n)
    BY <2>22 DEF RecordOutcome, workspaceVars
  <2>23. CASE RecordRaises(n)
    BY <2>23 DEF RecordRaises, RollBackThen, workspaceVars
  <2>24. CASE Accept(n)
    <3>1. CASE pending = n
      BY <2>24, <3>1 DEF Accept, Commit, CommitsPatch
    <3>2. CASE pending # n
      BY <2>24, <3>2 DEF Accept, workspaceVars
    <3> QED BY <3>1, <3>2
  <2>25. CASE DropLeftover(n)
    BY <2>25 DEF DropLeftover, RollBackThen, workspaceVars
  <2>26. CASE Retry(n)
    BY <2>26 DEF Retry, StartAttempt, workspaceVars
  <2>27. CASE GiveUp(n)
    BY <2>27 DEF GiveUp, workspaceVars
  <2>28. CASE ReleaseAndEnd(n)
    BY <2>28 DEF ReleaseAndEnd, workspaceVars
  <2> QED BY <1>1, <2>0, <2>1, <2>2, <2>3, <2>4, <2>5, <2>6, <2>7, <2>8, <2>9, <2>10, <2>11, <2>12, <2>13, <2>14, <2>15, <2>16, <2>17, <2>18, <2>19, <2>20, <2>21, <2>22, <2>23, <2>24, <2>25, <2>26, <2>27, <2>28, <2>29, <2>30 DEF RunNode
<1>2. CASE \E f \in File : EditSource(f)
  BY <1>2 DEF EditSource, workspaceVars, threadVars
<1>3. CASE UNCHANGED vars
  BY <1>3 DEF vars, workspaceVars, threadVars
<1> QED BY <1>1, <1>2, <1>3 DEF Next, AllEnded

\* What a node finds of its own files is what was committed, or it finds no
\* workspace at all.
LEMMA FindsCommitted ==
  ASSUME Consistent, Held, Reservations!NoOverlap, Apart, ~LeftOpen,
         NEW n \in Node, pc[n] = "stage", NEW f \in Scope(n), root # NoTree
  PROVE  root[f] = Canonical[f]
<1>1. CASE backup = NoTree
  BY <1>1 DEF Canonical
<1>2. CASE backup # NoTree
  <2>1. pending \in Node
    BY <1>2, NobodyAssumption DEF Consistent, Ownership, Trees, TreesOf, Calm
  <2>2. pending # n /\ Holding(n) /\ Holding(pending)
    BY <2>1 DEF Consistent, Standing, Held, Holding, LeftOpen, Ended
  <2>3. f \in File \ Scope(pending)
    BY <2>1, <2>2, ScopesApart DEF Scope
  <2>4. pc[pending] # "undoing"
    BY <2>1 DEF Consistent, Trees, TreesOf
  <2> QED BY <2>1, <2>3, <2>4 DEF Apart
<1> QED BY <1>1, <1>2

\* Nobody else commits anything to the files of a node in an attempt.
LEMMA OthersCommitElsewhere ==
  ASSUME ReportsCleanly, Consistent, Held, Reservations!NoOverlap, ~LeftOpen, [Next]_vars,
         NEW n \in Node, pc[n] \in {"stage", "working", "propose"}, NEW f \in Scope(n)
  PROVE  Canonical'[f] = Canonical[f]
<1>1. CASE UNCHANGED Canonical
  BY <1>1
<1>2. ASSUME NEW m \in Node, CommitsPatch(m) PROVE Canonical'[f] = Canonical[f]
  <2>1. m # n /\ Holding(m) /\ Holding(n)
    BY <1>2 DEF CommitsPatch, Held, Holding, Ended
  <2>2. f \in File \ Scope(m)
    BY <2>1, ScopesApart DEF Scope
  <2>3. Patched(Canonical, edit[m])[f] = Canonical[f]
    BY <2>2, PatchedOutside DEF Consistent
  <2> QED BY <1>2, <2>3 DEF CommitsPatch
<1> QED BY <1>1, <1>2, CommitSteps

Staging == {"stage", "working", "propose"}

\* A node with a staged copy got it by staging, or has had it before.
LEMMA StagingSteps ==
  ASSUME Ownership, Views, Emptied, [Next]_vars, NEW n \in Node, pc'[n] \in Staging
  PROVE  \/ pc[n] \in Staging /\ view'[n] = view[n]
         \/ view'[n] = Nothing
         \/ \E f \in File : StageFile(n, f)
<1> DEFINE Goal == \/ pc[n] \in Staging /\ view'[n] = view[n]
                   \/ view'[n] = Nothing
                   \/ \E f \in File : StageFile(n, f)
<1> SUFFICES Goal
  OBVIOUS
<1> USE DEF Ownership, Views, Emptied, Staging, Place, Goto
<1>1. ASSUME NEW m \in Node, RunNode(m) PROVE Goal
  <2>0. CASE \E f \in File : StageFile(m, f)
    <3>1. CASE m = n
      BY <2>0, <3>1
    <3>2. CASE m # n
      BY <2>0, <3>2 DEF StageFile
    <3> QED BY <3>1, <3>2
  <2>29. CASE StageRaises(m)
    BY <2>29 DEF StageRaises, Raise, workspaceVars
  <2>30. CASE TransactionNotBegun(m)
    BY <2>30 DEF TransactionNotBegun, Conclude, workspaceVars
  <2>1. CASE ReserveAndStart(m)
    BY <2>1 DEF ReserveAndStart, StartAttempt, workspaceVars
  <2>2. CASE ReservationRefused(m)
    BY <2>2 DEF ReservationRefused, Raise, workspaceVars
  <2>3. CASE WorkerFails(m)
    BY <2>3 DEF WorkerFails, Conclude, workspaceVars
  <2>4. CASE Proposes(m)
    BY <2>4 DEF Proposes, workspaceVars
  <2>5. CASE Reports(m)
    BY <2>5 DEF Reports, workspaceVars
  <2>6. CASE CheckReport(m)
    BY <2>6 DEF CheckReport, Conclude, ChecksWrite, workspaceVars
  <2>7. CASE MeetConflict(m)
    BY <2>7 DEF MeetConflict, Conclude, workspaceVars
  <2>8. CASE Refuse(m)
    BY <2>8 DEF Refuse, Conclude, workspaceVars
  <2>9. CASE Build(m)
    BY <2>9 DEF Build, MayBegin, HunksValid, BuildTransaction, LockFree, workspaceVars
  <2>10. CASE MoveAway(m)
    BY <2>10 DEF MoveAway, MoveRootAway, workspaceVars
  <2>11. CASE Install(m)
    BY <2>11 DEF Install, InstallTransaction, workspaceVars
  <2>12. CASE TransactionFails(m)
    BY <2>12 DEF TransactionFails, Conclude, AbandonTransaction, workspaceVars
  <2>13. CASE PathsMismatch(m)
    BY <2>13 DEF PathsMismatch, RollBackThen, workspaceVars
  <2>14. CASE VerifyIntegrated(m)
    BY <2>14 DEF VerifyIntegrated, ChecksWrite, workspaceVars
  <2>15. CASE VerifierRaises(m)
    BY <2>15 DEF VerifierRaises, Conclude, workspaceVars
  <2>16. CASE ScanFindsNothing(m)
    BY <2>16 DEF ScanFindsNothing, SideEffects, workspaceVars
  <2>17. CASE ScanRejects(m)
    BY <2>17 DEF ScanRejects, RollBackThen, workspaceVars
  <2>18. CASE UndoBegins(m)
    BY <2>18 DEF UndoBegins, MoveRejectedAway, workspaceVars
  <2>19. CASE UndoEnds(m)
    BY <2>19 DEF UndoEnds, RestoreBackup, ReleaseLock, workspaceVars
  <2>20. CASE UndoFindsNothing(m)
    BY <2>20 DEF UndoFindsNothing, ReleaseLock, workspaceVars
  <2>21. CASE UndoRaises(m)
    BY <2>21 DEF UndoRaises, Conclude, Raise, RollbackRaises, RescanRaises, ReleaseLock, workspaceVars
  <2>22. CASE RecordOutcome(m)
    BY <2>22 DEF RecordOutcome, workspaceVars
  <2>23. CASE RecordRaises(m)
    BY <2>23 DEF RecordRaises, RollBackThen, workspaceVars
  <2>24. CASE Accept(m)
    BY <2>24 DEF Accept, Commit, ReleaseLock, workspaceVars
  <2>25. CASE DropLeftover(m)
    BY <2>25 DEF DropLeftover, RollBackThen, workspaceVars
  <2>26. CASE Retry(m)
    BY <2>26 DEF Retry, StartAttempt, workspaceVars
  <2>27. CASE GiveUp(m)
    BY <2>27 DEF GiveUp, workspaceVars
  <2>28. CASE ReleaseAndEnd(m)
    BY <2>28 DEF ReleaseAndEnd, workspaceVars
  <2> QED BY <1>1, <2>0, <2>1, <2>2, <2>3, <2>4, <2>5, <2>6, <2>7, <2>8, <2>9, <2>10, <2>11, <2>12, <2>13, <2>14, <2>15, <2>16, <2>17, <2>18, <2>19, <2>20, <2>21, <2>22, <2>23, <2>24, <2>25, <2>26, <2>27, <2>28, <2>29, <2>30 DEF RunNode
<1>2. CASE \E f \in File : EditSource(f)
  BY <1>2 DEF EditSource, workspaceVars, threadVars
<1>3. CASE UNCHANGED vars
  BY <1>3 DEF vars, workspaceVars, threadVars
<1> QED BY <1>1, <1>2, <1>3 DEF Next, AllEnded

LEMMA StagedStaysCommitted ==
  ASSUME ReportsCleanly, Consistent, Views, Held, Reservations!NoOverlap, Emptied, Apart,
         ~LeftOpen, StagesOwnFilesCommitted, [Next]_vars
  PROVE  StagesOwnFilesCommitted'
<1> DEFINE Fresh(n) == \A f \in DOMAIN view[n] \cap Scope(n) : view[n][f] \in {Canonical[f], Absent}
<1>0. \A n \in Node : pc[n] \in Staging => Fresh(n)
  BY DEF StagesOwnFilesCommitted, Staging
<1>s. \A n \in Node : Scope(n)' = Scope(n) /\ Scope(n) \subseteq File
  BY DEF Scope
<1>a. ASSUME NEW n \in Node, pc[n] \in Staging, view'[n] = view[n] PROVE Fresh(n)'
  <2>1. \A f \in Scope(n) : Canonical'[f] = Canonical[f]
    BY <1>a, OthersCommitElsewhere DEF Staging
  <2> HIDE DEF Canonical
  <2> QED BY <2>1, <1>0, <1>a, <1>s
<1>b. ASSUME NEW n \in Node, view'[n] = Nothing PROVE Fresh(n)'
  BY <1>b DEF Nothing
<1>c. ASSUME NEW n \in Node, NEW f \in File, StageFile(n, f) PROVE Fresh(n)'
  <2>1. \A g \in Scope(n) : Canonical'[g] = Canonical[g]
    BY <1>c, OthersCommitElsewhere DEF StageFile, Goto
  <2>2. f \in Scope(n) /\ root # NoTree => root[f] = Canonical[f]
    BY <1>c, FindsCommitted DEF StageFile, Goto
  <2>3. view'[n] = [g \in DOMAIN view[n] \union {f} |->
                      IF g # f THEN view[n][g]
                      ELSE IF root # NoTree /\ Copied(n, f) THEN root[f] ELSE Absent]
    BY <1>c DEF StageFile, Views
  <2>4. Fresh(n)
    BY <1>0, <1>c DEF StageFile, Goto, Staging
  <2> HIDE DEF Canonical
  <2>5. \A g \in DOMAIN view'[n] \cap Scope(n) : view'[n][g] \in {Canonical[g], Absent}
    BY <2>2, <2>3, <2>4
  <2> QED BY <2>1, <2>5, <1>s
<1> HIDE DEF Fresh
<1>1. SUFFICES ASSUME NEW n \in Node, pc'[n] \in Staging PROVE Fresh(n)'
  BY DEF Fresh, StagesOwnFilesCommitted, Staging
<1>2. \/ pc[n] \in Staging /\ view'[n] = view[n]
      \/ view'[n] = Nothing
      \/ \E f \in File : StageFile(n, f)
  BY <1>1, StagingSteps DEF Consistent
<1> QED BY <1>1, <1>2, <1>a, <1>b, <1>c

\* Nothing a node stages of its own files is anything but what was committed, as
\* long as no node is through that could not roll its patch back
\* (WriteReservationManager together with the session, run_node and prepare).
THEOREM OwnFilesStagedUnlessLeftOpen ==
  ASSUME ReportsCleanly, ChecksStayInScope
  PROVE  Spec => [](LeftOpen \/ StagesOwnFilesCommitted)
<1> DEFINE Others == Counted /\ Views /\ Table /\ Reservations!NoOverlap /\ Held /\ Emptied /\ Apart
           Inv == LeftOpen \/ StagesOwnFilesCommitted
<1>1. Init => Others /\ Inv
  <2> SUFFICES ASSUME Init PROVE Others /\ Inv
    OBVIOUS
  <2>1. Table /\ Reservations!NoOverlap
    BY DEF Init, Reservations!ReservationInit, Table, Reservations!NoOverlap, Reservations!Reserved
  <2>2. StagesOwnFilesCommitted
    BY DEF Init, StagesOwnFilesCommitted
  <2> QED BY <2>1, <2>2, CountedInitially, ViewsInitially, HeldInitially, EmptiedInitially, ApartInitially
<1>2. Consistent /\ Others /\ [Next]_vars => Others'
  BY CountedKept, ViewsKept, TableKept, NoOverlapKept, HeldKept, EmptiedKept, ApartKept DEF Consistent
<1>3. Consistent /\ Others /\ Inv /\ [Next]_vars => Inv'
  BY OpenForGood, StagedStaysCommitted DEF Consistent
<1> QED BY <1>1, <1>2, <1>3, ConsistentAlways, PTL DEF Spec

\* Without a failing file operation no patch is ever left behind, and nothing a
\* node stages of its own files is anything but what was committed.
THEOREM OwnFilesStagedAsCommitted ==
  ASSUME ReportsCleanly, ChecksStayInScope, MaxFaults = 0
  PROVE  Spec => []StagesOwnFilesCommitted
<1>1. Init => Completed
  BY CompletedInitially
<1>2. Consistent /\ Completed /\ [Next]_vars => Completed'
  BY CompletedKept DEF Consistent
<1>3. Completed => ~LeftOpen
  BY DEF Completed, LeftOpen, Ended
<1> QED BY <1>1, <1>2, <1>3, ConsistentAlways, OwnFilesStagedUnlessLeftOpen, PTL DEF Spec
=============================================================================
