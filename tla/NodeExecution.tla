--------------------------- MODULE NodeExecution ---------------------------
(***************************************************************************)
(* The nodes of one graph at work on the shared workspace: run_node and    *)
(* phased_verifier of GraphExecutionService                                *)
(* (c4harness/application/run_graph.py) over DelegationRuntime.dispatch    *)
(* (c4harness/delegator/runtime.py).  Every node is a thread; its steps    *)
(* are cut where another thread can get between:                           *)
(*                                                                         *)
(*   idle -> stage -> working -> propose -> built -> moved -> installed    *)
(*        -> scan -> record -> settle -> release -> succeeded / failed     *)
(*                                                                         *)
(* with undo and undoing for the two renames of a rollback, check for the  *)
(* verification of a node that proposes no patch, and decide for the retry *)
(* decision, which leads back to stage.  Any set of nodes may be at work   *)
(* together here; GraphExecution adds the scheduler.                       *)
(***************************************************************************)
EXTENDS IntegrationWorkspace, Sequences, FiniteSets

CONSTANTS
  WritePaths,  \* per node, its write paths, each a tuple of path components
  Reads,       \* per node, the files it may only read
  Hidden,      \* whether the workspace lies below a directory that staging
               \* ignores, as the default (.c4harness/graph-runs) does
  Patcher,     \* the nodes whose execution mode is PATCH
  Output,      \* per node, the contents its worker may leave in a file
  Litter,      \* per node, the files its checks write
  Scribble,    \* what they write
  Editable,    \* the source files the user may edit while the graph runs
  MaxAttempts  \* the attempt budget of a node

ASSUME PatcherAssumption == Patcher \subseteq Node
ASSUME OutputAssumption == Output \in [Node -> SUBSET Content]
ASSUME LitterAssumption == Litter \in [Node -> SUBSET File] /\ Scribble \in Content
ASSUME ReadsAssumption == Reads \in [Node -> SUBSET File]
ASSUME HiddenAssumption == Hidden \in BOOLEAN
ASSUME BudgetAssumption == MaxAttempts \in Nat \ {0}

VARIABLES
  active, records,  \* the write reservations
  edited,           \* the source files edited since the snapshot
  pc,               \* where each node is
  attempt,          \* its attempt
  view,             \* what its staged copy holds, file by file
  edit,             \* the patch it proposes: the new content of some files
  verdict,          \* what is known of the attempt
  after             \* where a rollback goes on when it is through

\* The root itself is spelled ".", so every path is spelled from there.
Reservations == INSTANCE WriteReservations
                  WITH Raw <- {<<".">> \o p : p \in UNION {WritePaths[n] : n \in Node}},
                       MaxRecords <- 0

\* Write paths are what the manager reduces spellings to.
ASSUME PathsAssumption == \A n \in Node : WritePaths[n] \subseteq Reservations!Path

Policy == INSTANCE RetryPolicy

threadVars == <<pc, attempt, view, edit, verdict, after>>
vars == <<workspaceVars, active, records, edited, threadVars>>

\* The files of n's write paths, and all it stages.
Scope(n) ==
  {f \in File : \E p \in WritePaths[n] :
                  Len(p) <= Len(f) /\ \A i \in DOMAIN p : p[i] = f[i]}
Staged(n) == Reads[n] \union Scope(n)

Nothing == [f \in {} |-> Absent]

\* What each verdict stands for in the terms of the retry policy.
Failures ==
  [accepted    |-> << >>,
   rejected    |-> <<Policy!CheckRejected>>,
   policy      |-> <<Policy!PolicyBlocked>>,
   environment |-> <<Policy!EnvironmentBlocked>>,
   conflict    |-> <<Policy!Conflicting>>,
   context     |-> <<Policy!EvidenceMissing>>]
Verdict == DOMAIN Failures

Decision(n) ==
  Policy!Executable(
    Policy!DecideRetry(
      [exception |-> "none", status |-> "success", policy_violations |-> FALSE,
       failures |-> Failures[verdict[n]], conflict |-> verdict[n] = "conflict"],
      attempt[n], MaxAttempts, FALSE))

Place == {"idle", "stage", "working", "check", "propose", "built", "moved",
          "installed", "scan", "undo", "undoing", "record", "settle", "decide",
          "release", "succeeded", "failed"}
Ended == {"succeeded", "failed"}

Init ==
  /\ WorkspaceInit
  /\ Reservations!ReservationInit
  /\ edited = {}
  /\ pc = [n \in Node |-> "idle"]
  /\ attempt = [n \in Node |-> 0]
  /\ view = [n \in Node |-> Nothing]
  /\ edit = [n \in Node |-> Nothing]
  /\ verdict = [n \in Node |-> "none"]
  /\ after = [n \in Node |-> "none"]

-----------------------------------------------------------------------------
Goto(n, from, to) == pc[n] = from /\ pc' = [pc EXCEPT ![n] = to]

\* The attempt has a verdict; whatever was staged is of no more use.
Conclude(n, from, v) ==
  /\ Goto(n, from, "record")
  /\ verdict' = [verdict EXCEPT ![n] = v]
  /\ view' = [view EXCEPT ![n] = Nothing]

\* A rollback, after which the node goes on at next.
RollBackThen(n, from, next) ==
  /\ Goto(n, from, "undo")
  /\ after' = [after EXCEPT ![n] = next]

\* An exception leaves run_node.
Raise(n, from) ==
  /\ Goto(n, from, "release")
  /\ verdict' = [verdict EXCEPT ![n] = "raised"]

\* Variant: the attempt is not counted.
StartUncounted(n, from) ==
  /\ Goto(n, from, IF Staged(n) = {} THEN "working" ELSE "stage")
  /\ UNCHANGED attempt

StartAttempt(n, from) ==
  /\ Goto(n, from, IF Staged(n) = {} THEN "working" ELSE "stage")
  /\ attempt' = [attempt EXCEPT ![n] = @ + 1]

\* The user edits the source repository.
EditSource(f) ==
  /\ f \in Editable \ edited
  /\ edited' = edited \union {f}
  /\ UNCHANGED <<workspaceVars, active, records, threadVars>>

\* Variant: the attempt begins, and stages, before the paths are reserved.
ReserveLate(n) ==
  /\ StartAttempt(n, "idle")
  /\ UNCHANGED <<workspaceVars, active, records, edited, view, edit, verdict, after>>

ReserveAndStart(n) ==
  /\ StartAttempt(n, "idle")
  /\ Reservations!Reserve(n, WritePaths[n])
  /\ UNCHANGED <<workspaceVars, edited, view, edit, verdict, after>>

ReservationRefused(n) ==
  /\ Raise(n, "idle")
  /\ Reservations!ReservationConflict(n, WritePaths[n])
  /\ UNCHANGED <<workspaceVars, active, records, edited, attempt, view, edit, after>>

\* A file that is listed itself is copied from wherever it is; what is below a
\* listed directory is copied unless some component of its path is ignored.
Copied(n, f) == f \in Reads[n] \union WritePaths[n] \/ ~Hidden

\* prepare copies one more file into the staged workspace.  A file that is not
\* there, because nothing is, is taken for a new one; one that vanishes after it
\* was looked for leaves a placeholder, which holds nothing of it either: a patch
\* computed from one or the other is refused where there is a file.
StageFile(n, f) ==
  /\ f \in Staged(n) \ DOMAIN view[n]
  /\ Goto(n, "stage", IF Staged(n) \ DOMAIN view[n] = {f} THEN "working" ELSE "stage")
  /\ view' = [view EXCEPT ![n] =
                [g \in DOMAIN view[n] \union {f} |->
                   IF g # f THEN view[n][g]
                   ELSE IF root # NoTree /\ Copied(n, f) THEN root[f] ELSE Absent]]
  /\ UNCHANGED <<workspaceVars, active, records, edited, attempt, edit, verdict, after>>

\* The copy under way finds the workspace gone.  dispatch calls prepare before its
\* try: the exception leaves run_node, and the node has no other attempt.
StageRaises(n) ==
  /\ root = NoTree
  /\ Raise(n, "stage")
  /\ view' = [view EXCEPT ![n] = Nothing]
  /\ UNCHANGED <<workspaceVars, active, records, edited, attempt, edit, after>>

-----------------------------------------------------------------------------
(* The worker returns *)

\* It failed or raised, or its proposal does not get past the first phase.
WorkerFails(n) ==
  /\ \E v \in Verdict \ {"accepted", "conflict"} : Conclude(n, "working", v)
  /\ UNCHANGED <<workspaceVars, active, records, edited, attempt, edit, after>>

Proposes(n) ==
  /\ n \in Patcher
  /\ Goto(n, "working", "propose")
  /\ \E S \in SUBSET Scope(n) \ {{}} : \E e \in [S -> Output[n]] :
       /\ \A f \in S : e[f] # view[n][f]
       /\ edit' = [edit EXCEPT ![n] = e]
  /\ UNCHANGED <<workspaceVars, active, records, edited, attempt, view, verdict, after>>

Reports(n) ==
  /\ n \notin Patcher
  /\ Goto(n, "working", "check")
  /\ UNCHANGED <<workspaceVars, active, records, edited, attempt, view, edit, verdict, after>>

\* Checks run in the workspace, and may write there, without the lock.
CheckReport(n) ==
  /\ \E v \in Verdict \ {"conflict"} : Conclude(n, "check", v)
  /\ \/ ChecksWrite(Litter[n], Scribble)
     \/ UNCHANGED workspaceVars
  /\ UNCHANGED <<active, records, edited, attempt, edit, after>>

-----------------------------------------------------------------------------
(* apply_proposal, under the integration lock *)

SourceConflict(n) == edited \cap Scope(n) # {}

MeetConflict(n) ==
  /\ Conclude(n, "propose", "conflict")
  /\ LockFree
  /\ SourceConflict(n)
  /\ UNCHANGED <<workspaceVars, active, records, edited, attempt, edit, after>>

Refuse(n) ==
  /\ Conclude(n, "propose", "rejected")
  /\ MayRefuse(edit[n], view[n])
  /\ ~SourceConflict(n)
  /\ UNCHANGED <<workspaceVars, active, records, edited, attempt, edit, after>>

\* No directory can be made for the copy: the exception leaves apply_proposal, which
\* gives the lock back, and dispatch turns it into a verdict.
TransactionNotBegun(n) ==
  /\ Conclude(n, "propose", "environment")
  /\ MayBegin(edit[n], view[n])
  /\ ~SourceConflict(n)
  /\ Fault
  /\ UNCHANGED <<root, backup, side, file_states, pending, lock,
                 active, records, edited, attempt, edit, after>>

Build(n) ==
  /\ Goto(n, "propose", "built")
  /\ MayBegin(edit[n], view[n])
  /\ ~SourceConflict(n)
  /\ BuildTransaction(n, edit[n])
  /\ view' = [view EXCEPT ![n] = Nothing]
  /\ UNCHANGED <<active, records, edited, attempt, edit, verdict, after>>

MoveAway(n) ==
  /\ Goto(n, "built", "moved")
  /\ MoveRootAway(n)
  /\ UNCHANGED <<active, records, edited, attempt, view, edit, verdict, after>>

Install(n) ==
  /\ Goto(n, "moved", "installed")
  /\ InstallTransaction(n, edit[n])
  /\ UNCHANGED <<active, records, edited, attempt, view, edit, verdict, after>>

TransactionFails(n) ==
  /\ \E from \in {"built", "moved"} : Conclude(n, from, "rejected")
  /\ AbandonTransaction(n)
  /\ UNCHANGED <<active, records, edited, attempt, edit, after>>

-----------------------------------------------------------------------------
(* Verification of the integrated patch *)

\* The reported paths are not those of the patch.
PathsMismatch(n) ==
  /\ RollBackThen(n, "installed", "record")
  /\ verdict' = [verdict EXCEPT ![n] = "policy"]
  /\ UNCHANGED <<workspaceVars, active, records, edited, attempt, view, edit>>

\* The post phase has a result, and left its marks in the workspace or not.
VerifyIntegrated(n) ==
  /\ Goto(n, "installed", "scan")
  /\ \E v \in Verdict \ {"conflict"} : verdict' = [verdict EXCEPT ![n] = v]
  /\ \/ ChecksWrite(Litter[n], Scribble)
     \/ UNCHANGED workspaceVars
  /\ UNCHANGED <<active, records, edited, attempt, view, edit, after>>

\* The verifier raises: dispatch turns that into a verdict, nothing is undone.
VerifierRaises(n) ==
  /\ Conclude(n, "installed", "environment")
  /\ UNCHANGED <<workspaceVars, active, records, edited, attempt, edit, after>>

ScanFindsNothing(n) ==
  /\ ~SideEffects
  /\ verdict[n] = "accepted"
  /\ Goto(n, "scan", "record")
  /\ UNCHANGED <<workspaceVars, active, records, edited, attempt, view, edit, verdict, after>>

ScanRejects(n) ==
  /\ SideEffects \/ verdict[n] # "accepted"
  /\ RollBackThen(n, "scan", "record")
  /\ verdict' = [verdict EXCEPT ![n] = IF SideEffects THEN "policy" ELSE @]
  /\ UNCHANGED <<workspaceVars, active, records, edited, attempt, view, edit>>

-----------------------------------------------------------------------------
(* Rollback: two renames, then the rescan *)

UndoBegins(n) ==
  /\ backup # NoTree
  /\ Goto(n, "undo", "undoing")
  /\ MoveRejectedAway(n)
  /\ UNCHANGED <<active, records, edited, attempt, view, edit, verdict, after>>

UndoEnds(n) ==
  /\ Goto(n, "undoing", after[n])
  /\ RestoreBackup(n)
  /\ UNCHANGED <<active, records, edited, attempt, view, edit, verdict, after>>

\* There is nothing to restore: an earlier rollback failed while rescanning.
UndoFindsNothing(n) ==
  /\ backup = NoTree
  /\ Goto(n, "undo", after[n])
  /\ ReleaseLock(n)
  /\ UNCHANGED <<root, backup, side, file_states, pending, faults,
                 active, records, edited, attempt, view, edit, verdict, after>>

\* A rollback raises.  Inside the verifier dispatch turns that into a verdict,
\* outside it leaves run_node.
UndoRaises(n) ==
  /\ \E from \in {"undo", "undoing"} :
       IF after[n] = "record" THEN Conclude(n, from, "environment")
       ELSE Raise(n, from) /\ UNCHANGED view
  /\ \/ backup # NoTree /\ RollbackRaises(n)
     \/ pc[n] = "undoing" /\ RescanRaises(n)
  /\ UNCHANGED <<active, records, edited, attempt, edit, after>>

-----------------------------------------------------------------------------
(* The end of an attempt *)

\* dispatch writes the ledger and the history.
RecordOutcome(n) ==
  /\ Goto(n, "record", "settle")
  /\ UNCHANGED <<workspaceVars, active, records, edited, attempt, view, edit, verdict, after>>

\* That raises: the patch is rolled back and the exception passed on.
RecordRaises(n) ==
  /\ Fault
  /\ verdict' = [verdict EXCEPT ![n] = "raised"]
  /\ IF pending = n THEN RollBackThen(n, "record", "release")
     ELSE Goto(n, "record", "release") /\ UNCHANGED after
  /\ UNCHANGED <<root, backup, side, file_states, pending, lock,
                 active, records, edited, attempt, view, edit>>

Accept(n) ==
  /\ verdict[n] = "accepted"
  /\ Goto(n, "settle", "release")
  /\ IF pending = n THEN Commit(n) ELSE UNCHANGED workspaceVars
  /\ UNCHANGED <<active, records, edited, attempt, view, edit, verdict, after>>

\* Variant: a patch that is still in the workspace is left there.
KeepLeftover(n) ==
  /\ verdict[n] # "accepted"
  /\ Goto(n, "settle", "decide")
  /\ UNCHANGED <<workspaceVars, active, records, edited, attempt, view, edit, verdict, after>>

\* Variant: it is left there, but the lock is given back.
UnlockLeftover(n) ==
  /\ verdict[n] # "accepted"
  /\ Goto(n, "settle", "decide")
  /\ ReleaseLock(n)
  /\ UNCHANGED <<root, backup, side, file_states, pending, faults,
                 active, records, edited, attempt, view, edit, verdict, after>>

\* A patch that is still in the workspace is rolled back now.
DropLeftover(n) ==
  /\ verdict[n] # "accepted"
  /\ IF pending = n THEN RollBackThen(n, "settle", "decide")
     ELSE Goto(n, "settle", "decide") /\ UNCHANGED after
  /\ UNCHANGED <<workspaceVars, active, records, edited, attempt, view, edit, verdict>>

Retry(n) ==
  /\ StartAttempt(n, "decide")
  /\ Decision(n) \in Policy!Retries
  /\ edit' = [edit EXCEPT ![n] = Nothing]
  /\ UNCHANGED <<workspaceVars, active, records, edited, view, verdict, after>>

GiveUp(n) ==
  /\ Goto(n, "decide", "release")
  /\ Decision(n) \notin Policy!Retries
  /\ UNCHANGED <<workspaceVars, active, records, edited, attempt, view, edit, verdict, after>>

\* finally: the reservations are released.
ReleaseAndEnd(n) ==
  /\ Goto(n, "release", IF verdict[n] = "accepted" THEN "succeeded" ELSE "failed")
  /\ Reservations!ReleaseNode(n)
  /\ UNCHANGED <<workspaceVars, edited, attempt, view, edit, verdict, after>>

-----------------------------------------------------------------------------
RunNode(n) ==
  \/ ReserveAndStart(n) \/ ReservationRefused(n)
  \/ StageRaises(n) \/ \E f \in File : StageFile(n, f)
  \/ WorkerFails(n) \/ Proposes(n) \/ Reports(n) \/ CheckReport(n)
  \/ MeetConflict(n) \/ Refuse(n) \/ Build(n) \/ MoveAway(n) \/ Install(n)
  \/ TransactionNotBegun(n) \/ TransactionFails(n)
  \/ PathsMismatch(n) \/ VerifyIntegrated(n) \/ VerifierRaises(n)
  \/ ScanFindsNothing(n) \/ ScanRejects(n)
  \/ UndoBegins(n) \/ UndoEnds(n) \/ UndoFindsNothing(n) \/ UndoRaises(n)
  \/ RecordOutcome(n) \/ RecordRaises(n) \/ Accept(n) \/ DropLeftover(n)
  \/ Retry(n) \/ GiveUp(n) \/ ReleaseAndEnd(n)

AllEnded == (\A n \in Node : pc[n] \in Ended) /\ UNCHANGED vars

Next == \/ \E n \in Node : RunNode(n)
        \/ \E f \in File : EditSource(f)
        \/ AllEnded

Spec == Init /\ [][Next]_vars

\* Every thread goes on: workers, checks and commands run under timeouts.
FairSpec == Spec /\ \A n \in Node : WF_vars(RunNode(n))

-----------------------------------------------------------------------------
(* Properties *)

TypeOK ==
  /\ root \in Tree \union {NoTree}
  /\ backup \in Tree \union {NoTree}
  /\ side \in Tree \union {NoTree}
  /\ file_states \in Tree
  /\ pending \in Node \union {NoNode}
  /\ lock \in Node \union {NoNode}
  /\ faults \in 0..MaxFaults
  /\ edited \subseteq Editable
  /\ pc \in [Node -> Place]
  /\ attempt \in [Node -> 0..MaxAttempts]
  /\ verdict \in [Node -> Verdict \union {"none", "raised"}]
  /\ after \in [Node -> {"none", "record", "decide", "release"}]
  /\ \A n \in Node : DOMAIN view[n] \subseteq Staged(n) /\ DOMAIN edit[n] \subseteq Scope(n)

\* What the workspace promises: with this, an outsider cannot tell the
\* renames, the retries and the rollbacks from patches applied one by one.
Promise == INSTANCE PatchTransactions
             WITH Allowed <- [n \in Node |-> Scope(n)],
                  committed <- Canonical,
                  accepted <- {n \in Node : verdict[n] = "accepted" /\ pc[n] \in {"release", "succeeded"}}
KeepsPromise == Promise!Spec

\* The nodes whose patch is between its construction and its end.
InTransaction(n) == pc[n] \in {"built", "moved", "installed", "scan", "undoing"} \/ pending = n

\* Transactions never overlap: not even those whose rollback failed and gave
\* the lock away.
OneTransaction ==
  \A m, n \in Node : InTransaction(m) /\ InTransaction(n) => m = n

\* While no transaction is open the workspace is there, nothing is kept beside
\* it, and the snapshot knows every file of it.
QuietWorkspace ==
  (\A n \in Node : ~InTransaction(n)) =>
    /\ root = file_states
    /\ backup = NoTree /\ side = NoTree

\* A transaction starts from what was committed, never from another node's
\* patch or from what a failed attempt left.
BuiltOnCommitted ==
  \A n \in Node : pc[n] = "built" => side = Patched(Canonical, edit[n])

\* Whatever a node has staged of its own files is what was committed, in every
\* attempt: nobody writes there before it is through, and its own failed
\* attempts have left nothing (a file may be taken for a new one).
StagesOwnFilesCommitted ==
  \A n \in Node : pc[n] \in {"stage", "working", "propose"} =>
    \A f \in DOMAIN view[n] \cap Scope(n) : view[n][f] \in {Canonical[f], Absent}

\* The lock is with a node only as long as that node has still to act.
LockIsReturned ==
  \A n \in Node : lock = n => pc[n] \notin Ended \union {"idle", "stage", "working", "release"}

\* When a graph is through, its workspace holds exactly the accepted patches.
EndsCommitted == (\A n \in Node : pc[n] \in Ended) => root = Canonical

\* A transaction is completed by the node that began it.
TransactionsAreCompleted == \A n \in Node : pc[n] \in Ended => pending # n

\* A node is turned away for side effects only if its own checks have any.
SideEffectsAreOwn ==
  \A n \in Node : pc[n] = "scan" /\ SideEffects => Litter[n] # {}

\* A file of the committed tree is never taken for missing.
StagesWhatIsThere ==
  \A n \in Node : \A f \in DOMAIN view[n] : view[n][f] = Absent => Canonical[f] = Absent

\* Every node comes to an end, so nobody waits for the lock forever.
Termination == <>(\A n \in Node : pc[n] \in Ended)
=============================================================================
