----------------------------- MODULE AsyncTask -----------------------------
(***************************************************************************)
(* One asynchronous task: AsyncTaskRuntime over AsyncTaskStore             *)
(* (c4harness/delegator/async_runtime.py).  A detached runtime process     *)
(* claims the task, starts the workload and watches it until it is over;   *)
(* then it writes the terminal state and the event that reports it, in two *)
(* transactions.  Meanwhile the user asks to stop and acknowledges what is *)
(* in the Inbox, and the workload runs, ends and leaves marker files.      *)
(*                                                                         *)
(*   start -> claimed -> started -> loop -> poll -> ending -> finish       *)
(*         -> report -> done,     poll -> record -> loop                   *)
(*                                                                         *)
(* and except, except_update, except_report for the handler around all of  *)
(* it.  Every database call is a transaction of its own.  Observations     *)
(* that are not significant have unique keys and leave nothing that counts *)
(* here; when the next one is due is left open.  The task asks for its     *)
(* events in the Inbox (callback_mode "inbox", the default).               *)
(***************************************************************************)
EXTENDS Naturals

CONSTANTS
  Runtime,    \* the processes started for the task; the claim lets one run
  Reports,    \* what the monitoring worker may report, {} without a worker
  Limited,    \* whether the task has a maximum runtime
  MaxFaults   \* bound: how often a call raises or the process dies

ASSUME ReportsAssumption ==
  Reports \subseteq {"running", "needs_input", "stalled", "failed", "completed", "worker_error"}
ASSUME LimitedAssumption == Limited \in BOOLEAN
ASSUME FaultsAssumption == MaxFaults \in Nat

\* The event that reports each terminal state, and each significant report.
TerminalEvent ==
  [completed |-> "task.completed", failed |-> "task.failed",
   cancelled |-> "task.cancelled", timed_out |-> "task.timed_out"]
Terminal == DOMAIN TerminalEvent

SignificantEvent ==
  [needs_input |-> "worker.needs_input", stalled |-> "worker.stalled",
   failed |-> "worker.reported_failure"]

Reported == {SignificantEvent[o] : o \in DOMAIN SignificantEvent}
Key == {TerminalEvent[s] : s \in Terminal} \union Reported \union {"task.started"}

VARIABLES
  status, stop_requested,   \* the row of the task
  events,                   \* per event key, the callback_status of its row
  inbox,                    \* per event key, the status of its Inbox row
  rt,                       \* where each runtime process is
  asked,                    \* stop_requested as the runtime has read it
  outcome,                  \* the terminal state or the report it has in hand
  workload,                 \* "none", "running", "exited" (0) or "broke"
  markers,                  \* which of the marker files exist
  selected,                 \* what acknowledge_task has read
  unanswered,               \* history: reports made since their last
                            \* acknowledgement
  faults                    \* how many faults there were

recordVars == <<events, inbox, unanswered>>
userVars == <<stop_requested, selected>>
worldVars == <<workload, markers>>
vars == <<status, recordVars, userVars, worldVars, rt, asked, outcome, faults>>

Watching == {"claimed", "started", "loop", "poll", "record", "ending", "finish", "report"}
Handling == {"except", "except_update", "except_report"}
Active == Watching \union Handling
Gone == {"done", "dead"}

\* Tasks are modelled from the moment create has returned.
Init ==
  /\ status = "pending"
  /\ stop_requested = FALSE
  /\ events = [k \in Key |-> "none"]
  /\ inbox = [k \in Key |-> "none"]
  /\ rt = [r \in Runtime |-> "start"]
  /\ asked = [r \in Runtime |-> FALSE]
  /\ outcome = [r \in Runtime |-> "none"]
  /\ workload = "none"
  /\ markers = {}
  /\ selected = {}
  /\ unanswered = {}
  /\ faults = 0

Goto(r, from, to) == rt[r] = from /\ rt' = [rt EXCEPT ![r] = to]

\* Variant: the Inbox row is written anew.
RecordEventAgain(k, request_inbox) ==
  /\ events' = [events EXCEPT ![k] =
                  IF @ # "none" THEN @ ELSE IF request_inbox THEN "queued" ELSE "not_requested"]
  /\ inbox' = [inbox EXCEPT ![k] = IF request_inbox THEN "unread" ELSE @]

\* record_event: rows that are there stay as they are.
RecordEvent(k, request_inbox) ==
  /\ events' = [events EXCEPT ![k] =
                  IF @ # "none" THEN @ ELSE IF request_inbox THEN "queued" ELSE "not_requested"]
  /\ inbox' = [inbox EXCEPT ![k] = IF @ = "none" /\ request_inbox THEN "unread" ELSE @]

-----------------------------------------------------------------------------
(* The runtime                                                             *)

\* Variant: a task that is running already is claimed once more.
ClaimAnyway(r) ==
  /\ Goto(r, "start", "claimed")
  /\ status' = "running"
  /\ UNCHANGED <<recordVars, userVars, worldVars, asked, outcome, faults>>

Claim(r) ==
  /\ status = "pending"
  /\ Goto(r, "start", "claimed")
  /\ status' = "running"
  /\ UNCHANGED <<recordVars, userVars, worldVars, asked, outcome, faults>>

ClaimRefused(r) ==
  /\ status # "pending"
  /\ Goto(r, "start", "done")
  /\ UNCHANGED <<status, recordVars, userVars, worldVars, asked, outcome, faults>>

StartWorkload(r) ==
  /\ Goto(r, "claimed", "started")
  /\ workload' = "running"
  /\ UNCHANGED <<status, recordVars, userVars, markers, asked, outcome, faults>>

\* Popen raises: there is no such command.
StartFails(r) ==
  /\ Goto(r, "claimed", "except")
  /\ UNCHANGED <<status, recordVars, userVars, worldVars, asked, outcome, faults>>

RecordStart(r) ==
  /\ Goto(r, "started", "loop")
  /\ RecordEvent("task.started", FALSE)
  /\ UNCHANGED <<status, unanswered, userVars, worldVars, asked, outcome, faults>>

ReadRecord(r) ==
  /\ Goto(r, "loop", "poll")
  /\ asked' = [asked EXCEPT ![r] = stop_requested]
  /\ UNCHANGED <<status, recordVars, userVars, worldVars, outcome, faults>>

\* Variant: a request to stop is overlooked.
TerminalStateUnasked(r) ==
  IF "success" \in markers THEN {"completed"}
  ELSE IF "failure" \in markers THEN {"failed"}
  ELSE IF workload = "exited" THEN {"completed"}
  ELSE IF workload = "broke" THEN {"failed"}
  ELSE {"none"} \union IF Limited THEN {"timed_out"} ELSE {}

\* _terminal_state, with every answer the clock may give.
TerminalState(r) ==
  IF asked[r] THEN {"cancelled"}
  ELSE IF "success" \in markers THEN {"completed"}
  ELSE IF "failure" \in markers THEN {"failed"}
  ELSE IF workload = "exited" THEN {"completed"}
  ELSE IF workload = "broke" THEN {"failed"}
  ELSE {"none"} \union IF Limited THEN {"timed_out"} ELSE {}

NoticeEnd(r) ==
  /\ Goto(r, "poll", "ending")
  /\ \E s \in TerminalState(r) \ {"none"} : outcome' = [outcome EXCEPT ![r] = s]
  /\ UNCHANGED <<status, recordVars, userVars, worldVars, asked, faults>>

Sleep(r) ==
  /\ "none" \in TerminalState(r)
  /\ Goto(r, "poll", "loop")
  /\ UNCHANGED <<status, recordVars, userVars, worldVars, asked, outcome, faults>>

\* A periodic check: the worker has looked at the snapshot.
Observe(r) ==
  /\ "none" \in TerminalState(r)
  /\ Goto(r, "poll", "record")
  /\ \E o \in Reports : outcome' = [outcome EXCEPT ![r] = o]
  /\ UNCHANGED <<status, recordVars, userVars, worldVars, asked, faults>>

RecordObservation(r) ==
  /\ Goto(r, "record", "loop")
  /\ IF outcome[r] \in DOMAIN SignificantEvent
     THEN LET k == SignificantEvent[outcome[r]] IN
          RecordEvent(k, TRUE) /\ unanswered' = unanswered \union {k}
     ELSE UNCHANGED recordVars
  /\ UNCHANGED <<status, userVars, worldVars, asked, outcome, faults>>

Terminate == workload' = IF workload = "running" THEN "broke" ELSE workload

\* Variant: the workload is left to itself.
LeaveWorkload(r) ==
  /\ Goto(r, "ending", "finish")
  /\ UNCHANGED <<status, recordVars, userVars, worldVars, asked, outcome, faults>>

\* The workload is terminated and the worker sums up.
StopWorkload(r) ==
  /\ Goto(r, "ending", "finish")
  /\ Terminate
  /\ UNCHANGED <<status, recordVars, userVars, markers, asked, outcome, faults>>

\* Variant: the event is written at once, too.
FinishAndReport(r) ==
  /\ Goto(r, "finish", "report")
  /\ status' = outcome[r]
  /\ RecordEvent(TerminalEvent[outcome[r]], TRUE)
  /\ UNCHANGED <<unanswered, userVars, worldVars, asked, outcome, faults>>

Finish(r) ==
  /\ Goto(r, "finish", "report")
  /\ status' = outcome[r]
  /\ UNCHANGED <<recordVars, userVars, worldVars, asked, outcome, faults>>

Report(r) ==
  /\ Goto(r, "report", "done")
  /\ RecordEvent(TerminalEvent[outcome[r]], TRUE)
  /\ UNCHANGED <<status, unanswered, userVars, worldVars, asked, outcome, faults>>

-----------------------------------------------------------------------------
(* The handler around it                                                   *)

ExceptStop(r) ==
  /\ Goto(r, "except", "except_update")
  /\ Terminate
  /\ UNCHANGED <<status, recordVars, userVars, markers, asked, outcome, faults>>

\* Variant: the error has a state of its own.
ExceptUpdateError(r) ==
  /\ Goto(r, "except_update", "except_report")
  /\ status' = "error"
  /\ UNCHANGED <<recordVars, userVars, worldVars, asked, outcome, faults>>

ExceptUpdate(r) ==
  /\ Goto(r, "except_update", "except_report")
  /\ status' = "failed"
  /\ UNCHANGED <<recordVars, userVars, worldVars, asked, outcome, faults>>

\* Variant: the event is not for the Inbox.
ExceptReportQuietly(r) ==
  /\ Goto(r, "except_report", "done")
  /\ RecordEvent("task.failed", FALSE)
  /\ UNCHANGED <<status, unanswered, userVars, worldVars, asked, outcome, faults>>

ExceptReport(r) ==
  /\ Goto(r, "except_report", "done")
  /\ RecordEvent("task.failed", TRUE)
  /\ UNCHANGED <<status, unanswered, userVars, worldVars, asked, outcome, faults>>

-----------------------------------------------------------------------------
(* What goes wrong                                                         *)

Fault == faults < MaxFaults /\ faults' = faults + 1

\* A call of the loop raises: the database is locked, the disk is full.
CallRaises(r) ==
  /\ Fault
  /\ \E from \in Watching \ {"claimed"} : Goto(r, from, "except")
  /\ UNCHANGED <<status, recordVars, userVars, worldVars, asked, outcome>>

\* The process is killed, the handler raises, or something raises before the
\* handler is in force; nobody takes its place.
Die(r) ==
  /\ Fault
  /\ \E from \in Active \union {"start"} : Goto(r, from, "dead")
  /\ UNCHANGED <<status, recordVars, userVars, worldVars, asked, outcome>>

-----------------------------------------------------------------------------
(* The workload and the user                                               *)

WorkloadEnds ==
  /\ workload = "running"
  /\ workload' \in {"exited", "broke"}
  /\ UNCHANGED <<status, recordVars, userVars, markers, rt, asked, outcome, faults>>

MarkerAppears ==
  /\ \E m \in {"success", "failure"} \ markers : markers' = markers \union {m}
  /\ UNCHANGED <<status, recordVars, userVars, workload, rt, asked, outcome, faults>>

RequestStop ==
  /\ status \notin Terminal
  /\ ~stop_requested
  /\ stop_requested' = TRUE
  /\ UNCHANGED <<status, recordVars, selected, worldVars, rt, asked, outcome, faults>>

Unread == {k \in Key : inbox[k] = "unread"}

\* The rows of read, and the events of chosen, are acknowledged.
Acknowledge(read, chosen) ==
  /\ inbox' = [k \in Key |-> IF k \in read THEN "acknowledged" ELSE inbox[k]]
  /\ events' = [k \in Key |-> IF k \in chosen THEN "acknowledged" ELSE events[k]]
  /\ unanswered' = unanswered \ read

\* acknowledge_inbox, of an item that may have been acknowledged before.
AcknowledgeItem(k) ==
  /\ inbox[k] # "none"
  /\ Acknowledge({k}, {k})
  /\ UNCHANGED <<status, userVars, worldVars, rt, asked, outcome, faults>>

\* acknowledge_task reads what is unread, and then, in a transaction of its own,
\* acknowledges whatever is unread by then, and the events it has read.
SelectUnread ==
  /\ selected = {}
  /\ Unread # {}
  /\ selected' = Unread
  /\ UNCHANGED <<status, recordVars, stop_requested, worldVars, rt, asked, outcome, faults>>

AcknowledgeTask ==
  /\ selected # {}
  /\ Acknowledge(Unread, selected)
  /\ selected' = {}
  /\ UNCHANGED <<status, stop_requested, worldVars, rt, asked, outcome, faults>>

-----------------------------------------------------------------------------
Run(r) ==
  \/ Claim(r) \/ ClaimRefused(r)
  \/ StartWorkload(r) \/ StartFails(r) \/ RecordStart(r)
  \/ ReadRecord(r) \/ NoticeEnd(r) \/ Sleep(r) \/ Observe(r) \/ RecordObservation(r)
  \/ StopWorkload(r) \/ Finish(r) \/ Report(r)
  \/ ExceptStop(r) \/ ExceptUpdate(r) \/ ExceptReport(r)

Over == (\A r \in Runtime : rt[r] \in Gone) /\ UNCHANGED vars

Next ==
  \/ \E r \in Runtime : Run(r) \/ CallRaises(r) \/ Die(r)
  \/ WorkloadEnds \/ MarkerAppears
  \/ RequestStop \/ SelectUnread \/ AcknowledgeTask
  \/ \E k \in Key : AcknowledgeItem(k)
  \/ Over

Spec == Init /\ [][Next]_vars

\* A runtime goes on: it polls, its calls of the worker have a timeout.  Nothing
\* is assumed of the workload or of the user.
FairSpec == Spec /\ \A r \in Runtime : WF_vars(Run(r))

-----------------------------------------------------------------------------
(* Properties                                                              *)

\* Every variable has a value of its kind.
TypeOK ==
  /\ status \in {"pending", "running"} \union Terminal
  /\ stop_requested \in BOOLEAN
  /\ events \in [Key -> {"none", "not_requested", "queued", "acknowledged"}]
  /\ inbox \in [Key -> {"none", "unread", "acknowledged"}]
  /\ rt \in [Runtime -> {"start"} \union Active \union Gone]
  /\ asked \in [Runtime -> BOOLEAN]
  /\ outcome \in [Runtime -> {"none"} \union Terminal \union Reports]
  /\ workload \in {"none", "running", "exited", "broke"}
  /\ markers \subseteq {"success", "failure"}
  /\ selected \subseteq Key
  /\ unanswered \subseteq Reported
  /\ faults \in 0..MaxFaults

\* The task is worked on by one runtime, however many are started
\* (AsyncTaskStore.claim).
OneRuntime ==
  \A r, s \in Runtime : rt[r] \in Active /\ rt[s] \in Active => r = s

\* A task that is over has no workload running, by whichever of the loop's exits
\* or through the handler it got there.
OverMeansStopped == status \in Terminal => workload # "running"

\* What an event announces is what the task's row says, even when the announcement
\* raised and the handler made another one: no task is reported completed and
\* failed.
AnnouncedIsStatus ==
  \A s \in Terminal : events[TerminalEvent[s]] # "none" => status = s

\* The end of a task is in the Inbox once its runtime has returned, whatever was
\* raised on the way.
EndIsReported ==
  status \in Terminal /\ (\A r \in Runtime : rt[r] \in {"start", "done"}) =>
    inbox[TerminalEvent[status]] # "none"

\* The two tables agree: what has been acknowledged as an event is acknowledged in
\* the Inbox (the converse is lost when an event is recorded between the two
\* steps of acknowledge_task).
AcknowledgedTogether ==
  \A k \in Key : events[k] = "acknowledged" => inbox[k] = "acknowledged"

\* A request to stop, or the end of the workload, ends the task, unless its
\* runtime dies.
EndIsNoticed ==
  stop_requested \/ workload \in {"exited", "broke"}
    ~> status \in Terminal \/ \E r \in Runtime : rt[r] = "dead"

\* A significant report is unread in the Inbox until the user acknowledges it.
ReportsReachInbox == unanswered \subseteq Unread
=============================================================================
