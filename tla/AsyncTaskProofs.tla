-------------------------- MODULE AsyncTaskProofs --------------------------
(***************************************************************************)
(* Theorems about AsyncTask, for any number of runtime processes, faults   *)
(* and acknowledgements.                                                   *)
(***************************************************************************)
EXTENDS AsyncTask, TLAPS

LEMMA Names ==
  /\ Terminal = {"completed", "failed", "cancelled", "timed_out"}
  /\ TerminalEvent["completed"] = "task.completed"
  /\ TerminalEvent["failed"] = "task.failed"
  /\ TerminalEvent["cancelled"] = "task.cancelled"
  /\ TerminalEvent["timed_out"] = "task.timed_out"
  /\ DOMAIN SignificantEvent = {"needs_input", "stalled", "failed"}
  /\ SignificantEvent["needs_input"] = "worker.needs_input"
  /\ SignificantEvent["stalled"] = "worker.stalled"
  /\ SignificantEvent["failed"] = "worker.reported_failure"
BY DEF Terminal, TerminalEvent, SignificantEvent

LEMMA Keys ==
  /\ Reported = {"worker.needs_input", "worker.stalled", "worker.reported_failure"}
  /\ Key = {"task.completed", "task.failed", "task.cancelled", "task.timed_out",
            "task.started"} \union Reported
BY Names DEF Reported, Key

LEMMA ReportIsReported ==
  \A o \in DOMAIN SignificantEvent : SignificantEvent[o] \in Reported
BY DEF Reported

\* Types, with what a runtime has in hand.
Types ==
  /\ TypeOK
  /\ \A r \in Runtime :
       /\ rt[r] \in {"ending", "finish", "report"} => outcome[r] \in Terminal
       /\ rt[r] = "record" => outcome[r] \in Reports

LEMMA TypesInitially == Init => Types
<1> SUFFICES ASSUME Init PROVE Types
  OBVIOUS
<1> USE DEF Init
<1>1. status \in {"pending", "running"} \union Terminal /\ stop_requested \in BOOLEAN
  OBVIOUS
<1>2. events \in [Key -> {"none", "not_requested", "queued", "acknowledged"}]
  OBVIOUS
<1>3. inbox \in [Key -> {"none", "unread", "acknowledged"}]
  OBVIOUS
<1>4. rt \in [Runtime -> {"start"} \union Active \union Gone] /\ asked \in [Runtime -> BOOLEAN]
  OBVIOUS
<1>5. outcome \in [Runtime -> {"none"} \union Terminal \union Reports]
  OBVIOUS
<1>6. workload \in {"none", "running", "exited", "broke"} /\ markers \subseteq {"success", "failure"}
  OBVIOUS
<1>7. selected \subseteq Key /\ unanswered \subseteq Reported /\ faults \in 0..MaxFaults
  BY FaultsAssumption
<1>8. \A r \in Runtime : rt[r] = "start"
  OBVIOUS
<1> QED BY <1>1, <1>2, <1>3, <1>4, <1>5, <1>6, <1>7, <1>8 DEF Types, TypeOK

LEMMA TypesKept == Types /\ [Next]_vars => Types'
<1> SUFFICES ASSUME Types, [Next]_vars PROVE Types'
  OBVIOUS
<1> USE Names, Keys, FaultsAssumption DEF Types, TypeOK, Active, Watching, Handling, Gone, Goto
<1>1. ASSUME NEW r \in Runtime, Run(r) PROVE Types'
  <2>1. CASE Claim(r)
    BY <2>1 DEF Claim, recordVars, userVars, worldVars
  <2>2. CASE ClaimRefused(r)
    BY <2>2 DEF ClaimRefused, recordVars, userVars, worldVars
  <2>3. CASE StartWorkload(r)
    BY <2>3 DEF StartWorkload, recordVars, userVars
  <2>4. CASE StartFails(r)
    BY <2>4 DEF StartFails, recordVars, userVars, worldVars
  <2>5. CASE RecordStart(r)
    BY <2>5 DEF RecordStart, RecordEvent, userVars, worldVars
  <2>6. CASE ReadRecord(r)
    BY <2>6 DEF ReadRecord, recordVars, userVars, worldVars
  <2>7. CASE NoticeEnd(r)
    <3>1. TerminalState(r) \ {"none"} \subseteq Terminal
      BY Names DEF TerminalState
    <3> QED BY <2>7, <3>1 DEF NoticeEnd, recordVars, userVars, worldVars
  <2>8. CASE Sleep(r)
    BY <2>8 DEF Sleep, recordVars, userVars, worldVars
  <2>9. CASE Observe(r)
    BY <2>9 DEF Observe, recordVars, userVars, worldVars
  <2>10. CASE RecordObservation(r)
    <3> USE <2>10 DEF RecordObservation
    <3>1. CASE outcome[r] \in DOMAIN SignificantEvent
      <4>1. SignificantEvent[outcome[r]] \in Reported
        BY <3>1, ReportIsReported
      <4>2. SignificantEvent[outcome[r]] \in Key
        BY <4>1, Keys
      <4>3. unanswered' = unanswered \union {SignificantEvent[outcome[r]]}
        BY <3>1
      <4>4. unanswered' \subseteq Reported
        BY <4>1, <4>3
      <4>5. events' \in [Key -> {"none", "not_requested", "queued", "acknowledged"}]
        BY <3>1, <4>2 DEF RecordEvent
      <4>6. inbox' \in [Key -> {"none", "unread", "acknowledged"}]
        BY <3>1, <4>2 DEF RecordEvent
      <4> QED BY <4>4, <4>5, <4>6 DEF userVars, worldVars
    <3>2. CASE outcome[r] \notin DOMAIN SignificantEvent
      <4>1. UNCHANGED <<events, inbox, unanswered>>
        BY <3>2 DEF recordVars
      <4> QED BY <4>1 DEF userVars, worldVars
    <3> QED BY <3>1, <3>2
  <2>11. CASE StopWorkload(r)
    BY <2>11 DEF StopWorkload, Terminate, recordVars, userVars
  <2>12. CASE Finish(r)
    BY <2>12 DEF Finish, recordVars, userVars, worldVars
  <2>13. CASE Report(r)
    BY <2>13 DEF Report, RecordEvent, userVars, worldVars
  <2>14. CASE ExceptStop(r)
    BY <2>14 DEF ExceptStop, Terminate, recordVars, userVars
  <2>15. CASE ExceptUpdate(r)
    BY <2>15 DEF ExceptUpdate, recordVars, userVars, worldVars
  <2>16. CASE ExceptReport(r)
    BY <2>16 DEF ExceptReport, RecordEvent, userVars, worldVars
  <2> QED BY <1>1, <2>1, <2>2, <2>3, <2>4, <2>5, <2>6, <2>7, <2>8, <2>9, <2>10, <2>11, <2>12, <2>13, <2>14, <2>15, <2>16 DEF Run
<1>2. ASSUME NEW r \in Runtime, CallRaises(r) PROVE Types'
  BY <1>2 DEF CallRaises, Fault, recordVars, userVars, worldVars
<1>3. ASSUME NEW r \in Runtime, Die(r) PROVE Types'
  BY <1>3 DEF Die, Fault, recordVars, userVars, worldVars
<1>4. CASE WorkloadEnds
  BY <1>4 DEF WorkloadEnds, recordVars, userVars
<1>5. CASE MarkerAppears
  BY <1>5 DEF MarkerAppears, recordVars, userVars
<1>6. CASE RequestStop
  BY <1>6 DEF RequestStop, recordVars, worldVars
<1>7. CASE SelectUnread
  BY <1>7 DEF SelectUnread, Unread, recordVars, worldVars
<1>8. CASE AcknowledgeTask
  BY <1>8 DEF AcknowledgeTask, Acknowledge, Unread, worldVars
<1>9. ASSUME NEW k \in Key, AcknowledgeItem(k) PROVE Types'
  BY <1>9 DEF AcknowledgeItem, Acknowledge, Unread, userVars, worldVars
<1>10. CASE UNCHANGED vars
  BY <1>10 DEF vars, recordVars, userVars, worldVars
<1> QED BY <1>1, <1>2, <1>3, <1>4, <1>5, <1>6, <1>7, <1>8, <1>9, <1>10 DEF Next, Over

\* Who is at work on the task, and what its row says meanwhile.
Working ==
  /\ OneRuntime
  /\ OverMeansStopped
  /\ \A r \in Runtime :
       /\ rt[r] \in Active => status # "pending"
       /\ rt[r] \in Watching \ {"report"} => status = "running"
       /\ rt[r] = "report" => status = outcome[r]
       /\ rt[r] = "except_report" => status = "failed"
       /\ rt[r] \in {"finish", "report", "except_update", "except_report"} => workload # "running"

LEMMA WorkingInitially == Init => Working
BY Names DEF Init, Working, OneRuntime, OverMeansStopped, Active, Watching, Handling

LEMMA WorkingKept == Types /\ Working /\ [Next]_vars => Working'
<1> SUFFICES ASSUME Types, Working, [Next]_vars PROVE Working'
  OBVIOUS
<1> USE Names DEF Types, TypeOK, Working, OneRuntime, OverMeansStopped, Active, Watching, Handling, Gone, Goto
<1>1. ASSUME NEW r \in Runtime, Run(r) PROVE Working'
  <2>1. CASE Claim(r)
    BY <2>1 DEF Claim, recordVars, userVars, worldVars
  <2>2. CASE ClaimRefused(r)
    BY <2>2 DEF ClaimRefused, recordVars, userVars, worldVars
  <2>3. CASE StartWorkload(r)
    BY <2>3 DEF StartWorkload, recordVars, userVars
  <2>4. CASE StartFails(r)
    BY <2>4 DEF StartFails, recordVars, userVars, worldVars
  <2>5. CASE RecordStart(r)
    BY <2>5 DEF RecordStart, RecordEvent, userVars, worldVars
  <2>6. CASE ReadRecord(r)
    BY <2>6 DEF ReadRecord, recordVars, userVars, worldVars
  <2>7. CASE NoticeEnd(r)
    BY <2>7 DEF NoticeEnd, recordVars, userVars, worldVars
  <2>8. CASE Sleep(r)
    BY <2>8 DEF Sleep, recordVars, userVars, worldVars
  <2>9. CASE Observe(r)
    BY <2>9 DEF Observe, recordVars, userVars, worldVars
  <2>10. CASE RecordObservation(r)
    BY <2>10 DEF RecordObservation, RecordEvent, recordVars, userVars, worldVars
  <2>11. CASE StopWorkload(r)
    BY <2>11 DEF StopWorkload, Terminate, recordVars, userVars
  <2>12. CASE Finish(r)
    BY <2>12 DEF Finish, recordVars, userVars, worldVars
  <2>13. CASE Report(r)
    BY <2>13 DEF Report, RecordEvent, userVars, worldVars
  <2>14. CASE ExceptStop(r)
    BY <2>14 DEF ExceptStop, Terminate, recordVars, userVars
  <2>15. CASE ExceptUpdate(r)
    BY <2>15 DEF ExceptUpdate, recordVars, userVars, worldVars
  <2>16. CASE ExceptReport(r)
    BY <2>16 DEF ExceptReport, RecordEvent, userVars, worldVars
  <2> QED BY <1>1, <2>1, <2>2, <2>3, <2>4, <2>5, <2>6, <2>7, <2>8, <2>9, <2>10, <2>11, <2>12, <2>13, <2>14, <2>15, <2>16 DEF Run
<1>2. ASSUME NEW r \in Runtime, CallRaises(r) PROVE Working'
  BY <1>2 DEF CallRaises, Fault, recordVars, userVars, worldVars
<1>3. ASSUME NEW r \in Runtime, Die(r) PROVE Working'
  BY <1>3 DEF Die, Fault, recordVars, userVars, worldVars
<1>4. CASE WorkloadEnds
  BY <1>4 DEF WorkloadEnds, recordVars, userVars
<1>5. CASE MarkerAppears
  BY <1>5 DEF MarkerAppears, recordVars, userVars
<1>6. CASE RequestStop
  BY <1>6 DEF RequestStop, recordVars, worldVars
<1>7. CASE SelectUnread
  BY <1>7 DEF SelectUnread, Unread, recordVars, worldVars
<1>8. CASE AcknowledgeTask
  BY <1>8 DEF AcknowledgeTask, Acknowledge, Unread, worldVars
<1>9. ASSUME NEW k \in Key, AcknowledgeItem(k) PROVE Working'
  BY <1>9 DEF AcknowledgeItem, Acknowledge, Unread, userVars, worldVars
<1>10. CASE UNCHANGED vars
  BY <1>10 DEF vars, recordVars, userVars, worldVars
<1> QED BY <1>1, <1>2, <1>3, <1>4, <1>5, <1>6, <1>7, <1>8, <1>9, <1>10 DEF Next, Over

\* The two tables of events against each other and against the row of the task.
Books ==
  /\ AnnouncedIsStatus
  /\ EndIsReported
  /\ AcknowledgedTogether
  /\ \A k \in Key : inbox[k] # "none" => events[k] # "none"
  /\ \A k \in selected : inbox[k] # "none"
  /\ \A r \in Runtime : rt[r] \in Active =>
       \A s \in Terminal : events[TerminalEvent[s]] = "none"

LEMMA BooksInitially == Init => Books
BY Names, Keys
   DEF Init, Books, AnnouncedIsStatus, EndIsReported, AcknowledgedTogether, Active, Watching, Handling

LEMMA BooksKept == Types /\ Working /\ Books /\ [Next]_vars => Books'
<1> SUFFICES ASSUME Types, Working, Books, [Next]_vars PROVE Books'
  OBVIOUS
<1> USE Names, Keys DEF Types, TypeOK, Working, OneRuntime, OverMeansStopped, Books, AnnouncedIsStatus, EndIsReported,
           AcknowledgedTogether, Active, Watching, Handling, Gone, Goto
<1>1. ASSUME NEW r \in Runtime, Run(r) PROVE Books'
  <2>1. CASE Claim(r)
    BY <2>1 DEF Claim, recordVars, userVars, worldVars
  <2>2. CASE ClaimRefused(r)
    BY <2>2 DEF ClaimRefused, recordVars, userVars, worldVars
  <2>3. CASE StartWorkload(r)
    BY <2>3 DEF StartWorkload, recordVars, userVars
  <2>4. CASE StartFails(r)
    BY <2>4 DEF StartFails, recordVars, userVars, worldVars
  <2>5. CASE RecordStart(r)
    BY <2>5 DEF RecordStart, RecordEvent, userVars, worldVars
  <2>6. CASE ReadRecord(r)
    BY <2>6 DEF ReadRecord, recordVars, userVars, worldVars
  <2>7. CASE NoticeEnd(r)
    BY <2>7 DEF NoticeEnd, recordVars, userVars, worldVars
  <2>8. CASE Sleep(r)
    BY <2>8 DEF Sleep, recordVars, userVars, worldVars
  <2>9. CASE Observe(r)
    BY <2>9 DEF Observe, recordVars, userVars, worldVars
  <2>10. CASE RecordObservation(r)
    BY <2>10 DEF RecordObservation, RecordEvent, recordVars, userVars, worldVars
  <2>11. CASE StopWorkload(r)
    BY <2>11 DEF StopWorkload, Terminate, recordVars, userVars
  <2>12. CASE Finish(r)
    BY <2>12 DEF Finish, recordVars, userVars, worldVars
  <2>13. CASE Report(r)
    BY <2>13 DEF Report, RecordEvent, userVars, worldVars
  <2>14. CASE ExceptStop(r)
    BY <2>14 DEF ExceptStop, Terminate, recordVars, userVars
  <2>15. CASE ExceptUpdate(r)
    BY <2>15 DEF ExceptUpdate, recordVars, userVars, worldVars
  <2>16. CASE ExceptReport(r)
    BY <2>16 DEF ExceptReport, RecordEvent, userVars, worldVars
  <2> QED BY <1>1, <2>1, <2>2, <2>3, <2>4, <2>5, <2>6, <2>7, <2>8, <2>9, <2>10, <2>11, <2>12, <2>13, <2>14, <2>15, <2>16 DEF Run
<1>2. ASSUME NEW r \in Runtime, CallRaises(r) PROVE Books'
  BY <1>2 DEF CallRaises, Fault, recordVars, userVars, worldVars
<1>3. ASSUME NEW r \in Runtime, Die(r) PROVE Books'
  BY <1>3 DEF Die, Fault, recordVars, userVars, worldVars
<1>4. CASE WorkloadEnds
  BY <1>4 DEF WorkloadEnds, recordVars, userVars
<1>5. CASE MarkerAppears
  BY <1>5 DEF MarkerAppears, recordVars, userVars
<1>6. CASE RequestStop
  BY <1>6 DEF RequestStop, recordVars, worldVars
<1>7. CASE SelectUnread
  BY <1>7 DEF SelectUnread, Unread, recordVars, worldVars
<1>8. CASE AcknowledgeTask
  BY <1>8 DEF AcknowledgeTask, Acknowledge, Unread, worldVars
<1>9. ASSUME NEW k \in Key, AcknowledgeItem(k) PROVE Books'
  BY <1>9 DEF AcknowledgeItem, Acknowledge, Unread, userVars, worldVars
<1>10. CASE UNCHANGED vars
  BY <1>10 DEF vars, recordVars, userVars, worldVars
<1> QED BY <1>1, <1>2, <1>3, <1>4, <1>5, <1>6, <1>7, <1>8, <1>9, <1>10 DEF Next, Over

-----------------------------------------------------------------------------
LEMMA TaskInvariant == Spec => [](Types /\ Working /\ Books)
<1>1. Init => Types /\ Working /\ Books
  BY TypesInitially, WorkingInitially, BooksInitially
<1>2. Types /\ Working /\ Books /\ [Next]_vars => (Types /\ Working /\ Books)'
  BY TypesKept, WorkingKept, BooksKept
<1> QED BY <1>1, <1>2, PTL DEF Spec

\* Every variable keeps to its type.
THEOREM TaskTypeCorrect == Spec => []TypeOK
<1>1. Types => TypeOK
  BY DEF Types
<1> QED BY <1>1, TaskInvariant, PTL

\* However many runtimes are started for a task, one is at work on it (claim).
THEOREM OneAtWork == Spec => []OneRuntime
<1>1. Working => OneRuntime
  BY DEF Working
<1> QED BY <1>1, TaskInvariant, PTL

\* No task is over with its workload running, whatever was raised (run).
THEOREM NoOrphans == Spec => []OverMeansStopped
<1>1. Working => OverMeansStopped
  BY DEF Working
<1> QED BY <1>1, TaskInvariant, PTL

\* At most one end of a task is announced, the one in its row (run and its handler).
THEOREM OneEnd == Spec => []AnnouncedIsStatus
<1>1. Books => AnnouncedIsStatus
  BY DEF Books
<1> QED BY <1>1, TaskInvariant, PTL

\* The end of a task whose runtime has returned is in the Inbox.
THEOREM EndInInbox == Spec => []EndIsReported
<1>1. Books => EndIsReported
  BY DEF Books
<1> QED BY <1>1, TaskInvariant, PTL

\* An event that is acknowledged is acknowledged in the Inbox (acknowledge_inbox
\* and acknowledge_task in any interleaving with record_event).
THEOREM TablesAgree == Spec => []AcknowledgedTogether
<1>1. Books => AcknowledgedTogether
  BY DEF Books
<1> QED BY <1>1, TaskInvariant, PTL

=============================================================================
