------------------------- MODULE StaleReminder_proofs -------------------------
(***************************************************************************)
(* Proofs about StaleReminder, for every number of scans, listings, rows,   *)
(* goroutines, retries and mishaps.                                         *)
(***************************************************************************)
EXTENDS StaleReminder, FiniteSetTheorems, TLAPS

-----------------------------------------------------------------------------
(* The operations of the task queue, for the tasks of any handler.          *)

\* Every operation of the queue yields a task again.
LEMMA NewTaskType ==
  ASSUME NEW PCs
  PROVE  NoTask \in Task(PCs) /\ Queued \in Task(PCs)
BY MaxRetryAssumption DEF NoTask, Queued, Task, TaskStates

LEMMA TaskType ==
  ASSUME NEW PCs, NEW t \in Task(PCs), NEW p \in PCs
  PROVE  /\ Taken(t, p) \in Task(PCs)
         /\ At(t, p) \in Task(PCs)
         /\ Completed(t) \in Task(PCs)
         /\ Failed(t) \in Task(PCs)
         /\ Orphaned(t) \in Task(PCs)
         /\ Requeued(t) \in Task(PCs)
<1>2. Taken(t, p) \in Task(PCs) /\ At(t, p) \in Task(PCs) /\ Completed(t) \in Task(PCs)
  BY MaxRetryAssumption DEF Taken, At, Completed, Task, TaskStates
<1>3. Failed(t) \in Task(PCs)
  <2>1. t.retried \in 0 .. MaxRetry
    BY DEF Task
  <2>2. CASE t.retried < MaxRetry
    <3>1. t.retried + 1 \in 0 .. MaxRetry
      BY <2>1, <2>2, MaxRetryAssumption
    <3>2. QED
      BY <2>2, <3>1 DEF Failed, Task, TaskStates
  <2>3. CASE ~(t.retried < MaxRetry)
    BY <2>3 DEF Failed, Task, TaskStates
  <2>4. QED
    BY <2>2, <2>3
<1>4. Orphaned(t) \in Task(PCs) /\ Requeued(t) \in Task(PCs)
  BY MaxRetryAssumption DEF Orphaned, Requeued, Task, TaskStates
<1>5. QED
  BY <1>2, <1>3, <1>4

\* What the operations of the queue do to a task's fields.
LEMMA TaskFields ==
  ASSUME NEW PCs, NEW t \in Task(PCs), NEW p \in PCs
  PROVE  /\ Taken(t, p).state = "active" /\ Taken(t, p).pc = p
         /\ Taken(t, p).retried = t.retried
         /\ At(t, p).state = t.state /\ At(t, p).pc = p /\ At(t, p).retried = t.retried
         /\ Completed(t).state = "done" /\ Completed(t).pc = "idle"
         /\ Completed(t).retried = t.retried
         /\ Failed(t).pc = "idle"
         /\ \/ Failed(t).state = "queued" /\ Failed(t).retried = t.retried + 1
            \/ Failed(t).state = "archived" /\ Failed(t).retried = t.retried
         /\ t.state # "active" => Orphaned(t) = t /\ Requeued(t) = t
         /\ t.state = "active" =>
              /\ Orphaned(t).state = "orphaned" /\ Orphaned(t).pc = "idle"
              /\ Orphaned(t).retried = t.retried
              /\ Requeued(t).state = "queued" /\ Requeued(t).pc = "idle"
              /\ Requeued(t).retried = t.retried
<1>1. /\ Taken(t, p).state = "active" /\ Taken(t, p).pc = p /\ Taken(t, p).retried = t.retried
      /\ At(t, p).state = t.state /\ At(t, p).pc = p /\ At(t, p).retried = t.retried
  BY DEF Taken, At, Task
<1>2. Completed(t).state = "done" /\ Completed(t).pc = "idle" /\ Completed(t).retried = t.retried
  BY DEF Completed, Task
<1>3. /\ Failed(t).pc = "idle"
      /\ \/ Failed(t).state = "queued" /\ Failed(t).retried = t.retried + 1
         \/ Failed(t).state = "archived" /\ Failed(t).retried = t.retried
  <2>1. CASE t.retried < MaxRetry
    BY <2>1 DEF Failed, Task
  <2>2. CASE ~(t.retried < MaxRetry)
    BY <2>2 DEF Failed, Task
  <2>3. QED
    BY <2>1, <2>2
<1>4. /\ t.state # "active" => Orphaned(t) = t /\ Requeued(t) = t
      /\ t.state = "active" =>
           /\ Orphaned(t).state = "orphaned" /\ Orphaned(t).pc = "idle"
           /\ Orphaned(t).retried = t.retried
           /\ Requeued(t).state = "queued" /\ Requeued(t).pc = "idle"
           /\ Requeued(t).retried = t.retried
  BY DEF Orphaned, Requeued, Task
<1>5. QED
  BY <1>1, <1>2, <1>3, <1>4

-----------------------------------------------------------------------------
(* Type correctness.                                                        *)

LEMMA TypeInit == Init => TypeOK
<1>1. NoTask \in Task(StalePC) /\ NoTask \in Task(MsgPC)
  BY NewTaskType
<1>2. QED
  BY <1>1, ConstantsAssumption DEF Init, TypeOK, Row, NoRow

LEMMA TypeStep == TypeOK /\ [Next]_vars => TypeOK'
<1>. SUFFICES ASSUME TypeOK, [Next]_vars PROVE TypeOK'
  OBVIOUS
<1>. USE DEF TypeOK, Fault, Smooth
<1>1. ASSUME NEW r \in Scan, FindStale(r) PROVE TypeOK'
  BY <1>1 DEF FindStale
<1>2. ASSUME NEW r \in Scan, AbandonScan(r) PROVE TypeOK'
  BY <1>2, ConstantsAssumption DEF AbandonScan
<1>3. ASSUME NEW r \in Scan, NEW p \in Property, EnqueueStale(r, p) PROVE TypeOK'
  <2>1. Queued \in Task(StalePC)
    BY NewTaskType
  <2>2. stale' \in [StaleTask -> Task(StalePC)]
    BY <1>3, <2>1 DEF EnqueueStale, StaleTask
  <2>3. QED
    BY <1>3, <2>2, ConstantsAssumption DEF EnqueueStale
<1>4. ASSUME NEW t \in StaleTask, StaleStep(t) PROVE TypeOK'
  <2>1. \A p \in StalePC : /\ Taken(stale[t], p) \in Task(StalePC)
                           /\ At(stale[t], p) \in Task(StalePC)
                           /\ Completed(stale[t]) \in Task(StalePC)
                           /\ Failed(stale[t]) \in Task(StalePC)
    BY TaskType
  <2>2. stale' \in [StaleTask -> Task(StalePC)]
    BY <1>4, <2>1 DEF StaleStep, StartStale, InsertJob, InsertJobFails, EnqueueWhatsApp,
       EnqueueSMS, EnqueueMessage, ReturnStale, RecoverStale, StalePC
  <2>3. /\ job' \in [JobId -> Row]
        /\ jobID' \in [StaleTask -> JobId \union {NoJob}]
    <3>1. \A j \in JobId : Insert(t, j) => job' \in [JobId -> Row]
      <4>1. [status |-> "PENDING", sid |-> "none", from |-> t] \in Row
        BY DEF Row
      <4>2. QED
        BY <4>1 DEF Insert
    <3>2. QED
      BY <1>4, <3>1 DEF StaleStep, StartStale, InsertJob, InsertJobFails, EnqueueWhatsApp,
         EnqueueSMS, EnqueueMessage, ReturnStale, RecoverStale
  <2>4. msg' \in [MsgTask -> Task(MsgPC)]
    <3>1. Queued \in Task(MsgPC)
      BY NewTaskType
    <3>2. QED
      BY <1>4, <3>1 DEF StaleStep, StartStale, InsertJob, InsertJobFails, EnqueueWhatsApp,
         EnqueueSMS, EnqueueMessage, ReturnStale, RecoverStale
  <2>5. faults' \in 0 .. MaxMishaps
    BY <1>4, ConstantsAssumption DEF StaleStep, StartStale, InsertJob, InsertJobFails,
       EnqueueWhatsApp, EnqueueSMS, EnqueueMessage, ReturnStale, RecoverStale
  <2>6. UNCHANGED <<hasSender, todo, scanned, accepted, restarts>>
    BY <1>4 DEF StaleStep, StartStale, InsertJob, InsertJobFails, EnqueueWhatsApp,
       EnqueueSMS, EnqueueMessage, ReturnStale, RecoverStale
  <2>7. QED
    BY <2>2, <2>3, <2>4, <2>5, <2>6
<1>5. ASSUME NEW m \in MsgTask, MessageStep(m) PROVE TypeOK'
  <2>1. \A p \in MsgPC : /\ Taken(msg[m], p) \in Task(MsgPC)
                         /\ At(msg[m], p) \in Task(MsgPC)
                         /\ Completed(msg[m]) \in Task(MsgPC)
                         /\ Failed(msg[m]) \in Task(MsgPC)
    BY TaskType
  <2>2. msg' \in [MsgTask -> Task(MsgPC)]
    BY <1>5, <2>1 DEF MessageStep, StartMessage, SkipSend, Send, SendFails, MarkSent,
       MarkSentFails, MarkFailed, ReturnMessage, RecoverMessage, MsgPC
  <2>3. job' \in [JobId -> Row]
    <3>1. job[m[1]] \in Row /\ m[1] \in JobId /\ m[2] \in Channel
      BY DEF MsgTask
    <3>2. [job[m[1]] EXCEPT !.status = "FAILED"] \in Row
      BY <3>1 DEF Row
    <3>3. RecordFailed(m) => job' \in [JobId -> Row]
      BY <3>1, <3>2 DEF RecordFailed
    <3>4. [job[m[1]] EXCEPT !.status = "SENT", !.sid = m[2]] \in Row
      BY <3>1 DEF Row
    <3>5. RecordSent(m) => job' = [job EXCEPT ![m[1]] = [job[m[1]] EXCEPT !.status = "SENT", !.sid = m[2]]]
      BY <3>1 DEF RecordSent
    <3>6. RecordSent(m) => job' \in [JobId -> Row]
      BY <3>1, <3>4, <3>5
    <3>7. QED
      BY <1>5, <3>3, <3>6 DEF MessageStep, StartMessage, SkipSend, Send, SendFails, MarkSent,
         MarkSentFails, MarkFailed, ReturnMessage, RecoverMessage
  <2>4. accepted' \in [MsgTask -> Nat]
    BY <1>5 DEF MessageStep, StartMessage, SkipSend, Send, SendFails, MarkSent,
       MarkSentFails, MarkFailed, ReturnMessage, RecoverMessage
  <2>5. faults' \in 0 .. MaxMishaps
    BY <1>5, ConstantsAssumption DEF MessageStep, StartMessage, SkipSend, Send, SendFails,
       MarkSent, MarkSentFails, MarkFailed, ReturnMessage, RecoverMessage
  <2>6. UNCHANGED <<hasSender, todo, scanned, stale, jobID, restarts>>
    BY <1>5 DEF MessageStep, StartMessage, SkipSend, Send, SendFails, MarkSent,
       MarkSentFails, MarkFailed, ReturnMessage, RecoverMessage
  <2>7. QED
    BY <2>2, <2>3, <2>4, <2>5, <2>6
<1>6. CASE Crash
  <2>1. \A t \in StaleTask : Orphaned(stale[t]) \in Task(StalePC)
    BY TaskType DEF StalePC
  <2>2. \A m \in MsgTask : Orphaned(msg[m]) \in Task(MsgPC)
    BY TaskType DEF MsgPC
  <2>3. QED
    BY <1>6, <2>1, <2>2, ConstantsAssumption DEF Crash
<1>7. CASE Shutdown
  <2>1. \A t \in StaleTask : Requeued(stale[t]) \in Task(StalePC)
    BY TaskType DEF StalePC
  <2>2. \A m \in MsgTask : Requeued(msg[m]) \in Task(MsgPC)
    BY TaskType DEF MsgPC
  <2>3. QED
    BY <1>7, <2>1, <2>2, ConstantsAssumption DEF Shutdown
<1>8. CASE UNCHANGED vars
  BY <1>8 DEF vars
<1>9. QED
  BY <1>1, <1>2, <1>3, <1>4, <1>5, <1>6, <1>7, <1>8 DEF Next

\* Every reachable state is well typed: TypeOK of the runs, for all constants.
THEOREM TypeCorrect == Spec => []TypeOK
<1>1. QED
  BY TypeInit, TypeStep, PTL DEF Spec

-----------------------------------------------------------------------------
(* The inductive invariant.                                                 *)

\* The operations of TaskFields, for the task of a reminder or of a message.
LEMMA StaleFields ==
  ASSUME TypeOK, NEW t \in StaleTask
  PROVE  LET s == stale[t] IN
         /\ \A p \in StalePC : Taken(s, p).state = "active" /\ Taken(s, p).pc = p
         /\ \A p \in StalePC : At(s, p).state = s.state /\ At(s, p).pc = p
         /\ Completed(s).state = "done" /\ Completed(s).pc = "idle"
         /\ Failed(s).state \in {"queued", "archived"} /\ Failed(s).pc = "idle"
         /\ s.state # "active" => Orphaned(s) = s /\ Requeued(s) = s
         /\ s.state = "active" => /\ Orphaned(s).state = "orphaned" /\ Orphaned(s).pc = "idle"
                                  /\ Requeued(s).state = "queued" /\ Requeued(s).pc = "idle"
<1>1. stale[t] \in Task(StalePC)
  BY DEF TypeOK
<1>2. "return" \in StalePC
  BY DEF StalePC
<1>3. QED
  BY <1>1, <1>2, TaskFields

LEMMA MsgFields ==
  ASSUME TypeOK, NEW m \in MsgTask
  PROVE  LET s == msg[m] IN
         /\ \A p \in MsgPC : /\ Taken(s, p).state = "active" /\ Taken(s, p).pc = p
                             /\ Taken(s, p).retried = s.retried
         /\ \A p \in MsgPC : /\ At(s, p).state = s.state /\ At(s, p).pc = p
                             /\ At(s, p).retried = s.retried
         /\ Completed(s).state = "done" /\ Completed(s).pc = "idle"
         /\ Completed(s).retried = s.retried
         /\ Failed(s).pc = "idle"
         /\ \/ Failed(s).state = "queued" /\ Failed(s).retried = s.retried + 1
            \/ Failed(s).state = "archived" /\ Failed(s).retried = s.retried
         /\ s.state # "active" => Orphaned(s) = s /\ Requeued(s) = s
         /\ s.state = "active" => /\ Orphaned(s).state = "orphaned" /\ Orphaned(s).pc = "idle"
                                  /\ Orphaned(s).retried = s.retried
                                  /\ Requeued(s).state = "queued" /\ Requeued(s).pc = "idle"
                                  /\ Requeued(s).retried = s.retried
<1>1. msg[m] \in Task(MsgPC)
  BY DEF TypeOK
<1>2. "return" \in MsgPC
  BY DEF MsgPC
<1>3. QED
  BY <1>1, <1>2, TaskFields

\* A step of HandleStale touches a message task only by enqueueing it.
LEMMA StaleStepMsg ==
  ASSUME TypeOK, NEW t \in StaleTask, StaleStep(t), NEW m \in MsgTask
  PROVE  \/ msg'[m] = msg[m]
         \/ /\ msg'[m] = Queued
            /\ m = <<jobID[t], stale[t].pc>>
            /\ stale[t].pc \in {"WhatsApp", "SMS"}
<1>1. ASSUME NEW c \in Channel, NEW next, EnqueueMessage(t, c, next)
      PROVE  msg'[m] = msg[m] \/ (msg'[m] = Queued /\ m = <<jobID[t], c>> /\ stale[t].pc = c)
  <2>1. CASE m = <<jobID[t], c>>
    BY <1>1, <2>1 DEF EnqueueMessage, TypeOK
  <2>2. CASE m # <<jobID[t], c>>
    BY <1>1, <2>2 DEF EnqueueMessage, TypeOK
  <2>3. QED
    BY <2>1, <2>2
<1>2. CASE EnqueueWhatsApp(t) \/ EnqueueSMS(t)
  BY <1>1, <1>2 DEF EnqueueWhatsApp, EnqueueSMS, Channel
<1>3. CASE ~(EnqueueWhatsApp(t) \/ EnqueueSMS(t))
  BY <1>3 DEF StaleStep, StartStale, InsertJob, InsertJobFails, ReturnStale, RecoverStale
<1>4. QED
  BY <1>2, <1>3

LEMMA ActivityStep == TypeOK /\ Activity /\ OwnRow /\ [Next]_vars => Activity'
<1>. SUFFICES ASSUME TypeOK, Activity, OwnRow, [Next]_vars PROVE Activity'
  OBVIOUS
<1>1. ASSUME NEW r \in Scan, FindStale(r) \/ AbandonScan(r) PROVE Activity'
  BY <1>1 DEF FindStale, AbandonScan, Activity
<1>2. ASSUME NEW r \in Scan, NEW p \in Property, EnqueueStale(r, p) PROVE Activity'
  BY <1>2 DEF EnqueueStale, Activity, TypeOK, Queued
<1>3. ASSUME NEW t \in StaleTask, StaleStep(t) PROVE Activity'
  <2>1. \A u \in StaleTask : (stale[u].pc # "idle" <=> stale[u].state = "active")'
    <3>1. \A u \in StaleTask : u # t => stale'[u] = stale[u]
      BY <1>3 DEF TypeOK, StaleStep, StartStale, InsertJob,
         InsertJobFails, EnqueueWhatsApp, EnqueueSMS, EnqueueMessage, ReturnStale, RecoverStale
    <3>2. CASE StartStale(t) \/ InsertJobFails(t) \/ ReturnStale(t) \/ RecoverStale(t)
      <4>1. (stale[t].pc # "idle" <=> stale[t].state = "active")'
        BY <3>2, StaleFields DEF TypeOK, StalePC, StartStale, InsertJobFails, ReturnStale,
           RecoverStale
      <4>2. QED
        BY <3>1, <4>1 DEF Activity
    <3>3. CASE InsertJob(t) \/ EnqueueWhatsApp(t) \/ EnqueueSMS(t)
      <4>1. stale'[t].pc # "idle" /\ stale'[t].state = stale[t].state /\ stale[t].pc # "idle"
        BY <3>3, StaleFields DEF TypeOK, StalePC, InsertJob, EnqueueWhatsApp, EnqueueSMS,
           EnqueueMessage
      <4>2. QED
        BY <3>1, <4>1 DEF Activity
    <3>4. QED
      BY <1>3, <3>2, <3>3 DEF StaleStep
  <2>2. \A m \in MsgTask : (msg[m].pc # "idle" <=> msg[m].state = "active")'
    BY <1>3, StaleStepMsg DEF Activity, Queued
  <2>3. QED
    BY <2>1, <2>2 DEF Activity
<1>4. ASSUME NEW m \in MsgTask, MessageStep(m) PROVE Activity'
  <2>1. UNCHANGED stale
    BY <1>4 DEF MessageStep, StartMessage, SkipSend, Send, SendFails, MarkSent,
       MarkSentFails, MarkFailed, ReturnMessage, RecoverMessage
  <2>2. \A n \in MsgTask : n # m => msg'[n] = msg[n]
    BY <1>4 DEF TypeOK, MessageStep, StartMessage, SkipSend, Send,
       SendFails, MarkSent, MarkSentFails, MarkFailed, ReturnMessage, RecoverMessage
  <2>3. (msg[m].pc # "idle" <=> msg[m].state = "active")'
    BY <1>4, MsgFields DEF TypeOK, MsgPC, Activity, MessageStep, StartMessage, SkipSend, Send,
       SendFails, MarkSent, MarkSentFails, MarkFailed, ReturnMessage, RecoverMessage
  <2>4. QED
    BY <2>1, <2>2, <2>3 DEF Activity
<1>5. CASE Crash
  <2>1. \A t \in StaleTask : (stale[t].pc # "idle" <=> stale[t].state = "active")'
    BY <1>5, StaleFields DEF Crash, Activity
  <2>2. \A m \in MsgTask : (msg[m].pc # "idle" <=> msg[m].state = "active")'
    BY <1>5, MsgFields DEF Crash, Activity
  <2>3. QED
    BY <2>1, <2>2 DEF Activity
<1>6. CASE Shutdown
  <2>1. \A t \in StaleTask : (stale[t].pc # "idle" <=> stale[t].state = "active")'
    BY <1>6, StaleFields DEF Shutdown, Activity
  <2>2. \A m \in MsgTask : (msg[m].pc # "idle" <=> msg[m].state = "active")'
    BY <1>6, MsgFields DEF Shutdown, Activity
  <2>3. QED
    BY <2>1, <2>2 DEF Activity
<1>7. CASE UNCHANGED vars
  BY <1>7 DEF vars, Activity
<1>8. QED
  BY <1>1, <1>2, <1>3, <1>4, <1>5, <1>6, <1>7 DEF Next

\* A step of HandleStale touches a row only by inserting it.
LEMMA StaleStepRow ==
  ASSUME TypeOK, NEW t \in StaleTask, StaleStep(t), NEW j \in JobId
  PROVE  \/ job'[j] = job[j]
         \/ /\ job[j] = NoRow
            /\ job'[j] = [status |-> "PENDING", sid |-> "none", from |-> t]
            /\ stale[t].pc = "insert"
<1>1. ASSUME NEW k \in JobId, Insert(t, k)
      PROVE  \/ job'[j] = job[j]
             \/ /\ job[j] = NoRow
                /\ job'[j] = [status |-> "PENDING", sid |-> "none", from |-> t]
  BY <1>1 DEF Insert, TypeOK
<1>2. QED
  BY <1>1 DEF StaleStep, StartStale, InsertJob, InsertJobFails, EnqueueWhatsApp, EnqueueSMS,
     EnqueueMessage, ReturnStale, RecoverStale

\* What a step of a message handler does to the row it works for.
LEMMA MessageStepRow ==
  ASSUME TypeOK, NEW m \in MsgTask, MessageStep(m)
  PROVE  /\ m[1] \in JobId /\ m[2] \in Channel /\ m = <<m[1], m[2]>>
         /\ \A j \in JobId : j # m[1] => job'[j] = job[j]
         /\ \/ job'[m[1]] = job[m[1]]
            \/ /\ job'[m[1]].status = "FAILED" /\ job'[m[1]].sid = job[m[1]].sid
               /\ ~hasSender \/ msg[m].pc = "markFailed"
            \/ /\ job'[m[1]].status = "SENT" /\ job'[m[1]].sid = m[2]
               /\ msg[m].pc = "markSent"
<1>1. m[1] \in JobId /\ m[2] \in Channel /\ m = <<m[1], m[2]>> /\ job[m[1]] \in Row
  BY DEF MsgTask, TypeOK
<1>2. RecordSent(m) => /\ \A j \in JobId : j # m[1] => job'[j] = job[j]
                       /\ job'[m[1]].status = "SENT" /\ job'[m[1]].sid = m[2]
  BY <1>1 DEF RecordSent, TypeOK, Row
<1>3. RecordFailed(m) => /\ \A j \in JobId : j # m[1] => job'[j] = job[j]
                         /\ job'[m[1]].status = "FAILED" /\ job'[m[1]].sid = job[m[1]].sid
  BY <1>1 DEF RecordFailed, TypeOK, Row
<1>4. QED
  BY <1>1, <1>2, <1>3 DEF MessageStep, StartMessage, SkipSend, Send, SendFails, MarkSent,
     MarkSentFails, MarkFailed, ReturnMessage, RecoverMessage

\* What it does to its own task, and to no other one.
LEMMA MessageStepMsg ==
  ASSUME TypeOK, Activity, NEW m \in MsgTask, MessageStep(m)
  PROVE  /\ \A n \in MsgTask : n # m => msg'[n] = msg[n]
         /\ Exists(msg[m]) /\ Exists(msg'[m])
         /\ UNCHANGED <<stale, jobID, restarts>>
<1>1. \A n \in MsgTask : n # m => msg'[n] = msg[n]
  BY DEF TypeOK, MessageStep, StartMessage, SkipSend, Send,
     SendFails, MarkSent, MarkSentFails, MarkFailed, ReturnMessage, RecoverMessage
<1>2. UNCHANGED <<stale, jobID, restarts>>
  BY DEF MessageStep, StartMessage, SkipSend, Send, SendFails, MarkSent, MarkSentFails,
     MarkFailed, ReturnMessage, RecoverMessage
<1>3. msg[m].state \in {"queued", "active", "orphaned"}
  BY DEF Activity, MessageStep, StartMessage, SkipSend, Send, SendFails, MarkSent,
     MarkSentFails, MarkFailed, ReturnMessage, RecoverMessage
<1>4. Exists(msg'[m])
  BY <1>3, MsgFields DEF TypeOK, MsgPC, Exists, MessageStep, StartMessage, SkipSend, Send,
     SendFails, MarkSent, MarkSentFails, MarkFailed, ReturnMessage, RecoverMessage
<1>5. QED
  BY <1>1, <1>2, <1>3, <1>4 DEF Exists

\* The worker's crash and shutdown only end the handlers that run.
LEMMA ProcessStepMsg ==
  ASSUME TypeOK, Crash \/ Shutdown, NEW m \in MsgTask
  PROVE  \/ /\ msg'[m] = msg[m] /\ msg[m].state # "active"
            /\ restarts' \in {restarts, restarts + 1}
         \/ /\ msg[m].state = "active"
            /\ \/ msg'[m].state = "orphaned" /\ UNCHANGED restarts
               \/ msg'[m].state = "queued" /\ restarts' = restarts + 1
            /\ msg'[m].pc = "idle"
            /\ msg'[m].retried = msg[m].retried
<1>1. CASE Crash
  <2>1. msg'[m] = Orphaned(msg[m]) /\ UNCHANGED restarts
    BY <1>1 DEF Crash
  <2>2. QED
    BY <2>1, MsgFields
<1>2. CASE Shutdown
  <2>1. msg'[m] = Requeued(msg[m]) /\ restarts' = restarts + 1
    BY <1>2 DEF Shutdown
  <2>2. QED
    BY <2>1, MsgFields
<1>3. QED
  BY <1>1, <1>2

LEMMA MessageHasRowStep == TypeOK /\ Activity /\ OwnRow /\ MessageHasRow /\ [Next]_vars => MessageHasRow'
<1>. SUFFICES ASSUME TypeOK, Activity, OwnRow, MessageHasRow, [Next]_vars PROVE MessageHasRow'
  OBVIOUS
<1>1. ASSUME NEW r \in Scan, FindStale(r) \/ AbandonScan(r) PROVE MessageHasRow'
  BY <1>1 DEF FindStale, AbandonScan, MessageHasRow
<1>2. ASSUME NEW r \in Scan, NEW p \in Property, EnqueueStale(r, p) PROVE MessageHasRow'
  BY <1>2 DEF EnqueueStale, MessageHasRow
<1>3. ASSUME NEW t \in StaleTask, StaleStep(t) PROVE MessageHasRow'
  <2>. SUFFICES ASSUME NEW m \in MsgTask, Exists(msg'[m]) PROVE job'[m[1]] # NoRow
    BY DEF MessageHasRow
  <2>1. job[m[1]] # NoRow
    BY <1>3, StaleStepMsg DEF OwnRow, MessageHasRow
  <2>2. m[1] \in JobId
    BY DEF MsgTask
  <2>3. QED
    BY <1>3, <2>1, <2>2, StaleStepRow
<1>4. ASSUME NEW m \in MsgTask, MessageStep(m) PROVE MessageHasRow'
  <2>. SUFFICES ASSUME NEW n \in MsgTask, Exists(msg'[n]) PROVE job'[n[1]] # NoRow
    BY DEF MessageHasRow
  <2>1. job[n[1]] # NoRow
    BY <1>4, MessageStepMsg DEF MessageHasRow
  <2>2. n[1] \in JobId
    BY DEF MsgTask
  <2>3. QED
    BY <1>4, <2>1, <2>2, MessageStepRow DEF NoRow
<1>5. CASE Crash \/ Shutdown
  <2>1. UNCHANGED job
    BY <1>5 DEF Crash, Shutdown
  <2>2. QED
    BY <1>5, <2>1, ProcessStepMsg DEF MessageHasRow, Exists
<1>6. CASE UNCHANGED vars
  BY <1>6 DEF vars, MessageHasRow
<1>7. QED
  BY <1>1, <1>2, <1>3, <1>4, <1>5, <1>6 DEF Next

\* The handlers past their INSERT, by name, and OwnRow in terms of them.
PastInsert == {t \in StaleTask : stale[t].pc \in {"WhatsApp", "SMS", "return"}}

\* A step of HandleStale keeps other reminders' tasks and rows; its own row, if
\* it has one afterwards, is the one it had or one it just inserted.
LEMMA StaleStepOwn ==
  ASSUME TypeOK, Activity, NEW t \in StaleTask, StaleStep(t)
  PROVE  /\ \A u \in StaleTask : u # t => stale'[u] = stale[u] /\ jobID'[u] = jobID[u]
         /\ stale'[t].pc \in {"WhatsApp", "SMS", "return"} =>
              \/ /\ stale[t].pc = "insert" /\ stale'[t].pc = "WhatsApp"
                 /\ jobID'[t] \in JobId /\ job[jobID'[t]] = NoRow /\ job'[jobID'[t]] # NoRow
                 /\ UNCHANGED msg
              \/ /\ stale[t].pc = "WhatsApp" /\ stale'[t].pc = "SMS"
                 /\ UNCHANGED <<jobID, job>>
              \/ /\ stale[t].pc = "SMS" /\ stale'[t].pc = "return"
                 /\ UNCHANGED <<jobID, job>>
<1>1. \A u \in StaleTask : u # t => stale'[u] = stale[u] /\ jobID'[u] = jobID[u]
  BY DEF TypeOK, StaleStep, StartStale, InsertJob, InsertJobFails, EnqueueWhatsApp, EnqueueSMS,
     EnqueueMessage, ReturnStale, RecoverStale
<1>2. CASE StartStale(t) \/ InsertJobFails(t) \/ ReturnStale(t) \/ RecoverStale(t)
  <2>1. stale'[t].pc \in {"insert", "idle"}
    BY <1>2, StaleFields DEF TypeOK, StalePC, StartStale, InsertJobFails, ReturnStale, RecoverStale
  <2>2. QED
    BY <1>1, <2>1
<1>3. CASE InsertJob(t)
  <2>1. stale[t].pc = "insert" /\ stale'[t].pc = "WhatsApp" /\ UNCHANGED msg
    BY <1>3, StaleFields DEF TypeOK, StalePC, InsertJob
  <2>2. PICK j \in JobId : Insert(t, j) /\ jobID' = [jobID EXCEPT ![t] = j]
    BY <1>3 DEF InsertJob
  <2>3. jobID'[t] = j /\ job[j] = NoRow /\ job'[j] # NoRow
    BY <2>2 DEF Insert, TypeOK, NoRow
  <2>4. QED
    BY <1>1, <2>1, <2>3
<1>4. CASE EnqueueWhatsApp(t) \/ EnqueueSMS(t)
  <2>1. \/ stale[t].pc = "WhatsApp" /\ stale'[t].pc = "SMS"
        \/ stale[t].pc = "SMS" /\ stale'[t].pc = "return"
    BY <1>4, StaleFields DEF TypeOK, StalePC, EnqueueWhatsApp, EnqueueSMS, EnqueueMessage
  <2>2. UNCHANGED <<jobID, job>>
    BY <1>4 DEF EnqueueWhatsApp, EnqueueSMS, EnqueueMessage
  <2>3. QED
    BY <1>1, <2>1, <2>2
<1>5. QED
  BY <1>2, <1>3, <1>4 DEF StaleStep

LEMMA OwnRowStep == TypeOK /\ Activity /\ OwnRow /\ MessageHasRow /\ [Next]_vars => OwnRow'
<1>. SUFFICES ASSUME TypeOK, Activity, OwnRow, MessageHasRow, [Next]_vars PROVE OwnRow'
  OBVIOUS
<1>0. OwnRow <=>
        /\ \A t \in PastInsert : jobID[t] \in JobId /\ job[jobID[t]] # NoRow
        /\ \A t, u \in PastInsert : jobID[t] = jobID[u] => t = u
        /\ \A t \in PastInsert :
             /\ stale[t].pc = "WhatsApp" => ~Exists(msg[<<jobID[t], "WhatsApp">>])
             /\ stale[t].pc \in {"WhatsApp", "SMS"} => ~Exists(msg[<<jobID[t], "SMS">>])
  BY DEF OwnRow, PastInsert
<1>1. ASSUME NEW r \in Scan, FindStale(r) \/ AbandonScan(r) PROVE OwnRow'
  BY <1>1 DEF FindStale, AbandonScan, OwnRow
<1>2. ASSUME NEW r \in Scan, NEW p \in Property, EnqueueStale(r, p) PROVE OwnRow'
  <2>1. \A t \in StaleTask : stale'[t] = stale[t] \/ stale'[t].pc = "idle"
    BY <1>2 DEF EnqueueStale, TypeOK, Queued
  <2>2. UNCHANGED <<jobID, job, msg>>
    BY <1>2 DEF EnqueueStale
  <2>3. QED
    BY <2>1, <2>2 DEF OwnRow
<1>3. ASSUME NEW t \in StaleTask, StaleStep(t) PROVE OwnRow'
  <2>1. \A u \in PastInsert : u # t => jobID'[u] = jobID[u] /\ job'[jobID[u]] # NoRow
    <3>1. \A u \in PastInsert : jobID[u] \in JobId /\ job[jobID[u]] # NoRow
      BY <1>0
    <3>2. \A j \in JobId : job[j] # NoRow => job'[j] # NoRow
      BY <1>3, StaleStepRow
    <3>3. \A u \in PastInsert : u # t => jobID'[u] = jobID[u]
      BY <1>3, StaleStepOwn DEF PastInsert
    <3>4. QED
      BY <3>1, <3>2, <3>3
  <2>2. \A u \in StaleTask : u \in PastInsert' /\ u # t => u \in PastInsert
    BY <1>3, StaleStepOwn DEF PastInsert
  <2>3. \A u \in PastInsert' : jobID'[u] \in JobId /\ job'[jobID'[u]] # NoRow
    <3>1. t \in PastInsert' => jobID'[t] \in JobId /\ job'[jobID'[t]] # NoRow
      BY <1>0, <1>3, StaleStepOwn DEF PastInsert
    <3>2. QED
      BY <1>0, <2>1, <2>2, <3>1 DEF PastInsert
  <2>4. \A u \in PastInsert' : u # t /\ t \in PastInsert' => jobID'[u] # jobID'[t]
    BY <1>0, <1>3, <2>1, <2>2, StaleStepOwn DEF PastInsert
  <2>5. \A u, v \in PastInsert' : jobID'[u] = jobID'[v] => u = v
    BY <1>0, <2>1, <2>2, <2>4 DEF PastInsert
  <2>6. ASSUME NEW u \in PastInsert', NEW c \in Channel, msg'[<<jobID'[u], c>>] = Queued,
               msg'[<<jobID'[u], c>>] # msg[<<jobID'[u], c>>]
        PROVE  u = t /\ c = stale[t].pc
    <3>1. <<jobID'[u], c>> \in MsgTask
      BY <2>3 DEF MsgTask
    <3>2. jobID'[u] = jobID[t] /\ c = stale[t].pc /\ stale[t].pc \in {"WhatsApp", "SMS"}
      BY <1>3, <2>6, <3>1, StaleStepMsg
    <3>3. t \in PastInsert
      BY <3>2 DEF PastInsert
    <3>4. u # t => u \in PastInsert /\ jobID[u] = jobID[t]
      BY <2>1, <2>2, <3>2 DEF PastInsert
    <3>5. QED
      BY <1>0, <3>2, <3>3, <3>4
  <2>7. ASSUME NEW u \in PastInsert'
        PROVE  /\ stale'[u].pc = "WhatsApp" => ~Exists(msg'[<<jobID'[u], "WhatsApp">>])
               /\ stale'[u].pc \in {"WhatsApp", "SMS"} => ~Exists(msg'[<<jobID'[u], "SMS">>])
    <3>1. CASE u # t
      <4>1. u \in PastInsert /\ jobID'[u] = jobID[u] /\ stale'[u] = stale[u]
        BY <1>3, <2>1, <2>2, <3>1, StaleStepOwn DEF PastInsert
      <4>2. \A c \in Channel : msg'[<<jobID[u], c>>] = msg[<<jobID[u], c>>]
        <5>1. \A c \in Channel : <<jobID[u], c>> \in MsgTask
          BY <1>0, <4>1 DEF MsgTask
        <5>2. QED
          BY <1>3, <2>6, <3>1, <4>1, <5>1, StaleStepMsg
      <4>3. QED
        BY <1>0, <4>1, <4>2 DEF Channel
    <3>2. CASE u = t /\ stale[t].pc = "insert"
      <4>1. /\ jobID'[t] \in JobId /\ job[jobID'[t]] = NoRow /\ UNCHANGED msg
        BY <1>3, <3>2, StaleStepOwn DEF PastInsert
      <4>2. \A c \in Channel : ~Exists(msg[<<jobID'[t], c>>])
        BY <4>1 DEF MessageHasRow, MsgTask
      <4>3. QED
        BY <3>2, <4>1, <4>2 DEF Channel
    <3>3. CASE u = t /\ stale[t].pc = "WhatsApp"
      <4>1. stale'[t].pc = "SMS" /\ jobID'[t] = jobID[t] /\ t \in PastInsert
        BY <1>3, <3>3, StaleStepOwn DEF PastInsert
      <4>2. <<jobID[t], "SMS">> \in MsgTask /\ ~Exists(msg[<<jobID[t], "SMS">>])
        BY <1>0, <3>3, <4>1 DEF MsgTask, Channel
      <4>3. msg'[<<jobID[t], "SMS">>] = msg[<<jobID[t], "SMS">>]
        BY <1>3, <3>3, <4>2, StaleStepMsg
      <4>4. QED
        BY <3>3, <4>1, <4>2, <4>3
    <3>4. CASE u = t /\ stale[t].pc \notin {"insert", "WhatsApp"}
      <4>1. stale'[t].pc = "return"
        BY <1>3, <3>4, StaleStepOwn DEF PastInsert
      <4>2. QED
        BY <3>4, <4>1
    <3>5. QED
      BY <3>1, <3>2, <3>3, <3>4
  <2>8. QED
    BY <2>3, <2>5, <2>7 DEF OwnRow, PastInsert
<1>4. ASSUME NEW m \in MsgTask, MessageStep(m) PROVE OwnRow'
  <2>1. UNCHANGED <<stale, jobID>>
    BY <1>4, MessageStepMsg
  <2>2. \A j \in JobId : job[j] # NoRow => job'[j] # NoRow
    BY <1>4, MessageStepRow DEF NoRow
  <2>3. \A n \in MsgTask : ~Exists(msg[n]) => ~Exists(msg'[n])
    BY <1>4, MessageStepMsg
  <2>4. \A t \in PastInsert, c \in Channel : <<jobID[t], c>> \in MsgTask
    BY <1>0 DEF MsgTask
  <2>5. PastInsert' = PastInsert
    BY <2>1 DEF PastInsert
  <2>6. /\ \A t \in PastInsert : jobID'[t] \in JobId /\ job'[jobID'[t]] # NoRow
        /\ \A t, u \in PastInsert : jobID'[t] = jobID'[u] => t = u
    BY <1>0, <2>1, <2>2
  <2>7. \A t \in PastInsert :
          /\ stale'[t].pc = "WhatsApp" => ~Exists(msg'[<<jobID'[t], "WhatsApp">>])
          /\ stale'[t].pc \in {"WhatsApp", "SMS"} => ~Exists(msg'[<<jobID'[t], "SMS">>])
    BY <1>0, <2>1, <2>3, <2>4 DEF Channel
  <2>8. QED
    BY <2>5, <2>6, <2>7 DEF OwnRow, PastInsert
<1>5. CASE Crash \/ Shutdown
  <2>1. \A t \in StaleTask : stale'[t].pc = "idle"
    <3>1. \A t \in StaleTask : stale'[t] = Orphaned(stale[t]) \/ stale'[t] = Requeued(stale[t])
      BY <1>5 DEF Crash, Shutdown
    <3>2. QED
      BY <3>1, StaleFields DEF Activity
  <2>2. QED
    BY <2>1 DEF OwnRow
<1>6. CASE UNCHANGED vars
  BY <1>6 DEF vars, OwnRow
<1>7. QED
  BY <1>1, <1>2, <1>3, <1>4, <1>5, <1>6 DEF Next

LEMMA SendsPaidStep == TypeOK /\ Activity /\ OwnRow /\ SendsPaid /\ [Next]_vars => SendsPaid'
<1>. SUFFICES ASSUME TypeOK, Activity, OwnRow, SendsPaid, [Next]_vars PROVE SendsPaid'
  OBVIOUS
<1>0. /\ restarts \in Nat
      /\ \A m \in MsgTask : accepted[m] \in Nat /\ msg[m].retried \in Nat
  BY ConstantsAssumption, MaxRetryAssumption DEF TypeOK, Task
<1>1. ASSUME NEW r \in Scan, FindStale(r) \/ AbandonScan(r) PROVE SendsPaid'
  BY <1>1 DEF FindStale, AbandonScan, SendsPaid
<1>2. ASSUME NEW r \in Scan, NEW p \in Property, EnqueueStale(r, p) PROVE SendsPaid'
  BY <1>2 DEF EnqueueStale, SendsPaid
<1>3. ASSUME NEW t \in StaleTask, StaleStep(t) PROVE SendsPaid'
  <2>1. UNCHANGED <<accepted, restarts>>
    BY <1>3 DEF StaleStep, StartStale, InsertJob, InsertJobFails, EnqueueWhatsApp, EnqueueSMS,
       EnqueueMessage, ReturnStale, RecoverStale
  <2>2. ASSUME NEW m \in MsgTask, msg'[m] # msg[m]
        PROVE  msg'[m] = Queued /\ msg[m].state = "none"
    <3>1. /\ msg'[m] = Queued /\ m = <<jobID[t], stale[t].pc>>
          /\ stale[t].pc \in {"WhatsApp", "SMS"}
      BY <1>3, <2>2, StaleStepMsg
    <3>2. QED
      BY <3>1 DEF OwnRow, Exists
  <2>3. QED
    BY <1>0, <2>1, <2>2 DEF SendsPaid, Queued
<1>4. ASSUME NEW m \in MsgTask, MessageStep(m) PROVE SendsPaid'
  <2>1. /\ \A n \in MsgTask : n # m => msg'[n] = msg[n]
        /\ UNCHANGED restarts
    BY <1>4, MessageStepMsg
  <2>2. \A n \in MsgTask : n # m => accepted'[n] = accepted[n]
    BY <1>4 DEF TypeOK, MessageStep, StartMessage, SkipSend, Send, SendFails, MarkSent,
       MarkSentFails, MarkFailed, ReturnMessage, RecoverMessage
  <2>3. CASE Send(m) \/ SendFails(m)
    <3>1. accepted'[m] = accepted[m] + 1 \/ (accepted'[m] = accepted[m] /\ SendFails(m))
      BY <2>3 DEF Send, SendFails, TypeOK
    <3>2. /\ msg[m].pc = "send" /\ msg'[m].state = "active" /\ msg'[m].retried = msg[m].retried
          /\ \/ msg'[m].pc = "markSent" /\ Send(m)
             \/ msg'[m].pc = "markFailed" /\ SendFails(m)
      BY <2>3, MsgFields DEF Send, SendFails, TypeOK, Activity, MsgPC
    <3>3. Send(m) => accepted'[m] = accepted[m] + 1
      BY DEF Send, TypeOK
    <3>4. QED
      BY <1>0, <2>1, <2>2, <3>1, <3>2, <3>3 DEF SendsPaid
  <2>4. CASE ~(Send(m) \/ SendFails(m))
    <3>1. accepted'[m] = accepted[m]
      BY <1>4, <2>4 DEF MessageStep, StartMessage, SkipSend, MarkSent,
         MarkSentFails, MarkFailed, ReturnMessage, RecoverMessage
    <3>2. \/ /\ msg[m].state = "queued" /\ msg'[m].state = "active" /\ msg'[m].pc = "send"
             /\ msg'[m].retried = msg[m].retried
          \/ /\ msg'[m].state = "queued" /\ msg'[m].pc = "idle"
             /\ msg'[m].retried = msg[m].retried + 1
          \/ /\ msg'[m].state \in {"active", "done", "archived"} /\ msg'[m].pc \in {"idle", "return"}
             /\ msg'[m].retried = msg[m].retried
      BY <1>4, <2>4, MsgFields DEF Activity, TypeOK, MsgPC, MessageStep, StartMessage, SkipSend,
         MarkSent, MarkSentFails, MarkFailed, ReturnMessage, RecoverMessage
    <3>3. QED
      BY <1>0, <2>1, <2>2, <3>1, <3>2 DEF SendsPaid
  <2>5. QED
    BY <2>3, <2>4
<1>5. CASE Crash \/ Shutdown
  <2>1. UNCHANGED accepted
    BY <1>5 DEF Crash, Shutdown
  <2>2. ASSUME NEW m \in MsgTask
        PROVE  \/ /\ msg'[m] = msg[m] /\ msg[m].state # "active"
                  /\ restarts' \in {restarts, restarts + 1}
               \/ /\ msg'[m].state = "orphaned" /\ UNCHANGED restarts
                  /\ msg'[m].pc = "idle" /\ msg'[m].retried = msg[m].retried
               \/ /\ msg'[m].state = "queued" /\ restarts' = restarts + 1
                  /\ msg'[m].pc = "idle" /\ msg'[m].retried = msg[m].retried
    BY <1>5, ProcessStepMsg
  <2>3. ASSUME NEW m \in MsgTask
        PROVE  /\ msg'[m].state = "none" => accepted'[m] = 0
               /\ msg'[m].state = "queued" \/ msg'[m].pc = "send"
                    => accepted'[m] <= msg'[m].retried + restarts'
               /\ accepted'[m] <= msg'[m].retried + restarts' + 1
               /\ msg'[m].pc = "markSent" => accepted'[m] > 0
    BY <1>0, <2>1, <2>2 DEF SendsPaid
  <2>4. QED
    BY <2>3 DEF SendsPaid
<1>6. CASE UNCHANGED vars
  BY <1>6 DEF vars, SendsPaid
<1>7. QED
  BY <1>1, <1>2, <1>3, <1>4, <1>5, <1>6 DEF Next

LEMMA SentWasAcceptedStep ==
  TypeOK /\ Activity /\ SendsPaid /\ SentWasAccepted /\ [Next]_vars => SentWasAccepted'
<1>. SUFFICES ASSUME TypeOK, Activity, SendsPaid, SentWasAccepted, [Next]_vars
     PROVE  SentWasAccepted'
  OBVIOUS
<1>0. \A j \in JobId, c \in Channel : <<j, c>> \in MsgTask /\ accepted[<<j, c>>] \in Nat
  BY DEF MsgTask, TypeOK
<1>1. ASSUME NEW r \in Scan, FindStale(r) \/ AbandonScan(r) PROVE SentWasAccepted'
  BY <1>1 DEF FindStale, AbandonScan, SentWasAccepted
<1>2. ASSUME NEW r \in Scan, NEW p \in Property, EnqueueStale(r, p) PROVE SentWasAccepted'
  BY <1>2 DEF EnqueueStale, SentWasAccepted
<1>3. ASSUME NEW t \in StaleTask, StaleStep(t) PROVE SentWasAccepted'
  <2>1. UNCHANGED accepted
    BY <1>3 DEF StaleStep, StartStale, InsertJob, InsertJobFails, EnqueueWhatsApp, EnqueueSMS,
       EnqueueMessage, ReturnStale, RecoverStale
  <2>2. ASSUME NEW j \in JobId
        PROVE  job'[j] = job[j] \/ (job'[j].status = "PENDING" /\ job'[j].sid = "none")
    <3>1. job'[j] = job[j] \/ job'[j] = [status |-> "PENDING", sid |-> "none", from |-> t]
      BY <1>3, StaleStepRow
    <3>2. QED
      BY <3>1
  <2>3. QED
    BY <2>1, <2>2 DEF SentWasAccepted, Channel
<1>4. ASSUME NEW m \in MsgTask, MessageStep(m) PROVE SentWasAccepted'
  <2>1. \A n \in MsgTask : accepted[n] > 0 => accepted'[n] > 0
    BY <1>4 DEF TypeOK, MessageStep, StartMessage, SkipSend, Send, SendFails, MarkSent,
       MarkSentFails, MarkFailed, ReturnMessage, RecoverMessage
  <2>2. msg[m].pc = "markSent" => accepted[m] > 0
    BY DEF SendsPaid
  <2>3. \A j \in JobId : j # m[1] => job'[j] = job[j]
    BY <1>4, MessageStepRow
  <2>4. /\ job'[m[1]].status = "SENT" => job'[m[1]].sid \in Channel
        /\ job'[m[1]].sid \in Channel => accepted'[<<m[1], job'[m[1]].sid>>] > 0
    BY <1>0, <1>4, <2>1, <2>2, MessageStepRow DEF SentWasAccepted
  <2>5. QED
    BY <1>0, <2>1, <2>3, <2>4 DEF SentWasAccepted
<1>5. CASE Crash \/ Shutdown
  BY <1>5 DEF Crash, Shutdown, SentWasAccepted
<1>6. CASE UNCHANGED vars
  BY <1>6 DEF vars, SentWasAccepted
<1>7. QED
  BY <1>1, <1>2, <1>3, <1>4, <1>5, <1>6 DEF Next

\* The dispatcher keeps the sender it was built with.
LEMMA SenderFixed == [Next]_vars => UNCHANGED hasSender
BY DEF Next, vars, FindStale, AbandonScan, EnqueueStale, StaleStep, StartStale, InsertJob,
   InsertJobFails, EnqueueWhatsApp, EnqueueSMS, EnqueueMessage, ReturnStale, RecoverStale,
   MessageStep, StartMessage, SkipSend, Send, SendFails, MarkSent, MarkSentFails, MarkFailed,
   ReturnMessage, RecoverMessage, Crash, Shutdown

LEMMA VerdictOpenStep ==
  TypeOK /\ Activity /\ OwnRow /\ MessageHasRow /\ VerdictOpen /\ [Next]_vars => VerdictOpen'
<1>. SUFFICES ASSUME TypeOK, Activity, OwnRow, MessageHasRow, VerdictOpen, [Next]_vars, hasSender
     PROVE  /\ \A m \in MsgTask : Recorded(m)' => job'[m[1]].status \in {"SENT", "FAILED"}
            /\ \A j \in JobId :
                 job'[j].status = "FAILED" =>
                   \E c \in Channel : Exists(msg'[<<j, c>>]) /\ ~Recorded(<<j, c>>)'
  BY SenderFixed DEF VerdictOpen
<1>. DEFINE Goal == /\ \A m \in MsgTask : Recorded(m)' => job'[m[1]].status \in {"SENT", "FAILED"}
                    /\ \A j \in JobId :
                         job'[j].status = "FAILED" =>
                           \E c \in Channel : Exists(msg'[<<j, c>>]) /\ ~Recorded(<<j, c>>)'
<1>0. /\ \A m \in MsgTask : Recorded(m) => job[m[1]].status \in {"SENT", "FAILED"}
      /\ \A j \in JobId :
           job[j].status = "FAILED" =>
             \E c \in Channel : Exists(msg[<<j, c>>]) /\ ~Recorded(<<j, c>>)
  BY DEF VerdictOpen
<1>p. /\ \A j \in JobId, c \in Channel : <<j, c>> \in MsgTask
      /\ \A m \in MsgTask : m[1] \in JobId /\ m[2] \in Channel /\ m = <<m[1], m[2]>>
  BY DEF MsgTask
<1>1. ASSUME NEW r \in Scan, FindStale(r) \/ AbandonScan(r) PROVE Goal
  BY <1>0, <1>1 DEF FindStale, AbandonScan, Recorded
<1>2. ASSUME NEW r \in Scan, NEW p \in Property, EnqueueStale(r, p) PROVE Goal
  BY <1>0, <1>2 DEF EnqueueStale, Recorded
<1>3. ASSUME NEW t \in StaleTask, StaleStep(t) PROVE Goal
  <2>1. \A m \in MsgTask : \/ msg'[m] = msg[m]
                           \/ Exists(msg'[m]) /\ ~Recorded(m)' /\ ~Exists(msg[m])
    <3>. SUFFICES ASSUME NEW m \in MsgTask, msg'[m] # msg[m]
                  PROVE  Exists(msg'[m]) /\ ~Recorded(m)' /\ ~Exists(msg[m])
      OBVIOUS
    <3>1. /\ msg'[m] = Queued /\ m = <<jobID[t], stale[t].pc>>
          /\ stale[t].pc \in {"WhatsApp", "SMS"}
      BY <1>3, StaleStepMsg
    <3>2. ~Exists(msg[m])
      BY <3>1 DEF OwnRow, Exists
    <3>3. Exists(msg'[m]) /\ ~Recorded(m)'
      BY <3>1 DEF Exists, Recorded, Queued
    <3>4. QED
      BY <3>2, <3>3
  <2>2. ASSUME NEW j \in JobId, job'[j] # job[j]
        PROVE  job[j] = NoRow /\ job'[j].status = "PENDING"
    <3>1. job[j] = NoRow /\ job'[j] = [status |-> "PENDING", sid |-> "none", from |-> t]
      BY <1>3, <2>2, StaleStepRow
    <3>2. QED
      BY <3>1
  <2>3. ASSUME NEW m \in MsgTask, Recorded(m)' PROVE job'[m[1]].status \in {"SENT", "FAILED"}
    <3>1. msg'[m] = msg[m]
      BY <2>1, <2>3
    <3>2. Recorded(m)
      BY <2>3, <3>1 DEF Recorded
    <3>3. job[m[1]].status \in {"SENT", "FAILED"}
      BY <1>0, <3>2
    <3>4. QED
      BY <1>p, <2>2, <3>3 DEF NoRow
  <2>4. ASSUME NEW j \in JobId, job'[j].status = "FAILED"
        PROVE  \E c \in Channel : Exists(msg'[<<j, c>>]) /\ ~Recorded(<<j, c>>)'
    <3>1. job[j].status = "FAILED"
      BY <2>2, <2>4
    <3>2. PICK c \in Channel : Exists(msg[<<j, c>>]) /\ ~Recorded(<<j, c>>)
      BY <1>0, <3>1
    <3>3. msg'[<<j, c>>] = msg[<<j, c>>]
      BY <1>p, <2>1, <3>2
    <3>4. QED
      BY <3>2, <3>3 DEF Recorded
  <2>5. QED
    BY <2>3, <2>4
<1>4. ASSUME NEW m \in MsgTask, MessageStep(m) PROVE Goal
  <2>1. /\ \A n \in MsgTask : n # m => msg'[n] = msg[n]
        /\ Exists(msg[m]) /\ Exists(msg'[m])
    BY <1>4, MessageStepMsg
  <2>2. /\ \A j \in JobId : j # m[1] => job'[j] = job[j]
        /\ \/ job'[m[1]] = job[m[1]]
           \/ job'[m[1]].status = "FAILED" /\ msg[m].pc = "markFailed"
           \/ job'[m[1]].status = "SENT"
    BY <1>4, MessageStepRow
  <2>3. /\ msg[m].pc = "markFailed" => ~Recorded(m)'
        /\ Recorded(m)' => Recorded(m) \/ job'[m[1]].status = "SENT"
        /\ ~Recorded(m) => ~Recorded(m)' \/ job'[m[1]].status = "SENT"
    <3>1. CASE MarkSent(m)
      <4>1. job'[m[1]].status = "SENT"
        BY <1>p, <3>1 DEF MarkSent, RecordSent, TypeOK, Row
      <4>2. QED
        BY <3>1, <4>1 DEF MarkSent
    <3>2. CASE ReturnMessage(m)
      BY <3>2 DEF ReturnMessage, Recorded
    <3>3. CASE StartMessage(m) \/ Send(m) \/ SendFails(m)
      <4>1. \/ msg'[m] = Taken(msg[m], "send")
            \/ msg[m].state # "done" /\ \E place \in {"markSent", "markFailed"} : msg'[m] = At(msg[m], place)
        BY <3>3 DEF TypeOK, StartMessage, Send, SendFails, Activity
      <4>2. {"send", "markSent", "markFailed"} \subseteq MsgPC
        BY DEF MsgPC
      <4>3. msg'[m].state # "done" /\ msg'[m].pc # "return"
        BY <4>1, <4>2, MsgFields
      <4>4. QED
        BY <4>3 DEF Recorded
    <3>4. CASE MarkSentFails(m) \/ MarkFailed(m) \/ RecoverMessage(m)
      <4>1. msg'[m] = Failed(msg[m])
        BY <3>4 DEF TypeOK, MarkSentFails, MarkFailed, RecoverMessage
      <4>2. ~Recorded(m)'
        BY <4>1, MsgFields DEF Recorded
      <4>3. QED
        BY <4>2
    <3>5. ~SkipSend(m)
      BY DEF SkipSend
    <3>6. QED
      BY <1>4, <3>1, <3>2, <3>3, <3>4, <3>5 DEF MessageStep
  <2>4. ASSUME NEW n \in MsgTask, Recorded(n)' PROVE job'[n[1]].status \in {"SENT", "FAILED"}
    <3>1. CASE n = m
      BY <1>0, <2>2, <2>3, <2>4, <3>1
    <3>2. CASE n # m
      <4>1. Recorded(n)
        BY <2>1, <2>4, <3>2 DEF Recorded
      <4>2. job[n[1]].status \in {"SENT", "FAILED"}
        BY <1>0, <4>1
      <4>3. QED
        BY <1>p, <2>2, <4>2
    <3>3. QED
      BY <3>1, <3>2
  <2>5. ASSUME NEW j \in JobId, job'[j].status = "FAILED"
        PROVE  \E c \in Channel : Exists(msg'[<<j, c>>]) /\ ~Recorded(<<j, c>>)'
    <3>1. CASE j = m[1] /\ msg[m].pc = "markFailed"
      BY <1>p, <2>1, <2>3, <3>1
    <3>2. CASE j # m[1] \/ msg[m].pc # "markFailed"
      <4>1. job[j].status = "FAILED"
        BY <2>2, <2>5, <3>2
      <4>2. PICK c \in Channel : Exists(msg[<<j, c>>]) /\ ~Recorded(<<j, c>>)
        BY <1>0, <4>1
      <4>3. CASE <<j, c>> = m
        <5>1. j = m[1]
          BY <4>3
        <5>2. ~Recorded(m)'
          BY <2>3, <2>5, <4>2, <4>3, <5>1
        <5>3. QED
          BY <2>1, <4>3, <5>2
      <4>4. CASE <<j, c>> # m
        <5>1. msg'[<<j, c>>] = msg[<<j, c>>]
          BY <1>p, <2>1, <4>4
        <5>2. QED
          BY <4>2, <5>1 DEF Recorded
      <4>5. QED
        BY <4>3, <4>4
    <3>3. QED
      BY <3>1, <3>2
  <2>6. QED
    BY <2>4, <2>5
<1>5. CASE Crash \/ Shutdown
  <2>1. UNCHANGED job
    BY <1>5 DEF Crash, Shutdown
  <2>2. ASSUME NEW m \in MsgTask
        PROVE  /\ Recorded(m)' => Recorded(m)
               /\ Exists(msg[m]) => Exists(msg'[m])
    BY <1>5, ProcessStepMsg DEF Recorded, Exists
  <2>3. QED
    BY <1>0, <1>p, <2>1, <2>2
<1>6. CASE UNCHANGED vars
  BY <1>0, <1>6 DEF vars, Recorded
<1>7. QED
  BY <1>1, <1>2, <1>3, <1>4, <1>5, <1>6 DEF Next

LEMMA IInvInit == Init => IInv
<1>1. SUFFICES ASSUME Init PROVE IInv
  OBVIOUS
<1>2. /\ \A t \in StaleTask : stale[t] = NoTask
      /\ \A m \in MsgTask : msg[m] = NoTask /\ accepted[m] = 0
      /\ \A j \in JobId : job[j] = NoRow
      /\ restarts = 0
  BY <1>1 DEF Init
<1>3. Activity /\ OwnRow /\ MessageHasRow /\ SendsPaid
  BY <1>2 DEF Activity, OwnRow, MessageHasRow, SendsPaid, NoTask, Exists
<1>4. SentWasAccepted /\ VerdictOpen
  BY <1>2 DEF SentWasAccepted, VerdictOpen, Recorded, NoTask, NoRow, Channel
<1>5. QED
  BY <1>3, <1>4 DEF IInv

\* The invariant that the safety theorems rest on.
THEOREM Inductive == Spec => []IInv
<1>1. TypeOK /\ IInv /\ [Next]_vars => IInv'
  BY ActivityStep, OwnRowStep, MessageHasRowStep, SendsPaidStep, SentWasAcceptedStep,
     VerdictOpenStep DEF IInv
<1>2. QED
  BY <1>1, IInvInit, TypeCorrect, PTL DEF Spec

\* A row that says SENT stands for a message Twilio accepted (HandleWhatsApp,
\* HandleSMS, markJobSent), whatever crashes, retries and races.
THEOREM SentIsTrue == Spec => []SentWasAccepted
<1>1. IInv => SentWasAccepted
  BY DEF IInv
<1>2. QED
  BY <1>1, Inductive, PTL

\* A message task never updates a row that is not there (HandleStale).
THEOREM MessagesHaveRows == Spec => []MessageHasRow
<1>1. IInv => MessageHasRow
  BY DEF IInv
<1>2. QED
  BY <1>1, Inductive, PTL

\* Duplicates are bounded: at most MaxRetry + 1 messages per row and channel,
\* and one more for every graceful shutdown.
THEOREM BoundedSends == Spec => []SendsBounded
<1>1. TypeOK /\ IInv => SendsBounded
  <2>. SUFFICES ASSUME TypeOK, IInv, NEW m \in MsgTask
                PROVE  accepted[m] <= MaxRetry + 1 + restarts
    BY DEF SendsBounded
  <2>1. msg[m].retried \in 0 .. MaxRetry /\ accepted[m] \in Nat /\ restarts \in Nat
    BY ConstantsAssumption DEF TypeOK, Task
  <2>2. accepted[m] <= msg[m].retried + restarts + 1
    BY DEF IInv, SendsPaid
  <2>3. QED
    BY <2>1, <2>2, MaxRetryAssumption
<1>2. QED
  BY <1>1, Inductive, TypeCorrect, PTL

\* With Twilio configured, a row whose message tasks have all completed says SENT.
THEOREM CompletedIsSent == Spec => []CompletedSaysSent
<1>1. TypeOK /\ IInv => CompletedSaysSent
  <2>. SUFFICES ASSUME TypeOK, IInv, hasSender, NEW j \in JobId,
                       NEW c \in Channel, Exists(msg[<<j, c>>]),
                       \A d \in Channel : Exists(msg[<<j, d>>]) => msg[<<j, d>>].state = "done"
                PROVE  job[j].status = "SENT"
    BY DEF CompletedSaysSent
  <2>1. Recorded(<<j, c>>) /\ <<j, c>> \in MsgTask
    BY DEF Recorded, MsgTask
  <2>2. job[j].status \in {"SENT", "FAILED"}
    BY <2>1 DEF IInv, VerdictOpen
  <2>3. job[j].status # "FAILED"
    BY DEF IInv, VerdictOpen, Recorded
  <2>4. QED
    BY <2>2, <2>3
<1>2. QED
  BY <1>1, Inductive, TypeCorrect, PTL

-----------------------------------------------------------------------------
(* The rows that a reminder leaves.                                         *)

\* What a step of HandleStale does to its own task, and to no other one.
LEMMA StaleStepTask ==
  ASSUME TypeOK, Activity, NEW t \in StaleTask, StaleStep(t)
  PROVE  /\ \A u \in StaleTask : u # t => stale'[u] = stale[u]
         /\ Exists(stale[t]) /\ Exists(stale'[t])
         /\ UNCHANGED <<todo, scanned, restarts>>
         /\ \/ /\ stale[t].state = "queued" /\ stale'[t].retried = stale[t].retried
               /\ UNCHANGED job
            \/ /\ stale'[t].state # "queued" /\ stale'[t].pc # "insert"
               /\ stale'[t].retried = stale[t].retried
               /\ stale[t].pc = "insert" \/ UNCHANGED job
            \/ /\ stale'[t].pc = "idle" /\ stale'[t].retried = stale[t].retried + 1
               /\ stale[t].pc = "insert" \/ UNCHANGED job
<1>. USE DEF StaleStep, StartStale, InsertJob, InsertJobFails, EnqueueWhatsApp, EnqueueSMS,
     EnqueueMessage, ReturnStale, RecoverStale
<1>1. \A u \in StaleTask : u # t => stale'[u] = stale[u]
  BY DEF TypeOK
<1>2. UNCHANGED <<todo, scanned, restarts>>
  OBVIOUS
<1>3. stale[t].state \in {"queued", "active", "orphaned"}
  BY DEF Activity
<1>4. PICK s \in Task(StalePC) : s = stale[t]
  BY DEF TypeOK
<1>5. t \in DOMAIN stale
  BY DEF TypeOK
<1>6. "insert" \in StalePC /\ "WhatsApp" \in StalePC /\ "SMS" \in StalePC /\ "return" \in StalePC
  BY DEF StalePC
<1>7. \/ stale'[t] = Taken(s, "insert") /\ s.state = "queued" /\ UNCHANGED job
      \/ stale'[t] = At(s, "WhatsApp") /\ s.pc = "insert"
      \/ stale'[t] = Failed(s) /\ s.pc = "insert"
      \/ stale'[t] = Failed(s) /\ s.state = "orphaned" /\ UNCHANGED job
      \/ \E c \in {"SMS", "return"} : stale'[t] = At(s, c) /\ s.pc # "idle" /\ UNCHANGED job
      \/ stale'[t] = Completed(s) /\ UNCHANGED job
  BY <1>4, <1>5
<1>8. s.pc # "idle" => s.state = "active"
  BY <1>4 DEF Activity
<1>9. QED
  BY <1>1, <1>2, <1>3, <1>4, <1>6, <1>7, <1>8, TaskFields DEF Exists

\* A step of HandleStale adds at most one row to its own, and none to another's.
LEMMA StaleStepRows ==
  ASSUME TypeOK, NEW t \in StaleTask, StaleStep(t)
  PROVE  /\ \A u \in StaleTask : u # t => RowsOf(u)' = RowsOf(u)
         /\ RowsOf(t)' = RowsOf(t) \/ \E j \in JobId : RowsOf(t)' = RowsOf(t) \union {j}
<1>1. \A u \in StaleTask : u # NoRow.from
  BY DEF StaleTask, NoRow
<1>2. \A j \in JobId : \/ job'[j].from = job[j].from
                       \/ job[j].from = NoRow.from /\ job'[j].from = t
  <2>1. [status |-> "PENDING", sid |-> "none", from |-> t].from = t
    OBVIOUS
  <2>2. QED
    BY <2>1, StaleStepRow
<1>3. \A u \in StaleTask : u # t => RowsOf(u)' = RowsOf(u)
  BY <1>1, <1>2 DEF RowsOf
<1>4. ASSUME NEW k \in JobId, Insert(t, k)
      PROVE  RowsOf(t)' = RowsOf(t) \union {k}
  <2>1. job'[k].from = t /\ \A j \in JobId \ {k} : job'[j] = job[j]
    BY <1>4 DEF Insert, TypeOK
  <2>2. QED
    BY <2>1 DEF RowsOf
<1>5. UNCHANGED job \/ \E j \in JobId : Insert(t, j)
  BY DEF StaleStep, StartStale, InsertJob, InsertJobFails, EnqueueWhatsApp, EnqueueSMS,
     EnqueueMessage, ReturnStale, RecoverStale
<1>6. QED
  BY <1>3, <1>4, <1>5 DEF RowsOf

\* A message handler's UPDATE leaves the rows whose they are.
LEMMA MessageStepRows ==
  ASSUME TypeOK, NEW m \in MsgTask, MessageStep(m), NEW t \in StaleTask
  PROVE  RowsOf(t)' = RowsOf(t)
<1>1. m[1] \in JobId /\ job \in [JobId -> Row]
  BY DEF MsgTask, TypeOK
<1>2. RecordSent(m) \/ RecordFailed(m) \/ UNCHANGED job
  BY DEF MessageStep, StartMessage, SkipSend, Send, SendFails, MarkSent, MarkSentFails,
     MarkFailed, ReturnMessage, RecoverMessage
<1>3. \A j \in JobId : job'[j].from = job[j].from
  BY <1>1, <1>2 DEF RecordSent, RecordFailed, Row
<1>4. QED
  BY <1>3 DEF RowsOf

LEMMA AwaitedStep == TypeOK /\ Activity /\ Awaited /\ [Next]_vars => Awaited'
<1>. SUFFICES ASSUME TypeOK, Activity, Awaited, [Next]_vars PROVE Awaited'
  OBVIOUS
<1>. USE DEF Awaited
<1>1. ASSUME NEW r \in Scan, FindStale(r) PROVE Awaited'
  BY <1>1 DEF FindStale, TypeOK
<1>2. ASSUME NEW r \in Scan, AbandonScan(r) PROVE Awaited'
  BY <1>2 DEF AbandonScan, TypeOK
<1>3. ASSUME NEW r \in Scan, NEW p \in Property, EnqueueStale(r, p) PROVE Awaited'
  <2>1. \A q \in Scan, o \in Property : <<q, o>> # <<r, p>> => stale'[<<q, o>>] = stale[<<q, o>>]
    BY <1>3 DEF EnqueueStale, StaleTask, TypeOK
  <2>2. /\ UNCHANGED scanned
        /\ \A q \in Scan : todo'[q] \subseteq todo[q]
        /\ p \notin todo'[r]
    BY <1>3 DEF EnqueueStale, TypeOK
  <2>3. r \in scanned
    BY <1>3 DEF EnqueueStale
  <2>4. QED
    BY <2>1, <2>2, <2>3
<1>4. ASSUME NEW t \in StaleTask, StaleStep(t) PROVE Awaited'
  BY <1>4, StaleStepTask DEF StaleTask
<1>5. ASSUME NEW m \in MsgTask, MessageStep(m) PROVE Awaited'
  BY <1>5 DEF MessageStep, StartMessage, SkipSend, Send, SendFails, MarkSent,
     MarkSentFails, MarkFailed, ReturnMessage, RecoverMessage
<1>6. CASE Crash \/ Shutdown
  BY <1>6, StaleFields DEF Crash, Shutdown, Exists, StaleTask
<1>7. CASE UNCHANGED vars
  BY <1>7 DEF vars
<1>8. QED
  BY <1>1, <1>2, <1>3, <1>4, <1>5, <1>6, <1>7 DEF Next

LEMMA RowsPaidStep == TypeOK /\ Activity /\ Awaited /\ RowsPaid /\ [Next]_vars => RowsPaid'
<1>. SUFFICES ASSUME TypeOK, Activity, Awaited, RowsPaid, [Next]_vars PROVE RowsPaid'
  OBVIOUS
<1>0. /\ restarts \in Nat
      /\ \A t \in StaleTask : /\ stale[t].retried \in Nat
                              /\ IsFiniteSet(RowsOf(t)) /\ Cardinality(RowsOf(t)) \in Nat
  BY ConstantsAssumption, MaxRetryAssumption, FS_CardinalityType DEF TypeOK, Task, RowsPaid
<1>1. ASSUME NEW r \in Scan, FindStale(r) \/ AbandonScan(r) PROVE RowsPaid'
  BY <1>1 DEF FindStale, AbandonScan, RowsPaid, RowsOf
<1>2. ASSUME NEW r \in Scan, NEW p \in Property, EnqueueStale(r, p) PROVE RowsPaid'
  <2>1. UNCHANGED <<job, restarts>> /\ ~Exists(stale[<<r, p>>])
    BY <1>2 DEF EnqueueStale, Awaited
  <2>2. ASSUME NEW t \in StaleTask PROVE RowsOf(t)' = RowsOf(t)
    BY <2>1 DEF RowsOf
  <2>3. ASSUME NEW t \in StaleTask
        PROVE  \/ stale'[t] = stale[t]
               \/ /\ stale'[t].state = "queued" /\ stale'[t].retried = 0
                  /\ ~Exists(stale[t])
    BY <1>2, <2>1 DEF EnqueueStale, TypeOK, Queued
  <2>4. ASSUME NEW t \in StaleTask
        PROVE  /\ ~Exists(stale'[t]) => RowsOf(t) = {}
               /\ stale'[t].state = "queued" \/ stale'[t].pc = "insert"
                    => Cardinality(RowsOf(t)) <= stale'[t].retried + restarts
               /\ Cardinality(RowsOf(t)) <= stale'[t].retried + restarts + 1
    <3>1. CASE stale'[t] = stale[t]
      BY <3>1 DEF RowsPaid
    <3>2. CASE /\ stale'[t].state = "queued" /\ stale'[t].retried = 0
               /\ ~Exists(stale[t])
      <4>1. RowsOf(t) = {}
        BY <3>2 DEF RowsPaid
      <4>2. Cardinality(RowsOf(t)) = 0
        BY <4>1, FS_EmptySet
      <4>3. Exists(stale'[t])
        BY <3>2 DEF Exists
      <4>4. QED
        BY <1>0, <3>2, <4>2, <4>3
    <3>3. QED
      BY <2>3, <3>1, <3>2
  <2>5. QED
    BY <1>0, <2>1, <2>2, <2>4 DEF RowsPaid
<1>3. ASSUME NEW t \in StaleTask, StaleStep(t) PROVE RowsPaid'
  <2>1. ASSUME NEW u \in StaleTask, u # t PROVE RowsOf(u)' = RowsOf(u) /\ stale'[u] = stale[u]
    BY <1>3, <2>1, StaleStepRows, StaleStepTask
  <2>2. restarts' = restarts /\ Exists(stale[t]) /\ Exists(stale'[t])
    BY <1>3, StaleStepTask
  <2>3. /\ IsFiniteSet(RowsOf(t)')
        /\ Cardinality(RowsOf(t)') \in Nat
        /\ Cardinality(RowsOf(t)') <= Cardinality(RowsOf(t)) + 1
        /\ UNCHANGED job => Cardinality(RowsOf(t)') = Cardinality(RowsOf(t))
    <3>1. CASE RowsOf(t)' = RowsOf(t)
      BY <1>0, <3>1
    <3>2. ASSUME NEW j \in JobId, RowsOf(t)' = RowsOf(t) \union {j}
          PROVE  /\ IsFiniteSet(RowsOf(t)')
                 /\ Cardinality(RowsOf(t)') \in Nat
                 /\ Cardinality(RowsOf(t)') <= Cardinality(RowsOf(t)) + 1
      BY <1>0, <3>2, FS_AddElement
    <3>3. UNCHANGED job => RowsOf(t)' = RowsOf(t)
      BY DEF RowsOf
    <3>4. QED
      BY <1>3, <3>1, <3>2, <3>3, StaleStepRows
  <2>4. /\ Cardinality(RowsOf(t)) <= stale[t].retried + restarts + 1
        /\ stale[t].state = "queued" \/ stale[t].pc = "insert"
             => Cardinality(RowsOf(t)) <= stale[t].retried + restarts
        /\ stale'[t].pc = "idle" => stale'[t].pc # "insert"
    BY DEF RowsPaid
  <2>5. /\ stale'[t].state = "queued" \/ stale'[t].pc = "insert"
             => Cardinality(RowsOf(t)') <= stale'[t].retried + restarts'
        /\ Cardinality(RowsOf(t)') <= stale'[t].retried + restarts' + 1
    <3>1. CASE stale[t].state = "queued" /\ stale'[t].retried = stale[t].retried /\ UNCHANGED job
      BY <1>0, <2>2, <2>3, <2>4, <3>1
    <3>2. CASE /\ stale'[t].state # "queued" /\ stale'[t].pc # "insert"
               /\ stale'[t].retried = stale[t].retried
               /\ stale[t].pc = "insert" \/ UNCHANGED job
      BY <1>0, <2>2, <2>3, <2>4, <3>2
    <3>3. CASE /\ stale'[t].pc = "idle" /\ stale'[t].retried = stale[t].retried + 1
               /\ stale[t].pc = "insert" \/ UNCHANGED job
      BY <1>0, <2>2, <2>3, <2>4, <3>3
    <3>4. QED
      BY <1>3, <3>1, <3>2, <3>3, StaleStepTask
  <2>6. QED
    BY <2>1, <2>2, <2>3, <2>5 DEF RowsPaid
<1>4. ASSUME NEW m \in MsgTask, MessageStep(m) PROVE RowsPaid'
  <2>1. UNCHANGED <<stale, restarts>>
    BY <1>4, MessageStepMsg
  <2>2. \A t \in StaleTask : RowsOf(t)' = RowsOf(t)
    BY <1>4, MessageStepRows
  <2>3. QED
    BY <2>1, <2>2 DEF RowsPaid
<1>5. CASE Crash \/ Shutdown
  <2>1. \A t \in StaleTask : RowsOf(t)' = RowsOf(t)
    BY <1>5 DEF Crash, Shutdown, RowsOf
  <2>2. ASSUME NEW t \in StaleTask
        PROVE  \/ /\ stale'[t] = stale[t] /\ stale[t].state # "active"
                  /\ restarts' \in {restarts, restarts + 1}
               \/ /\ stale[t].state = "active" /\ stale'[t].retried = stale[t].retried
                  /\ stale'[t].pc = "idle"
                  /\ \/ stale'[t].state = "orphaned" /\ UNCHANGED restarts
                     \/ stale'[t].state = "queued" /\ restarts' = restarts + 1
    <3>1. \/ stale'[t] = Orphaned(stale[t]) /\ UNCHANGED restarts
          \/ stale'[t] = Requeued(stale[t]) /\ restarts' = restarts + 1
      BY <1>5 DEF Crash, Shutdown
    <3>2. stale[t] \in Task(StalePC) /\ "return" \in StalePC
      BY DEF TypeOK, StalePC
    <3>3. QED
      BY <3>1, <3>2, TaskFields
  <2>3. QED
    BY <1>0, <2>1, <2>2 DEF RowsPaid, Exists
<1>6. CASE UNCHANGED vars
  BY <1>6 DEF vars, RowsPaid, RowsOf
<1>7. QED
  BY <1>1, <1>2, <1>3, <1>4, <1>5, <1>6 DEF Next

\* However often HandleStale starts over, and whatever an INSERT that reports an
\* error has done, a reminder leaves at most one row for each of its attempts.
THEOREM BoundedRows == Spec => []RowsBounded
<1>1. Init => Awaited /\ RowsPaid
  <2>1. SUFFICES ASSUME Init PROVE Awaited /\ RowsPaid
    OBVIOUS
  <2>2. Awaited
    BY <2>1 DEF Init, Awaited, NoTask, Exists, StaleTask
  <2>3. \A t \in StaleTask : RowsOf(t) = {}
    BY <2>1 DEF Init, RowsOf, NoRow, StaleTask
  <2>4. \A t \in StaleTask : stale[t] = NoTask
    BY <2>1 DEF Init
  <2>5. QED
    BY <2>1, <2>2, <2>3, <2>4, FS_EmptySet DEF Init, RowsPaid, NoTask
<1>2. TypeOK /\ IInv /\ Awaited /\ RowsPaid /\ [Next]_vars => (Awaited /\ RowsPaid)'
  BY AwaitedStep, RowsPaidStep DEF IInv
<1>3. TypeOK /\ RowsPaid => RowsBounded
  <2>. SUFFICES ASSUME TypeOK, RowsPaid, NEW t \in StaleTask
                PROVE  Cardinality(RowsOf(t)) <= stale[t].retried + 1 + restarts
    BY DEF RowsBounded
  <2>1. stale[t].retried \in Nat /\ restarts \in Nat
    BY ConstantsAssumption, MaxRetryAssumption DEF TypeOK, Task
  <2>2. IsFiniteSet(RowsOf(t)) /\ Cardinality(RowsOf(t)) <= stale[t].retried + restarts + 1
    BY DEF RowsPaid
  <2>3. Cardinality(RowsOf(t)) \in Nat
    BY <2>2, FS_CardinalityType
  <2>4. QED
    BY <2>1, <2>2, <2>3
<1>4. QED
  BY <1>1, <1>2, <1>3, Inductive, TypeCorrect, PTL DEF Spec

-----------------------------------------------------------------------------
(* The worker implements the ledger.                                        *)

\* A status is missing only from a row that was never inserted.
RowShape == \A j \in JobId : job[j].status = "none" => job[j] = NoRow

LEMMA RowShapeInvariant == Spec => []RowShape
<1>1. Init => RowShape
  BY DEF Init, RowShape
<1>2. TypeOK /\ RowShape /\ [Next]_vars => RowShape'
  <2>. SUFFICES ASSUME TypeOK, RowShape, [Next]_vars, NEW j \in JobId
                PROVE  job'[j] = job[j] \/ job'[j].status # "none"
    BY DEF RowShape
  <2>1. ASSUME NEW r \in Scan, FindStale(r) \/ AbandonScan(r) PROVE UNCHANGED job
    BY <2>1 DEF FindStale, AbandonScan
  <2>2. ASSUME NEW r \in Scan, NEW p \in Property, EnqueueStale(r, p) PROVE UNCHANGED job
    BY <2>2 DEF EnqueueStale
  <2>3. ASSUME NEW t \in StaleTask, StaleStep(t)
        PROVE  job'[j] = job[j] \/ job'[j].status # "none"
    <3>1. job'[j] = job[j] \/ job'[j] = [status |-> "PENDING", sid |-> "none", from |-> t]
      BY <2>3, StaleStepRow
    <3>2. QED
      BY <3>1
  <2>4. ASSUME NEW m \in MsgTask, MessageStep(m)
        PROVE  job'[j] = job[j] \/ job'[j].status # "none"
    BY <2>4, MessageStepRow
  <2>5. CASE Crash \/ Shutdown \/ UNCHANGED vars
    BY <2>5 DEF Crash, Shutdown, vars
  <2>6. QED
    BY <2>1, <2>2, <2>3, <2>4, <2>5 DEF Next
<1>3. QED
  BY <1>1, <1>2, TypeCorrect, PTL DEF Spec

\* The row as the ledger sees it.
LedgerRow == [j \in JobId |-> [status |-> job[j].status, sid |-> job[j].sid]]

LEMMA LedgerStep ==
  ASSUME TypeOK, IInv, RowShape, [Next]_vars
  PROVE  [Ledger!Next]_(Ledger!ledger)
<1>. DEFINE Same == UNCHANGED <<job, accepted>>
<1>1. Same => UNCHANGED Ledger!ledger
  BY DEF Ledger!ledger
<1>2. ASSUME NEW t \in StaleTask, NEW j \in JobId, Insert(t, j), UNCHANGED accepted
      PROVE  Ledger!Next
  <2>1. job[j].status = "none"
    BY <1>2 DEF Insert, NoRow
  <2>2. LedgerRow' = [LedgerRow EXCEPT ![j] = [status |-> "PENDING", sid |-> "none"]]
    BY <1>2 DEF Insert, LedgerRow, TypeOK
  <2>3. Ledger!Open(j)
    BY <1>2, <2>1, <2>2 DEF Ledger!Open, LedgerRow
  <2>4. QED
    BY <2>3 DEF Ledger!Next
<1>3. ASSUME NEW m \in MsgTask, Exists(msg[m]), accepted' = [accepted EXCEPT ![m] = @ + 1], UNCHANGED job
      PROVE  Ledger!Next
  <2>1. m[1] \in JobId /\ m[2] \in Channel /\ m = <<m[1], m[2]>>
    BY DEF MsgTask
  <2>2. job[m[1]].status # "none"
    BY <1>3, <2>1 DEF IInv, MessageHasRow, RowShape
  <2>3. Ledger!Accept(m[1], m[2])
    BY <1>3, <2>1, <2>2 DEF Ledger!Accept
  <2>4. QED
    BY <2>1, <2>3 DEF Ledger!Next
<1>4. ASSUME NEW m \in MsgTask, Exists(msg[m]), accepted[m] > 0, RecordSent(m), UNCHANGED accepted
      PROVE  Ledger!Next
  <2>1. m[1] \in JobId /\ m[2] \in Channel /\ m = <<m[1], m[2]>>
    BY DEF MsgTask
  <2>2. job[m[1]].status # "none"
    BY <1>4, <2>1 DEF IInv, MessageHasRow, RowShape
  <2>3. LedgerRow' = [LedgerRow EXCEPT ![m[1]] = [status |-> "SENT", sid |-> m[2]]]
    <3>1. /\ \A j \in JobId : j # m[1] => job'[j] = job[j]
          /\ job'[m[1]].status = "SENT" /\ job'[m[1]].sid = m[2]
      BY <1>4, <2>1 DEF RecordSent, TypeOK, Row
    <3>2. LedgerRow' = [j \in JobId |-> IF j = m[1] THEN [status |-> "SENT", sid |-> m[2]] ELSE LedgerRow[j]]
      BY <2>1, <3>1 DEF LedgerRow
    <3>3. QED
      BY <3>2 DEF LedgerRow
  <2>4. Ledger!RecordSent(m[1], m[2])
    BY <1>4, <2>1, <2>2, <2>3 DEF Ledger!RecordSent, LedgerRow
  <2>5. QED
    BY <2>1, <2>4 DEF Ledger!Next
<1>5. ASSUME NEW m \in MsgTask, Exists(msg[m]), RecordFailed(m), UNCHANGED accepted
      PROVE  Ledger!Next
  <2>1. m[1] \in JobId
    BY DEF MsgTask
  <2>2. job[m[1]].status # "none"
    BY <1>5, <2>1 DEF IInv, MessageHasRow, RowShape
  <2>3. LedgerRow' = [LedgerRow EXCEPT ![m[1]].status = "FAILED"]
    <3>1. /\ \A j \in JobId : j # m[1] => job'[j] = job[j]
          /\ job'[m[1]].status = "FAILED" /\ job'[m[1]].sid = job[m[1]].sid
      BY <1>5, <2>1 DEF RecordFailed, TypeOK, Row
    <3>2. LedgerRow' = [j \in JobId |-> IF j = m[1] THEN [status |-> "FAILED", sid |-> job[j].sid] ELSE LedgerRow[j]]
      BY <2>1, <3>1 DEF LedgerRow
    <3>3. [LedgerRow[m[1]] EXCEPT !.status = "FAILED"] = [status |-> "FAILED", sid |-> job[m[1]].sid]
      BY <2>1 DEF LedgerRow
    <3>4. [LedgerRow EXCEPT ![m[1]].status = "FAILED"]
            = [j \in JobId |-> IF j = m[1] THEN [LedgerRow[m[1]] EXCEPT !.status = "FAILED"] ELSE LedgerRow[j]]
      BY <2>1 DEF LedgerRow
    <3>5. QED
      BY <3>2, <3>3, <3>4
  <2>4. Ledger!RecordFailed(m[1])
    BY <1>5, <2>1, <2>2, <2>3 DEF Ledger!RecordFailed, LedgerRow
  <2>5. QED
    BY <2>1, <2>4 DEF Ledger!Next
<1>6. ASSUME NEW r \in Scan, FindStale(r) \/ AbandonScan(r) PROVE Same
  BY <1>6 DEF FindStale, AbandonScan
<1>7. ASSUME NEW r \in Scan, NEW p \in Property, EnqueueStale(r, p) PROVE Same
  BY <1>7 DEF EnqueueStale
<1>8. ASSUME NEW t \in StaleTask, StaleStep(t) PROVE Same \/ Ledger!Next
  BY <1>2, <1>8 DEF StaleStep, StartStale, InsertJob, InsertJobFails, EnqueueWhatsApp,
     EnqueueSMS, EnqueueMessage, ReturnStale, RecoverStale
<1>9. ASSUME NEW m \in MsgTask, MessageStep(m) PROVE Same \/ Ledger!Next
  <2>1. Exists(msg[m])
    BY <1>9, MessageStepMsg DEF IInv
  <2>2. MarkSent(m) \/ MarkSentFails(m) => accepted[m] > 0
    BY DEF MarkSent, MarkSentFails, IInv, SendsPaid
  <2>3. QED
    BY <1>3, <1>4, <1>5, <1>9, <2>1, <2>2 DEF MessageStep, StartMessage, SkipSend, Send,
       SendFails, MarkSent, MarkSentFails, MarkFailed, ReturnMessage, RecoverMessage
<1>10. CASE Crash \/ Shutdown \/ UNCHANGED vars
  BY <1>1, <1>10 DEF Crash, Shutdown, vars
<1>11. QED
  BY <1>1, <1>6, <1>7, <1>8, <1>9, <1>10 DEF Next

\* Every behaviour of the worker is one the ledger allows: a row never returns to
\* PENDING, a recorded sid is never cleared, SENT is recorded only for an accepted
\* message and messages go out only for an opened row.
THEOREM WorkerImplementsLedger == Spec => LedgerSpec
<1>1. Init => Ledger!Init
  BY DEF Init, Ledger!Init, NoRow, MsgTask
<1>2. TypeOK /\ IInv /\ RowShape /\ [Next]_vars => [Ledger!Next]_(Ledger!ledger)
  BY LedgerStep
<1>3. QED
  BY <1>1, <1>2, TypeCorrect, Inductive, RowShapeInvariant, PTL DEF Spec, LedgerSpec, Ledger!Spec
==============================================================================
