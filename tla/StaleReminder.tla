---------------------------- MODULE StaleReminder ----------------------------
(***************************************************************************)
(* Reminders for stale listings, from the administrator's scan request to   *)
(* the messages the owner receives: handlers/notifications.go in the API    *)
(* process, worker/client.go between the processes and worker/dispatcher.go *)
(* in the worker process.                                                   *)
(*                                                                         *)
(* A scan enqueues one reminder task per stale listing; the task's handler  *)
(* inserts a notification_jobs row and enqueues up to two message tasks,    *)
(* one per channel; a message task calls Twilio and then records the        *)
(* outcome in the row.  Every handler is split at each call that leaves the *)
(* process, so that the other handlers, a crash of the worker or its        *)
(* graceful shutdown can come between any two of them.                      *)
(***************************************************************************)
EXTENDS TaskQueue, FiniteSets

CONSTANTS
  Scan,          \* identities of the scan-stale requests; bounds their number
  Property,      \* listings
  Contactable,   \* the listings with a non-empty owner_contact
  JobId,         \* ids of notification_jobs rows; bounds their number
  NoJob,         \* the nil value of a handler's local jobID
  ChannelsOn,    \* channels whose Twilio "from" number is configured
  Concurrency,   \* goroutines that run handlers (10 in the code)
  MaxMishaps     \* bound on failed calls, crashes and graceful shutdowns

Channel == {"WhatsApp", "SMS"}

ASSUME ConstantsAssumption ==
  /\ Contactable \subseteq Property
  /\ ChannelsOn \subseteq Channel
  /\ NoJob \notin JobId
  /\ Concurrency \in Nat \ {0}
  /\ MaxMishaps \in Nat

VARIABLES
  hasSender,  \* Twilio credentials were present when NewDispatcher ran: d.sender # nil
  todo,       \* todo[r]: stale listings request r still has to enqueue
  scanned,    \* requests whose FindStale query has run
  stale,      \* stale[t]: the TaskNotifyStale task of listing t[2] found by request t[1]
  jobID,      \* jobID[t]: local variable of the goroutine running HandleStale for t
  job,        \* the notification_jobs table
  msg,        \* msg[<<j, c>>]: the message task of row j on channel c
  accepted,   \* accepted[<<j, c>>]: how many messages Twilio accepted (history)
  faults,     \* how many faults happened (bounds the model)
  restarts    \* how many graceful shutdowns happened (bounds the model)

vars == <<hasSender, todo, scanned, stale, jobID, job, msg, accepted, faults, restarts>>

StaleTask == Scan \X Property
MsgTask == JobId \X Channel

StalePC == {"insert", "WhatsApp", "SMS", "return"}
MsgPC == {"send", "markSent", "markFailed", "return"}

\* A row of notification_jobs.  `from` is the task that inserted it: its
\* property_id column, and which scan it stems from (history).
NoRow == [status |-> "none", sid |-> "none", from |-> <<>>]

Row == [status : {"none", "PENDING", "SENT", "FAILED"},
        sid : {"none"} \union Channel,
        from : {<<>>} \union StaleTask]

TypeOK ==
  /\ hasSender \in BOOLEAN
  /\ todo \in [Scan -> SUBSET Property]
  /\ scanned \in SUBSET Scan
  /\ stale \in [StaleTask -> Task(StalePC)]
  /\ jobID \in [StaleTask -> JobId \union {NoJob}]
  /\ job \in [JobId -> Row]
  /\ msg \in [MsgTask -> Task(MsgPC)]
  /\ accepted \in [MsgTask -> Nat]
  /\ faults \in 0 .. MaxMishaps
  /\ restarts \in 0 .. MaxMishaps

Init ==
  /\ hasSender \in BOOLEAN
  /\ todo = [r \in Scan |-> {}]
  /\ scanned = {}
  /\ stale = [t \in StaleTask |-> NoTask]
  /\ jobID = [t \in StaleTask |-> NoJob]
  /\ job = [j \in JobId |-> NoRow]
  /\ msg = [m \in MsgTask |-> NoTask]
  /\ accepted = [m \in MsgTask |-> 0]
  /\ faults = 0
  /\ restarts = 0

\* A call to Postgres, Redis or Twilio fails, or a process dies.
Fault == faults + restarts < MaxMishaps /\ faults' = faults + 1

Smooth == UNCHANGED faults

Busy == {t \in StaleTask : stale[t].state = "active"} \union {m \in MsgTask : msg[m].state = "active"}

SlotFree == Cardinality(Busy) < Concurrency

-----------------------------------------------------------------------------
(* The API process: TriggerStaleScan.                                       *)

\* FindStale: one query, whose answer is then worked through listing by listing.
FindStale(r) ==
  /\ r \notin scanned
  /\ scanned' = scanned \union {r}
  /\ \E found \in SUBSET Property : todo' = [todo EXCEPT ![r] = found]
  /\ UNCHANGED <<hasSender, stale, jobID, job, msg, accepted, faults, restarts>>

\* EnqueueStaleNotification, and its failure, after which the loop continues:
\* the task may or may not have reached Redis before the error.
EnqueueStale(r, p) ==
  /\ p \in todo[r]
  /\ todo' = [todo EXCEPT ![r] = @ \ {p}]
  /\ LET queued == [stale EXCEPT ![<<r, p>>] = Queued]
     IN  \/ Smooth /\ stale' = queued
         \/ Fault /\ stale' \in {stale, queued}
  /\ UNCHANGED <<hasSender, scanned, jobID, job, msg, accepted, restarts>>

\* The request ends early: its context times out or the API process dies.
AbandonScan(r) ==
  /\ todo[r] # {}
  /\ Fault
  /\ todo' = [todo EXCEPT ![r] = {}]
  /\ UNCHANGED <<hasSender, scanned, stale, jobID, job, msg, accepted, restarts>>

-----------------------------------------------------------------------------
(* The worker: HandleStale.                                                 *)

StartStale(t) ==
  /\ stale[t].state = "queued"
  /\ SlotFree
  /\ stale' = [stale EXCEPT ![t] = Taken(@, "insert")]
  /\ UNCHANGED <<hasSender, todo, scanned, jobID, job, msg, accepted, faults, restarts>>

Insert(t, j) ==
  /\ job[j] = NoRow
  /\ job' = [job EXCEPT ![j] = [status |-> "PENDING", sid |-> "none", from |-> t]]

InsertJob(t) ==
  /\ stale[t].pc = "insert"
  /\ \E j \in JobId :
       /\ Insert(t, j)
       /\ jobID' = [jobID EXCEPT ![t] = j]
  /\ stale' = [stale EXCEPT ![t] = At(@, "WhatsApp")]
  /\ UNCHANGED <<hasSender, todo, scanned, msg, accepted, faults, restarts>>

\* Mutants: the error is only logged, as HandleOCR does; the INSERT is tried again
\* within the same attempt.
InsertErrorLogged(t) ==
  /\ stale[t].pc = "insert"
  /\ Fault
  /\ \E j \in JobId : job[j] = NoRow /\ jobID' = [jobID EXCEPT ![t] = j]
  /\ stale' = [stale EXCEPT ![t] = At(@, "WhatsApp")]
  /\ UNCHANGED <<hasSender, todo, scanned, job, msg, accepted, restarts>>

InsertedAgain(t) ==
  /\ stale[t].pc = "insert"
  /\ Fault
  /\ UNCHANGED job \/ \E j \in JobId : Insert(t, j)
  /\ UNCHANGED <<hasSender, todo, scanned, stale, jobID, msg, accepted, restarts>>

\* The INSERT reports an error, with or without having added the row.
InsertJobFails(t) ==
  /\ stale[t].pc = "insert"
  /\ Fault
  /\ UNCHANGED job \/ \E j \in JobId : Insert(t, j)
  /\ stale' = [stale EXCEPT ![t] = Failed(@)]
  /\ UNCHANGED <<hasSender, todo, scanned, jobID, msg, accepted, restarts>>

\* One of the two enqueues: skipped without a number or a contact; an error is
\* only logged, and the task may have reached Redis before it.
EnqueueMessage(t, c, next) ==
  /\ stale[t].pc = c
  /\ LET queued == [msg EXCEPT ![<<jobID[t], c>>] = Queued]
     IN  IF c \in ChannelsOn /\ t[2] \in Contactable
         THEN \/ Smooth /\ msg' = queued
              \/ Fault /\ msg' \in {msg, queued}
         ELSE Smooth /\ UNCHANGED msg
  /\ stale' = [stale EXCEPT ![t] = At(@, next)]
  /\ UNCHANGED <<hasSender, todo, scanned, jobID, job, accepted, restarts>>

EnqueueWhatsApp(t) == EnqueueMessage(t, "WhatsApp", "SMS")
EnqueueSMS(t) == EnqueueMessage(t, "SMS", "return")

\* Mutant: the handler waits until its messages were delivered.
ReturnWhenDelivered(t) ==
  /\ stale[t].pc = "return"
  /\ \A c \in Channel : Exists(msg[<<jobID[t], c>>]) => Finished(msg[<<jobID[t], c>>])
  /\ stale' = [stale EXCEPT ![t] = Completed(@)]
  /\ jobID' = [jobID EXCEPT ![t] = NoJob]
  /\ UNCHANGED <<hasSender, todo, scanned, job, msg, accepted, faults, restarts>>

ReturnStale(t) ==
  /\ stale[t].pc = "return"
  /\ stale' = [stale EXCEPT ![t] = Completed(@)]
  /\ jobID' = [jobID EXCEPT ![t] = NoJob]
  /\ UNCHANGED <<hasSender, todo, scanned, job, msg, accepted, faults, restarts>>

-----------------------------------------------------------------------------
(* The worker: HandleWhatsApp and HandleSMS, which differ in the channel.   *)

StartMessage(m) ==
  /\ msg[m].state = "queued"
  /\ SlotFree
  /\ msg' = [msg EXCEPT ![m] = Taken(@, "send")]
  /\ UNCHANGED <<hasSender, todo, scanned, stale, jobID, job, accepted, faults, restarts>>

\* Mutants: the UPDATE's arguments swapped; the UPDATE restricted to PENDING rows;
\* markJobFailed sharing markJobSent's UPDATE, with no sid to give it.
SwappedArguments(m) == job' = [job EXCEPT ![m[1]].status = m[2], ![m[1]].sid = "SENT"]
OnlyIfPending(m) ==
  job' = IF job[m[1]].status = "PENDING"
         THEN [job EXCEPT ![m[1]].status = "SENT", ![m[1]].sid = m[2]]
         ELSE job
SidCleared(m) == job' = [job EXCEPT ![m[1]].status = "FAILED", ![m[1]].sid = "none"]

\* markJobSent's UPDATE, and markJobFailed's, which leaves the sid alone.
RecordSent(m) == job' = [job EXCEPT ![m[1]].status = "SENT", ![m[1]].sid = m[2]]
RecordFailed(m) == job' = [job EXCEPT ![m[1]].status = "FAILED"]

\* Mutant: without credentials the handler only logs.
SkipSilently(m) ==
  /\ msg[m].pc = "send"
  /\ ~hasSender
  /\ msg' = [msg EXCEPT ![m] = At(@, "return")]
  /\ UNCHANGED <<hasSender, todo, scanned, stale, jobID, job, accepted, faults, restarts>>

\* No Twilio credentials: record FAILED and return nil, whether or not the
\* UPDATE worked.
SkipSend(m) ==
  /\ msg[m].pc = "send"
  /\ ~hasSender
  /\ \/ Smooth /\ RecordFailed(m)
     \/ Fault /\ UNCHANGED job
  /\ msg' = [msg EXCEPT ![m] = At(@, "return")]
  /\ UNCHANGED <<hasSender, todo, scanned, stale, jobID, accepted, restarts>>

Send(m) ==
  /\ msg[m].pc = "send"
  /\ hasSender
  /\ accepted' = [accepted EXCEPT ![m] = @ + 1]
  /\ msg' = [msg EXCEPT ![m] = At(@, "markSent")]
  /\ UNCHANGED <<hasSender, todo, scanned, stale, jobID, job, faults, restarts>>

\* Mutant: the send's error is ignored.
SendErrorIgnored(m) ==
  /\ msg[m].pc = "send"
  /\ hasSender
  /\ Fault
  /\ msg' = [msg EXCEPT ![m] = At(@, "markSent")]
  /\ UNCHANGED <<hasSender, todo, scanned, stale, jobID, job, accepted, restarts>>

\* Twilio refuses the message, or accepts it and the answer is lost.
SendFails(m) ==
  /\ msg[m].pc = "send"
  /\ hasSender
  /\ Fault
  /\ \/ UNCHANGED accepted
     \/ accepted' = [accepted EXCEPT ![m] = @ + 1]
  /\ msg' = [msg EXCEPT ![m] = At(@, "markFailed")]
  /\ UNCHANGED <<hasSender, todo, scanned, stale, jobID, job, restarts>>

MarkSent(m) ==
  /\ msg[m].pc = "markSent"
  /\ RecordSent(m)
  /\ msg' = [msg EXCEPT ![m] = At(@, "return")]
  /\ UNCHANGED <<hasSender, todo, scanned, stale, jobID, accepted, faults, restarts>>

\* Mutant: the handler enqueues a fresh task instead of returning the error.
EnqueuedAfresh(m) ==
  /\ msg[m].pc = "markSent"
  /\ Fault
  /\ msg' = [msg EXCEPT ![m] = Queued]
  /\ UNCHANGED <<hasSender, todo, scanned, stale, jobID, job, accepted, restarts>>

\* markJobSent's UPDATE reports an error, with or without having been applied;
\* the handler returns the error, so the whole task runs again.
MarkSentFails(m) ==
  /\ msg[m].pc = "markSent"
  /\ Fault
  /\ \/ UNCHANGED job
     \/ RecordSent(m)
  /\ msg' = [msg EXCEPT ![m] = Failed(@)]
  /\ UNCHANGED <<hasSender, todo, scanned, stale, jobID, accepted, restarts>>

\* Mutant: the send's error is recorded but not returned.
FailedButDone(m) ==
  /\ msg[m].pc = "markFailed"
  /\ \/ Smooth /\ RecordFailed(m)
     \/ Fault /\ UNCHANGED job
  /\ msg' = [msg EXCEPT ![m] = Completed(@)]
  /\ UNCHANGED <<hasSender, todo, scanned, stale, jobID, accepted, restarts>>

\* markJobFailed sets the status alone and swallows its own error; the handler
\* returns the send's error.
MarkFailed(m) ==
  /\ msg[m].pc = "markFailed"
  /\ \/ Smooth /\ RecordFailed(m)
     \/ Fault /\ UNCHANGED job
  /\ msg' = [msg EXCEPT ![m] = Failed(@)]
  /\ UNCHANGED <<hasSender, todo, scanned, stale, jobID, accepted, restarts>>

ReturnMessage(m) ==
  /\ msg[m].pc = "return"
  /\ msg' = [msg EXCEPT ![m] = Completed(@)]
  /\ UNCHANGED <<hasSender, todo, scanned, stale, jobID, job, accepted, faults, restarts>>

-----------------------------------------------------------------------------
(* The worker process as a whole.                                           *)

\* The process dies: every handler stops where it is.
Crash ==
  /\ Busy # {}
  /\ Fault
  /\ stale' = [t \in StaleTask |-> Orphaned(stale[t])]
  /\ msg' = [m \in MsgTask |-> Orphaned(msg[m])]
  /\ jobID' = [t \in StaleTask |-> NoJob]
  /\ UNCHANGED <<hasSender, todo, scanned, job, accepted, restarts>>

\* SIGTERM: main.go calls srv.Shutdown(), which puts back what does not finish.
Shutdown ==
  /\ Busy # {}
  /\ faults + restarts < MaxMishaps
  /\ restarts' = restarts + 1
  /\ stale' = [t \in StaleTask |-> Requeued(stale[t])]
  /\ msg' = [m \in MsgTask |-> Requeued(msg[m])]
  /\ jobID' = [t \in StaleTask |-> NoJob]
  /\ UNCHANGED <<hasSender, todo, scanned, job, accepted, faults>>

\* asynq's recoverer finds a task whose lease ran out.
RecoverStale(t) ==
  /\ stale[t].state = "orphaned"
  /\ stale' = [stale EXCEPT ![t] = Failed(@)]
  /\ UNCHANGED <<hasSender, todo, scanned, jobID, job, msg, accepted, faults, restarts>>

RecoverMessage(m) ==
  /\ msg[m].state = "orphaned"
  /\ msg' = [msg EXCEPT ![m] = Failed(@)]
  /\ UNCHANGED <<hasSender, todo, scanned, stale, jobID, job, accepted, faults, restarts>>

-----------------------------------------------------------------------------
StaleStep(t) ==
  \/ StartStale(t) \/ InsertJob(t) \/ InsertJobFails(t)
  \/ EnqueueWhatsApp(t) \/ EnqueueSMS(t) \/ ReturnStale(t) \/ RecoverStale(t)

MessageStep(m) ==
  \/ StartMessage(m) \/ SkipSend(m) \/ Send(m) \/ SendFails(m)
  \/ MarkSent(m) \/ MarkSentFails(m) \/ MarkFailed(m) \/ ReturnMessage(m)
  \/ RecoverMessage(m)

Next ==
  \/ \E r \in Scan : FindStale(r) \/ AbandonScan(r)
  \/ \E r \in Scan, p \in Property : EnqueueStale(r, p)
  \/ \E t \in StaleTask : StaleStep(t)
  \/ \E m \in MsgTask : MessageStep(m)
  \/ Crash
  \/ Shutdown

Spec == Init /\ [][Next]_vars

\* The worker runs (docker restarts it), so asynq hands out and recovers tasks
\* and a handler that runs takes its next step; the request loop goes on.
\* Nothing is assumed of requests, faults or shutdowns.
Fairness ==
  /\ \A r \in Scan, p \in Property : WF_vars(EnqueueStale(r, p))
  /\ \A t \in StaleTask : WF_vars(StaleStep(t))
  /\ \A m \in MsgTask : WF_vars(MessageStep(m))

FairSpec == Spec /\ Fairness

-----------------------------------------------------------------------------
(* Properties.                                                              *)

\* A row with a Twilio sid, and so any row that says SENT, stands for a message
\* Twilio accepted on that channel: markJobSent never runs ahead of the send.
SentWasAccepted ==
  \A j \in JobId :
    /\ job[j].status = "SENT" => job[j].sid \in Channel
    /\ job[j].sid \in Channel => accepted[<<j, job[j].sid>>] > 0

\* The update of a row by a message task never misses: HandleStale enqueues only
\* after its INSERT, and a handler that starts over works on a row of its own.
MessageHasRow ==
  \A m \in MsgTask : Exists(msg[m]) => job[m[1]] # NoRow

\* Duplicates are bounded: whatever crashes, lost answers and failed updates make
\* a message task send again, an owner is messaged at most MaxRetry + 1 times per
\* row and channel, plus once for every graceful shutdown of the worker.
SendsBounded ==
  \A m \in MsgTask : accepted[m] <= MaxRetry + 1 + restarts

\* The rows that the attempts of a reminder have left.
RowsOf(t) == {j \in JobId : job[j].from = t}

\* The INSERT at the head of HandleStale is repeated by every retry, so that a
\* reminder can leave several rows, but no more than its task has had attempts.
RowsBounded ==
  \A t \in StaleTask : Cardinality(RowsOf(t)) <= stale[t].retried + 1 + restarts

\* With Twilio configured, a row all of whose message tasks have completed says
\* SENT: a failure recorded by one channel, or by an earlier attempt, is always
\* overwritten by the last task to complete, and no row is forgotten in PENDING.
CompletedSaysSent ==
  \A j \in JobId :
    LET tasks == {c \in Channel : Exists(msg[<<j, c>>])}
    IN  hasSender /\ tasks # {} /\ (\A c \in tasks : msg[<<j, c>>].state = "done")
        => job[j].status = "SENT"

\* What GET /api/notifications promises about a row: see JobLedger.
Ledger == INSTANCE JobLedger WITH
  row <- [j \in JobId |-> [status |-> job[j].status, sid |-> job[j].sid]]

LedgerSpec == Ledger!Spec

\* No task is lost or served for ever: a reminder or a message that reached the
\* queue is completed or archived, whatever fails on the way.
EveryTaskFinishes ==
  /\ \A t \in StaleTask : Exists(stale[t]) ~> Finished(stale[t])
  /\ \A m \in MsgTask : Exists(msg[m]) ~> Finished(msg[m])

\* Up to MaxRetry failures are invisible in the end: with Twilio configured, a row
\* for which a message task was enqueued eventually says SENT, and goes on saying so.
RetriesMaskFaults ==
  \A m \in MsgTask :
    hasSender /\ Exists(msg[m]) ~> (faults > MaxRetry \/ [](job[m[1]].status = "SENT"))

\* Without Twilio credentials every message task marks its row FAILED for good, as
\* the worker's start-up message says (cmd/worker/main.go:58), if no call fails.
UnconfiguredSaysFailed ==
  \A m \in MsgTask :
    ~hasSender /\ Exists(msg[m]) ~> (faults > 0 \/ [](job[m[1]].status = "FAILED"))

-----------------------------------------------------------------------------
(* The inductive invariant behind SentWasAccepted, MessageHasRow,           *)
(* SendsBounded, CompletedSaysSent and RowsBounded.                         *)

\* A handler has a place exactly while its task is active.
Activity ==
  /\ \A t \in StaleTask : stale[t].pc # "idle" <=> stale[t].state = "active"
  /\ \A m \in MsgTask : msg[m].pc # "idle" <=> msg[m].state = "active"

\* Between its INSERT and its return, a run of HandleStale works on a row that
\* exists, that no other run works on, and whose channels still ahead of it have
\* no message task yet.
OwnRow ==
  LET PastInsert == {t \in StaleTask : stale[t].pc \in {"WhatsApp", "SMS", "return"}}
  IN  /\ \A t \in PastInsert : jobID[t] \in JobId /\ job[jobID[t]] # NoRow
      /\ \A t, u \in PastInsert : jobID[t] = jobID[u] => t = u
      /\ \A t \in PastInsert :
           /\ stale[t].pc = "WhatsApp" => ~Exists(msg[<<jobID[t], "WhatsApp">>])
           /\ stale[t].pc \in {"WhatsApp", "SMS"} => ~Exists(msg[<<jobID[t], "SMS">>])

\* A send is paid for by the attempt that makes it.
SendsPaid ==
  \A m \in MsgTask :
    /\ msg[m].state = "none" => accepted[m] = 0
    /\ msg[m].state = "queued" \/ msg[m].pc = "send"
         => accepted[m] <= msg[m].retried + restarts
    /\ accepted[m] <= msg[m].retried + restarts + 1
    /\ msg[m].pc = "markSent" => accepted[m] > 0

\* The task has recorded its outcome for good.
Recorded(m) == msg[m].state = "done" \/ msg[m].pc = "return"

\* A row that says FAILED still has a task that may correct it, or was given up.
VerdictOpen ==
  hasSender =>
    /\ \A m \in MsgTask : Recorded(m) => job[m[1]].status \in {"SENT", "FAILED"}
    /\ \A j \in JobId :
         job[j].status = "FAILED" =>
           \E c \in Channel : Exists(msg[<<j, c>>]) /\ ~Recorded(<<j, c>>)

\* A listing that a request still has to enqueue, or has yet to find, has no
\* reminder from it: each reminder is enqueued at most once.
Awaited ==
  /\ \A r \in Scan : todo[r] # {} => r \in scanned
  /\ \A r \in Scan, p \in Property :
       r \notin scanned \/ p \in todo[r] => ~Exists(stale[<<r, p>>])

\* A row is paid for by the attempt that inserts it.  There are never infinitely
\* many, however many ids there are.
RowsPaid ==
  \A t \in StaleTask :
    /\ IsFiniteSet(RowsOf(t))
    /\ ~Exists(stale[t]) => RowsOf(t) = {}
    /\ stale[t].state = "queued" \/ stale[t].pc = "insert"
         => Cardinality(RowsOf(t)) <= stale[t].retried + restarts
    /\ Cardinality(RowsOf(t)) <= stale[t].retried + restarts + 1

IInv ==
  /\ Activity /\ OwnRow /\ MessageHasRow /\ SendsPaid /\ SentWasAccepted /\ VerdictOpen
==============================================================================
