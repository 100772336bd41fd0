------------------------------ MODULE JobLedger ------------------------------
(***************************************************************************)
(* What the notification_jobs table promises to its readers, whatever       *)
(* queues, retries and crashes lie behind it (models/notification.go,       *)
(* services/notification.go): a row is opened as PENDING and never returns  *)
(* to it, messages go out only for an opened row, SENT is recorded only     *)
(* with the sid of a message that was accepted, and a sid, once recorded,   *)
(* is never cleared, not even by FAILED.                                    *)
(***************************************************************************)
EXTENDS Naturals

CONSTANTS JobId, Channel

VARIABLES row, accepted

ledger == <<row, accepted>>

Init ==
  /\ row = [j \in JobId |-> [status |-> "none", sid |-> "none"]]
  /\ accepted = [m \in JobId \X Channel |-> 0]

Open(j) ==
  /\ row[j].status = "none"
  /\ row' = [row EXCEPT ![j] = [status |-> "PENDING", sid |-> "none"]]
  /\ UNCHANGED accepted

Accept(j, c) ==
  /\ row[j].status # "none"
  /\ accepted' = [accepted EXCEPT ![<<j, c>>] = @ + 1]
  /\ UNCHANGED row

RecordSent(j, c) ==
  /\ row[j].status # "none"
  /\ accepted[<<j, c>>] > 0
  /\ row' = [row EXCEPT ![j] = [status |-> "SENT", sid |-> c]]
  /\ UNCHANGED accepted

RecordFailed(j) ==
  /\ row[j].status # "none"
  /\ row' = [row EXCEPT ![j].status = "FAILED"]
  /\ UNCHANGED accepted

Next ==
  \E j \in JobId :
    \/ Open(j) \/ RecordFailed(j)
    \/ \E c \in Channel : Accept(j, c) \/ RecordSent(j, c)

Spec == Init /\ [][Next]_ledger
==============================================================================
