\* One reminder on both channels; any two failures, crashes or shutdowns.
SPECIFICATION Spec
CONSTANTS
  j1 = j1
  j2 = j2
  j3 = j3
  noJob = noJob
  JobId <- Rows2
  NoJob = noJob
  Scan = {"r1"}
  Property = {"p1"}
  Contactable = {"p1"}
  ChannelsOn <- BothChannels
  Concurrency = 2
  MaxRetry = 1
  MaxMishaps = 2
SYMMETRY RowSymmetry2
INVARIANTS
  TypeOK
  SentWasAccepted
  MessageHasRow
  SendsBounded
  RowsBounded
  CompletedSaysSent
PROPERTY
  LedgerSpec
\* Everything may have been done: every task completed or archived.
CHECK_DEADLOCK FALSE
