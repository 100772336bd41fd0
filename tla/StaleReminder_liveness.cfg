\* More failures than retries, and the worker's goroutines all in use.
SPECIFICATION FairSpec
CONSTANTS
  j1 = j1
  j2 = j2
  j3 = j3
  noJob = noJob
  JobId <- Rows3
  NoJob = noJob
  Scan = {"r1"}
  Property = {"p1"}
  Contactable = {"p1"}
  ChannelsOn <- BothChannels
  Concurrency = 1
  MaxRetry = 1
  MaxMishaps = 2
PROPERTIES
  EveryTaskFinishes
  RetriesMaskFaults
  UnconfiguredSaysFailed
\* Everything may have been done: every task completed or archived.
CHECK_DEADLOCK FALSE
