\* Two requests on one photo and two listings; any three failures, so that every attempt of a
\* task may crash after its scan's result was lost.
SPECIFICATION FairSpec
CONSTANTS
  p1 = p1
  p2 = p2
  f1 = f1
  r1 = r1
  r2 = r2
  none = none
  None = none
  Listing <- TwoListings
  Photo <- OnePhoto
  Request <- TwoRequests
  MaxRetry = 1
  MaxMishaps = 3
INVARIANTS
  TypeOK
  ResultHasConfirmedPhoto
  UnreadableOnlyAfterLoss
PROPERTIES
  TextIsKept
  ScanLeavesResult
\* Everything may have been done: every request answered, every task completed.
CHECK_DEADLOCK FALSE
