\* A limit of two in a window of three ticks, two requests at a time, one failure of
\* Redis; the clock runs long enough for the key of a first request to expire.
SPECIFICATION Spec
CONSTANTS
  r1 = r1
  r2 = r2
  Request <- TwoAtATime
  Limit = 2
  Window = 3
  MaxTime = 4
  MaxErrors = 1
SYMMETRY Symmetry
INVARIANTS
  TypeOK
  WindowBound
  RefusedHasReason
