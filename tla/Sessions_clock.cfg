\* One client and its JWT, while the clock runs; two requests at a time, one failure.
SPECIFICATION Spec
CONSTANTS
  u1 = u1
  c1 = c1
  c2 = c2
  r1 = r1
  r2 = r2
  k1 = k1
  k2 = k2
  k3 = k3
  none = none
  None = none
  User <- OneUser
  Client <- OneClient
  Request <- TwoAtATime
  Token <- OnePair
  AccessTTL = 2
  RefreshTTL = 3
  MaxTime = 4
  MaxMishaps = 1
INVARIANT
  LoggedOutIsRefused
\* The bounds stop it: no pair is left to issue and the clock has run out.
CHECK_DEADLOCK FALSE
