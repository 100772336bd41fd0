\* Two clients of one account, two requests at a time, three pairs, one failure; the clock stands still.
SPECIFICATION Spec
CONSTANTS
  u1 = u1
  c1 = c1
  c2 = c2
  r1 = r1
  r2 = r2
  k1 = k1
  k2 = k2
  k3 = k3
  none = none
  None = none
  User <- OneUser
  Client <- TwoClients
  Request <- TwoAtATime
  Token <- ThreePairs
  AccessTTL = 1
  RefreshTTL = 1
  MaxTime = 0
  MaxMishaps = 1
SYMMETRY Symmetry
INVARIANTS
  TypeOK
  RotatedIsRefused
  OneTokenPerSignIn
  SessionSurvives
\* The bounds stop it: no pair is left to issue and the clock has run out.
CHECK_DEADLOCK FALSE
