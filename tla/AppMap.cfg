\* Two regions, three requests at a time, tokens that expire, and restarts.
SPECIFICATION Spec
CONSTANTS
  t1 = t1
  t2 = t2
  r1 = r1
  r2 = r2
  c1 = c1
  c2 = c2
  c3 = c3
  none = none
  None = none
  Token <- TwoTokens
  Region <- TwoRegions
  Call <- ThreeAtATime
SYMMETRY Symmetry
INVARIANTS
  TypeOK
  OneSession
  MapSettles
