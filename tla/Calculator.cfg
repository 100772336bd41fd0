\* Amounts around half a paisa, good and bad splits; five changes, two calculations at a time.
SPECIFICATION Spec
CONSTANTS
  r1 = r1
  r2 = r2
  none = none
  malformed = malformed
  None = none
  Malformed = malformed
  Amount <- Amounts
  Rate <- Rates
  Split <- Splits
  Request <- TwoAtATime
  MaxChanges = 5
SYMMETRY Symmetry
INVARIANTS
  TypeOK
  SplitsAddUp
  ShowsCurrent
\* The bound on the changes stops it.
CHECK_DEADLOCK FALSE
