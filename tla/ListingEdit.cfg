\* One listing, edited by an admin or a broker; others save or delete it, calls get lost.
SPECIFICATION MCSpec
CONSTANTS
  k1 = k1
  l1 = l1
  t1 = t1
  t2 = t2
  none = none
  garbage = garbage
  nowhere = nowhere
  Contact <- OneContact
  Price <- TwoPrices
  Area <- OneArea
  Place <- OnePlace
  Tag <- TwoTags
  Default <- t1
  None = none
  Garbage = garbage
  Nowhere = nowhere
  MaxEvents = 3
INVARIANTS
  TypeOK
  RowIsValid
PROPERTIES
  UntouchedIsKept
  OwnerIsEntered
\* The bound on the events stops it.
CHECK_DEADLOCK FALSE
