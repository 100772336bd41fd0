\* Two listings, two photos, two coroutines at a time, one failed call.
SPECIFICATION Spec
CONSTANTS
  p1 = p1
  p2 = p2
  f1 = f1
  f2 = f2
  c1 = c1
  c2 = c2
  none = none
  None = none
  Listing <- TwoListings
  File <- TwoFiles
  Call <- TwoAtATime
  MaxPhotos = 2
  MaxLoads = 1
  MaxMishaps = 1
SYMMETRY Symmetry
INVARIANTS
  TypeOK
  OneListingPerForm
  ConfirmedIsStored
  SubmittingAwaits
