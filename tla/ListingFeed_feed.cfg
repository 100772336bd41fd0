\* Two requests at a time, three listings, a page of one.
SPECIFICATION FairFeedSpec
CONSTANTS
  MaxListing = 3
  Filters <- TwoFilters
  Admits <- AdmitsParity
  NoFilter = "all"
  PageSize = 1
  FetchId = {"c1", "c2"}
  MaxChanges = 1
INVARIANTS
  FeedTypeOK
  FeedIsPrefix
PROPERTY
  SpinnersStop
