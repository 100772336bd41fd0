\* Does the list end where the listings end?
SPECIFICATION FeedSpec
CONSTANTS
  MaxListing = 3
  Filters <- TwoFilters
  Admits <- AdmitsParity
  NoFilter = "all"
  PageSize = 1
  FetchId = {"c1", "c2"}
  MaxChanges = 1
INVARIANT
  ScrollReachesTheEnd
