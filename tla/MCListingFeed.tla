---------------------------- MODULE MCListingFeed ----------------------------
(* Instances of ListingFeed for the model checker.                          *)
EXTENDS ListingFeed

\* "all" sets no filter; "odd" lets through every other listing.
TwoFilters == {"all", "odd"}
AdmitsParity(f) == {p \in 1 .. MaxListing : f = "all" \/ p % 2 = 1}
=============================================================================
