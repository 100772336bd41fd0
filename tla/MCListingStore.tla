--------------------------- MODULE MCListingStore ---------------------------
(* Instances of ListingStore for the model checker.                         *)
EXTENDS ListingStore, TLC

CONSTANTS p1, p2, f1, r1, r2, none

TwoListings == {p1, p2}
OnePhoto == {f1}
TwoRequests == {r1, r2}
=============================================================================
