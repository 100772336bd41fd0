---------------------------- MODULE MCListingForm ----------------------------
(* Instances of ListingForm for the model checker.                          *)
EXTENDS ListingForm, TLC

CONSTANTS p1, p2, f1, f2, c1, c2, none

TwoListings == {p1, p2}
TwoFiles == {f1, f2}
TwoAtATime == {c1, c2}

Symmetry == Permutations(TwoListings) \union Permutations(TwoFiles) \union Permutations(TwoAtATime)
=============================================================================
