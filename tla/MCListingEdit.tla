---------------------------- MODULE MCListingEdit ----------------------------
(* Instances of ListingEdit for the model checker.                          *)
EXTENDS ListingEdit, TLC

CONSTANTS k1, l1, t1, t2, none, garbage, nowhere

OneContact == {k1}
\* 0.004, which is stored as 0; 0.604, which is shown as 1; 0.404, which is shown as 0.
TwoPrices == {4, 604}
OneArea == {404}
OnePlace == {l1}
TwoTags == {t1, t2}
\* Which rows the run begins with: the tags are not those of a fresh form, and whose row it
\* is matters for a broker only.
MCInit ==
  /\ Init
  /\ row # None => row.val["tags"] # Default /\ (role = "SUPER_ADMIN" => row.own)
MCSpec == MCInit /\ [][Next]_vars

=============================================================================
