----------------------------- MODULE MCRateLimit -----------------------------
(* An instance of RateLimit for the model checker.                          *)
EXTENDS RateLimit, TLC

CONSTANTS r1, r2

TwoAtATime == {r1, r2}
Symmetry == Permutations(TwoAtATime)
=============================================================================
