------------------------------- MODULE MCAppMap -------------------------------
(* Instances of AppMap for the model checker.                               *)
EXTENDS AppMap, TLC

CONSTANTS t1, t2, r1, r2, c1, c2, c3, none

TwoTokens == {t1, t2}
TwoRegions == {r1, r2}
ThreeAtATime == {c1, c2, c3}

Symmetry == Permutations(TwoTokens) \union Permutations(TwoRegions) \union Permutations(ThreeAtATime)
=============================================================================
