----------------------------- MODULE MCSessions ------------------------------
(* Instances of Sessions for the model checker.                             *)
EXTENDS Sessions, TLC

CONSTANTS u1, c1, c2, r1, r2, k1, k2, k3, none

OneUser == {u1}
OneClient == {c1}
TwoClients == {c1, c2}
TwoAtATime == {r1, r2}
OnePair == {k1}
ThreePairs == {k1, k2, k3}

Symmetry ==
  Permutations(TwoClients) \union Permutations(TwoAtATime) \union Permutations(ThreePairs)
=============================================================================
