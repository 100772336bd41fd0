--------------------------- MODULE MCStaleReminder ---------------------------
(* Instances of StaleReminder for the model checker.                        *)
EXTENDS StaleReminder, TLC

CONSTANTS j1, j2, j3, noJob

Rows2 == {j1, j2}
Rows3 == {j1, j2, j3}

BothChannels == Channel

RowSymmetry2 == Permutations(Rows2)
RowSymmetry3 == Permutations(Rows3)
==============================================================================
