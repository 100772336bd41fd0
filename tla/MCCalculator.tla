---------------------------- MODULE MCCalculator -----------------------------
(* An instance of Calculator for the model checker.                         *)
EXTENDS Calculator, TLC

CONSTANTS r1, r2, none, malformed

\* Paise and tenths of a percent at which the total and the shares fall between two paise.
Amounts == {0, 75, 100050}
Rates == {20, 25}
Splits == {<<50, 50>>, <<33, 67>>, <<0, 100>>, <<60, 41>>, none, malformed}
TwoAtATime == {r1, r2}
Symmetry == Permutations(TwoAtATime)
=============================================================================
