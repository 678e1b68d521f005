------------------------- MODULE MCScoreSubmission -------------------------
(***************************************************************************)
(* A run within the limits and one that is faster than the rules allow.    *)
(***************************************************************************)
EXTENDS ScoreSubmission, TLC

CONSTANTS p1, p2, n1, n2, n3, n4, s1, s2

HonestRun == [matches |-> 20, durationMs |-> 60000]
FastRun   == [matches |-> 46, durationMs |-> 60000]
MCRuns    == {HonestRun, FastRun}
OneRun    == {HonestRun}

ScoreSymmetry == Permutations(Nonces) \cup Permutations(Slots)
=============================================================================
