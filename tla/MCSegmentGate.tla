--------------------------- MODULE MCSegmentGate ---------------------------
(* Two requests and a playlist long enough to seek past what is near.      *)
EXTENDS SegmentGate, TLC

CONSTANTS r1, r2
MCRequests == {r1, r2}
Interchangeable == Permutations(MCRequests)
=============================================================================
