---------------------------- MODULE MCHlsRuntime ----------------------------
(* Requests for segment 0 and for one a job from the top will not produce  *)
(* soon, against every kind of runtime; a third start would repeat these.  *)
EXTENDS HlsRuntime

CONSTANTS r1, r2, p1, p2

MCRequests == {r1, r2}
=============================================================================
