------------------------- MODULE MCSessionObserver -------------------------
(* Two Users, one session each at most, and a row.                         *)
EXTENDS SessionObserver

CONSTANTS s1, s2, u1, u2, t1
=============================================================================
