---------------------------- MODULE EncoderSlot ----------------------------
(***************************************************************************)
(* What a session's HLS runtime looks like to the session Manager: it has  *)
(* an encoder or it has not, and once torn down it never has one again.    *)
(* PlaybackSessions keeps one of these per session; HlsRuntime implements  *)
(* it.                                                                     *)
(***************************************************************************)
VARIABLE slot

Init == slot = "stopped"

Launch   == slot = "stopped" /\ slot' = "running"
Exits    == slot = "running" /\ slot' = "stopped"
Teardown == slot # "torn" /\ slot' = "torn"

Next == Launch \/ Exits \/ Teardown

Spec == Init /\ [][Next]_slot
=============================================================================
