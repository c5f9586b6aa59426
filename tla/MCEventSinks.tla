---------------------------- MODULE MCEventSinks ----------------------------
(* One sink: a queue of two and three events, so that it overflows while   *)
(* its worker is not there yet, and two saves, so that a worker replaces   *)
(* another under way; a buffer and a backlog of one, so that both lose     *)
(* events.                                                                 *)
EXTENDS EventBroker

CONSTANTS hook, w1, w2
=============================================================================
