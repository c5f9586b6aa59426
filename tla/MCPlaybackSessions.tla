------------------------- MODULE MCPlaybackSessions -------------------------
(* Two Users, one limited to a single stream and one uncapped; a video     *)
(* encode or a relayed transcode to choose from; a cap of one slot that an *)
(* Online item's encode competes for; a sharer that opens two sessions at  *)
(* most, and has at most one stream counted at a time.                     *)
EXTENDS Relay, TLC

CONSTANTS s1, s2, guest, owner, phone, online

Encode  == [tier |-> "transcode", videoCopy |-> FALSE, audioOnly |-> FALSE, relay |-> FALSE]
Relayed == [Encode EXCEPT !.relay = TRUE]

MCSessionIds == {s1, s2}
MCDecisions  == {Encode, Relayed}
MCMaxStreams == [u \in Users |-> IF u = guest THEN 1 ELSE 0]

Interchangeable == Permutations(MCSessionIds)
=============================================================================
