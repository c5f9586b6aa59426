------------------------------- MODULE Relay -------------------------------
(***************************************************************************)
(* The one-hop relay (internal/playback/relay.go, internal/link/relay.go): *)
(* playing a Title of another household's Server, the sharer.  A           *)
(* negotiation asks the sharer to open a session, then opens one here that *)
(* wraps it; media requests are carried through; when the session here     *)
(* ends, the observer has the sharer end its own.                          *)
(*                                                                         *)
(* The Manager here is PlaybackSessions, unchanged: a step of it is a step *)
(* of this module.  The sharer runs the same program; it sees every viewer *)
(* of this household as one `remote` User on one Device, and of its        *)
(* Manager only the stream limit, the swap, the grace period and the       *)
(* reaper are kept.  Requests between the two may be lost, and so may      *)
(* their answers.  The idle timeout is the same on both sides.             *)
(***************************************************************************)
EXTENDS PlaybackSessions

CONSTANTS MaxOpens,       \* bound: sessions the sharer ever opens
          SharerStreams,  \* the stream limit of its `remote` User; 0 is uncapped
          None            \* no negotiation, no session there, nobody

Remotes == 1..MaxOpens    \* the sharer's session ids

VARIABLES
    asking,     \* each relay negotiation under way, by the id it will mint
    remote,     \* Session.RemoteSessionID
    relayEnds,  \* end calls of the observer under way
    there,      \* the sharer's sessions, and how they left
    raw,        \* those of them that play the File as it is (directPlay)
    unfetched,  \* those of them no media request reached for an idle timeout
    excused,    \* those of them whose answer or end was lost on the way
    swapped     \* history: the viewer whose negotiation replaced a session

sharer == <<there, raw, unfetched, excused, swapped>>
relay  == <<asking, remote, relayEnds, sharer>>
relayVars == <<vars, relay>>

\* The sessions in the sharer's map.
Up == {x \in Remotes : there[x] \in {"live", "replaced"}}

Negotiations ==
    [stage : {"asking", "answered", "retrying", "refusing"},
     user : Users, device : Devices, replaces : SessionIds \cup {NoSession},
     theirs : Remotes \cup {None}, holds : Remotes \cup {None},
     raw : BOOLEAN, again : BOOLEAN]

ASSUME RelayConstants ==
    MaxOpens \in Nat /\ SharerStreams \in Nat /\ None \notin Remotes \cup Negotiations

RelayTypeOK ==
    /\ asking \in [SessionIds -> Negotiations \cup {None}]
    /\ remote \in [SessionIds -> Remotes \cup {None}]
    /\ relayEnds \subseteq Remotes
    /\ there \in [Remotes -> {"new", "live", "replaced", "ended", "gone", "cutOff"}]
    /\ raw \subseteq Up /\ unfetched \subseteq Up /\ excused \subseteq Up
    /\ swapped \in [Remotes -> (Users \X Devices) \cup {None}]

RelayInit ==
    /\ Init
    /\ asking = [id \in SessionIds |-> None]
    /\ remote = [id \in SessionIds |-> None]
    /\ relayEnds = {}
    /\ there = [x \in Remotes |-> "new"]
    /\ raw = {} /\ unfetched = {} /\ excused = {}
    /\ swapped = [x \in Remotes |-> None]

\* The negotiation id is under way and has got to a stage.
At(id, stage) == asking[id] # None /\ asking[id].stage = stage

\* Sessions of S leave the sharer's map.
Leave(S, how) ==
    /\ there' = [x \in Remotes |-> IF x \in S \cap Up THEN how ELSE there[x]]
    /\ raw' = raw \ S /\ unfetched' = unfetched \ S /\ excused' = excused \ S

\* A DELETE to the sharer, best effort: no origin may take it.
Delete(x) == \/ Leave({x}, "ended")
             \/ excused' = excused \cup ({x} \cap Up) /\ UNCHANGED <<there, raw, unfetched>>

-----------------------------------------------------------------------------
(* negotiateRelay.                                                         *)

\* Mutant of TheirsOf: whatever session the client names is passed on.
TheirsOfAnyone(u, dev, r) == IF r \in live THEN remote[r] ELSE None

\* ReplaceableSession: the sharer's id of the caller's own session, if it has one.
TheirsOf(u, dev, r) == IF Target(u, dev, r) # {} THEN remote[r] ELSE None

\* The stream limit is asked first.  Should the session to be replaced leave
\* between this look at the Manager and the next, the sharer is told of none: Open
\* allows for that, and the two looks are one step.
Negotiate(id, u, dev, r) ==
    /\ id \notin minted /\ asking[id] = None
    /\ WithinLimit(u, Target(u, dev, r))
    /\ asking' = [asking EXCEPT ![id] =
          [stage |-> "asking", user |-> u, device |-> dev, replaces |-> r,
           theirs |-> TheirsOf(u, dev, r), holds |-> None,
           raw |-> FALSE, again |-> FALSE]]
    /\ UNCHANGED <<vars, remote, relayEnds, sharer>>

\* The sharer's session a request may replace: never one already replaced.
Replaceable(x) == {y \in Remotes : y = x /\ there[y] = "live"}

\* The POST reaches the sharer, which opens its next session.  A sharer
\* without step-down is not told what is replaced.  The answer arrives, or is
\* lost, and the walk over the Link's origins may ask again.
Open(id, x) ==
    /\ At(id, "asking")
    /\ there[x] = "new" /\ \A y \in Remotes : there[y] = "new" => x <= y
    /\ \E sent \in {asking[id].theirs, None} :
          /\ SharerStreams > 0 =>
                Cardinality({y \in Remotes : there[y] = "live"} \ Replaceable(sent)) < SharerStreams
          /\ there' = [y \in Remotes |-> IF y = x THEN "live"
                                         ELSE IF y \in Replaceable(sent) THEN "replaced"
                                         ELSE there[y]]
          /\ swapped' = [y \in Remotes |-> IF y \in Replaceable(sent)
                                           THEN <<asking[id].user, asking[id].device>>
                                           ELSE swapped[y]]
    /\ raw' \in {raw, raw \cup {x}}
    /\ \/ /\ asking' = [asking EXCEPT ![id].stage = "answered", ![id].holds = x,
                                      ![id].raw = x \in raw']
          /\ UNCHANGED excused
       \/ excused' = excused \cup {x} /\ UNCHANGED asking
    /\ UNCHANGED <<vars, remote, relayEnds, unfetched>>

\* The sharer refuses, or no origin answers, or the credential is dead.
GiveUp(id) ==
    /\ At(id, "asking")
    /\ asking' = [asking EXCEPT ![id] = None]
    /\ UNCHANGED <<vars, remote, relayEnds, sharer>>

\* enforceHiddenTrackCeiling: the File holds a track above the User's ceiling and
\* would be played as it is.  That session is ended, and the sharer asked once
\* more, for a remux, or the play is refused.
HiddenTrack(id) ==
    /\ At(id, "answered") /\ asking[id].raw
    /\ \E next \in {"retrying", "refusing"} :
          /\ asking[id].again => next = "refusing"
          /\ asking' = [asking EXCEPT ![id].stage = next]
    /\ UNCHANGED <<vars, remote, relayEnds, sharer>>

\* endRemoteSession, then what it was called for.
EndHeld(id) ==
    /\ At(id, "retrying") \/ At(id, "refusing")
    /\ Delete(asking[id].holds)
    /\ asking' = [asking EXCEPT ![id] =
          IF @.stage = "retrying"
          THEN [@ EXCEPT !.stage = "asking", !.holds = None, !.again = TRUE] ELSE None]
    /\ UNCHANGED <<vars, remote, relayEnds, swapped>>

\* An answer that stands; to the second, a direct play is none.
Stands(id) == At(id, "answered") /\ ~(asking[id].again /\ asking[id].raw)

\* CreateGoverned wraps the sharer's session ...
CreateRelay(id, d) ==
    /\ Stands(id) /\ d.relay
    /\ CreateGoverned(id, asking[id].user, asking[id].device, d, asking[id].replaces)
    /\ remote' = [remote EXCEPT ![id] = asking[id].holds]
    /\ asking' = [asking EXCEPT ![id] = None]
    /\ UNCHANGED <<relayEnds, sharer>>

\* Mutant of RefuseRelay: the sharer's session is left to itself.
RefuseRelayForgetting(id) ==
    /\ Stands(id)
    /\ ~WithinLimit(asking[id].user, Target(asking[id].user, asking[id].device, asking[id].replaces))
    /\ asking' = [asking EXCEPT ![id] = None]
    /\ UNCHANGED <<vars, remote, relayEnds, sharer>>

\* ... or refuses: the User has got to the limit while the sharer was asked.
RefuseRelay(id) ==
    /\ Stands(id)
    /\ ~WithinLimit(asking[id].user, Target(asking[id].user, asking[id].device, asking[id].replaces))
    /\ asking' = [asking EXCEPT ![id].stage = "refusing"]
    /\ UNCHANGED <<vars, remote, relayEnds, sharer>>

-----------------------------------------------------------------------------
(* The life of a relay session here.                                       *)

Relays(id) == remote[id] # None

\* Neither a media request nor a progress report for an idle timeout.
FallQuiet(id) ==
    /\ Relays(id) /\ remote[id] \in Up => remote[id] \in unfetched
    /\ FallSilent(id)
    /\ UNCHANGED relay

\* serveRelayMedia: whatever the sharer answers, the session here is touched.  The
\* sharer touches its own for a playlist or a segment, not for the File.
Fetch(id) ==
    /\ id \in live /\ Relays(id)
    /\ IF id \in idle THEN Touch(id) ELSE UNCHANGED vars
    /\ unfetched' = unfetched \ {remote[id]}
    /\ UNCHANGED <<asking, remote, relayEnds, there, raw, excused, swapped>>

\* The observer of an end starts the call to the sharer.
AnnounceEnd(id) ==
    /\ Announce(id)
    /\ relayEnds' = IF Relays(id) THEN relayEnds \cup {remote[id]} ELSE relayEnds
    /\ UNCHANGED <<asking, remote, sharer>>

RelayEndSession(x) ==
    /\ x \in relayEnds
    /\ relayEnds' = relayEnds \ {x}
    /\ Delete(x)
    /\ UNCHANGED <<vars, asking, remote, swapped>>

\* The Manager's other steps.
ManagerStep ==
    /\ \/ \E id \in SessionIds, u \in Users, dev \in Devices, d \in Decisions :
             /\ asking[id] = None /\ ~d.relay
             /\ \E r \in live \cup {NoSession} : CreateGoverned(id, u, dev, d, r)
       \/ \E id \in SessionIds : \/ End(id) \/ GraceElapses(id) \/ GraceEnds(id)
                                 \/ Touch(id) \/ Launch(id) \/ JobExits(id) \/ Teardown(id)
       \/ Reap \/ EndAll
       \/ \E r \in Reservations : ReserveTranscode(r) \/ ReleaseReservation(r)
    /\ UNCHANGED relay

-----------------------------------------------------------------------------
(* The sharer.                                                             *)

\* An idle timeout passes without a media request for x.
Unfetched(x) ==
    /\ x \in Up \ unfetched
    /\ unfetched' = unfetched \cup {x}
    /\ UNCHANGED <<vars, asking, remote, relayEnds, there, raw, excused, swapped>>

\* Its reaper.  handleSessionStream touches nothing: a session that plays the File
\* as it is times out an idle timeout after it opened, fetched from or not.
SharerReaps(x) ==
    /\ x \in unfetched \cup raw
    /\ Leave({x}, IF x \in unfetched THEN "gone" ELSE "cutOff")
    /\ UNCHANGED <<vars, asking, remote, relayEnds, swapped>>

GraceEndsThere(x) ==
    /\ there[x] = "replaced" /\ Leave({x}, "ended")
    /\ UNCHANGED <<vars, asking, remote, relayEnds, swapped>>

\* Its sessions are in memory.
SharerRestarts ==
    /\ Up # {} /\ Leave(Up, "gone")
    /\ UNCHANGED <<vars, asking, remote, relayEnds, swapped>>

RelayNext ==
    \/ ManagerStep
    \/ \E id \in SessionIds :
          \/ \E u \in Users, dev \in Devices, r \in live \cup {NoSession} : Negotiate(id, u, dev, r)
          \/ \E x \in Remotes : Open(id, x)
          \/ GiveUp(id) \/ HiddenTrack(id) \/ EndHeld(id) \/ RefuseRelay(id)
          \/ \E d \in Decisions : CreateRelay(id, d)
          \/ FallQuiet(id) \/ Fetch(id) \/ AnnounceEnd(id)
    \/ \E x \in Remotes :
          \/ RelayEndSession(x) \/ Unfetched(x) \/ SharerReaps(x)
          \/ GraceEndsThere(x)
    \/ SharerRestarts

RelaySpec == RelayInit /\ [][RelayNext]_relayVars

\* What the Server does by itself: finish a call, fire a timer, reap.
Works ==
    \/ \E id \in SessionIds : AnnounceEnd(id)
    \/ /\ Reap \/ \E id \in SessionIds : GraceElapses(id) \/ GraceEnds(id) \/ Teardown(id)
       /\ UNCHANGED relay

(***************************************************************************)
(* A started call runs to its end, a timer fires and the reaper's ticker   *)
(* never stops: some such step is always taken, and each brings a session  *)
(* nearer to its end.  Nothing makes a client stop, fetch or negotiate,    *)
(* and nothing makes a call to the sharer arrive.                          *)
(***************************************************************************)
FairSpec == RelaySpec /\ WF_relayVars(Works)

-----------------------------------------------------------------------------
Held(x)    == \E id \in SessionIds : asking[id] # None /\ asking[id].holds = x
Wrapped(x) == \E id \in live \cup tearing \cup announcing : remote[id] = x

(* A session that plays on at the sharer belongs to a negotiation under    *)
(* way, to a session here, or to an end call that is coming - but for an   *)
(* answer or an end that was lost: a refusal, a re-ask, a replacement, the *)
(* reaper or shutdown leaves no stream and no transcode running on         *)
(* somebody else's machine.                                                *)
NoStrays ==
    \A x \in Remotes : there[x] = "live" => Held(x) \/ Wrapped(x) \/ x \in relayEnds \/ x \in excused

Viewer(id) == <<sess[id].user, sess[id].device>>

(* To the sharer every viewer here is the same one, so only this side can  *)
(* tell them apart: what a live session wraps is taken from it by the      *)
(* sharer's reaper or restart, or by a replacement its own viewer asked    *)
(* for, and by nobody else's play, refusal or end.                         *)
StreamsAreLeftAlone ==
    \A id \in live \ replaced : Relays(id) =>
        \/ there[remote[id]] \in {"live", "gone", "cutOff"}
        \/ there[remote[id]] \in {"replaced", "ended"} /\ swapped[remote[id]] = Viewer(id)
=============================================================================
