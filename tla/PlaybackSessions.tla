-------------------------- MODULE PlaybackSessions --------------------------
(***************************************************************************)
(* internal/playback/session.go: the in-memory Manager of Playback         *)
(* sessions.  It decides who may start a stream (the User's stream limit,  *)
(* the transcode cap), swaps a session for its replacement, and ends       *)
(* sessions on DELETE, on the idle reap, when a replaced one's grace       *)
(* period elapses and at shutdown.                                         *)
(*                                                                         *)
(* Every critical section of Manager.mu is one action.  What a call does   *)
(* after it unlocks - killing ffmpeg, telling the observer - is an action  *)
(* of its own, so it interleaves with everything else.  ffmpeg itself is   *)
(* reduced to whether a runtime has a job running (HlsRuntime has the      *)
(* rest).  A refused request changes nothing and is no step.               *)
(***************************************************************************)
EXTENDS Integers, FiniteSets

CONSTANTS SessionIds,    \* the uuids CreateGoverned draws from
          Users, Devices,
          Decisions,     \* what a negotiation may decide
          MaxStreams,    \* each User's stream limit; 0 is uncapped
          Cap,           \* Manager.transcodeCap; 0 is unlimited
          Reservations,  \* the Online items' encodes (ReserveTranscode)
          NoSession      \* no such session

ASSUME SessionConstants ==
    /\ NoSession \notin SessionIds
    /\ SessionIds \cap Reservations = {}
    /\ MaxStreams \in [Users -> Nat]
    /\ Cap \in Nat
    /\ Decisions \subseteq [tier : {"directPlay", "directStream", "transcode"},
                            videoCopy : BOOLEAN, audioOnly : BOOLEAN,
                            relay : BOOLEAN]

VARIABLES
    minted,            \* ids handed out so far
    live,              \* the keys of Manager.sessions
    sess,              \* what each session was created with
    replaced,          \* Session.replaced
    slotFreed,         \* Session.slotFreed
    activeTranscodes,  \* Manager.activeTranscodes
    reserved,          \* ReserveTranscode slots not released yet
    graceTimers,       \* pending timers of Manager.graceTimers
    expiring,          \* timers that fired, their End not run yet
    idle,              \* sessions silent for longer than the idle timeout
    runtime,           \* each session's ffmpeg job
    tearing,           \* removed from the map, runtimes not torn down yet
    announcing,        \* torn down, the observer not told yet
    announced          \* how often the observer was told of each end

governance == <<replaced, slotFreed, activeTranscodes, reserved>>
timers     == <<graceTimers, expiring>>
closing    == <<tearing, announcing, announced>>
vars == <<minted, live, sess, governance, timers, idle, runtime, closing>>

Sessions == [user : Users, device : Devices, plays : Decisions]

TypeOK ==
    /\ minted \subseteq SessionIds /\ IsFiniteSet(minted)
    /\ live \subseteq minted
    /\ sess \in [SessionIds -> Sessions \cup {NoSession}]
    /\ \A id \in minted : sess[id] \in Sessions
    /\ replaced \subseteq minted
    /\ slotFreed \subseteq replaced
    /\ activeTranscodes \in Nat
    /\ reserved \subseteq Reservations /\ IsFiniteSet(reserved)
    /\ graceTimers \subseteq live /\ expiring \subseteq minted
    /\ idle \subseteq live
    /\ runtime \in [SessionIds -> {"none", "stopped", "running", "torn"}]
    /\ tearing \subseteq minted /\ announcing \subseteq minted
    /\ announced \in [SessionIds -> Nat]

Init ==
    /\ minted = {} /\ live = {}
    /\ sess = [id \in SessionIds |-> NoSession]
    /\ replaced = {} /\ slotFreed = {}
    /\ activeTranscodes = 0 /\ reserved = {}
    /\ graceTimers = {} /\ expiring = {}
    /\ idle = {}
    /\ runtime = [id \in SessionIds |-> "none"]
    /\ tearing = {} /\ announcing = {}
    /\ announced = [id \in SessionIds |-> 0]

\* meteredTranscode: only a local, video-encoding transcode takes a slot.
Metered(d) == d.tier = "transcode" /\ ~d.videoCopy /\ ~d.audioOnly /\ ~d.relay

\* The sessions CreateGoverned gives an HLS runtime.
HasRuntime(d) == d.tier # "directPlay" /\ ~d.relay

\* The sessions among S whose slot End, Reap or a replacement has to release.
SlotsIn(S) == {id \in S : Metered(sess[id].plays) /\ id \notin slotFreed}

\* releaseTranscodeSlot, n times: never below zero.
Less(n) == IF activeTranscodes >= n THEN activeTranscodes - n ELSE 0

\* replaceTargetLocked: the session r names, as a set, if it may be replaced.
Target(u, dev, r) ==
    {id \in live : id = r /\ id \notin replaced
                   /\ sess[id].user = u /\ sess[id].device = dev}

\* streamCountLocked counts these.
Streams(u) == {id \in live : sess[id].user = u /\ id \notin replaced}

\* Mutant of CapFull: one too many.
CapFullLate(held) == Cap > 0 /\ held > Cap

CapFull(held) == Cap > 0 /\ held >= Cap

\* Mutant of Swap: the old session is not marked.
SwapUnmarked(target, freed) ==
    /\ UNCHANGED replaced
    /\ slotFreed' = slotFreed \cup freed
    /\ graceTimers' = graceTimers \cup target

\* The swap: the old session stops counting, its slot is released for good,
\* and the timer of its grace period starts.
Swap(target, freed) ==
    /\ replaced' = replaced \cup target
    /\ slotFreed' = slotFreed \cup freed
    /\ graceTimers' = graceTimers \cup target

\* The stream limit, were the sessions in target to go.
WithinLimit(u, target) ==
    MaxStreams[u] > 0 => Cardinality(Streams(u) \ target) < MaxStreams[u]

(***************************************************************************)
(* CreateGoverned.  Both checks count the session to be replaced as gone;  *)
(* the swap happens in the critical section of the checks.                 *)
(***************************************************************************)
CreateGoverned(id, u, dev, d, r) ==
    LET target == Target(u, dev, r)
        freed  == SlotsIn(target)
    IN  /\ id \notin minted
        /\ WithinLimit(u, target)
        /\ Metered(d) => ~CapFull(activeTranscodes - Cardinality(freed))
        /\ minted' = minted \cup {id}
        /\ live' = live \cup {id}
        /\ sess' = [sess EXCEPT ![id] = [user |-> u, device |-> dev, plays |-> d]]
        /\ Swap(target, freed)
        /\ activeTranscodes' = Less(Cardinality(freed))
                                 + (IF Metered(d) THEN 1 ELSE 0)
        /\ runtime' = [runtime EXCEPT ![id] = IF HasRuntime(d) THEN "stopped" ELSE "none"]
        /\ UNCHANGED <<reserved, expiring, idle, closing>>

\* Mutant of Remove: a slot a replacement released is released again.
RemoveFreeingTwice(S) ==
    /\ live' = live \ S
    /\ idle' = idle \ S
    /\ graceTimers' = graceTimers \ S
    /\ activeTranscodes' = Less(Cardinality({id \in S : Metered(sess[id].plays)}))
    /\ tearing' = tearing \cup S
    /\ UNCHANGED <<minted, sess, replaced, slotFreed, reserved, runtime,
                   announcing, announced>>

(***************************************************************************)
(* The critical section End and endWhere share: the sessions leave the     *)
(* map, their grace timers are stopped (one that fired already still runs  *)
(* its End), and each slot not freed by a replacement is released.         *)
(***************************************************************************)
Remove(S) ==
    /\ live' = live \ S
    /\ idle' = idle \ S
    /\ graceTimers' = graceTimers \ S
    /\ activeTranscodes' = Less(Cardinality(SlotsIn(S)))
    /\ tearing' = tearing \cup S
    /\ UNCHANGED <<minted, sess, replaced, slotFreed, reserved, runtime,
                   announcing, announced>>

\* DELETE /sessions/{id}.
End(id) == id \in live /\ Remove({id}) /\ UNCHANGED expiring

\* The grace period of a replaced session elapses: its AfterFunc starts ...
GraceElapses(id) ==
    /\ id \in graceTimers
    /\ graceTimers' = graceTimers \ {id}
    /\ expiring' = expiring \cup {id}
    /\ UNCHANGED <<minted, live, sess, governance, idle, runtime, closing>>

\* Mutant of GraceEnds: the callback does not look whether it is too late.
GraceEndsBlindly(id) ==
    /\ id \in expiring
    /\ expiring' = expiring \ {id}
    /\ Remove({id})

\* ... and calls End, which finds nothing if the session has left meanwhile.
GraceEnds(id) ==
    /\ id \in expiring
    /\ expiring' = expiring \ {id}
    /\ IF id \in live THEN Remove({id})
       ELSE UNCHANGED <<minted, live, sess, governance, graceTimers, idle,
                        runtime, closing>>

\* The idle clock of a session runs out; Touch and TouchProgress reset it.
FallSilent(id) ==
    /\ id \in live \ idle
    /\ idle' = idle \cup {id}
    /\ UNCHANGED <<minted, live, sess, governance, timers, runtime, closing>>

Touch(id) ==
    /\ id \in idle
    /\ idle' = idle \ {id}
    /\ UNCHANGED <<minted, live, sess, governance, timers, runtime, closing>>

\* Mutant of Reap: a session whose ffmpeg still works is not idle.
ReapSparingJobs ==
    LET dead == {id \in idle : runtime[id] # "running"}
    IN  dead # {} /\ Remove(dead) /\ UNCHANGED expiring

Reap == idle # {} /\ Remove(idle) /\ UNCHANGED expiring

\* EndAll, at shutdown.
EndAll == live # {} /\ Remove(live) /\ UNCHANGED expiring

\* A media request starts, or restarts, the session's ffmpeg.  It found the
\* runtime while the session was live; it may get here after the removal.
Launch(id) ==
    /\ runtime[id] = "stopped"
    /\ runtime' = [runtime EXCEPT ![id] = "running"]
    /\ UNCHANGED <<minted, live, sess, governance, timers, idle, closing>>

JobExits(id) ==
    /\ runtime[id] = "running"
    /\ runtime' = [runtime EXCEPT ![id] = "stopped"]
    /\ UNCHANGED <<minted, live, sess, governance, timers, idle, closing>>

\* Mutant of Teardown: a runtime with no job is not marked torn down.
TeardownRunningOnly(id) ==
    /\ id \in tearing
    /\ tearing' = tearing \ {id}
    /\ announcing' = announcing \cup {id}
    /\ runtime' = [runtime EXCEPT ![id] = IF @ = "running" THEN "torn" ELSE @]
    /\ UNCHANGED <<minted, live, sess, governance, timers, idle, announced>>

\* The call that removed the session kills its ffmpeg and waits for it ...
Teardown(id) ==
    /\ id \in tearing
    /\ tearing' = tearing \ {id}
    /\ announcing' = announcing \cup {id}
    /\ runtime' = [runtime EXCEPT ![id] = IF @ = "none" THEN "none" ELSE "torn"]
    /\ UNCHANGED <<minted, live, sess, governance, timers, idle, announced>>

\* ... and only then tells the observer the session has ended.
Announce(id) ==
    /\ id \in announcing
    /\ announcing' = announcing \ {id}
    /\ announced' = [announced EXCEPT ![id] = @ + 1]
    /\ UNCHANGED <<minted, live, sess, governance, timers, idle, runtime, tearing>>

ReserveTranscode(r) ==
    /\ r \notin reserved /\ ~CapFull(activeTranscodes)
    /\ reserved' = reserved \cup {r}
    /\ activeTranscodes' = activeTranscodes + 1
    /\ UNCHANGED <<minted, live, sess, replaced, slotFreed, timers, idle,
                   runtime, closing>>

\* The release func ReserveTranscode returned; a second call does nothing.
ReleaseReservation(r) ==
    /\ r \in reserved
    /\ reserved' = reserved \ {r}
    /\ activeTranscodes' = Less(1)
    /\ UNCHANGED <<minted, live, sess, replaced, slotFreed, timers, idle,
                   runtime, closing>>

Next ==
    \/ \E id \in SessionIds, u \in Users, dev \in Devices, d \in Decisions :
          \E r \in live \cup {NoSession} : CreateGoverned(id, u, dev, d, r)
    \/ \E id \in SessionIds :
          \/ End(id) \/ GraceElapses(id) \/ GraceEnds(id)
          \/ FallSilent(id) \/ Touch(id) \/ Launch(id) \/ JobExits(id)
          \/ Teardown(id) \/ Announce(id)
    \/ Reap \/ EndAll
    \/ \E r \in Reservations : ReserveTranscode(r) \/ ReleaseReservation(r)

Spec == Init /\ [][Next]_vars

-----------------------------------------------------------------------------
\* What holds a slot of the transcode cap.
Holders == SlotsIn(live) \cup reserved

(* The counter is exact: it is the number of sessions and reservations     *)
(* that hold a slot, whatever mix of replacements, double ends and grace   *)
(* expiries released them.  Were it ever low the cap would admit one too   *)
(* many; ever high, it would refuse for good.                              *)
SlotsCounted == activeTranscodes = Cardinality(Holders)

(* The cap is never exceeded, replacements and reservations included.      *)
CapRespected == Cap > 0 => Cardinality(Holders) <= Cap

(* No User has more streams than their limit.  A replaced session in its   *)
(* grace period is not one: its replacement is.                            *)
StreamLimitHeld ==
    \A u \in Users : MaxStreams[u] > 0 => Cardinality(Streams(u)) <= MaxStreams[u]

(* ffmpeg runs only for a session that is live or being torn down, and a   *)
(* video encode outside the cap is a replaced session's, or a dying one's. *)
EncodersAccounted ==
    \A id \in SessionIds :
        runtime[id] = "running" =>
            /\ id \in live \cup tearing
            /\ Metered(sess[id].plays) /\ id \in live =>
                  id \in Holders \/ id \in graceTimers \cup expiring

(* A session that ends is announced once, after it has left the map and    *)
(* its ffmpeg is dead - however many of DELETE, the reaper, its grace      *)
(* timer and shutdown tried to end it.                                     *)
EndAnnouncedOnce ==
    \A id \in SessionIds :
        /\ announced[id] <= 1
        /\ announced[id] = 1 => id \notin live /\ runtime[id] \in {"none", "torn"}

(* A replaced session always has its end coming.                           *)
ReplacedIsDoomed == replaced \cap live \subseteq graceTimers \cup expiring

(* A replacement ends the session it replaces, client or no client, and a  *)
(* client that falls silent loses its session, unless it reports again.    *)
SessionsEnd ==
    \A id \in SessionIds :
        id \in replaced \cup idle ~> announced[id] > 0 \/ id \in live \ (replaced \cup idle)

\* The counter and the flags implement a bounded set with swaps.
Governor == INSTANCE TranscodeCap WITH holders <- Holders,
                                       Jobs <- SessionIds \cup Reservations
ImplementsTranscodeCap == Governor!Spec
=============================================================================
