------------------------------ MODULE LinkSync ------------------------------
(***************************************************************************)
(* One Link to another household's Server and everything here that sweeps  *)
(* it: the Syncer's worker and event subscription (internal/link/watch.go),*)
(* the sweep and what it records (sync.go), and the Admin's re-key, unlink *)
(* and "sync now" requests (service.go).                                   *)
(*                                                                         *)
(* What a sweep brings over is LibraryMirror's subject; here it leaves     *)
(* linked Libraries behind, or not.  Each Admin request is made once.      *)
(***************************************************************************)
EXTENDS Naturals, FiniteSets

CONSTANTS Rekeys, Unlinks, Syncs, \* the Admins' requests
          MaxTroubles,            \* bound: requests made, failed calls, crashes,
                                  \* shutdowns and tokens the sharer kills, together
          None

Requests == Rekeys \cup Unlinks \cup Syncs
Starters == Rekeys \cup Unlinks   \* requests that may start a worker

ASSUME LinkConstants ==
    /\ MaxTroubles \in Nat
    /\ IsFiniteSet(Starters)
    /\ Starters \cap Syncs = {} /\ Rekeys \cap Unlinks = {}
    /\ \A x \in Requests \cup {None} : x \notin Nat
    /\ None \notin Requests

Workers  == 1 .. 1 + Cardinality(Starters)
Callers  == Workers \cup Requests \* whoever runs a sweep
Tokens   == {1} \cup Rekeys       \* a re-key's new token is named after it

VARIABLES
    link,     \* the links row
    shelves,  \* the Link's Libraries: "none", or whose sweep last saw to them
    live,     \* the tokens the sharer accepts
    server,   \* "up", "stopping", "down"
    current,  \* Syncer.workers[id]
    worker,   \* the worker goroutines
    hold,     \* each worker's subscription
    sweep,    \* each caller's sweep
    request,
    heard,    \* a call succeeded since this Server started
    crossed,  \* history: two Starters were under way at once
    troubles

vars == <<link, shelves, live, server, current, worker, hold, sweep, request,
          heard, crossed, troubles>>

States  == {"connected", "unreachable", "revoked"}
Row     == [state : States, token : Tokens]
Results == States \cup {"gone"}

ASSUME NoneIsNoRow == None \notin Row

Sweep == [at : {"none", "start", "reach", "pull", "record", "ended"},
          forced : BOOLEAN, read : Row \cup {None}, result : Results \cup {None}]
Worker == [at : {"none", "wait", "sweep", "done"}, cancelled : BOOLEAN,
           parked : BOOLEAN,               \* failures < 0
           reply : Requests \cup {None}]
Hold == [at : {"none", "start", "open", "refused", "done"}, read : Row \cup {None}]
Request == [at : {"new", "redeem", "update", "sync", "surrender", "stop", "stopping", "drop",
                  "start", "delete", "send", "wait", "answered", "done"},
            worker : Workers \cup {None},  \* the worker it has hold of
            token : Tokens \cup {None},    \* the one an unlink read
            next : {"drop", "start"}]

NoSweep     == [at |-> "none", forced |-> FALSE, read |-> None, result |-> None]
Begin(f)    == [NoSweep EXCEPT !.at = "start", !.forced = f]
NoWorker    == [at |-> "none", cancelled |-> FALSE, parked |-> FALSE, reply |-> None]
FirstWorker == [worker |-> [w \in Workers |-> IF w = 1 THEN [NoWorker EXCEPT !.at = "sweep"] ELSE NoWorker],
                hold   |-> [w \in Workers |-> [at |-> IF w = 1 THEN "start" ELSE "none", read |-> None]],
                sweep  |-> [c \in Callers |-> IF c = 1 THEN Begin(FALSE) ELSE NoSweep]]

TypeOK ==
    /\ link \in Row \cup {None}
    /\ shelves \in {"none", "worker", "request"} /\ heard \in BOOLEAN
    /\ live \subseteq Tokens
    /\ server \in {"up", "stopping", "down"}
    /\ current \in Workers \cup {None}
    /\ worker \in [Workers -> Worker]
    /\ hold \in [Workers -> Hold]
    /\ sweep \in [Callers -> Sweep]
    /\ request \in [Requests -> Request]
    /\ crossed \in BOOLEAN /\ troubles \in 0..MaxTroubles
    /\ \A c \in Callers : sweep[c].at = "record" => sweep[c].result \in States
    /\ \A w \in Workers : worker[w].at = "sweep" <=> sweep[w].at # "none"
    /\ \A r \in Requests : request[r].at \in {"send", "wait"} => request[r].worker \in Workers

\* A Server that has just started, with one Link on file and its Libraries.
Init ==
    /\ link = [state |-> "unreachable", token |-> 1]
    /\ shelves = "worker"
    /\ live = {1} /\ server = "up" /\ heard = FALSE
    /\ current = 1
    /\ worker = FirstWorker.worker /\ hold = FirstWorker.hold /\ sweep = FirstWorker.sweep
    /\ request = [r \in Requests |-> [at |-> "new", worker |-> None, token |-> None, next |-> "start"]]
    /\ crossed = FALSE /\ troubles = 0

-----------------------------------------------------------------------------
(* A sweep, by whichever caller.                                           *)

Trouble == troubles < MaxTroubles /\ troubles' = troubles + 1

\* stopWorker or Stop cancels a worker's context.  That an Admin who leaves
\* cancels an inline sweep is one of these Troubles.
Cancelled(c) == c \in Workers /\ worker[c].cancelled

Ends(c, result) == sweep' = [sweep EXCEPT ![c].at = "ended", ![c].result = result]

SweepRead(c) ==
    /\ sweep[c].at = "start"
    /\ IF link = None THEN Ends(c, "gone")
       ELSE IF link.state = "revoked" /\ ~sweep[c].forced THEN Ends(c, "revoked")
       ELSE sweep' = [sweep EXCEPT ![c].at = "reach", ![c].read = link]
    /\ UNCHANGED <<link, shelves, live, server, current, worker, hold, request, heard, crossed, troubles>>

\* A call to the sharer under the token the sweep read: it succeeds and the
\* sweep is at next, or its result goes to record.  getJSON turns a cancelled
\* context into ErrUnreachable like any other failure.
Call(c, next) ==
    \/ /\ ~Cancelled(c) /\ sweep[c].read.token \in live
       /\ heard' = TRUE
       /\ sweep' = [sweep EXCEPT ![c].at = next, ![c].result = "connected"]
       /\ UNCHANGED troubles
    \/ /\ ~Cancelled(c) /\ sweep[c].read.token \notin live
       /\ sweep' = [sweep EXCEPT ![c].at = "record", ![c].result = "revoked"]
       /\ UNCHANGED <<heard, troubles>>
    \/ /\ ~Cancelled(c) /\ Trouble
       /\ sweep' = [sweep EXCEPT ![c].at = "record", ![c].result = "unreachable"]
       /\ UNCHANGED heard
    \/ /\ Cancelled(c)
       /\ sweep' = [sweep EXCEPT ![c].at = "record", ![c].result = "unreachable"]
       /\ UNCHANGED <<heard, troubles>>

Reach(c) ==
    /\ sweep[c].at = "reach" /\ Call(c, "pull")
    /\ UNCHANGED <<link, shelves, live, server, current, worker, hold, request, crossed>>

\* UpsertLinkedLibrary, then the walks.
Pull(c) ==
    /\ sweep[c].at = "pull" /\ Call(c, "record")
    /\ shelves' = IF c \in Workers THEN "worker" ELSE "request"
    /\ UNCHANGED <<link, live, server, current, worker, hold, request, crossed>>

\* By id: the row may be another token's by now, or gone.
SetLinkState(state) == link' = IF link = None THEN None ELSE [link EXCEPT !.state = state]

Record(c) ==
    /\ sweep[c].at = "record"
    /\ SetLinkState(sweep[c].result)
    /\ Ends(c, sweep[c].result)
    /\ UNCHANGED <<shelves, live, server, current, worker, hold, request, heard, crossed, troubles>>

SweepSteps(c) == SweepRead(c) \/ Reach(c) \/ Pull(c) \/ Record(c)

-----------------------------------------------------------------------------
(* The worker.                                                             *)

Wakes(w, r) ==
    /\ worker' = [worker EXCEPT ![w].at = "sweep", ![w].reply = r]
    /\ sweep' = [sweep EXCEPT ![w] = Begin(r # None)]
    /\ UNCHANGED <<link, shelves, live, server, current, hold, heard, crossed, troubles>>

\* select takes any case that is ready, with the context cancelled or not.
Timer(w) == worker[w].at = "wait" /\ ~worker[w].parked /\ Wakes(w, None) /\ UNCHANGED request

Nudge(w) == worker[w].at = "wait" /\ hold[w].at = "open" /\ Wakes(w, None) /\ UNCHANGED request

Forced(w, r) ==
    /\ worker[w].at = "wait" /\ request[r].at = "send" /\ request[r].worker = w
    /\ Wakes(w, r)
    /\ request' = [request EXCEPT ![r].at = "wait"]

WorkerDone(w) ==
    /\ worker[w].at = "wait" /\ worker[w].cancelled
    /\ worker' = [worker EXCEPT ![w].at = "done"]
    /\ UNCHANGED <<link, shelves, live, server, current, hold, sweep, request, heard, crossed, troubles>>

Answered(r) == IF r # None /\ request[r].at = "wait" THEN [request EXCEPT ![r].at = "answered"] ELSE request

Settled(w, parked) ==
    [worker EXCEPT ![w] = [NoWorker EXCEPT !.at = IF worker[w].cancelled THEN "done" ELSE "wait",
                                           !.cancelled = worker[w].cancelled, !.parked = parked]]

\* Mutant of SweepReturns: a cancelled worker leaves without a reply.
SweepReturnsMute(w) ==
    /\ worker[w].at = "sweep" /\ sweep[w].at = "ended"
    /\ worker' = Settled(w, sweep[w].result = "revoked")
    /\ request' = IF worker[w].cancelled THEN request ELSE Answered(worker[w].reply)
    /\ sweep' = [sweep EXCEPT ![w] = NoSweep]
    /\ UNCHANGED <<link, shelves, live, server, current, hold, heard, crossed, troubles>>

\* Mutant of SweepReturns: an unreachable Link is parked like a revoked one.
SweepReturnsParking(w) ==
    /\ worker[w].at = "sweep" /\ sweep[w].at = "ended"
    /\ worker' = Settled(w, sweep[w].result # "connected")
    /\ request' = Answered(worker[w].reply)
    /\ sweep' = [sweep EXCEPT ![w] = NoSweep]
    /\ UNCHANGED <<link, shelves, live, server, current, hold, heard, crossed, troubles>>

\* The reply channel has room for one, so no reply blocks.
SweepReturns(w) ==
    /\ worker[w].at = "sweep" /\ sweep[w].at = "ended"
    /\ worker' = Settled(w, sweep[w].result = "revoked")
    /\ request' = Answered(worker[w].reply)
    /\ sweep' = [sweep EXCEPT ![w] = NoSweep]
    /\ UNCHANGED <<link, shelves, live, server, current, hold, heard, crossed, troubles>>

WorkerSteps(w) == Timer(w) \/ (\E r \in Syncs : Forced(w, r)) \/ WorkerDone(w) \/ SweepReturns(w)

-----------------------------------------------------------------------------
(* The subscription.  No one waits for it.                                 *)

HoldAt(w, at, read) ==
    /\ hold' = [hold EXCEPT ![w].at = at, ![w].read = read]
    /\ UNCHANGED <<shelves, live, server, current, worker, sweep, request, heard, crossed, troubles>>

Subscribe(w) ==
    /\ hold[w].at = "start"
    /\ IF link = None \/ link.state = "revoked" THEN HoldAt(w, "done", None) ELSE HoldAt(w, "open", link)
    /\ UNCHANGED link

\* The stream ends, or was refused; the wait before the next try is in "start".
StreamEnds(w) ==
    /\ hold[w].at = "open"
    /\ IF worker[w].cancelled THEN HoldAt(w, "done", None)
       ELSE IF hold[w].read.token \notin live THEN HoldAt(w, "refused", hold[w].read)
       ELSE HoldAt(w, "start", None)
    /\ UNCHANGED link

HoldCancelled(w) ==
    /\ hold[w].at = "start" /\ worker[w].cancelled
    /\ HoldAt(w, "done", None)
    /\ UNCHANGED link

HoldRecord(w) ==
    /\ hold[w].at = "refused"
    /\ SetLinkState("revoked")
    /\ HoldAt(w, "done", None)

HoldSteps(w) == Subscribe(w) \/ StreamEnds(w) \/ HoldCancelled(w) \/ HoldRecord(w)

-----------------------------------------------------------------------------
(* The Admin's requests.                                                   *)

Goes(r, at) == request' = [request EXCEPT ![r].at = at]

UnderWay(r) == request[r].at \notin {"new", "done"}

Begins(r) ==
    /\ request[r].at = "new" /\ server = "up" /\ Trouble
    /\ crossed' = IF r \in Starters /\ \E q \in Starters : UnderWay(q) THEN TRUE ELSE crossed

RekeyBegin(r) ==
    /\ Begins(r)
    /\ Goes(r, IF link = None THEN "done" ELSE "redeem")
    /\ UNCHANGED <<link, shelves, live, server, current, worker, hold, sweep, heard>>

\* reach and redeem: the sharer mints a token, or the request fails.
Redeem(r) ==
    /\ request[r].at = "redeem"
    /\ \/ Goes(r, "update") /\ live' = live \cup {r} /\ heard' = TRUE /\ UNCHANGED troubles
       \/ Goes(r, "done") /\ Trouble /\ UNCHANGED <<live, heard>>
    /\ UNCHANGED <<link, shelves, server, current, worker, hold, sweep, crossed>>

UpdateLinkCredential(r) ==
    /\ request[r].at = "update"
    /\ IF link = None THEN Goes(r, "done") /\ UNCHANGED <<link, sweep>>
       ELSE /\ Goes(r, "sync")
            /\ link' = [state |-> "connected", token |-> r]
            /\ sweep' = [sweep EXCEPT ![r] = Begin(TRUE)]
    /\ UNCHANGED <<shelves, live, server, current, worker, hold, heard, crossed, troubles>>

\* An inline sweep is over: a re-key goes on to OnLinked.
SyncedInline(r) ==
    /\ request[r].at = "sync" /\ sweep[r].at = "ended"
    /\ Goes(r, IF r \in Rekeys THEN "stop" ELSE "done")
    /\ sweep' = [sweep EXCEPT ![r] = NoSweep]
    /\ UNCHANGED <<link, shelves, live, server, current, worker, hold, heard, crossed, troubles>>

UnlinkBegin(r) ==
    /\ Begins(r)
    /\ request' = IF link = None THEN [request EXCEPT ![r].at = "done"]
                  ELSE [request EXCEPT ![r].at = "surrender", ![r].token = link.token]
    /\ UNCHANGED <<link, shelves, live, server, current, worker, hold, sweep, heard>>

\* The token goes back to the sharer if the sharer answers.
Surrender(r) ==
    /\ request[r].at = "surrender"
    /\ request' = [request EXCEPT ![r].at = "stop", ![r].next = "drop"]
    /\ \/ live' = live \ {request[r].token} /\ UNCHANGED troubles
       \/ Trouble /\ UNCHANGED live
    /\ UNCHANGED <<link, shelves, server, current, worker, hold, sweep, heard, crossed>>

\* Mutant of StopWorker: the worker is forgotten without a word to it.
StopWorkerMute(r) ==
    /\ request[r].at = "stop"
    /\ request' = [request EXCEPT ![r].at = "stopping"]
    /\ current' = None
    /\ UNCHANGED <<link, shelves, live, server, worker, hold, sweep, heard, crossed, troubles>>

StopWorker(r) ==
    /\ request[r].at = "stop"
    /\ request' = [request EXCEPT ![r].at = "stopping", ![r].worker = current]
    /\ current' = None
    /\ worker' = IF current = None THEN worker ELSE [worker EXCEPT ![current].cancelled = TRUE]
    /\ UNCHANGED <<link, shelves, live, server, hold, sweep, heard, crossed, troubles>>

\* Mutant of WorkerStopped: done is not waited for.
WorkerNotWaited(r) ==
    /\ request[r].at = "stopping"
    /\ request' = [request EXCEPT ![r].at = request[r].next, ![r].worker = None]
    /\ UNCHANGED <<link, shelves, live, server, current, worker, hold, sweep, heard, crossed, troubles>>

WorkerStopped(r) ==
    /\ request[r].at = "stopping"
    /\ request[r].worker # None => worker[request[r].worker].at = "done"
    /\ request' = [request EXCEPT ![r].at = request[r].next, ![r].worker = None]
    /\ UNCHANGED <<link, shelves, live, server, current, worker, hold, sweep, heard, crossed, troubles>>

Launch(w) ==
    /\ worker[w].at = "none"
    /\ current' = w
    /\ worker' = [worker EXCEPT ![w].at = "sweep"]
    /\ hold' = [hold EXCEPT ![w].at = "start"]
    /\ sweep' = [sweep EXCEPT ![w] = Begin(FALSE)]

StartWorker(r) ==
    /\ request[r].at = "start" /\ Goes(r, "done")
    /\ IF server = "up" /\ current = None THEN \E w \in Workers : Launch(w)
       ELSE UNCHANGED <<current, worker, hold, sweep>>
    /\ UNCHANGED <<link, shelves, live, server, heard, crossed, troubles>>

\* When it fails the Link stands, and OnLinked brings its worker back.
DropMirror(r) ==
    /\ request[r].at = "drop"
    /\ \/ Goes(r, "delete") /\ shelves' = "none" /\ UNCHANGED troubles
       \/ /\ request' = [request EXCEPT ![r].at = "stop", ![r].next = "start"]
          /\ Trouble /\ UNCHANGED shelves
    /\ UNCHANGED <<link, live, server, current, worker, hold, sweep, heard, crossed>>

\* When it fails the Link stands too, and nothing brings its worker back.
DeleteLink(r) ==
    /\ request[r].at = "delete" /\ Goes(r, "done")
    /\ \/ link' = None /\ UNCHANGED troubles
       \/ Trouble /\ UNCHANGED link
    /\ UNCHANGED <<shelves, live, server, current, worker, hold, sweep, heard, crossed>>

\* SyncNow and SweepNow: through the worker, or inline when there is none.
SyncNow(r) ==
    /\ Begins(r)
    /\ IF link = None THEN Goes(r, "done") /\ UNCHANGED sweep
       ELSE IF current # None
       THEN request' = [request EXCEPT ![r].at = "send", ![r].worker = current] /\ UNCHANGED sweep
       ELSE Goes(r, "sync") /\ sweep' = [sweep EXCEPT ![r] = Begin(TRUE)]
    /\ UNCHANGED <<link, shelves, live, server, current, worker, hold, heard>>

WorkerWentAway(r) ==
    /\ request[r].at = "send" /\ worker[request[r].worker].at = "done"
    /\ Goes(r, "sync") /\ sweep' = [sweep EXCEPT ![r] = Begin(TRUE)]
    /\ UNCHANGED <<link, shelves, live, server, current, worker, hold, heard, crossed, troubles>>

SyncReturns(r) ==
    /\ request[r].at = "answered" /\ Goes(r, "done")
    /\ UNCHANGED <<link, shelves, live, server, current, worker, hold, sweep, heard, crossed, troubles>>

\* The Admin leaves, or the request's time is up.
SyncLeaves(r) ==
    /\ request[r].at \in {"send", "wait"} /\ Goes(r, "done")
    /\ UNCHANGED <<link, shelves, live, server, current, worker, hold, sweep, heard, crossed, troubles>>

Arrive ==
    \/ \E r \in Rekeys : RekeyBegin(r)
    \/ \E r \in Unlinks : UnlinkBegin(r)
    \/ \E r \in Syncs : SyncNow(r)

RequestSteps ==
    \/ \E r \in Rekeys : Redeem(r) \/ UpdateLinkCredential(r)
    \/ \E r \in Unlinks : Surrender(r) \/ DropMirror(r) \/ DeleteLink(r)
    \/ \E r \in Starters : StopWorker(r) \/ WorkerStopped(r) \/ StartWorker(r)
    \/ \E r \in Syncs : WorkerWentAway(r) \/ SyncReturns(r)
    \/ \E r \in Rekeys \cup Syncs : SyncedInline(r)

-----------------------------------------------------------------------------
(* The sharer and the Server.                                              *)

\* The remote User or a Device of it is deleted over there.
Revoke(t) ==
    /\ t \in live /\ Trouble
    /\ live' = live \ {t}
    /\ UNCHANGED <<link, shelves, server, current, worker, hold, sweep, request, heard, crossed>>

Stop ==
    /\ server = "up" /\ Trouble
    /\ server' = "stopping" /\ current' = None
    /\ worker' = [w \in Workers |-> [worker[w] EXCEPT !.cancelled = TRUE]]
    /\ UNCHANGED <<link, shelves, live, hold, sweep, request, heard, crossed>>

Stopped ==
    /\ server = "stopping" /\ \A w \in Workers : worker[w].at \in {"none", "done"}
    /\ server' = "down"
    /\ UNCHANGED <<link, shelves, live, current, worker, hold, sweep, request, heard, crossed, troubles>>

\* Mutant of Boot: the Link keeps the state it was shut down with.
BootAsItWas ==
    /\ server # "up" \/ Trouble
    /\ server = "up" \/ UNCHANGED troubles
    /\ server' = "up" /\ heard' = FALSE
    /\ shelves' = IF link = None THEN "none" ELSE shelves
    /\ request' = [r \in Requests |-> [request[r] EXCEPT !.at = IF @ = "new" THEN @ ELSE "done", !.worker = None]]
    /\ current' = IF link = None THEN None ELSE 1
    /\ worker' = FirstWorker.worker /\ hold' = FirstWorker.hold /\ sweep' = FirstWorker.sweep
    /\ UNCHANGED <<link, live, crossed>>

\* After a shutdown or a crash: Start reaps orphans, parks the Link, and
\* starts its worker.
Boot ==
    /\ IF server = "up" THEN Trouble ELSE UNCHANGED troubles
    /\ server' = "up" /\ heard' = FALSE
    /\ shelves' = IF link = None THEN "none" ELSE shelves
    /\ link' = IF link = None \/ link.state = "revoked" THEN link ELSE [link EXCEPT !.state = "unreachable"]
    /\ request' = [r \in Requests |-> [request[r] EXCEPT !.at = IF @ = "new" THEN @ ELSE "done", !.worker = None]]
    /\ IF link # None
       THEN current' = 1 /\ worker' = FirstWorker.worker /\ hold' = FirstWorker.hold /\ sweep' = FirstWorker.sweep
       ELSE /\ current' = None
            /\ worker' = [w \in Workers |-> NoWorker]
            /\ hold' = [w \in Workers |-> [at |-> "none", read |-> None]]
            /\ sweep' = [c \in Callers |-> NoSweep]
    /\ UNCHANGED <<live, crossed>>

Next ==
    \/ \E c \in Callers : SweepSteps(c)
    \/ \E w \in Workers : WorkerSteps(w) \/ Nudge(w) \/ HoldSteps(w)
    \/ Arrive \/ RequestSteps \/ \E r \in Syncs : SyncLeaves(r)
    \/ \E t \in Tokens : Revoke(t)
    \/ Stop \/ Stopped \/ Boot

Spec == Init /\ [][Next]_vars

-----------------------------------------------------------------------------
(* The worker that runs is the one the Syncer knows of: however re-keys,   *)
(* failed unlinks and restarts overlap, none is left running that nothing  *)
(* could stop.                                                             *)
OneWorker ==
    \A w \in Workers : worker[w].at \in {"wait", "sweep"} /\ ~worker[w].cancelled => w = current

(* The Link says connected only if a call to the sharer has succeeded      *)
(* since this Server started, whatever crashed or raced.                   *)
ConnectedIsEarned == link # None /\ link.state = "connected" => heard

(* A Link that is gone leaves no Library behind: the worker that was       *)
(* sweeping has ended before the Libraries are removed, and no other came, *)
(* for as long as re-keys and unlinks come one after the other.  When two  *)
(* of them cross, the later finds no worker to wait for; and a sweep that  *)
(* a "sync now" runs itself may bring Libraries back at any time.          *)
NoOrphans == server = "up" /\ link = None /\ ~crossed => shelves # "worker"

-----------------------------------------------------------------------------
(* Calls have deadlines, the timer comes round, and goroutines run; select *)
(* picks at random, so a force that waits is picked in the end.  No        *)
(* request is bound to come, and no Admin to leave.                        *)
Fairness ==
    /\ \A c \in Callers : WF_vars(SweepSteps(c))
    /\ \A w \in Workers : WF_vars(Timer(w)) /\ WF_vars(WorkerDone(w)) /\ WF_vars(SweepReturns(w)) /\ WF_vars(HoldSteps(w))
    /\ \A w \in Workers, r \in Syncs : SF_vars(Forced(w, r))
    /\ WF_vars(RequestSteps) /\ WF_vars(Stopped) /\ WF_vars(server = "down" /\ Boot)

FairSpec == Spec /\ Fairness

(* Every request the Server lives through returns: no re-key or unlink     *)
(* waits for a worker that waits for it, and a "sync now" is answered or   *)
(* swept inline even if the worker goes away under it.                     *)
RequestsReturn == \A r \in Requests : request[r].at # "new" ~> request[r].at = "done"

(* Once the sharer can be reached for good and accepts the Link's token,   *)
(* the Link comes back by itself and stays connected.  Two Links do not:   *)
(* one that an unlink left without a worker when its last step failed, and *)
(* one that a sweep under its old token marked revoked after a re-key.     *)
Dark     == current = None
Mistaken == link.state = "revoked" /\ link.token # 1
Recovers == <>[](\/ link = None \/ link.token \notin live \/ server # "up"
                 \/ Dark \/ Mistaken \/ link.state = "connected")
=============================================================================
