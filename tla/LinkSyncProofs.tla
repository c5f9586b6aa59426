--------------------------- MODULE LinkSyncProofs ---------------------------
(***************************************************************************)
(* What LinkSync's run checks of two troubles at a time, proved for any    *)
(* number of requests, failures, crashes and revocations.                  *)
(***************************************************************************)
EXTENDS LinkSync, TLAPS, FiniteSetTheorems

LEMMA WorkersAreNumbers == 1 \in Workers /\ Workers \subseteq Nat /\ None \notin Workers
<1>1. Cardinality(Starters) \in Nat
  BY LinkConstants, FS_CardinalityType
<1> QED
  BY <1>1, LinkConstants DEF Workers

LEMMA FirstWorkerTypes ==
    /\ FirstWorker.worker \in [Workers -> Worker]
    /\ FirstWorker.hold \in [Workers -> Hold]
    /\ FirstWorker.sweep \in [Callers -> Sweep]
    /\ \A w \in Workers : FirstWorker.worker[w].at = "sweep" <=> FirstWorker.sweep[w].at # "none"
    /\ \A c \in Callers : FirstWorker.sweep[c].at \in {"none", "start"}
    /\ \A w \in Workers : w # 1 => FirstWorker.worker[w] = NoWorker
BY WorkersAreNumbers DEF FirstWorker, Worker, Hold, Sweep, Begin, NoSweep, NoWorker, Callers

LEMMA InitTypes == Init => TypeOK
<1> SUFFICES ASSUME Init PROVE TypeOK
  OBVIOUS
<1>1. link \in Row /\ live \subseteq Tokens
  BY DEF Init, Row, States, Tokens
<1>2. request \in [Requests -> Request] /\ \A r \in Requests : request[r].at = "new"
  BY DEF Init, Request
<1>3. /\ worker = FirstWorker.worker /\ hold = FirstWorker.hold
      /\ sweep = FirstWorker.sweep /\ current \in Workers
  BY WorkersAreNumbers DEF Init
<1>4. /\ shelves \in {"none", "worker", "request"} /\ heard \in BOOLEAN /\ crossed \in BOOLEAN
      /\ server \in {"up", "stopping", "down"}
  BY DEF Init
<1>6. troubles \in 0..MaxTroubles
  BY LinkConstants DEF Init
<1>5. /\ \A c \in Callers : sweep[c].at # "record"
      /\ \A r \in Requests : request[r].at \notin {"send", "wait"}
  BY <1>2, <1>3, FirstWorkerTypes
<1> QED
  BY <1>1, <1>2, <1>3, <1>4, <1>5, <1>6, FirstWorkerTypes DEF TypeOK

LEMMA TroubleTypes ==
    ASSUME TypeOK, Trouble \/ UNCHANGED troubles
    PROVE  troubles' \in 0..MaxTroubles
BY LinkConstants DEF TypeOK, Trouble

(* What a sweep's step leaves of the types.                                *)
LEMMA SweepStepTypes ==
    ASSUME TypeOK, NEW c \in Callers, SweepSteps(c)
    PROVE  TypeOK'
<1> USE DEF TypeOK, Sweep
<1>0. /\ \A l \in {"reach", "pull", "record", "ended"} : l # "none"
      /\ sweep[c].at # "none" /\ sweep[c] \in Sweep
  BY DEF SweepSteps, SweepRead, Reach, Pull, Record
<1>1. ASSUME NEW x \in Results, Ends(c, x)
      PROVE  /\ sweep' \in [Callers -> Sweep]
             /\ \A d \in Callers : sweep'[d].at = "record" => sweep'[d].result \in States
             /\ \A d \in Callers : sweep'[d].at # "none" <=> sweep[d].at # "none"
  BY <1>0, <1>1 DEF Ends
<1>2. CASE SweepRead(c)
  <2>1. CASE sweep' = [sweep EXCEPT ![c].at = "reach", ![c].read = link]
    BY <1>0, <1>2, <2>1 DEF SweepRead, Callers
  <2> QED BY <1>0, <1>1, <1>2, <2>1 DEF SweepRead, Results, States, Callers
<1>3. ASSUME NEW next \in {"pull", "record"}, Call(c, next)
      PROVE  /\ sweep' \in [Callers -> Sweep] /\ heard' \in BOOLEAN /\ troubles' \in 0..MaxTroubles
             /\ \A d \in Callers : sweep'[d].at = "record" => sweep'[d].result \in States
             /\ \A d \in Callers : sweep'[d].at # "none" <=> sweep[d].at # "none"
  <2>1. troubles' \in 0..MaxTroubles
    BY <1>3, TroubleTypes DEF Call
  <2>3. heard' \in BOOLEAN
    BY <1>3 DEF Call
  <2>2. \E l \in {"pull", "record"}, x \in States :
            sweep' = [sweep EXCEPT ![c].at = l, ![c].result = x]
    BY <1>3 DEF Call, States
  <2>4. PICK l \in {"pull", "record"}, x \in States :
            sweep' = [sweep EXCEPT ![c].at = l, ![c].result = x]
    BY <2>2
  <2>5. /\ sweep' \in [Callers -> Sweep]
        /\ sweep'[c].at = l /\ sweep'[c].result = x
        /\ \A d \in Callers \ {c} : sweep'[d] = sweep[d]
    BY <2>4 DEF Results
  <2> QED BY <1>0, <2>1, <2>3, <2>4, <2>5
<1>4. CASE Reach(c)
  BY <1>3, <1>4 DEF Reach, Callers
<1>5. CASE Pull(c)
  BY <1>3, <1>5 DEF Pull, Callers
<1>6. CASE Record(c)
  <2>1. link' \in Row \cup {None}
    BY <1>6 DEF Record, SetLinkState, Row
  <2> QED BY <1>0, <1>1, <1>6, <2>1 DEF Record, Results, Callers
<1> QED
  BY <1>2, <1>4, <1>5, <1>6 DEF SweepSteps

(* A request that goes somewhere keeps its worker, unless it had none to   *)
(* keep.                                                                   *)
LEMMA GoesTypes ==
    ASSUME TypeOK, NEW r \in Requests,
           NEW l \in {"redeem", "update", "sync", "stop", "start", "delete", "answered", "done"},
           Goes(r, l)
    PROVE  /\ request' \in [Requests -> Request]
           /\ \A q \in Requests : request'[q].at \in {"send", "wait"} => request'[q].worker \in Workers
BY DEF TypeOK, Goes, Request

(* Only their sweep and their state move when a worker wakes or settles.   *)
LEMMA WorkerStepTypes ==
    ASSUME TypeOK, NEW w \in Workers, WorkerSteps(w) \/ Nudge(w)
    PROVE  TypeOK'
<1> USE DEF TypeOK
<1>0. w \in Callers /\ worker[w] \in Worker
  BY DEF Callers
<1>1. ASSUME NEW r \in Requests \cup {None}, Wakes(w, r), worker[w].at = "wait"
      PROVE  /\ worker' \in [Workers -> Worker] /\ sweep' \in [Callers -> Sweep]
             /\ \A c \in Callers : sweep'[c].at = "record" => sweep'[c].result \in States
             /\ \A v \in Workers : worker'[v].at = "sweep" <=> sweep'[v].at # "none"
  <2>1. worker' \in [Workers -> Worker]
    BY <1>0, <1>1 DEF Wakes, Worker
  <2>2. Begin(r # None) \in Sweep /\ Begin(r # None).at = "start"
    BY DEF Begin, NoSweep, Sweep
  <2> QED BY <1>0, <1>1, <2>1, <2>2 DEF Wakes, Callers
<1>2. CASE Timer(w) \/ Nudge(w)
  BY <1>1, <1>2 DEF Timer, Nudge, Wakes
<1>3. ASSUME NEW r \in Syncs, Forced(w, r) PROVE TypeOK'
  <2>0. /\ r \in Requests /\ request[r].worker \in Workers
        /\ request' = [request EXCEPT ![r].at = "wait"]
    BY <1>3 DEF Forced, Requests
  <2>1. request' \in [Requests -> Request]
        /\ \A q \in Requests : request'[q].at \in {"send", "wait"} => request'[q].worker \in Workers
    BY <2>0 DEF Request
  <2> QED BY <1>1, <1>3, <2>1 DEF Forced, Wakes, Requests
<1>4. CASE WorkerDone(w)
  BY <1>4 DEF WorkerDone, Worker
<1>5. CASE SweepReturns(w)
  <2>1. request' \in [Requests -> Request]
        /\ \A q \in Requests : request'[q].at \in {"send", "wait"} => request'[q].worker \in Workers
    <3>1. CASE request' = request
      BY <3>1
    <3>2. ASSUME NEW r \in Requests, request' = [request EXCEPT ![r].at = "answered"] 
          PROVE  /\ request' \in [Requests -> Request]
                 /\ \A q \in Requests : request'[q].at \in {"send", "wait"} => request'[q].worker \in Workers
      BY <3>2, GoesTypes DEF Goes
    <3> QED BY <1>0, <1>5, <3>1, <3>2 DEF SweepReturns, Answered, Worker
  <2>2. worker' \in [Workers -> Worker] /\ worker'[w].at # "sweep"
    BY <1>0, <1>5 DEF SweepReturns, Settled, Worker, NoWorker
  <2>3. NoSweep \in Sweep /\ NoSweep.at = "none"
    BY DEF NoSweep, Sweep
  <2> QED BY <1>0, <1>5, <2>1, <2>2, <2>3 DEF SweepReturns, Settled, Callers
<1> QED
  BY <1>2, <1>3, <1>4, <1>5 DEF WorkerSteps

LEMMA HoldStepTypes ==
    ASSUME TypeOK, NEW w \in Workers, HoldSteps(w)
    PROVE  TypeOK'
<1> USE DEF TypeOK
<1>1. ASSUME NEW l \in {"start", "open", "refused", "done"}, NEW x \in Row \cup {None}, HoldAt(w, l, x)
      PROVE  hold' \in [Workers -> Hold]
  BY <1>1 DEF HoldAt, Hold
<1>2. hold[w].read \in Row \cup {None} /\ link \in Row \cup {None} /\ None \in Row \cup {None}
  BY DEF Hold
<1>3. hold' \in [Workers -> Hold]
  BY <1>1, <1>2 DEF HoldSteps, Subscribe, StreamEnds, HoldCancelled, HoldRecord
<1>4. link' \in Row \cup {None}
  BY DEF HoldSteps, Subscribe, StreamEnds, HoldCancelled, HoldRecord, SetLinkState, Row, States
<1> QED
  BY <1>3, <1>4 DEF HoldSteps, Subscribe, StreamEnds, HoldCancelled, HoldRecord, HoldAt

LEMMA InlineTypes ==
    ASSUME TypeOK, NEW r \in Requests, sweep' \in {[sweep EXCEPT ![r] = Begin(TRUE)], [sweep EXCEPT ![r] = NoSweep]}
    PROVE  /\ sweep' \in [Callers -> Sweep]
           /\ \A c \in Callers : sweep'[c].at = "record" => sweep'[c].result \in States
           /\ \A w \in Workers : sweep'[w] = sweep[w]
<1>1. r \in Callers /\ r \notin Workers
  BY LinkConstants, WorkersAreNumbers DEF Callers
<1>2. Begin(TRUE) \in Sweep /\ Begin(TRUE).at = "start" /\ NoSweep \in Sweep /\ NoSweep.at = "none"
  BY DEF Begin, NoSweep, Sweep
<1> QED
  BY <1>1, <1>2 DEF TypeOK, Callers

LEMMA RekeyTypes ==
    ASSUME TypeOK, NEW r \in Rekeys, RekeyBegin(r) \/ Redeem(r) \/ UpdateLinkCredential(r)
    PROVE  TypeOK'
<1> USE DEF TypeOK
<1>0. r \in Requests /\ r \in Tokens
  BY DEF Requests, Tokens
<1>1. CASE RekeyBegin(r)
  <2>1. troubles' \in 0..MaxTroubles /\ crossed' \in BOOLEAN
    BY <1>1, TroubleTypes DEF RekeyBegin, Begins
  <2> QED BY <1>0, <1>1, <2>1, GoesTypes DEF RekeyBegin
<1>2. CASE Redeem(r)
  <2>1. troubles' \in 0..MaxTroubles
    BY <1>2, TroubleTypes DEF Redeem
  <2>2. live' \subseteq Tokens /\ heard' \in BOOLEAN
    BY <1>0, <1>2 DEF Redeem
  <2> QED BY <1>0, <1>2, <2>1, <2>2, GoesTypes DEF Redeem
<1>3. CASE UpdateLinkCredential(r)
  <2>1. link' \in Row \cup {None}
    <3>1. [state |-> "connected", token |-> r] \in Row
      BY <1>0 DEF Row, States
    <3> QED BY <1>3, <3>1 DEF UpdateLinkCredential
  <2>2. /\ sweep' \in [Callers -> Sweep]
        /\ \A c \in Callers : sweep'[c].at = "record" => sweep'[c].result \in States
        /\ \A w \in Workers : sweep'[w] = sweep[w]
    BY <1>0, <1>3, InlineTypes DEF UpdateLinkCredential, Callers
  <2> QED BY <1>0, <1>3, <2>1, <2>2, GoesTypes DEF UpdateLinkCredential
<1> QED BY <1>1, <1>2, <1>3

LEMMA UnlinkTypes ==
    ASSUME TypeOK, NEW r \in Unlinks, UnlinkBegin(r) \/ Surrender(r) \/ DropMirror(r) \/ DeleteLink(r)
    PROVE  TypeOK'
<1> USE DEF TypeOK
<1>0. r \in Requests
  BY DEF Requests
<1>1. CASE UnlinkBegin(r)
  <2>1. troubles' \in 0..MaxTroubles /\ crossed' \in BOOLEAN
    BY <1>1, TroubleTypes DEF UnlinkBegin, Begins
  <2>2. request' \in [Requests -> Request]
        /\ \A q \in Requests : request'[q].at \in {"send", "wait"} => request'[q].worker \in Workers
    <3>1. CASE link = None
      BY <1>0, <1>1, <3>1, GoesTypes DEF UnlinkBegin, Goes
    <3>2. CASE link # None
      <4>1. link.token \in Tokens
        BY <3>2 DEF Row
      <4>2. [request[r] EXCEPT !.at = "surrender", !.token = link.token] \in Request
        BY <1>0, <4>1 DEF Request
      <4>3. /\ request' \in [Requests -> Request] /\ request'[r].at = "surrender"
            /\ \A q \in Requests \ {r} : request'[q] = request[q]
        BY <1>0, <1>1, <3>2, <4>2 DEF UnlinkBegin
      <4> QED BY <4>3
    <3> QED BY <3>1, <3>2
  <2> QED BY <1>1, <2>1, <2>2 DEF UnlinkBegin
<1>2. CASE Surrender(r)
  <2>1. troubles' \in 0..MaxTroubles
    BY <1>2, TroubleTypes DEF Surrender
  <2>2. request' \in [Requests -> Request]
        /\ \A q \in Requests : request'[q].at \in {"send", "wait"} => request'[q].worker \in Workers
    <3>1. [request[r] EXCEPT !.at = "stop", !.next = "drop"] \in Request
      BY <1>0 DEF Request
    <3>2. /\ request' \in [Requests -> Request] /\ request'[r].at = "stop"
          /\ \A q \in Requests \ {r} : request'[q] = request[q]
      BY <1>0, <1>2, <3>1 DEF Surrender
    <3> QED BY <3>2
  <2> QED BY <1>2, <2>1, <2>2 DEF Surrender
<1>3. CASE DropMirror(r)
  <2>1. troubles' \in 0..MaxTroubles
    BY <1>3, TroubleTypes DEF DropMirror
  <2>2. request' \in [Requests -> Request]
        /\ \A q \in Requests : request'[q].at \in {"send", "wait"} => request'[q].worker \in Workers
    <3>1. CASE Goes(r, "delete")
      BY <1>0, <3>1, GoesTypes
    <3>2. CASE request' = [request EXCEPT ![r].at = "stop", ![r].next = "start"]
      <4>1. [request[r] EXCEPT !.at = "stop", !.next = "start"] \in Request
        BY <1>0 DEF Request
      <4>2. /\ request' \in [Requests -> Request] /\ request'[r].at = "stop"
            /\ \A q \in Requests \ {r} : request'[q] = request[q]
        BY <1>0, <3>2, <4>1
      <4> QED BY <4>2
    <3> QED BY <1>3, <3>1, <3>2 DEF DropMirror
  <2> QED BY <1>3, <2>1, <2>2 DEF DropMirror
<1>4. CASE DeleteLink(r)
  <2>1. troubles' \in 0..MaxTroubles
    BY <1>4, TroubleTypes DEF DeleteLink
  <2> QED BY <1>0, <1>4, <2>1, GoesTypes DEF DeleteLink
<1> QED BY <1>1, <1>2, <1>3, <1>4

LEMMA LaunchTypes ==
    ASSUME TypeOK, NEW w \in Workers, Launch(w)
    PROVE  /\ worker' \in [Workers -> Worker] /\ hold' \in [Workers -> Hold]
           /\ sweep' \in [Callers -> Sweep] /\ current' \in Workers
           /\ \A c \in Callers : sweep'[c].at = "record" => sweep'[c].result \in States
           /\ \A v \in Workers : worker'[v].at = "sweep" <=> sweep'[v].at # "none"
<1>1. Begin(FALSE) \in Sweep /\ Begin(FALSE).at = "start"
  BY DEF Begin, NoSweep, Sweep
<1>2. w \in Callers
  BY DEF Callers
<1>3. worker' \in [Workers -> Worker]
  BY DEF TypeOK, Launch, Worker
<1>4. hold' \in [Workers -> Hold]
  BY DEF TypeOK, Launch, Hold
<1>5. sweep' \in [Callers -> Sweep] /\ sweep'[w].at = "start"
  BY <1>1, <1>2 DEF TypeOK, Launch
<1>6. /\ \A c \in Callers \ {w} : sweep'[c] = sweep[c]
      /\ \A v \in Workers \ {w} : worker'[v] = worker[v]
      /\ worker'[w].at = "sweep" /\ current' = w
  BY DEF TypeOK, Launch, Worker
<1> QED BY <1>2, <1>3, <1>4, <1>5, <1>6 DEF TypeOK, Callers

LEMMA StarterTypes ==
    ASSUME TypeOK, NEW r \in Starters, StopWorker(r) \/ WorkerStopped(r) \/ StartWorker(r)
    PROVE  TypeOK'
<1> USE DEF TypeOK
<1>0. r \in Requests /\ request[r] \in Request
  BY DEF Requests, Starters
<1>1. CASE StopWorker(r)
  <2>1. request' \in [Requests -> Request]
        /\ \A q \in Requests : request'[q].at \in {"send", "wait"} => request'[q].worker \in Workers
    BY <1>0, <1>1 DEF StopWorker, Request
  <2>2. worker' \in [Workers -> Worker] /\ \A w \in Workers : worker'[w].at = worker[w].at
    BY <1>1 DEF StopWorker, Worker
  <2> QED BY <1>1, <2>1, <2>2 DEF StopWorker
<1>2. CASE WorkerStopped(r)
  <2>1. request' \in [Requests -> Request]
        /\ \A q \in Requests : request'[q].at \in {"send", "wait"} => request'[q].worker \in Workers
    BY <1>0, <1>2 DEF WorkerStopped, Request
  <2> QED BY <1>2, <2>1 DEF WorkerStopped
<1>3. CASE StartWorker(r)
  BY <1>0, <1>3, GoesTypes, LaunchTypes DEF StartWorker
<1> QED BY <1>1, <1>2, <1>3

LEMMA SyncTypes ==
    ASSUME TypeOK, NEW r \in Syncs, SyncNow(r) \/ WorkerWentAway(r) \/ SyncReturns(r) \/ SyncLeaves(r)
    PROVE  TypeOK'
<1> USE DEF TypeOK
<1>0. r \in Requests
  BY DEF Requests
<1>1. CASE SyncNow(r)
  <2>1. troubles' \in 0..MaxTroubles /\ crossed' \in BOOLEAN
    BY <1>1, TroubleTypes DEF SyncNow, Begins
  <2>2. CASE Goes(r, "done") /\ UNCHANGED sweep
    BY <1>0, <1>1, <2>1, <2>2, GoesTypes DEF SyncNow
  <2>3. CASE current # None /\ request' = [request EXCEPT ![r].at = "send", ![r].worker = current] /\ UNCHANGED sweep
    <3>1. request' \in [Requests -> Request]
          /\ \A q \in Requests : request'[q].at \in {"send", "wait"} => request'[q].worker \in Workers
      <4>1. [request[r] EXCEPT !.at = "send", !.worker = current] \in Request /\ current \in Workers
        BY <1>0, <2>3 DEF Request
      <4>2. /\ request' \in [Requests -> Request] /\ request'[r].worker = current
            /\ \A q \in Requests \ {r} : request'[q] = request[q]
        BY <1>0, <2>3, <4>1
      <4> QED BY <4>1, <4>2
    <3> QED BY <1>1, <2>1, <2>3, <3>1 DEF SyncNow
  <2>4. CASE Goes(r, "sync") /\ sweep' = [sweep EXCEPT ![r] = Begin(TRUE)]
    BY <1>0, <1>1, <2>1, <2>4, GoesTypes, InlineTypes DEF SyncNow
  <2> QED BY <1>1, <2>2, <2>3, <2>4 DEF SyncNow
<1>2. CASE WorkerWentAway(r)
  BY <1>0, <1>2, GoesTypes, InlineTypes DEF WorkerWentAway
<1>3. CASE SyncReturns(r)
  BY <1>0, <1>3, GoesTypes DEF SyncReturns
<1>4. CASE SyncLeaves(r)
  BY <1>0, <1>4, GoesTypes DEF SyncLeaves
<1> QED BY <1>1, <1>2, <1>3, <1>4

LEMMA SyncedInlineTypes ==
    ASSUME TypeOK, NEW r \in Rekeys \cup Syncs, SyncedInline(r)
    PROVE  TypeOK'
<1>1. r \in Requests
  BY DEF Requests
<1> QED BY <1>1, GoesTypes, InlineTypes DEF SyncedInline, TypeOK

LEMMA BootTypes == ASSUME TypeOK, Boot PROVE TypeOK'
<1> USE DEF TypeOK
<1>1. troubles' \in 0..MaxTroubles
  BY TroubleTypes DEF Boot
<1>2. request' \in [Requests -> Request] /\ \A q \in Requests : request'[q].at \in {"new", "done"}
  <2> DEFINE after(r) == [request[r] EXCEPT !.at = IF @ = "new" THEN @ ELSE "done", !.worker = None]
  <2>1. ASSUME NEW r \in Requests PROVE after(r) \in Request /\ after(r).at \in {"new", "done"}
    BY DEF Request
  <2>2. request' = [r \in Requests |-> after(r)]
    BY DEF Boot
  <2> HIDE DEF after
  <2> QED BY <2>1, <2>2
<1>3. link' \in Row \cup {None}
  BY DEF Boot, Row, States
<1>4. NoWorker \in Worker /\ NoWorker.at = "none" /\ NoSweep \in Sweep /\ NoSweep.at = "none"
  BY DEF NoWorker, Worker, NoSweep, Sweep
<1>5. [at |-> "none", read |-> None] \in Hold
  BY DEF Hold
<1>8. /\ shelves' \in {"none", "worker", "request"} /\ heard' \in BOOLEAN /\ live' \subseteq Tokens
      /\ server' \in {"up", "stopping", "down"} /\ crossed' \in BOOLEAN
  BY DEF Boot
<1>6. CASE link # None
  <2>1. /\ current' \in Workers /\ worker' = FirstWorker.worker
        /\ hold' = FirstWorker.hold /\ sweep' = FirstWorker.sweep
    BY <1>6, WorkersAreNumbers DEF Boot
  <2> HIDE DEF TypeOK
  <2>2. /\ worker' \in [Workers -> Worker] /\ hold' \in [Workers -> Hold] /\ sweep' \in [Callers -> Sweep]
        /\ \A w \in Workers : worker'[w].at = "sweep" <=> sweep'[w].at # "none"
        /\ \A c \in Callers : sweep'[c].at # "record"
    BY <2>1, FirstWorkerTypes
  <2> QED BY <1>1, <1>2, <1>3, <1>8, <2>1, <2>2 DEF TypeOK
<1>7. CASE link = None
  <2>1. /\ current' = None /\ worker' = [w \in Workers |-> NoWorker]
        /\ hold' = [w \in Workers |-> [at |-> "none", read |-> None]] /\ sweep' = [c \in Callers |-> NoSweep]
    BY <1>7 DEF Boot
  <2> HIDE DEF TypeOK
  <2>2. /\ worker' \in [Workers -> Worker] /\ hold' \in [Workers -> Hold] /\ sweep' \in [Callers -> Sweep]
        /\ \A w \in Workers : worker'[w].at = "sweep" <=> sweep'[w].at # "none"
        /\ \A c \in Callers : sweep'[c].at # "record"
    BY <1>4, <1>5, <2>1 DEF Callers
  <2> QED BY <1>1, <1>2, <1>3, <1>8, <2>1, <2>2 DEF TypeOK
<1> QED BY <1>6, <1>7

LEMMA TypeStep == ASSUME TypeOK, [Next]_vars PROVE TypeOK'
<1>1. ASSUME NEW t \in Tokens, Revoke(t) PROVE TypeOK'
  BY <1>1, TroubleTypes DEF Revoke, TypeOK
<1>2. CASE Stop
  <2>1. worker' \in [Workers -> Worker] /\ \A w \in Workers : worker'[w].at = worker[w].at
    BY <1>2 DEF Stop, Worker, TypeOK
  <2> QED BY <1>2, <2>1, TroubleTypes DEF Stop, TypeOK
<1>3. CASE Stopped
  BY <1>3 DEF Stopped, TypeOK
<1>4. CASE UNCHANGED vars
  BY <1>4 DEF vars, TypeOK
<1> QED
  BY <1>1, <1>2, <1>3, <1>4, SweepStepTypes, WorkerStepTypes, HoldStepTypes, RekeyTypes, UnlinkTypes,
     StarterTypes, SyncTypes, SyncedInlineTypes, BootTypes DEF Next, Arrive, RequestSteps

(* The types hold in every run of any size.                                *)
THEOREM LinkTypes == Spec => []TypeOK
BY InitTypes, TypeStep, PTL DEF Spec
-----------------------------------------------------------------------------
(* Only StartWorker, StopWorker, Stop and Boot touch the Syncer's map or a *)
(* worker's context.                                                       *)
Running(w) == worker[w].at \in {"wait", "sweep"} /\ ~worker[w].cancelled

LEMMA WorkersRest ==
    ASSUME TypeOK, NEW w \in Workers, WorkerSteps(w) \/ Nudge(w)
    PROVE  /\ current' = current
           /\ \A v \in Workers : Running(v)' => Running(v)
<1> USE DEF TypeOK, Running
<1>1. CASE Timer(w) \/ Nudge(w)
  BY <1>1 DEF Timer, Nudge, Wakes, Worker
<1>2. ASSUME NEW r \in Syncs, Forced(w, r) PROVE current' = current /\ \A v \in Workers : Running(v)' => Running(v)
  BY <1>2 DEF Forced, Wakes, Worker
<1>3. CASE WorkerDone(w)
  BY <1>3 DEF WorkerDone, Worker
<1>4. CASE SweepReturns(w)
  BY <1>4 DEF SweepReturns, Settled, NoWorker, Worker
<1> QED BY <1>1, <1>2, <1>3, <1>4 DEF WorkerSteps

(* Every other step leaves the map and all workers alone.                  *)
LEMMA OthersLeaveWorkers ==
    ASSUME TypeOK,
           \/ \E c \in Callers : SweepSteps(c)
           \/ \E w \in Workers : HoldSteps(w)
           \/ Arrive \/ \E r \in Syncs : SyncLeaves(r)
           \/ \E r \in Rekeys : Redeem(r) \/ UpdateLinkCredential(r)
           \/ \E r \in Unlinks : Surrender(r) \/ DropMirror(r) \/ DeleteLink(r)
           \/ \E r \in Starters : WorkerStopped(r)
           \/ \E r \in Syncs : WorkerWentAway(r) \/ SyncReturns(r)
           \/ \E r \in Rekeys \cup Syncs : SyncedInline(r)
           \/ \E t \in Tokens : Revoke(t)
           \/ Stopped \/ UNCHANGED vars
    PROVE  UNCHANGED <<current, worker>>
BY DEF SweepSteps, SweepRead, Reach, Pull, Record, HoldSteps, HoldAt, Subscribe, StreamEnds, HoldCancelled,
       HoldRecord, Arrive, RekeyBegin, UnlinkBegin, SyncNow, SyncLeaves, Redeem, UpdateLinkCredential, Surrender,
       DropMirror, DeleteLink, WorkerStopped, WorkerWentAway, SyncReturns, SyncedInline, Revoke, Stopped, vars

LEMMA OneWorkerStep == ASSUME TypeOK, OneWorker, [Next]_vars PROVE OneWorker'
<1> USE DEF OneWorker
<1>1. CASE UNCHANGED <<current, worker>>
  BY <1>1
<1>2. ASSUME NEW w \in Workers, WorkerSteps(w) \/ Nudge(w) PROVE OneWorker'
  BY <1>2, WorkersRest DEF Running
<1>3. ASSUME NEW r \in Starters, StopWorker(r) PROVE OneWorker'
  BY <1>3 DEF StopWorker, TypeOK, Worker
<1>4. ASSUME NEW r \in Starters, StartWorker(r) PROVE OneWorker'
  <2>1. ASSUME current = None, NEW w \in Workers, Launch(w) PROVE OneWorker'
    BY <2>1, WorkersAreNumbers DEF Launch, TypeOK, Worker
  <2> QED BY <1>1, <1>4, <2>1 DEF StartWorker
<1>5. CASE Stop
  BY <1>5 DEF Stop, TypeOK, Worker
<1>6. CASE Boot
  <2>1. CASE link # None
    <3>1. current' = 1 /\ worker' = FirstWorker.worker
      BY <1>6, <2>1 DEF Boot
    <3>2. ASSUME NEW w \in Workers, w # 1 PROVE worker'[w].at = "none"
      BY <3>1, <3>2, FirstWorkerTypes DEF NoWorker
    <3> QED BY <3>1, <3>2
  <2>2. CASE link = None
    <3>1. worker' = [w \in Workers |-> NoWorker]
      BY <1>6, <2>2 DEF Boot
    <3>2. \A w \in Workers : worker'[w].at = "none"
      BY <3>1 DEF NoWorker
    <3> QED BY <3>2
  <2> QED BY <2>1, <2>2
<1> QED
  BY <1>1, <1>2, <1>3, <1>4, <1>5, <1>6, OthersLeaveWorkers DEF Next, RequestSteps

(* However re-keys, unlinks, failures and restarts overlap, a worker that  *)
(* runs and was not told to end is the one in Syncer.workers.              *)
THEOREM OneWorkerRuns == Spec => []OneWorker
<1>1. Init => OneWorker
  BY FirstWorkerTypes DEF Init, OneWorker, NoWorker
<1> QED
  BY <1>1, InitTypes, TypeStep, OneWorkerStep, PTL DEF Spec
-----------------------------------------------------------------------------
(* What is about to write "connected" has heard from the sharer: a re-key  *)
(* that redeemed its invite, a sweep whose calls came back.                *)
Earning ==
    /\ ConnectedIsEarned
    /\ \A r \in Rekeys : request[r].at = "update" => heard
    /\ \A c \in Callers : sweep[c].at \in {"pull", "record"} /\ sweep[c].result = "connected" => heard

LEMMA SweepEarns == ASSUME TypeOK, Earning, NEW c \in Callers, SweepSteps(c) PROVE Earning'
<1> USE DEF Earning
<1>1. CASE SweepRead(c)
  BY <1>1 DEF SweepRead, Ends, ConnectedIsEarned, TypeOK, Sweep
<1>2. ASSUME NEW next \in {"pull", "record"}, Call(c, next), UNCHANGED <<link, request>> PROVE Earning'
  BY <1>2 DEF Call, ConnectedIsEarned, TypeOK, Sweep
<1>3. CASE Reach(c)
  BY <1>2, <1>3 DEF Reach
<1>4. CASE Pull(c)
  BY <1>2, <1>4 DEF Pull
<1>5. CASE Record(c)
  <2>1. /\ heard' = heard /\ request' = request
        /\ link' # None /\ link'.state = "connected" => heard
    BY <1>5 DEF Record, SetLinkState, TypeOK, Row
  <2>2. \A d \in Callers : sweep'[d] = sweep[d] \/ sweep'[d].at = "ended"
    BY <1>5 DEF Record, Ends, TypeOK, Sweep
  <2> QED BY <2>1, <2>2 DEF ConnectedIsEarned
<1> QED BY <1>1, <1>3, <1>4, <1>5 DEF SweepSteps

(* Requests and workers begin and end sweeps but record none.              *)
LEMMA OthersRecordNothing ==
    ASSUME TypeOK, Earning, link' = link, heard' = heard,
           \A r \in Rekeys : request'[r].at = "update" => request[r].at = "update",
           \A c \in Callers : sweep'[c] = sweep[c] \/ sweep'[c].at \in {"start", "none"}
    PROVE  Earning'
BY DEF Earning, ConnectedIsEarned

LEMMA EarningStep == ASSUME TypeOK, Earning, [Next]_vars PROVE Earning'
<1>0. /\ \A f \in BOOLEAN : Begin(f).at = "start" /\ NoSweep.at = "none"
      /\ Rekeys \subseteq Requests /\ Unlinks \subseteq Requests /\ Syncs \subseteq Requests /\ Workers \subseteq Callers
      /\ Starters \subseteq Requests /\ Requests \subseteq Callers
  BY DEF Begin, NoSweep, Requests, Callers, Starters
<1>1. ASSUME NEW r \in Requests, NEW l \in {"redeem", "sync", "stop", "start", "delete", "answered", "done"}, Goes(r, l)
      PROVE  \A q \in Rekeys : request'[q].at = "update" => request[q].at = "update"
  BY <1>0, <1>1 DEF Goes, TypeOK, Request
<1>2. ASSUME NEW w \in Workers, WorkerSteps(w) \/ Nudge(w) PROVE Earning'
  <2>1. UNCHANGED <<link, heard>>
    BY <1>2 DEF WorkerSteps, Nudge, Timer, Forced, Wakes, WorkerDone, SweepReturns
  <2>2. \A c \in Callers : sweep'[c] = sweep[c] \/ sweep'[c].at \in {"start", "none"}
    BY <1>0, <1>2 DEF WorkerSteps, Nudge, Timer, Forced, Wakes, WorkerDone, SweepReturns, TypeOK
  <2>3. \A q \in Rekeys : request'[q].at = "update" => request[q].at = "update"
    BY <1>0, <1>2 DEF WorkerSteps, Nudge, Timer, Forced, Wakes, WorkerDone, SweepReturns, Answered, TypeOK, Request
  <2> QED BY <2>1, <2>2, <2>3, OthersRecordNothing
<1>3. ASSUME NEW w \in Workers, HoldSteps(w) PROVE Earning'
  <2>1. UNCHANGED <<heard, request, sweep>> /\ (link' # link => link' = None \/ link'.state = "revoked")
    BY <1>3 DEF HoldSteps, Subscribe, StreamEnds, HoldCancelled, HoldRecord, HoldAt, SetLinkState, TypeOK, Row
  <2> QED BY <2>1 DEF Earning, ConnectedIsEarned
<1>4. ASSUME NEW r \in Rekeys, RekeyBegin(r) \/ Redeem(r) \/ UpdateLinkCredential(r) PROVE Earning'
  <2>1. CASE RekeyBegin(r)
    BY <1>0, <1>1, <2>1, OthersRecordNothing DEF RekeyBegin, TypeOK
  <2>2. CASE Redeem(r)
    BY <1>0, <2>2 DEF Redeem, Goes, Earning, ConnectedIsEarned, TypeOK, Request
  <2>3. CASE UpdateLinkCredential(r)
    <3>1. /\ \A q \in Rekeys : request'[q].at = "update" => request[q].at = "update"
          /\ request[r].at = "update" /\ heard' = heard /\ heard
      BY <1>0, <1>1, <2>3 DEF UpdateLinkCredential, Earning
    <3>2. \A c \in Callers : sweep'[c] = sweep[c] \/ sweep'[c].at \in {"start", "none"}
      BY <1>0, <2>3 DEF UpdateLinkCredential, TypeOK
    <3> QED BY <3>1, <3>2 DEF Earning, ConnectedIsEarned
  <2> QED BY <1>4, <2>1, <2>2, <2>3
<1>5. ASSUME NEW r \in Unlinks, UnlinkBegin(r) \/ Surrender(r) \/ DropMirror(r) \/ DeleteLink(r) PROVE Earning'
  <2>1. UNCHANGED <<heard, sweep>> /\ (link' = link \/ link' = None)
    BY <1>5 DEF UnlinkBegin, Surrender, DropMirror, DeleteLink
  <2>2. \A q \in Rekeys : request'[q].at = "update" => request[q].at = "update"
    BY <1>0, <1>5 DEF UnlinkBegin, Surrender, DropMirror, DeleteLink, Goes, TypeOK, Request
  <2> QED BY <2>1, <2>2 DEF Earning, ConnectedIsEarned
<1>6. ASSUME NEW r \in Starters, StopWorker(r) \/ WorkerStopped(r) \/ StartWorker(r) PROVE Earning'
  <2>1. UNCHANGED <<link, heard>>
    BY <1>6 DEF StopWorker, WorkerStopped, StartWorker
  <2>2. \A q \in Rekeys : request'[q].at = "update" => request[q].at = "update"
    BY <1>0, <1>6 DEF StopWorker, WorkerStopped, StartWorker, Goes, TypeOK, Request
  <2>3. \A c \in Callers : sweep'[c] = sweep[c] \/ sweep'[c].at \in {"start", "none"}
    BY <1>0, <1>6 DEF StopWorker, WorkerStopped, StartWorker, Launch, TypeOK
  <2> QED BY <2>1, <2>2, <2>3, OthersRecordNothing
<1>7. ASSUME NEW r \in Syncs, SyncNow(r) \/ WorkerWentAway(r) \/ SyncReturns(r) \/ SyncLeaves(r) PROVE Earning'
  <2>1. UNCHANGED <<link, heard>>
    BY <1>7 DEF SyncNow, WorkerWentAway, SyncReturns, SyncLeaves
  <2>2. \A q \in Rekeys : request'[q].at = "update" => request[q].at = "update"
    <3>1. r \notin Rekeys
      BY LinkConstants DEF Starters
    <3>2. \E v : request' = [request EXCEPT ![r] = v]
      BY <1>7 DEF SyncNow, WorkerWentAway, SyncReturns, SyncLeaves, Goes
    <3>3. \A q \in Rekeys : request'[q] = request[q]
      BY <1>0, <3>1, <3>2 DEF TypeOK
    <3> QED BY <3>3
  <2>3. \A c \in Callers : sweep'[c] = sweep[c] \/ sweep'[c].at \in {"start", "none"}
    BY <1>0, <1>7 DEF SyncNow, WorkerWentAway, SyncReturns, SyncLeaves, TypeOK
  <2> QED BY <2>1, <2>2, <2>3, OthersRecordNothing
<1>8. ASSUME NEW r \in Rekeys \cup Syncs, SyncedInline(r) PROVE Earning'
  <2>1. \A c \in Callers : sweep'[c] = sweep[c] \/ sweep'[c].at \in {"start", "none"}
    BY <1>0, <1>8 DEF SyncedInline, TypeOK
  <2> QED BY <1>0, <1>1, <1>8, <2>1, OthersRecordNothing DEF SyncedInline
<1>9. CASE Stop \/ Stopped \/ UNCHANGED vars \/ \E t \in Tokens : Revoke(t)
  <2>1. UNCHANGED <<link, heard, request, sweep>>
    BY <1>9 DEF Stop, Stopped, vars, Revoke
  <2> QED BY <2>1 DEF Earning, ConnectedIsEarned
<1>10. CASE Boot
  <2>1. link' # None => link'.state # "connected"
    BY <1>10 DEF Boot, TypeOK, Row, States
  <2>2. \A r \in Requests : request'[r].at # "update"
    BY <1>10 DEF Boot, TypeOK, Request
  <2>3. \A c \in Callers : sweep'[c].at \in {"start", "none"}
    BY <1>0, <1>10, FirstWorkerTypes DEF Boot
  <2> QED BY <1>0, <2>1, <2>2, <2>3 DEF Earning, ConnectedIsEarned
<1> QED
  BY <1>2, <1>3, <1>4, <1>5, <1>6, <1>7, <1>8, <1>9, <1>10, SweepEarns DEF Next, Arrive, RequestSteps

(* A Link is never shown as connected on the strength of an earlier boot.  *)
THEOREM ConnectedOnlyIfHeard == Spec => []ConnectedIsEarned
<1>1. Init => Earning
  <2> SUFFICES ASSUME Init PROVE Earning
    OBVIOUS
  <2>1. \A c \in Callers : sweep[c].at \in {"start", "none"}
    BY FirstWorkerTypes DEF Init
  <2>2. \A r \in Requests : request[r].at = "new"
    BY DEF Init
  <2> QED BY <2>1, <2>2 DEF Init, Earning, ConnectedIsEarned, Requests
<1>2. Earning => ConnectedIsEarned
  BY DEF Earning
<1> QED
  BY <1>1, <1>2, InitTypes, TypeStep, EarningStep, PTL DEF Spec
-----------------------------------------------------------------------------
(* While no two Starters cross and the Server is up: one of them at most   *)
(* is under way; a worker that has not ended is the one on the map or the  *)
(* one being waited for; and from the stop on nothing is on the map until  *)
(* the same request starts something.  So whoever removes the Libraries is *)
(* alone, and once the Link is gone nobody comes back.                     *)
Alone ==
    /\ \A q, r \in Starters : UnderWay(q) /\ UnderWay(r) => q = r
    /\ \A w \in Workers : worker[w].at \in {"wait", "sweep"} =>
           w = current \/ \E r \in Starters : request[r].at = "stopping" /\ request[r].worker = w
    /\ \A r \in Starters : request[r].at \in {"stopping", "drop", "delete", "start"} => current = None

Cleared ==
    /\ \A r \in Unlinks : request[r].at = "delete" => shelves # "worker"
    /\ link = None => /\ shelves # "worker" /\ current = None
                      /\ \A r \in Starters : ~UnderWay(r)

Orderly == ~crossed /\ server = "up" => Alone /\ Cleared

(* A step that moves no Starter, starts no worker and fills no shelf.      *)
LEMMA QuietStep ==
    ASSUME Orderly, UNCHANGED <<shelves, current, crossed, server>>,
           link' = None <=> link = None,
           \A w \in Workers : worker'[w].at \in {"wait", "sweep"} => worker[w].at \in {"wait", "sweep"},
           \A r \in Starters : \/ request'[r] = request[r]
                               \/ request[r].at = "wait" /\ request'[r].at = "answered"
    PROVE  Orderly'
<1>1. /\ \A r \in Starters : UnderWay(r)' <=> UnderWay(r)
      /\ \A r \in Starters, l \in {"stopping", "drop", "delete", "start"} : request'[r].at = l <=> request[r].at = l
      /\ \A r \in Starters : request[r].at = "stopping" => request'[r] = request[r]
  BY DEF UnderWay
<1> QED
  BY <1>1 DEF Orderly, Alone, Cleared, Starters

(* A worker is in no sweep while an unlink clears up or the Link is gone.  *)
LEMMA ClearedIsQuiet ==
    ASSUME TypeOK, Alone, Cleared, NEW w \in Workers,
           link = None \/ \E r \in Starters : request[r].at \in {"drop", "delete", "start"}
    PROVE  worker[w].at \notin {"wait", "sweep"}
<1>1. current = None /\ w # None
  BY WorkersAreNumbers DEF Alone, Cleared
<1>2. \A r \in Starters : request[r].at # "stopping"
  BY DEF Alone, Cleared, UnderWay
<1> QED BY <1>1, <1>2 DEF Alone

LEMMA SweepIsOrderly == ASSUME TypeOK, Orderly, NEW c \in Callers, SweepSteps(c) PROVE Orderly'
<1>1. CASE SweepRead(c) \/ Reach(c) \/ Record(c)
  <2>1. link' = None <=> link = None
    <3>1. ASSUME link # None, NEW x \in States PROVE [link EXCEPT !.state = x] # None
      BY <3>1, NoneIsNoRow DEF TypeOK, Row
    <3> QED BY <1>1, <3>1 DEF SweepRead, Reach, Record, SetLinkState, TypeOK
  <2>2. UNCHANGED <<shelves, current, crossed, server, worker, request>>
    BY <1>1 DEF SweepRead, Reach, Record
  <2> QED BY <2>1, <2>2, QuietStep
<1>2. CASE Pull(c)
  <2> SUFFICES ASSUME ~crossed, server = "up" PROVE Alone' /\ Cleared'
    BY <1>2 DEF Pull, Orderly
  <2>1. /\ UNCHANGED <<link, current, crossed, server, worker, request>>
        /\ shelves' = "worker" => c \in Workers /\ worker[c].at = "sweep"
    BY <1>2 DEF Pull, TypeOK, Sweep
  <2>2. Alone'
    BY <2>1 DEF Orderly, Alone, UnderWay
  <2>3. CASE link = None \/ \E r \in Starters : request[r].at = "delete"
    <3>1. Alone /\ Cleared
      BY DEF Orderly
    <3>2. shelves' # "worker"
      BY <2>1, <2>3, <3>1, ClearedIsQuiet
    <3>3. link = None => current = None /\ \A r \in Starters : ~UnderWay(r)
      BY <3>1 DEF Cleared
    <3> QED BY <2>1, <2>2, <3>2, <3>3 DEF Cleared, UnderWay
  <2>4. CASE link # None /\ \A r \in Starters : request[r].at # "delete"
    BY <2>1, <2>2, <2>4 DEF Cleared, Starters
  <2> QED BY <2>2, <2>3, <2>4
<1> QED BY <1>1, <1>2 DEF SweepSteps

LEMMA WorkerIsOrderly == ASSUME TypeOK, Orderly, NEW w \in Workers, WorkerSteps(w) \/ Nudge(w) PROVE Orderly'
<1>0. Starters \subseteq Requests
  BY DEF Starters, Requests
<1>1. UNCHANGED <<shelves, current, crossed, server, link>>
  BY DEF WorkerSteps, Nudge, Timer, Forced, Wakes, WorkerDone, SweepReturns
<1>2. \A v \in Workers : worker'[v].at \in {"wait", "sweep"} => worker[v].at \in {"wait", "sweep"}
  BY DEF WorkerSteps, Nudge, Timer, Forced, Wakes, WorkerDone, SweepReturns, Settled, TypeOK, Worker
<1>3. \A r \in Starters : \/ request'[r] = request[r]
                          \/ request[r].at = "wait" /\ request'[r].at = "answered"
  <2>1. CASE Timer(w) \/ Nudge(w) \/ WorkerDone(w)
    <3>1. request' = request
      BY <2>1 DEF Timer, Nudge, WorkerDone
    <3> QED BY <3>1
  <2>2. ASSUME NEW q \in Syncs, Forced(w, q) PROVE \A r \in Starters : request'[r] = request[r]
    BY <1>0, <2>2, LinkConstants DEF Forced, TypeOK
  <2>3. CASE SweepReturns(w)
    BY <1>0, <2>3 DEF SweepReturns, Answered, TypeOK, Request, Worker
  <2> QED BY <2>1, <2>2, <2>3 DEF WorkerSteps
<1> QED BY <1>1, <1>2, <1>3, QuietStep

LEMMA HoldIsOrderly == ASSUME TypeOK, Orderly, NEW w \in Workers, HoldSteps(w) PROVE Orderly'
<1>1. link' = None <=> link = None
  <2>1. ASSUME link # None, NEW x \in States PROVE [link EXCEPT !.state = x] # None
    BY <2>1, NoneIsNoRow DEF TypeOK, Row
  <2> QED BY <2>1 DEF HoldSteps, Subscribe, StreamEnds, HoldCancelled, HoldRecord, SetLinkState, States
<1>2. UNCHANGED <<shelves, current, crossed, server, worker, request>>
  BY DEF HoldSteps, Subscribe, StreamEnds, HoldCancelled, HoldRecord, HoldAt
<1> QED BY <1>1, <1>2, QuietStep

LEMMA SyncIsOrderly ==
    ASSUME TypeOK, Orderly,
           \/ \E r \in Syncs : SyncNow(r) \/ WorkerWentAway(r) \/ SyncReturns(r) \/ SyncLeaves(r)
           \/ \E r \in Syncs : SyncedInline(r)
           \/ \E t \in Tokens : Revoke(t)
           \/ UNCHANGED vars
    PROVE  Orderly'
<1>1. UNCHANGED <<link, shelves, current, crossed, server, worker>>
  BY LinkConstants DEF SyncNow, Begins, WorkerWentAway, SyncReturns, SyncLeaves, SyncedInline, Revoke, vars
<1>2. \A r \in Starters : request'[r] = request[r]
  BY LinkConstants DEF SyncNow, WorkerWentAway, SyncReturns, SyncLeaves, SyncedInline, Goes, Revoke, vars, TypeOK, Starters, Requests
<1> QED BY <1>1, <1>2, QuietStep

(* A Starter that moves, and neither ends the Link nor fills a shelf: it    *)
(* is the only one under way, before and after.                            *)
LEMMA StarterMoves ==
    ASSUME TypeOK, Orderly, ~crossed', server' = "up", server = "up", ~crossed, NEW r \in Starters,
           UNCHANGED <<shelves, worker>>, link' = None <=> link = None,
           current' = current,
           \A q \in Starters \ {r} : request'[q] = request[q],
           \/ UnderWay(r)
           \/ UnderWay(r)' => link # None /\ \A q \in Starters : ~UnderWay(q),
           request[r].at # "stopping",
           request'[r].at \notin {"stopping", "drop", "delete", "start"}
    PROVE  Orderly'
<1> SUFFICES Alone' /\ Cleared'
  BY DEF Orderly
<1>1. Alone /\ Cleared
  BY DEF Orderly
<1>2. /\ \A q \in Starters \ {r} : UnderWay(q)' <=> UnderWay(q)
      /\ UnderWay(r)' => link # None /\ \A q \in Starters \ {r} : ~UnderWay(q)
  BY <1>1 DEF UnderWay, Alone, Cleared
<1>3. Alone'
  BY <1>1, <1>2 DEF Alone
<1>4. Cleared'
  BY <1>1, <1>2 DEF Cleared, Starters
<1> QED BY <1>3, <1>4

LEMMA BeginsIsOrderly ==
    ASSUME TypeOK, Orderly, ~crossed', server' = "up", NEW r \in Starters, Begins(r), server' = server,
           UNCHANGED <<shelves, worker, current, link>>,
           request' \in [Requests -> Request],
           \A q \in Requests \ {r} : request'[q] = request[q],
           request'[r].at \in {"redeem", "surrender", "done"}, link = None => request'[r].at = "done"
    PROVE  Orderly'
<1>1. ~crossed /\ (\A q \in Starters : ~UnderWay(q)) /\ request[r].at = "new"
  BY DEF Begins, TypeOK
<1>2. \A q \in Starters \ {r} : request'[q] = request[q]
  BY DEF Starters, Requests
<1>3. UnderWay(r)' => link # None
  BY DEF UnderWay
<1> QED BY <1>1, <1>2, <1>3, StarterMoves

LEMMA RekeyIsOrderly ==
    ASSUME TypeOK, Orderly, ~crossed', server' = "up",
           \/ \E r \in Rekeys : RekeyBegin(r) \/ Redeem(r) \/ UpdateLinkCredential(r) \/ SyncedInline(r)
    PROVE  Orderly'
<1> PICK r \in Rekeys : RekeyBegin(r) \/ Redeem(r) \/ UpdateLinkCredential(r) \/ SyncedInline(r)
  OBVIOUS
<1>0. r \in Starters /\ r \in Requests /\ Starters \subseteq Requests
  BY DEF Starters, Requests
<1>1. CASE RekeyBegin(r)
  <2>1. /\ request' \in [Requests -> Request]
        /\ \A q \in Requests \ {r} : request'[q] = request[q]
        /\ request'[r].at = IF link = None THEN "done" ELSE "redeem"
    <3>1. PICK l \in {"done", "redeem"} : Goes(r, l) /\ l = IF link = None THEN "done" ELSE "redeem"
      BY <1>1 DEF RekeyBegin
    <3>2. request' \in [Requests -> Request]
      BY <1>0, <3>1, GoesTypes
    <3> QED BY <1>0, <3>1, <3>2 DEF Goes, TypeOK, Request
  <2>2. UNCHANGED <<shelves, worker, current, link, server>> /\ Begins(r)
    BY <1>1 DEF RekeyBegin
  <2> QED BY <1>0, <2>1, <2>2, BeginsIsOrderly
<1>2. ASSUME NEW l \in {"update", "sync", "stop", "done"}, Goes(r, l), UnderWay(r), request[r].at # "stopping",
             UNCHANGED <<shelves, worker, current, server, crossed>>, link' = None <=> link = None
      PROVE  Orderly'
  <2>1. request'[r].at = l /\ \A q \in Starters \ {r} : request'[q] = request[q]
    BY <1>0, <1>2 DEF Goes, TypeOK, Request
  <2> QED BY <1>0, <1>2, <2>1, StarterMoves
<1>3. CASE Redeem(r)
  BY <1>2, <1>3 DEF Redeem, UnderWay
<1>4. CASE UpdateLinkCredential(r)
  <2>1. [state |-> "connected", token |-> r] # None
    <3>1. [state |-> "connected", token |-> r] \in Row
      BY DEF Row, States, Tokens
    <3> QED BY <3>1, NoneIsNoRow
  <2>2. link' = None <=> link = None
    BY <1>4, <2>1 DEF UpdateLinkCredential
  <2>3. Goes(r, "done") \/ Goes(r, "sync")
    BY <1>4 DEF UpdateLinkCredential
  <2>4. UnderWay(r) /\ request[r].at # "stopping" /\ UNCHANGED <<shelves, worker, current, server, crossed>>
    BY <1>4 DEF UpdateLinkCredential, UnderWay
  <2> QED BY <1>2, <2>2, <2>3, <2>4
<1>5. CASE SyncedInline(r)
  BY <1>2, <1>5 DEF SyncedInline, UnderWay
<1> QED BY <1>1, <1>3, <1>4, <1>5

LEMMA UnlinkIsOrderly ==
    ASSUME TypeOK, Orderly, ~crossed', server' = "up",
           \E r \in Unlinks : UnlinkBegin(r) \/ Surrender(r) \/ DropMirror(r) \/ DeleteLink(r)
    PROVE  Orderly'
<1> PICK r \in Unlinks : UnlinkBegin(r) \/ Surrender(r) \/ DropMirror(r) \/ DeleteLink(r)
  OBVIOUS
<1>0. r \in Starters /\ r \in Requests /\ Starters \subseteq Requests
  BY DEF Starters, Requests
<1>1. CASE UnlinkBegin(r)
  <2>1. /\ \A q \in Requests \ {r} : request'[q] = request[q]
        /\ request'[r].at = IF link = None THEN "done" ELSE "surrender"
    BY <1>0, <1>1 DEF UnlinkBegin, TypeOK, Request
  <2>2. UNCHANGED <<shelves, worker, current, link, server>> /\ Begins(r) /\ request' \in [Requests -> Request]
    BY <1>1, UnlinkTypes DEF UnlinkBegin, TypeOK
  <2> QED BY <1>0, <2>1, <2>2, BeginsIsOrderly
<1>2. CASE Surrender(r)
  <2>1. /\ \A q \in Starters \ {r} : request'[q] = request[q]
        /\ request'[r].at = "stop" /\ request[r].at = "surrender"
    BY <1>0, <1>2 DEF Surrender, TypeOK, Request
  <2>2. UNCHANGED <<shelves, worker, current, link, server, crossed>>
    BY <1>2 DEF Surrender
  <2>3. UnderWay(r)
    BY <2>1 DEF UnderWay
  <2> QED BY <1>0, <2>1, <2>2, <2>3, StarterMoves
<1>3. CASE DropMirror(r)
  <2>1. /\ \A q \in Starters \ {r} : request'[q] = request[q]
        /\ request[r].at = "drop"
        /\ \/ request'[r].at = "delete" /\ shelves' = "none"
           \/ request'[r].at = "stop" /\ shelves' = shelves
    BY <1>0, <1>3 DEF DropMirror, Goes, TypeOK, Request
  <2>2. UNCHANGED <<worker, current, link, server, crossed>>
    BY <1>3 DEF DropMirror
  <2>3. UnderWay(r)
    BY <2>1 DEF UnderWay
  <2>4. CASE shelves' = shelves /\ request'[r].at = "stop"
    BY <1>0, <2>1, <2>2, <2>3, <2>4, StarterMoves
  <2>5. CASE shelves' = "none" /\ request'[r].at = "delete"
    <3>1. Alone /\ Cleared /\ \A q \in Starters : UnderWay(q)' <=> UnderWay(q)
      BY <1>0, <2>1, <2>2, <2>5 DEF Orderly, UnderWay
    <3>2. Alone'
      BY <2>1, <2>2, <2>5, <3>1 DEF Alone
    <3>3. Cleared'
      BY <2>2, <2>5, <3>1 DEF Cleared
    <3> QED BY <3>2, <3>3 DEF Orderly
  <2> QED BY <2>1, <2>4, <2>5
<1>4. CASE DeleteLink(r)
  <2>1. /\ \A q \in Starters \ {r} : request'[q] = request[q]
        /\ request'[r].at = "done" /\ request[r].at = "delete"
    BY <1>0, <1>4 DEF DeleteLink, Goes, TypeOK, Request
  <2>2. UNCHANGED <<shelves, worker, current, server, crossed>> /\ (link' = link \/ link' = None)
    BY <1>4 DEF DeleteLink
  <2>3. Alone /\ Cleared
    BY <2>2 DEF Orderly
  <2>4. /\ shelves # "worker" /\ current = None
        /\ \A q \in Starters : ~UnderWay(q)'
    BY <1>0, <2>1, <2>3 DEF Alone, Cleared, UnderWay
  <2>5. Alone'
    BY <2>1, <2>2, <2>3, <2>4 DEF Alone, UnderWay
  <2>6. Cleared'
    BY <2>2, <2>4 DEF Cleared
  <2> QED BY <2>5, <2>6 DEF Orderly
<1> QED BY <1>1, <1>2, <1>3, <1>4

LEMMA StarterIsOrderly ==
    ASSUME TypeOK, Orderly, ~crossed', server' = "up",
           \E r \in Starters : StopWorker(r) \/ WorkerStopped(r) \/ StartWorker(r)
    PROVE  Orderly'
<1> PICK r \in Starters : StopWorker(r) \/ WorkerStopped(r) \/ StartWorker(r)
  OBVIOUS
<1>0. r \in Requests /\ Starters \subseteq Requests /\ Unlinks \subseteq Starters
  BY DEF Starters, Requests
<1>1. /\ \A q \in Starters \ {r} : request'[q] = request[q]
      /\ UNCHANGED <<shelves, link, crossed, server>>
      /\ UnderWay(r)
  BY <1>0 DEF StopWorker, WorkerStopped, StartWorker, Goes, TypeOK, UnderWay
<1>2. /\ Alone /\ Cleared
      /\ \A q \in Starters \ {r} : ~UnderWay(q) /\ ~UnderWay(q)'
      /\ link # None
  BY <1>1 DEF Orderly, Alone, Cleared, UnderWay
<1>3. \A q \in Starters \ {r}, l \in {"stopping", "drop", "delete", "start"} : request[q].at # l /\ request'[q].at # l
  BY <1>2 DEF UnderWay
<1>4. \A q, p \in Starters : UnderWay(q)' /\ UnderWay(p)' => q = p
  BY <1>2
<1>5. (request'[r].at = "delete" => shelves # "worker") => Cleared'
  BY <1>0, <1>1, <1>2, <1>3 DEF Cleared
<1>6. CASE StopWorker(r)
  <2>1. /\ request'[r].at = "stopping" /\ request'[r].worker = current /\ current' = None /\ request[r].at = "stop"
        /\ \A w \in Workers : worker'[w].at = worker[w].at
    BY <1>0, <1>6 DEF StopWorker, TypeOK, Request, Worker
  <2>2. \A w \in Workers : worker'[w].at \in {"wait", "sweep"} => w = current
    BY <1>2, <1>3, <2>1 DEF Alone
  <2> QED BY <1>4, <1>5, <2>1, <2>2, <1>1 DEF Orderly, Alone
<1>7. CASE WorkerStopped(r)
  <2>1. /\ request'[r].at \in {"drop", "start"} /\ request[r].at = "stopping"
        /\ request[r].worker # None => worker[request[r].worker].at = "done"
        /\ UNCHANGED <<current, worker>>
    BY <1>0, <1>7 DEF WorkerStopped, TypeOK, Request
  <2>2. current = None /\ \A w \in Workers : worker[w].at \notin {"wait", "sweep"}
    BY <1>2, <1>3, <2>1, WorkersAreNumbers DEF Alone
  <2> QED BY <1>4, <1>5, <2>1, <2>2, <1>1 DEF Orderly, Alone
<1>8. CASE StartWorker(r)
  <2>1. request'[r].at = "done" /\ request[r].at = "start" /\ current = None
    BY <1>0, <1>2, <1>8 DEF StartWorker, Goes, TypeOK, Request, Alone
  <2>2. \A w \in Workers : worker[w].at \notin {"wait", "sweep"}
    BY <1>2, <2>1, ClearedIsQuiet
  <2>3. \A w \in Workers : worker'[w].at \in {"wait", "sweep"} => w = current'
    BY <1>8, <2>2 DEF StartWorker, Launch, TypeOK, Worker
  <2>4. \A q \in Starters : request'[q].at \notin {"stopping", "drop", "delete", "start"}
    BY <1>3, <2>1
  <2> QED BY <1>1, <1>4, <1>5, <2>1, <2>3, <2>4 DEF Orderly, Alone
<1> QED BY <1>6, <1>7, <1>8

LEMMA BootIsOrderly == ASSUME TypeOK, Boot PROVE Orderly'
<1>1. \A r \in Requests : request'[r].at \in {"new", "done"}
  BY DEF Boot, TypeOK, Request
<1>2. \A r \in Starters : ~UnderWay(r)' /\ request'[r].at \notin {"stopping", "drop", "delete", "start"}
  BY <1>1 DEF UnderWay, Starters, Requests
<1>3. \A w \in Workers : worker'[w].at \in {"wait", "sweep"} => w = current'
  <2>1. CASE link # None
    <3>1. current' = 1 /\ worker' = FirstWorker.worker
      BY <2>1 DEF Boot
    <3>2. ASSUME NEW w \in Workers, w # 1 PROVE worker'[w].at = "none"
      BY <3>1, <3>2, FirstWorkerTypes DEF NoWorker
    <3> QED BY <3>1, <3>2
  <2>2. CASE link = None
    <3>1. worker' = [w \in Workers |-> NoWorker]
      BY <2>2 DEF Boot
    <3> QED BY <3>1 DEF NoWorker
  <2> QED BY <2>1, <2>2
<1>4. link' = None => shelves' # "worker" /\ current' = None
  <2>1. ASSUME link # None, NEW x \in States PROVE [link EXCEPT !.state = x] # None
    BY <2>1, NoneIsNoRow DEF TypeOK, Row
  <2>2. link # None => link' # None
    BY <2>1 DEF Boot, States
  <2> QED BY <2>2 DEF Boot
<1>5. Alone'
  BY <1>2, <1>3 DEF Alone
<1>6. Cleared'
  BY <1>2, <1>4 DEF Cleared, Starters
<1> QED BY <1>5, <1>6 DEF Orderly

LEMMA OrderlyStep == ASSUME TypeOK, Orderly, [Next]_vars PROVE Orderly'
<1>1. CASE Stop \/ Stopped
  BY <1>1 DEF Stop, Stopped, Orderly
<1> SUFFICES ASSUME ~crossed', server' = "up" PROVE Orderly'
  BY DEF Orderly
<1> QED
  BY <1>1, SweepIsOrderly, WorkerIsOrderly, HoldIsOrderly, SyncIsOrderly, RekeyIsOrderly, UnlinkIsOrderly,
     StarterIsOrderly, BootIsOrderly DEF Next, Arrive, RequestSteps

(* A Link that is gone has no Library that a worker brought, for any       *)
(* number of unlinks, re-keys and restarts of which no two cross.          *)
THEOREM NoOrphansRemain == Spec => []NoOrphans
<1>1. Init => Orderly
  <2> SUFFICES ASSUME Init PROVE Alone /\ Cleared
    BY DEF Orderly
  <2>1. \A r \in Starters : request[r].at = "new"
    BY DEF Init, Starters, Requests
  <2>2. \A w \in Workers : worker[w].at # "none" => w = current
    BY FirstWorkerTypes DEF Init, NoWorker
  <2>3. link # None
    <3>1. link \in Row
      BY DEF Init, Row, States, Tokens
    <3> QED BY <3>1, NoneIsNoRow
  <2> QED BY <2>1, <2>2, <2>3 DEF Alone, Cleared, UnderWay, Starters
<1>2. Orderly => NoOrphans
  BY DEF Orderly, Cleared, NoOrphans
<1> QED
  BY <1>1, <1>2, InitTypes, TypeStep, OrderlyStep, PTL DEF Spec
=============================================================================
