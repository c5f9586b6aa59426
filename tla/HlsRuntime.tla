----------------------------- MODULE HlsRuntime -----------------------------
(***************************************************************************)
(* internal/playback/remux.go: hlsRuntime, which owns the one ffmpeg job   *)
(* of a session.  Media requests start it lazily, fall back from the       *)
(* hardware to the CPU encoder once, and restart it at another segment     *)
(* when the player seeks; tearing the session down kills it for good.      *)
(*                                                                         *)
(* Requests are goroutines that run between critical sections of startMu   *)
(* (held through a whole EnsureStarted) and mu (one action each).  ffmpeg  *)
(* processes die when they like, and a Kill only signals them.  What is on *)
(* disk is left out, so where the code looks there (nearFrontier) either   *)
(* answer may come; SegmentGate models the disk.                           *)
(***************************************************************************)
EXTENDS Naturals

CONSTANTS Requests,   \* media requests in flight
          Procs,      \* ffmpeg processes; bounds how many are ever spawned
          Segments,   \* the segments a player asks for
          Near,       \* realignLookahead; the window of nearFrontier
          Modes,      \* which kinds of runtime to consider
          NoRequest, NoJob

ASSUME RuntimeConstants ==
    /\ NoRequest \notin Requests
    /\ NoJob \notin Procs
    /\ Segments \subseteq Nat /\ 0 \in Segments
    /\ Near \in Nat
    /\ Modes \subseteq {"hardware", "cpu", "copy"}

VARIABLES
    mode,        \* what the runtime was built for: a transcode with or without
                 \* buildCPUArgs, or a video copy with probed boundaries
    pc, aim,     \* each request: where it is, the segment it asks for
    windowOf,    \* the request whose realignBurst a request waits for
    started, torndown, fellBack, job, startNumber, jobExited, reencoding,
    watched,     \* the job rt.exited and rt.jobDone belong to
    burst,       \* the request that opened rt.burst; its aim is the burst's min
    scratch,     \* the scratch directory
    born, alive, dying, gone,  \* processes: spawned; running; signalled, not dead
                               \* yet; dead, their exit watcher not run yet
    failed,      \* processes that exited with an error
    onCPU,       \* processes started with the CPU arguments
    encodes      \* processes that re-encode a stream (transcode.Reencodes)

requests  == <<pc, aim, windowOf, burst>>
flags     == <<started, torndown, fellBack>>
current   == <<job, startNumber, jobExited, reencoding, watched>>
processes == <<born, alive, dying, gone, failed, onCPU, encodes>>
vars == <<mode, requests, flags, current, scratch, processes>>

Labels == {"idle", "entering", "launching", "probing", "fallback",
           "asking", "opening", "closing", "joined", "realigning"}

TypeOK ==
    /\ mode \in Modes
    /\ pc \in [Requests -> Labels]
    /\ aim \in [Requests -> Segments]
    /\ windowOf \in [Requests -> Requests \cup {NoRequest}]
    /\ burst \in Requests \cup {NoRequest}
    /\ burst # NoRequest => pc[burst] = "opening"
    /\ started \in BOOLEAN /\ torndown \in BOOLEAN /\ fellBack \in BOOLEAN
    /\ born \subseteq Procs
    /\ job \in born \cup {NoJob} /\ watched \in born \cup {NoJob}
    /\ startNumber \in Segments
    /\ jobExited \in BOOLEAN /\ reencoding \in BOOLEAN
    /\ scratch \in {"absent", "present", "removed"}
    /\ alive \subseteq born /\ dying \subseteq born \ alive
    /\ gone \subseteq born \ (alive \cup dying)
    /\ failed \subseteq born /\ onCPU \subseteq born /\ encodes \subseteq born

Init ==
    /\ mode \in Modes
    /\ pc = [r \in Requests |-> "idle"]
    /\ aim = [r \in Requests |-> 0]
    /\ windowOf = [r \in Requests |-> NoRequest]
    /\ burst = NoRequest
    /\ started = FALSE /\ torndown = FALSE /\ fellBack = FALSE
    /\ job = NoJob /\ watched = NoJob /\ startNumber = 0
    /\ jobExited = FALSE /\ reencoding = FALSE
    /\ scratch = "absent"
    /\ born = {} /\ alive = {} /\ dying = {} /\ gone = {} /\ failed = {}
    /\ onCPU = {} /\ encodes = {}

Goto(r, label) == pc' = [pc EXCEPT ![r] = label] /\ UNCHANGED aim

\* The request returns, or waits for its file: it is done with the job.
Leave(r) == pc' = [pc EXCEPT ![r] = "idle"] /\ aim' = [aim EXCEPT ![r] = 0]

\* startMu is held from the entry of EnsureStarted to its end.
StartMuFree == \A r \in Requests : pc[r] \notin {"launching", "probing", "fallback"}

\* The session may still fall back to the CPU encoder.
Eligible == mode = "hardware" /\ ~fellBack

\* Mutant of MayStart: only realign and EnsureStarted look.
MayStartAnyway == TRUE

\* startLocked refuses a runtime that was torn down.
MayStart == ~torndown

\* argsFor: does the next job get the CPU arguments?
CPUArgs(fallen) == mode # "hardware" \/ fallen

\* A copy re-encodes its audio after some realignments; a transcode always.
MayEncode == IF mode = "copy" THEN BOOLEAN ELSE {TRUE}

\* What Kill signals: the current job's process, if it is still running.
Signalled == {job} \cap alive

\* killCurrentLocked: the runtime is left without a job.
KillCurrent ==
    /\ alive' = alive \ Signalled
    /\ dying' = dying \cup Signalled
    /\ job' = NoJob
    /\ reencoding' = FALSE
    /\ UNCHANGED <<born, gone, failed, onCPU, encodes, watched, startNumber, jobExited>>

\* startLocked spawns ffmpeg at segment n, after the processes in k were
\* signalled: it is the current job from now on.
Spawn(n, k, cpu) ==
    \E p \in Procs \ born, e \in MayEncode :
        /\ born' = born \cup {p}
        /\ alive' = (alive \ k) \cup {p}
        /\ dying' = dying \cup k
        /\ onCPU' = IF cpu THEN onCPU \cup {p} ELSE onCPU
        /\ encodes' = IF e THEN encodes \cup {p} ELSE encodes
        /\ job' = p /\ watched' = p
        /\ startNumber' = n
        /\ jobExited' = FALSE /\ reencoding' = e
        /\ UNCHANGED <<gone, failed>>

\* A media request finds the session's runtime.
Arrive(r, n) ==
    /\ pc[r] = "idle"
    /\ pc' = [pc EXCEPT ![r] = "entering"]
    /\ aim' = [aim EXCEPT ![r] = n]
    /\ UNCHANGED <<mode, windowOf, burst, flags, current, scratch, processes>>

\* EnsureStarted up to launchInitial; the scratch directory is made under mu,
\* after the torn-down check.
EnsureStarted(r) ==
    /\ pc[r] = "entering" /\ StartMuFree
    /\ \/ started /\ Goto(r, "asking") /\ UNCHANGED scratch
       \/ ~started /\ torndown /\ Leave(r) /\ UNCHANGED scratch
       \/ ~started /\ ~torndown /\ Goto(r, "launching") /\ scratch' = "present"
       \/ ~started /\ ~torndown /\ Leave(r) /\ UNCHANGED scratch  \* MkdirAll fails
    /\ UNCHANGED <<mode, windowOf, burst, flags, current, processes>>

\* launchInitial's first critical section: the job from the top.
LaunchInitial(r) ==
    /\ pc[r] = "launching"
    /\ \/ /\ MayStart /\ Spawn(0, {}, CPUArgs(fellBack))
          /\ IF Eligible THEN Goto(r, "probing") /\ UNCHANGED started
             ELSE Goto(r, "asking") /\ started' = TRUE
       \/ /\ IF Eligible THEN Goto(r, "fallback") ELSE Leave(r)
          /\ UNCHANGED <<started, current, processes>>
    /\ UNCHANGED <<mode, windowOf, burst, torndown, fellBack, scratch>>

\* awaitEarlyExit: a hardware job seen to die in the probe window has failed to
\* launch; one that is killed, ends well or outlives the window has not.
Probe(r) ==
    /\ pc[r] = "probing"
    /\ \/ watched \in failed \ gone /\ Goto(r, "fallback") /\ UNCHANGED started
       \/ Goto(r, "asking") /\ started' = TRUE
    /\ UNCHANGED <<mode, windowOf, burst, torndown, fellBack, current,
                   scratch, processes>>

\* The one fallback: the CPU arguments from here on.
Fallback(r) ==
    /\ pc[r] = "fallback"
    /\ \/ torndown /\ Leave(r) /\ UNCHANGED <<started, fellBack, current, processes>>
       \/ ~torndown /\ fellBack' = TRUE
          /\ \/ Spawn(0, Signalled, CPUArgs(TRUE)) /\ started' = TRUE /\ Goto(r, "asking")
             \/ KillCurrent /\ UNCHANGED started /\ Leave(r)
    /\ UNCHANGED <<mode, windowOf, burst, torndown, scratch>>

\* What a job that started at s may be told about segment n: does reaching n
\* take a restart?  Beyond Near segments a copy's answer depends on the disk.
Jump(s, n) == IF n < s THEN {TRUE}
              ELSE IF n - s <= Near THEN {FALSE}
              ELSE IF mode = "copy" THEN BOOLEAN ELSE {TRUE}

\* The current job may be left to reach segment n; it may have to be replaced.
Reached(n)   == job # NoJob /\ FALSE \in Jump(startNumber, n)
Unreached(n) == job = NoJob \/ TRUE \in Jump(startNumber, n)

\* shouldRealign, of a transcode: read under mu, acted on after unlocking.
ShouldRealign(r) ==
    /\ pc[r] = "asking" /\ mode # "copy"
    /\ \E j \in Jump(startNumber, aim[r]) : IF j THEN Goto(r, "realigning") ELSE Leave(r)
    /\ UNCHANGED <<mode, windowOf, burst, flags, current, scratch, processes>>

JoinBurst(r) ==
    /\ pc' = [pc EXCEPT ![r] = "joined"]
    /\ windowOf' = [windowOf EXCEPT ![r] = burst]
    /\ aim' = [aim EXCEPT ![burst] = IF aim[r] < @ THEN aim[r] ELSE @]
    /\ UNCHANGED burst

OpenBurst(r) == Goto(r, "opening") /\ burst' = r /\ UNCHANGED windowOf

\* gatedRealign's first critical section.
GatedRealign(r) ==
    /\ pc[r] = "asking" /\ mode = "copy"
    /\ \/ torndown /\ Leave(r) /\ UNCHANGED <<windowOf, burst>>
       \/ /\ ~torndown /\ Reached(aim[r])
          /\ Leave(r) /\ UNCHANGED <<windowOf, burst>>
       \/ /\ ~torndown /\ Unreached(aim[r])
          /\ IF burst # NoRequest THEN JoinBurst(r) ELSE OpenBurst(r)
    /\ UNCHANGED <<mode, flags, current, scratch, processes>>

\* The window is over: later requests open one of their own.
CloseBurst(r) ==
    /\ pc[r] = "opening"
    /\ Goto(r, "closing")
    /\ burst' = NoRequest
    /\ UNCHANGED <<mode, windowOf, flags, current, scratch, processes>>

\* The current job is killed and another spawned at n, if it can be.
Restart(n) == Spawn(n, Signalled, CPUArgs(fellBack)) \/ KillCurrent

\* Mutants of RealignIf: the caller's snapshot is trusted; the job it replaces
\* is not killed.
RealignIfTold(n) ==
    \/ torndown /\ UNCHANGED <<current, processes>>
    \/ ~torndown /\ Restart(n)

RealignIfSparing(n) ==
    \/ torndown /\ UNCHANGED <<current, processes>>
    \/ ~torndown /\ Reached(n)
       /\ UNCHANGED <<current, processes>>
    \/ /\ ~torndown /\ Unreached(n)
       /\ Spawn(n, {}, CPUArgs(fellBack))

\* realignIf: whether a restart is needed is asked again under mu.
RealignIf(n) ==
    \/ torndown /\ UNCHANGED <<current, processes>>
    \/ ~torndown /\ Reached(n)
       /\ UNCHANGED <<current, processes>>
    \/ /\ ~torndown /\ Unreached(n)
       /\ Restart(n)

\* Mutant of Released: only those whose segment the restart covers are woken.
ReleasedNear(r) == {q \in Requests : /\ pc[q] = "joined" /\ windowOf[q] = r
                                     /\ aim[q] - aim[r] <= Near}

\* The requests that wait for r's window to be done.
Released(r) == {q \in Requests : pc[q] = "joined" /\ windowOf[q] = r}

\* The one restart of a window, at its lowest target; then its channel closes,
\* whatever came of the restart.
RealignForBurst(r) ==
    /\ pc[r] = "closing"
    /\ RealignIf(aim[r])
    /\ pc' = [q \in Requests |-> IF q = r THEN "idle"
                                 ELSE IF q \in Released(r) THEN "realigning" ELSE pc[q]]
    /\ windowOf' = [q \in Requests |-> IF q \in Released(r) THEN NoRequest ELSE windowOf[q]]
    /\ aim' = [aim EXCEPT ![r] = 0]
    /\ UNCHANGED <<mode, burst, flags, scratch>>

\* realign, or gatedRealign after somebody else's window.
Realign(r) ==
    /\ pc[r] = "realigning"
    /\ RealignIf(aim[r])
    /\ Leave(r)
    /\ UNCHANGED <<mode, windowOf, burst, flags, scratch>>

\* Badly or well: only the probe of a hardware job asks.
Outcomes(p) == IF Eligible THEN {failed, failed \cup {p}} ELSE {failed}

\* A process ends: of itself ...
Exits(p) ==
    /\ p \in alive
    /\ alive' = alive \ {p} /\ gone' = gone \cup {p}
    /\ failed' \in Outcomes(p)
    /\ UNCHANGED <<mode, requests, flags, current, scratch, born, dying, onCPU, encodes>>

\* ... or because it was killed, which is an error only if the context ends it
\* before Kill has said that it is meant.
Dies(p) ==
    /\ p \in dying
    /\ dying' = dying \ {p} /\ gone' = gone \cup {p}
    /\ failed' \in Outcomes(p)
    /\ UNCHANGED <<mode, requests, flags, current, scratch, born, alive, onCPU, encodes>>

\* Mutant of WatchExit: a superseded job's end is taken for the current one's.
WatchExitOfAny(p) ==
    /\ p \in gone
    /\ gone' = gone \ {p}
    /\ jobExited' = TRUE /\ reencoding' = FALSE
    /\ UNCHANGED <<mode, requests, flags, scratch, job, startNumber, watched,
                   born, alive, dying, failed, onCPU, encodes>>

\* The exit watcher of p, once Wait has returned.
WatchExit(p) ==
    /\ p \in gone
    /\ gone' = gone \ {p}
    /\ IF p = watched THEN jobExited' = TRUE /\ reencoding' = FALSE
       ELSE UNCHANGED <<jobExited, reencoding>>
    /\ UNCHANGED <<mode, requests, flags, scratch, job, startNumber, watched,
                   born, alive, dying, failed, onCPU, encodes>>

\* teardown, called once, when the session leaves the Manager ...
Teardown ==
    /\ ~torndown /\ torndown' = TRUE
    /\ KillCurrent
    /\ UNCHANGED <<mode, requests, started, fellBack, scratch>>

\* ... waits for the current job's process, at most teardownExitWait, and
\* removes the directory.  A process may take longer than that to die.
RemoveScratch ==
    /\ torndown /\ scratch # "removed"
    /\ scratch' = "removed"
    /\ UNCHANGED <<mode, requests, flags, current, processes>>

Proceed(r) == \/ EnsureStarted(r) \/ LaunchInitial(r) \/ Probe(r) \/ Fallback(r)
              \/ ShouldRealign(r) \/ GatedRealign(r) \/ CloseBurst(r)
              \/ RealignForBurst(r) \/ Realign(r)

Next == \/ \E r \in Requests : (\E n \in Segments : Arrive(r, n)) \/ Proceed(r)
        \/ \E p \in Procs : Exits(p) \/ Dies(p) \/ WatchExit(p)
        \/ Teardown \/ RemoveScratch

(***************************************************************************)
(* A request's goroutine runs on (startMu starves nobody: Go hands it over *)
(* to a waiter), a signalled process dies, its watcher runs, and teardown  *)
(* reaches its end.  Nothing makes a player ask or ffmpeg stop by itself.  *)
(***************************************************************************)
Fairness ==
    /\ \A r \in Requests : WF_vars(Proceed(r)) /\ SF_vars(EnsureStarted(r))
    /\ \A p \in Procs : WF_vars(Dies(p)) /\ WF_vars(WatchExit(p))
    /\ WF_vars(RemoveScratch)

Spec == Init /\ [][Next]_vars
FairSpec == Spec /\ Fairness

-----------------------------------------------------------------------------
(* No orphan: an ffmpeg nobody signalled is the runtime's current job, and *)
(* a torn-down runtime has none - whatever requests were under way.        *)
NoOrphan == alive \subseteq {job} /\ (torndown => alive = {})

(* What others read about the job is about the job: its exit is reported   *)
(* only when it is gone, and it counts as re-encoding exactly while it is, *)
(* until its watcher has run - never because of a job it superseded.       *)
FlagsTellTheJob ==
    /\ jobExited => watched \notin alive \cup dying
    /\ reencoding => job \in encodes \cap (alive \cup gone)
    /\ job \in encodes \cap alive => reencoding

(* Once a session has fallen back to the CPU, seeks included, no hardware  *)
(* job runs for it.                                                        *)
FallbackSticks == fellBack => alive \subseteq onCPU

(* A request that waits for another's window is waited for: that window is *)
(* open or closing, and will restart no later than at what it asks for.    *)
JoinersCovered ==
    \A q \in Requests : pc[q] = "joined" =>
        /\ windowOf[q] \in Requests
        /\ pc[windowOf[q]] \in {"opening", "closing"}
        /\ aim[windowOf[q]] <= aim[q]

(* A job is not given up, for another or for none, for a segment it is     *)
(* about to produce: a request that realigns has one before its start or   *)
(* well past it, so requests that saw the same old job do not each restart *)
(* the new one.  The fallback and a teardown are the other two reasons.    *)
Needs(n) == n < startNumber \/ n > startNumber + Near

NoThrash ==
    [][job # NoJob /\ job' # job =>
         \/ torndown' \/ fellBack' # fellBack
         \/ \E r \in Requests : pc[r] \in {"closing", "realigning"} /\ pc'[r] = "idle"
                                /\ Needs(aim[r])]_vars

(* The scratch directory of a torn-down session does not come back.        *)
ScratchStaysRemoved == [][scratch = "removed" => scratch' = "removed"]_vars

(* A request that reaches the runtime leaves it, served or refused; and a  *)
(* teardown leaves nothing, for good: no process, and no directory,        *)
(* whatever requests were under way.                                       *)
EverythingEnds ==
    /\ \A r \in Requests : pc[r] # "idle" ~> pc[r] = "idle"
    /\ torndown ~> [](alive \cup dying = {} /\ scratch = "removed")

\* To the Manager this is a slot that holds an encoder or none.
Slot == IF alive # {} THEN "running" ELSE IF torndown THEN "torn" ELSE "stopped"
Encoder == INSTANCE EncoderSlot WITH slot <- Slot
ImplementsEncoderSlot == Encoder!Spec
=============================================================================
