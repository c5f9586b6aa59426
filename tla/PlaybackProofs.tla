-------------------------- MODULE PlaybackProofs --------------------------
(***************************************************************************)
(* What hangs off a Playback session: its HLS runtime, its observer, and   *)
(* the event sinks that are told of it.                                    *)
(*                                                                         *)
(* The runtime, for any number of requests, ffmpeg processes and segments  *)
(* and every kind of runtime.  The invariant adds to what is promised who  *)
(* may be inside EnsureStarted (Launching) and what the handles of the     *)
(* current job name (Jobs): a first launch does not kill anything, so that *)
(* there is nothing to kill has to be known.  The observer and the sinks,  *)
(* which share nothing with the runtime, are the second and third parts.   *)
(***************************************************************************)
EXTENDS HlsRuntime, SessionObserver, EventBroker,
        FiniteSetTheorems, FunctionTheorems, TLAPS

Starting(r) == pc[r] \in {"launching", "probing", "fallback"}

(* startMu admits one request at a time, until a launch has succeeded; a   *)
(* request gets past it only then, and before it there is no job but the   *)
(* hardware one being probed.                                              *)
Launching ==
    /\ \A q, r \in Requests : Starting(q) /\ Starting(r) => q = r
    /\ \A r \in Requests : Starting(r) => ~started
    /\ \A r \in Requests :
          pc[r] \in {"asking", "opening", "closing", "joined",
               "realigning"} => started
    /\ \A r \in Requests : pc[r] \in {"probing", "fallback"} => Eligible
    /\ \A r \in Requests : pc[r] = "launching" => job = NoJob
    /\ ~started /\ StartMuFree => job = NoJob

(* The handles are the current job's, if there is one.                     *)
Jobs ==
    /\ job # NoJob => watched = job
    /\ torndown => job = NoJob
    /\ scratch = "removed" => torndown

RuntimeInv == /\ TypeOK /\ Launching /\ Jobs
              /\ NoOrphan /\ FlagsTellTheJob /\ FallbackSticks
              /\ JoinersCovered

-----------------------------------------------------------------------------
(* The part of the type invariant that is about processes.                 *)
ProcessTypes ==
    /\ born \subseteq Procs
    /\ job \in born \cup {NoJob} /\ watched \in born \cup {NoJob}
    /\ startNumber \in Segments
    /\ jobExited \in BOOLEAN /\ reencoding \in BOOLEAN
    /\ alive \subseteq born /\ dying \subseteq born \ alive
    /\ gone \subseteq born \ (alive \cup dying)
    /\ failed \subseteq born /\ onCPU \subseteq born /\ encodes \subseteq born

(* A launch keeps the processes well-formed ...                            *)
LEMMA SpawnTypes ==
    ASSUME TypeOK, NEW n \in Segments, NEW k \in SUBSET alive, NEW cpu,
           Spawn(n, k, cpu)
    PROVE  ProcessTypes'
<1>1. PICK p \in Procs \ born, e \in MayEncode : Spawn(n, k, cpu)!(p, e)
  BY DEF Spawn
<1>2. e \in BOOLEAN
  BY DEF MayEncode
<1> QED
  BY <1>1, <1>2 DEF TypeOK, ProcessTypes

(* ... and so does a kill, and so a restart, or none.                      *)
LEMMA RestartTypes ==
    ASSUME TypeOK
    PROVE  /\ KillCurrent => ProcessTypes'
           /\ \A n \in Segments : RealignIf(n) => ProcessTypes'
<1>1. Signalled \in SUBSET alive
  BY DEF Signalled
<1>2. KillCurrent => ProcessTypes'
  BY <1>1 DEF KillCurrent, ProcessTypes, TypeOK
<1>3. UNCHANGED <<current, processes>> => ProcessTypes'
  BY DEF ProcessTypes, TypeOK, current, processes
<1> QED
  BY <1>1, <1>2, <1>3, SpawnTypes DEF RealignIf, Restart

(* The part about requests, of which a step moves one that is not in the   *)
(* middle of a window.                                                     *)
RequestTypes ==
    /\ pc \in [Requests -> Labels]
    /\ aim \in [Requests -> Segments]
    /\ windowOf \in [Requests -> Requests \cup {NoRequest}]
    /\ burst \in Requests \cup {NoRequest}
    /\ burst # NoRequest => pc[burst] = "opening"

LEMMA MoveTypes ==
    ASSUME TypeOK, NEW r \in Requests, pc[r] # "opening",
           UNCHANGED <<windowOf, burst>>,
           Leave(r) \/ \E l \in Labels : Goto(r, l)
    PROVE  RequestTypes'
<1> USE RuntimeConstants DEF TypeOK, RequestTypes
<1>1. CASE Leave(r)
  BY <1>1 DEF Leave, Labels
<1>2. ASSUME NEW l \in Labels, Goto(r, l) PROVE RequestTypes'
  BY <1>2 DEF Goto
<1> QED
  BY <1>1, <1>2

(* Every step keeps the types.                                             *)
LEMMA TypeStep ==
    ASSUME TypeOK, [Next]_vars
    PROVE  TypeOK'
<1> USE RuntimeConstants DEF TypeOK, requests, flags, current, processes
<1>1. ASSUME NEW r \in Requests, NEW n \in Segments, Arrive(r, n) PROVE TypeOK'
  BY <1>1 DEF Arrive, Labels
<1>2. ASSUME NEW r \in Requests, EnsureStarted(r) PROVE TypeOK'
  BY <1>2 DEF EnsureStarted, Goto, Leave, Labels
<1>3. ASSUME NEW r \in Requests, LaunchInitial(r) PROVE TypeOK'
  <2>1. ProcessTypes'
    <3>1. CASE Spawn(0, {}, CPUArgs(fellBack))
      BY <3>1, SpawnTypes
    <3>2. CASE UNCHANGED <<current, processes>>
      BY <3>2 DEF ProcessTypes
    <3> QED BY <1>3, <3>1, <3>2 DEF LaunchInitial
  <2>2. RequestTypes'
    <3>1. Leave(r) \/ \E l \in Labels : Goto(r, l)
      BY <1>3 DEF LaunchInitial, Labels
    <3> QED BY <1>3, <3>1, MoveTypes DEF LaunchInitial
  <2> QED BY <1>3, <2>1, <2>2 DEF LaunchInitial, ProcessTypes, RequestTypes
<1>4. ASSUME NEW r \in Requests, Probe(r) PROVE TypeOK'
  BY <1>4 DEF Probe, Goto, Labels
<1>5. ASSUME NEW r \in Requests, Fallback(r) PROVE TypeOK'
  <2>1. ProcessTypes'
    <3>1. CASE Spawn(0, Signalled, CPUArgs(TRUE))
      BY <3>1, SpawnTypes DEF Signalled
    <3>2. CASE KillCurrent \/ UNCHANGED <<current, processes>>
      BY <3>2, RestartTypes DEF ProcessTypes
    <3> QED BY <1>5, <3>1, <3>2 DEF Fallback
  <2>2. RequestTypes'
    <3>1. Leave(r) \/ \E l \in Labels : Goto(r, l)
      BY <1>5 DEF Fallback, Labels
    <3> QED BY <1>5, <3>1, MoveTypes DEF Fallback
  <2> QED BY <1>5, <2>1, <2>2 DEF Fallback, ProcessTypes, RequestTypes
<1>6. ASSUME NEW r \in Requests, ShouldRealign(r) PROVE TypeOK'
  BY <1>6 DEF ShouldRealign, Goto, Leave, Labels
<1>7. ASSUME NEW r \in Requests, GatedRealign(r) PROVE TypeOK'
  BY <1>7 DEF GatedRealign, Goto, Leave, JoinBurst, OpenBurst, Labels
<1>8. ASSUME NEW r \in Requests, CloseBurst(r) PROVE TypeOK'
  BY <1>8 DEF CloseBurst, Goto, Labels
<1>9. ASSUME NEW r \in Requests, RealignForBurst(r) PROVE TypeOK'
  <2>1. ProcessTypes'
    BY <1>9, RestartTypes DEF RealignForBurst
  <2>2. RequestTypes'
    BY <1>9 DEF RealignForBurst, Released, RequestTypes, Labels
  <2> QED BY <1>9, <2>1, <2>2 DEF RealignForBurst, ProcessTypes, RequestTypes
<1>10. ASSUME NEW r \in Requests, Realign(r) PROVE TypeOK'
  <2>1. ProcessTypes'
    BY <1>10, RestartTypes DEF Realign
  <2>2. RequestTypes'
    BY <1>10, MoveTypes DEF Realign
  <2> QED BY <1>10, <2>1, <2>2 DEF Realign, ProcessTypes, RequestTypes
<1>11. ASSUME NEW p \in Procs, Exits(p) PROVE TypeOK'
  BY <1>11 DEF Exits, Outcomes, Labels
<1>12. ASSUME NEW p \in Procs, Dies(p) PROVE TypeOK'
  BY <1>12 DEF Dies, Outcomes, Labels
<1>13. ASSUME NEW p \in Procs, WatchExit(p) PROVE TypeOK'
  BY <1>13 DEF WatchExit, Labels
<1>14. CASE Teardown
  <2>1. ProcessTypes'
    BY <1>14, RestartTypes DEF Teardown
  <2> QED BY <1>14, <2>1 DEF Teardown, ProcessTypes
<1>15. CASE RemoveScratch
  BY <1>15 DEF RemoveScratch, Labels
<1>16. CASE UNCHANGED vars
  BY <1>16 DEF vars, Labels
<1> QED
  BY <1>1, <1>2, <1>3, <1>4, <1>5, <1>6, <1>7, <1>8, <1>9, <1>10, <1>11,
       <1>12, <1>13, <1>14, <1>15, <1>16 DEF Next, Proceed

(* Nobody is inside EnsureStarted together with another.                   *)
LEMMA LaunchingStep ==
    ASSUME TypeOK, Jobs, Launching, [Next]_vars
    PROVE  Launching'
<1> USE RuntimeConstants DEF Launching, requests, flags, current, processes
<1>1. ASSUME NEW r \in Requests, NEW n \in Segments, Arrive(r, n) PROVE Launching'
  BY <1>1 DEF Arrive, TypeOK, Starting, StartMuFree, Eligible
<1>2. ASSUME NEW r \in Requests, EnsureStarted(r) PROVE Launching'
  BY <1>2 DEF EnsureStarted, Goto, Leave, TypeOK, Starting, StartMuFree,
       Eligible
<1>3. ASSUME NEW r \in Requests, LaunchInitial(r) PROVE Launching'
  <2>1. /\ pc[r] = "launching" /\ ~started /\ started' \in BOOLEAN
        /\ \A q \in Requests \ {r} : pc'[q] = pc[q] /\ ~Starting(q)
        /\ \/ Eligible /\ pc'[r] \in {"probing", "fallback"} /\
             started' = FALSE
           \/ pc'[r] = "asking" /\ started' = TRUE
           \/ pc'[r] = "idle" /\ started' = FALSE /\ job' = job
        /\ fellBack' = fellBack /\ mode' = mode /\ job = NoJob
    BY <1>3 DEF LaunchInitial, Goto, Leave, TypeOK, Starting
  <2> QED BY <2>1 DEF Starting, StartMuFree, Eligible, TypeOK
<1>4. ASSUME NEW r \in Requests, Probe(r) PROVE Launching'
  BY <1>4 DEF Probe, Goto, TypeOK, Starting, StartMuFree, Eligible
<1>5. ASSUME NEW r \in Requests, Fallback(r) PROVE Launching'
  <2>1. /\ pc[r] = "fallback" /\ ~started /\ started' \in BOOLEAN
        /\ \A q \in Requests \ {r} : pc'[q] = pc[q] /\ ~Starting(q)
        /\ \/ pc'[r] = "asking" /\ started' = TRUE
           \/ pc'[r] = "idle" /\ started' = FALSE /\ job' = NoJob
    <3>1. pc[r] = "fallback" /\ Starting(r) /\ r \in Requests
      BY <1>5 DEF Fallback, Starting
    <3>2. /\ ~started
          /\ \A q \in Requests \ {r} : ~Starting(q)
      BY <3>1
    <3>3. \/ Goto(r, "asking") /\ started' = TRUE
          \/ Leave(r) /\ started' = started /\ ((torndown /\ job' = job) \/ job' = NoJob)
      <4>1. CASE torndown
        BY <1>5, <4>1 DEF Fallback
      <4>2. CASE KillCurrent /\ UNCHANGED started /\ Leave(r)
        BY <4>2 DEF KillCurrent
      <4>3. CASE started' = TRUE /\ Goto(r, "asking")
        BY <4>3
      <4> QED BY <1>5, <4>1, <4>2, <4>3 DEF Fallback
    <3> QED BY <3>1, <3>2, <3>3 DEF Goto, Leave, TypeOK, Jobs
  <2> QED BY <2>1 DEF Starting, StartMuFree, Eligible, TypeOK
<1>6. ASSUME NEW r \in Requests, ShouldRealign(r) PROVE Launching'
  BY <1>6 DEF ShouldRealign, Goto, Leave, TypeOK, Starting, StartMuFree,
       Eligible
<1>7. ASSUME NEW r \in Requests, GatedRealign(r) PROVE Launching'
  BY <1>7 DEF GatedRealign, Goto, Leave, JoinBurst, OpenBurst, TypeOK,
       Starting, StartMuFree, Eligible
<1>8. ASSUME NEW r \in Requests, CloseBurst(r) PROVE Launching'
  BY <1>8 DEF CloseBurst, Goto, TypeOK, Starting, StartMuFree, Eligible
<1>9. ASSUME NEW r \in Requests, RealignForBurst(r) PROVE Launching'
  BY <1>9 DEF RealignForBurst, Released, RealignIf, Restart, Spawn,
       KillCurrent, TypeOK, Starting, StartMuFree, Eligible
<1>10. ASSUME NEW r \in Requests, Realign(r) PROVE Launching'
  BY <1>10 DEF Realign, Leave, RealignIf, Restart, Spawn, KillCurrent,
       TypeOK, Starting, StartMuFree, Eligible
<1>11. CASE Teardown
  BY <1>11 DEF Teardown, KillCurrent, TypeOK, Starting, StartMuFree, Eligible
<1> QED
  BY <1>1, <1>2, <1>3, <1>4, <1>5, <1>6, <1>7, <1>8, <1>9, <1>10, <1>11 DEF
       Next, Proceed, Exits, Dies, WatchExit, RemoveScratch, vars,
       TypeOK, Starting, StartMuFree, Eligible

(* The handles follow the job.                                             *)
LEMMA JobsStep ==
    ASSUME TypeOK, Jobs, [Next]_vars
    PROVE  Jobs'
<1> USE RuntimeConstants DEF Jobs, requests, flags, current, processes
<1>1. ASSUME NEW r \in Requests, EnsureStarted(r) PROVE Jobs'
  BY <1>1 DEF EnsureStarted, Goto, Leave
<1>2. ASSUME NEW r \in Requests, LaunchInitial(r) PROVE Jobs'
  BY <1>2 DEF LaunchInitial, Goto, Leave, MayStart, Spawn, TypeOK
<1>3. ASSUME NEW r \in Requests, Fallback(r) PROVE Jobs'
  BY <1>3 DEF Fallback, Goto, Leave, Spawn, KillCurrent, TypeOK
<1>4. ASSUME NEW r \in Requests, RealignForBurst(r) PROVE Jobs'
  BY <1>4 DEF RealignForBurst, Released, RealignIf, Restart, Spawn,
       KillCurrent, TypeOK
<1>5. ASSUME NEW r \in Requests, Realign(r) PROVE Jobs'
  BY <1>5 DEF Realign, Leave, RealignIf, Restart, Spawn, KillCurrent, TypeOK
<1>6. CASE Teardown
  BY <1>6 DEF Teardown, KillCurrent
<1>7. CASE RemoveScratch
  BY <1>7 DEF RemoveScratch
<1> QED
  BY <1>1, <1>2, <1>3, <1>4, <1>5, <1>6, <1>7 DEF Next, Proceed, Arrive,
       Probe, Goto, ShouldRealign, Leave, GatedRealign, JoinBurst,
       OpenBurst, CloseBurst, Exits, Dies, WatchExit, vars

(* A launch finds nothing running, a restart kills what does.               *)
LEMMA OrphanStep ==
    ASSUME TypeOK, Launching, NoOrphan, [Next]_vars
    PROVE  NoOrphan'
<1> USE RuntimeConstants DEF NoOrphan, requests, flags, current, processes
<1>1. ASSUME NEW r \in Requests, LaunchInitial(r) PROVE NoOrphan'
  BY <1>1 DEF LaunchInitial, Goto, Leave, MayStart, Spawn, TypeOK, Launching
<1>2. ASSUME NEW r \in Requests, Fallback(r) PROVE NoOrphan'
  BY <1>2 DEF Fallback, Goto, Leave, Spawn, KillCurrent, Signalled, TypeOK
<1>3. ASSUME NEW r \in Requests, RealignForBurst(r) PROVE NoOrphan'
  BY <1>3 DEF RealignForBurst, Released, RealignIf, Restart, Spawn,
       KillCurrent, Signalled, TypeOK
<1>4. ASSUME NEW r \in Requests, Realign(r) PROVE NoOrphan'
  BY <1>4 DEF Realign, Leave, RealignIf, Restart, Spawn, KillCurrent,
       Signalled, TypeOK
<1>5. ASSUME NEW p \in Procs, Exits(p) PROVE NoOrphan'
  BY <1>5 DEF Exits
<1>6. CASE Teardown
  BY <1>6 DEF Teardown, KillCurrent, Signalled, TypeOK
<1> QED
  BY <1>1, <1>2, <1>3, <1>4, <1>5, <1>6 DEF Next, Proceed, Arrive,
       EnsureStarted, Goto, Leave, Probe, ShouldRealign, GatedRealign,
       JoinBurst, OpenBurst, CloseBurst, Dies, WatchExit, RemoveScratch,
       vars

(* The flags follow the job.                                               *)
LEMMA FlagsStep ==
    ASSUME TypeOK, Jobs, NoOrphan, FlagsTellTheJob, [Next]_vars
    PROVE  FlagsTellTheJob'
<1> USE RuntimeConstants DEF FlagsTellTheJob, requests, flags, current, processes
<1>1. ASSUME NEW r \in Requests, LaunchInitial(r) PROVE FlagsTellTheJob'
  BY <1>1 DEF LaunchInitial, Goto, Leave, MayStart, Spawn, TypeOK
<1>2. ASSUME NEW r \in Requests, Fallback(r) PROVE FlagsTellTheJob'
  <2>1. CASE Spawn(0, Signalled, CPUArgs(TRUE))
    BY <2>1 DEF Spawn, Signalled, TypeOK
  <2>2. CASE KillCurrent
    BY <2>2 DEF KillCurrent, Signalled, TypeOK
  <2>3. CASE UNCHANGED <<current, processes>>
    BY <2>3
  <2> QED BY <1>2, <2>1, <2>2, <2>3 DEF Fallback
<1>3. ASSUME NEW r \in Requests, RealignForBurst(r) PROVE FlagsTellTheJob'
  BY <1>3 DEF RealignForBurst, Released, RealignIf, Restart, Spawn,
       KillCurrent, Signalled, TypeOK
<1>4. ASSUME NEW r \in Requests, Realign(r) PROVE FlagsTellTheJob'
  BY <1>4 DEF Realign, Leave, RealignIf, Restart, Spawn, KillCurrent,
       Signalled, TypeOK
<1>5. ASSUME NEW p \in Procs, Exits(p) PROVE FlagsTellTheJob'
  BY <1>5 DEF Exits, TypeOK, Jobs, NoOrphan
<1>6. ASSUME NEW p \in Procs, Dies(p) PROVE FlagsTellTheJob'
  BY <1>6 DEF Dies, TypeOK, Jobs, NoOrphan
<1>7. ASSUME NEW p \in Procs, WatchExit(p) PROVE FlagsTellTheJob'
  BY <1>7 DEF WatchExit, TypeOK, Jobs, NoOrphan
<1>8. CASE Teardown
  BY <1>8 DEF Teardown, KillCurrent, Signalled, TypeOK
<1> QED
  BY <1>1, <1>2, <1>3, <1>4, <1>5, <1>6, <1>7, <1>8 DEF Next, Proceed,
       Arrive, EnsureStarted, Goto, Leave, Probe, ShouldRealign,
       GatedRealign, JoinBurst, OpenBurst, CloseBurst, RemoveScratch, vars,
       vars

(* After a fallback every job is spawned with the CPU arguments.           *)
LEMMA FallbackStep ==
    ASSUME TypeOK, Launching, NoOrphan, FallbackSticks, [Next]_vars
    PROVE  FallbackSticks'
<1> USE RuntimeConstants DEF FallbackSticks, requests, flags, current, processes
<1>1. ASSUME NEW r \in Requests, LaunchInitial(r) PROVE FallbackSticks'
  BY <1>1 DEF LaunchInitial, Goto, Leave, MayStart, Spawn, CPUArgs,
       Eligible, NoOrphan, Launching, TypeOK
<1>2. ASSUME NEW r \in Requests, Fallback(r) PROVE FallbackSticks'
  BY <1>2 DEF Fallback, Goto, Leave, Spawn, KillCurrent, CPUArgs, Signalled,
       NoOrphan, TypeOK
<1>3. ASSUME NEW r \in Requests, RealignForBurst(r) PROVE FallbackSticks'
  BY <1>3 DEF RealignForBurst, Released, RealignIf, Restart, Spawn,
       KillCurrent, CPUArgs, Signalled, TypeOK
<1>4. ASSUME NEW r \in Requests, Realign(r) PROVE FallbackSticks'
  BY <1>4 DEF Realign, Leave, RealignIf, Restart, Spawn, KillCurrent,
       CPUArgs, Signalled, TypeOK
<1>5. ASSUME NEW p \in Procs, Exits(p) PROVE FallbackSticks'
  BY <1>5 DEF Exits
<1>6. CASE Teardown
  BY <1>6 DEF Teardown, KillCurrent
<1> QED
  BY <1>1, <1>2, <1>3, <1>4, <1>5, <1>6 DEF Next, Proceed, Arrive,
       EnsureStarted, Goto, Leave, Probe, ShouldRealign, GatedRealign,
       JoinBurst, OpenBurst, CloseBurst, Dies, WatchExit, RemoveScratch,
       vars

(* A request that owns no window may move anywhere but into one.           *)
LEMMA MoveKeepsJoiners ==
    ASSUME TypeOK, JoinersCovered, NEW r \in Requests,
           pc[r] \notin {"opening", "closing"}, UNCHANGED windowOf,
           Leave(r) \/ \E l \in Labels \ {"joined"} : Goto(r, l)
    PROVE  JoinersCovered'
<1>1. /\ \A q \in Requests : pc'[q] = "joined" => pc[q] = "joined" /\ q # r
      /\ \A q \in Requests \ {r} : pc'[q] = pc[q] /\ aim'[q] = aim[q]
  BY DEF Leave, Goto, TypeOK
<1> QED
  BY <1>1 DEF JoinersCovered, TypeOK

(* Whoever opens a window closes it and lets its joiners go.               *)
LEMMA JoinersStep ==
    ASSUME TypeOK, JoinersCovered, [Next]_vars
    PROVE  JoinersCovered'
<1> USE RuntimeConstants
<1>1. ASSUME NEW r \in Requests, NEW n \in Segments, Arrive(r, n) PROVE JoinersCovered'
  BY <1>1 DEF Arrive, JoinersCovered, TypeOK
<1>2. ASSUME NEW r \in Requests,
             EnsureStarted(r) \/ LaunchInitial(r) \/ Probe(r) \/ Fallback(r)
               \/ ShouldRealign(r) \/ Realign(r)
      PROVE  JoinersCovered'
  <2>1. /\ pc[r] \notin {"opening", "closing"} /\ UNCHANGED windowOf
        /\ Leave(r) \/ \E l \in Labels \ {"joined"} : Goto(r, l)
    BY <1>2 DEF EnsureStarted, LaunchInitial, Probe, Fallback, ShouldRealign,
         Realign, Labels
  <2> QED BY <2>1, MoveKeepsJoiners
<1>3. ASSUME NEW r \in Requests, GatedRealign(r) PROVE JoinersCovered'
  <2>1. CASE Leave(r) /\ UNCHANGED windowOf
    BY <1>3, <2>1, MoveKeepsJoiners DEF GatedRealign
  <2>2. CASE OpenBurst(r)
    BY <1>3, <2>2, MoveKeepsJoiners DEF GatedRealign, OpenBurst, Labels
  <2>3. CASE burst # NoRequest /\ JoinBurst(r)
    <3>1. pc[r] = "asking" /\ burst \in Requests /\ pc[burst] = "opening"
      BY <1>3, <2>3 DEF GatedRealign, TypeOK
    <3>2. \A q \in Requests : aim[q] \in Nat
      BY DEF TypeOK
    <3>3. aim' \in [Requests -> Nat] /\ aim'[burst] <= aim[r] /\ aim'[burst] <= aim[burst]
          /\ \A q \in Requests \ {burst} : aim'[q] = aim[q]
      BY <2>3, <3>1, <3>2 DEF JoinBurst, TypeOK
    <3>4. /\ \A q \in Requests \ {r} : /\ pc'[q] = pc[q] /\ windowOf'[q] = windowOf[q]
                                      /\ aim'[q] <= aim[q]
          /\ \A q \in Requests \ {r, burst} : aim'[q] = aim[q]
          /\ windowOf'[r] = burst /\ aim'[burst] <= aim[r] /\ aim'[r] = aim[r]
          /\ pc'[burst] = "opening" /\ pc'[r] = "joined"
      BY <2>3, <3>1, <3>2, <3>3 DEF JoinBurst, TypeOK
    <3> QED BY <3>1, <3>2, <3>3, <3>4 DEF JoinersCovered
  <2> QED BY <1>3, <2>1, <2>2, <2>3 DEF GatedRealign
<1>4. ASSUME NEW r \in Requests, CloseBurst(r) PROVE JoinersCovered'
  BY <1>4 DEF CloseBurst, Goto, JoinersCovered, TypeOK
<1>5. ASSUME NEW r \in Requests, RealignForBurst(r) PROVE JoinersCovered'
  BY <1>5 DEF RealignForBurst, Released, JoinersCovered, TypeOK
<1>6. CASE UNCHANGED requests
  BY <1>6 DEF requests, JoinersCovered
<1> QED
  BY <1>1, <1>2, <1>3, <1>4, <1>5, <1>6
  DEF Next, Proceed, Exits, Dies, WatchExit, Teardown, RemoveScratch, vars

-----------------------------------------------------------------------------
LEMMA Invariance == Spec => []RuntimeInv
<1>1. Init => RuntimeInv
  BY RuntimeConstants
  DEF Init, RuntimeInv, TypeOK, Labels, Launching, Starting, StartMuFree, Jobs,
      NoOrphan, FlagsTellTheJob, FallbackSticks, JoinersCovered
<1>2. RuntimeInv /\ [Next]_vars => RuntimeInv'
  BY TypeStep, LaunchingStep, JobsStep, OrphanStep, FlagsStep, FallbackStep,
     JoinersStep DEF RuntimeInv
<1> QED
  BY <1>1, <1>2, PTL DEF Spec

(* The variables of a runtime keep their types, for any requests,          *)
(* processes and segments.                                                 *)
THEOREM RuntimeTypes == Spec => []TypeOK
BY Invariance, PTL DEF RuntimeInv

(* NoOrphan of every runtime: whatever a launch, a fallback, a seek and a  *)
(* teardown do to each other, an ffmpeg nobody signalled is the current    *)
(* job, and a torn-down session has none.                                  *)
THEOREM NoOrphans == Spec => []NoOrphan
BY Invariance, PTL DEF RuntimeInv

(* What LocalTranscodes and the segment gate read about the current job is *)
(* never a superseded job's doing.                                         *)
THEOREM FlagsAreTheJobs == Spec => []FlagsTellTheJob
BY Invariance, PTL DEF RuntimeInv

(* A session that fell back to the CPU stays there.                        *)
THEOREM FallbackIsForGood == Spec => []FallbackSticks
BY Invariance, PTL DEF RuntimeInv

(* A request that joined a window is going to be released by it.           *)
THEOREM JoinersAreCovered == Spec => []JoinersCovered
BY Invariance, PTL DEF RuntimeInv

(* A job is not given up for a segment it is about to produce.             *)
THEOREM NoJobIsThrashed == Spec => NoThrash
<1> DEFINE GivenUp == job # NoJob /\ job' # job
           Needed == \E r \in Requests : pc[r] \in {"closing", "realigning"} /\ pc'[r] = "idle"
                                        /\ Needs(aim[r])
           Excused == torndown' \/ fellBack' # fellBack \/ Needed
<1>1. RuntimeInv /\ [Next]_vars => [GivenUp => Excused]_vars
  <2> SUFFICES ASSUME RuntimeInv, [Next]_vars, GivenUp PROVE Excused
    OBVIOUS
  <2> USE RuntimeConstants DEF RuntimeInv
  <2>1. ASSUME NEW n \in Segments, RealignIf(n) PROVE torndown \/ Needs(n)
    <3>1. CASE ~torndown
      <4>1. TRUE \in Jump(startNumber, n)
        BY <2>1, <3>1 DEF RealignIf, Unreached, current
      <4>2. startNumber \in Nat /\ n \in Nat /\ Near \in Nat
        BY DEF TypeOK
      <4>3. n < startNumber \/ ~(n - startNumber <= Near)
        BY <4>1, <4>2 DEF Jump
      <4> QED BY <4>2, <4>3 DEF Needs
    <3> QED BY <3>1
  <2>2. ASSUME NEW r \in Requests, RealignForBurst(r) \/ Realign(r) PROVE Excused
    <3>1. aim[r] \in Segments /\ torndown' = torndown
      BY <2>2 DEF RealignForBurst, Realign, TypeOK, flags
    <3>2. pc[r] \in {"closing", "realigning"} /\ pc'[r] = "idle" /\ RealignIf(aim[r])
      BY <2>2 DEF RealignForBurst, Realign, Leave, TypeOK
    <3>3. torndown \/ Needs(aim[r])
      BY <2>1, <3>1, <3>2
    <3> QED BY <3>1, <3>2, <3>3
  <2>3. ASSUME NEW r \in Requests, LaunchInitial(r) PROVE FALSE
    BY <2>3 DEF LaunchInitial, Launching, Eligible, Starting, current
  <2>4. ASSUME NEW r \in Requests, Fallback(r) PROVE Excused
    <3>1. pc[r] = "fallback" /\ ~fellBack
      BY <2>4 DEF Fallback, Launching, Eligible
    <3>2. torndown' = torndown /\ (~torndown => fellBack' = TRUE)
      BY <2>4 DEF Fallback
    <3> QED BY <3>1, <3>2
  <2>5. CASE Teardown
    BY <2>5 DEF Teardown
  <2>6. CASE job' = job
    BY <2>6
  <2> QED
    BY <2>2, <2>3, <2>4, <2>5, <2>6
    DEF Next, Proceed, Arrive, EnsureStarted, Probe, ShouldRealign, GatedRealign,
        CloseBurst, Exits, Dies, WatchExit, RemoveScratch, current, vars
<1> QED
  BY <1>1, Invariance, PTL DEF Spec, NoThrash

(* The scratch directory of a torn-down session does not come back.        *)
THEOREM ScratchIsGoneForGood == Spec => ScratchStaysRemoved
<1>1. RuntimeInv /\ [Next]_vars => [scratch = "removed" => scratch' = "removed"]_vars
  BY DEF RuntimeInv, Jobs, Next, Proceed, Arrive, EnsureStarted, LaunchInitial,
     Probe, Fallback, ShouldRealign, GatedRealign, CloseBurst, RealignForBurst,
     Realign, Exits, Dies, WatchExit, Teardown, RemoveScratch, vars
<1> QED
  BY <1>1, Invariance, PTL DEF Spec, ScratchStaysRemoved

-----------------------------------------------------------------------------
(* The runtime is the encoder slot the session Manager takes it for.       *)
THEOREM RefinesEncoderSlot == Spec => ImplementsEncoderSlot
<1>1. Init => Encoder!Init
  BY DEF Init, Encoder!Init, Slot
<1>2. RuntimeInv /\ RuntimeInv' /\ [Next]_vars => [Encoder!Next]_Slot
  <2> SUFFICES ASSUME RuntimeInv, RuntimeInv', [Next]_vars
               PROVE  [Encoder!Next]_Slot
    OBVIOUS
  <2>1. torndown => torndown' /\ alive = {} /\ alive' = {}
    <3>1. torndown => torndown'
      BY DEF Next, Proceed, Arrive, EnsureStarted, LaunchInitial, Probe, Fallback,
         ShouldRealign, GatedRealign, CloseBurst, RealignForBurst, Realign, Exits,
         Dies, WatchExit, Teardown, RemoveScratch, vars, flags
    <3> QED BY <3>1 DEF RuntimeInv, NoOrphan
  <2>2. torndown' => alive' = {}
    BY DEF RuntimeInv, NoOrphan
  <2> QED
    BY <2>1, <2>2 DEF RuntimeInv, TypeOK, Slot, Encoder!Next, Encoder!Launch,
       Encoder!Exits, Encoder!Teardown
<1> QED
  BY <1>1, <1>2, Invariance, PTL DEF Spec, ImplementsEncoderSlot, Encoder!Spec

-----------------------------------------------------------------------------
(* The observer, for any number of sessions, Users, tokens and reports.  A *)
(* session that ended leaves no token but the explained ones, tokens speak *)
(* for their session's owner, deleted Users have none.                     *)

LEMMA FeedGrows ==
    ASSUME NEW S, NEW k \in S, NEW seq \in Seq(S)
    PROVE  /\ Append(seq, k) \in Seq(S)
           /\ \A i \in DOMAIN Append(seq, k) :
                 (i \in DOMAIN seq /\ Append(seq, k)[i] = seq[i]) \/ Append(seq, k)[i] = k
OBVIOUS

(* The state keeps its types: a row under a mint has not been inserted.    *)
THEOREM Typing == ObserverSpec => []ObserverTypeOK
<1>1. ObserverInit => ObserverTypeOK
  BY DEF ObserverInit, ObserverTypeOK
<1>2. ObserverTypeOK /\ [ObserverNext]_observerVars => ObserverTypeOK'
  <2> SUFFICES ASSUME ObserverTypeOK, [ObserverNext]_observerVars PROVE ObserverTypeOK'
    OBVIOUS
  <2> USE DEF ObserverTypeOK
  <2>1. ASSUME NEW s \in SessionIds, NEW u \in Users, Negotiate(s, u) PROVE ObserverTypeOK'
    BY <2>1 DEF Negotiate, Call, Kinds, rows, history
  <2>2. ASSUME NEW s \in SessionIds, NEW u \in Users, NEW t \in Tokens, MintLookup(t, s, u)
        PROVE ObserverTypeOK'
    BY <2>2 DEF MintLookup, Fresh, Holders, history
  <2>3. ASSUME NEW s \in SessionIds, ReportProgress(s) PROVE ObserverTypeOK'
    BY <2>3 DEF ReportProgress, Call, Kinds, rows, history
  <2>11. ASSUME NEW s \in SessionIds, End(s) PROVE ObserverTypeOK'
    BY <2>11 DEF End, Call, Kinds, rows, history
  <2>4. ASSUME NEW s \in SessionIds, RevokeStreamTokens(s) PROVE ObserverTypeOK'
    BY <2>4 DEF RevokeStreamTokens, Delete, TokensOf
  <2>5. ASSUME NEW s \in SessionIds, NEW k \in Kinds, Publish(k, s) PROVE ObserverTypeOK'
    <3>1. feed' \in [SessionIds -> Seq(Kinds)]
      BY <2>5, FeedGrows DEF Publish
    <3> QED
      BY <2>5, <3>1 DEF Publish, rows, history
  <2>6. ASSUME NEW t \in Tokens, InsertStreamToken(t) \/ Expire(t) PROVE ObserverTypeOK'
    BY <2>6 DEF InsertStreamToken, Expire, history
  <2>7. CASE SweepStreamTokens
    BY <2>7 DEF SweepStreamTokens, Delete, history
  <2>8. ASSUME NEW u \in Users, DeleteUser(u) PROVE ObserverTypeOK'
    BY <2>8 DEF DeleteUser, Delete, history
  <2>9. CASE Crash
    BY <2>9 DEF Crash
  <2>10. CASE UNCHANGED observerVars
    BY <2>10 DEF observerVars, rows, history
  <2> QED
    BY <2>1, <2>2, <2>3, <2>4, <2>5, <2>6, <2>7, <2>8, <2>9, <2>10, <2>11 DEF ObserverNext
<1> QED
  BY <1>1, <1>2, PTL DEF ObserverSpec

-----------------------------------------------------------------------------
(* What ties the end of a session to its revocation.                       *)
EndOrder ==
    \A s \in SessionIds :
        /\ Announced(s) => s \in revoked
        /\ s \in revoked \/ Call("ended", s) \in calls => session[s] = "ended"
        /\ session[s] = "lost" => s \in unrevoked

(* The revocation, once it had its turn, leaves no unexplained row.        *)
Leftovers ==
    \A s \in SessionIds : s \in revoked \/ session[s] = "lost" =>
        \A t \in TokensOf(s) : Usable(t) => s \in unrevoked \/ t \in late

LEMMA EndOrderKept == ObserverTypeOK /\ EndOrder /\ [ObserverNext]_observerVars => EndOrder'
<1> SUFFICES ASSUME ObserverTypeOK, EndOrder, [ObserverNext]_observerVars PROVE EndOrder'
  OBVIOUS
<1> USE DEF EndOrder, ObserverTypeOK, Announced, Call
<1>1. ASSUME NEW s \in SessionIds, NEW u \in Users, Negotiate(s, u) PROVE EndOrder'
  BY <1>1 DEF Negotiate, history
<1>2. ASSUME NEW s \in SessionIds, ReportProgress(s) PROVE EndOrder'
  BY <1>2 DEF ReportProgress, history
<1>7. ASSUME NEW s \in SessionIds, End(s) PROVE EndOrder'
  BY <1>7 DEF End, history
<1>3. ASSUME NEW s \in SessionIds, RevokeStreamTokens(s) PROVE EndOrder'
  BY <1>3 DEF RevokeStreamTokens
<1>4. ASSUME NEW s \in SessionIds, NEW k \in Kinds, Publish(k, s) PROVE EndOrder'
  <2>1. \A r \in SessionIds : Announced(r)' => Announced(r) \/ (r = s /\ k = "ended")
    BY <1>4, FeedGrows DEF Publish
  <2> QED
    BY <1>4, <2>1 DEF Publish, history
<1>5. CASE Crash
  BY <1>5 DEF Crash
<1>6. CASE UNCHANGED <<session, calls, revoked, feed, unrevoked>>
  BY <1>6
<1> QED
  BY <1>1, <1>2, <1>3, <1>4, <1>5, <1>6, <1>7
     DEF ObserverNext, MintLookup, InsertStreamToken, Expire, SweepStreamTokens, DeleteUser, observerVars, history

LEMMA LeftoversKept == ObserverTypeOK /\ EndOrder /\ Leftovers /\ [ObserverNext]_observerVars => Leftovers'
<1> SUFFICES ASSUME ObserverTypeOK, EndOrder, Leftovers, [ObserverNext]_observerVars PROVE Leftovers'
  OBVIOUS
<1> USE DEF Leftovers, EndOrder, ObserverTypeOK, TokensOf, Usable
<1>1. ASSUME NEW s \in SessionIds, NEW u \in Users, Negotiate(s, u) PROVE Leftovers'
  BY <1>1 DEF Negotiate, rows, history
<1>2. ASSUME NEW s \in SessionIds, End(s) PROVE Leftovers'
  BY <1>2 DEF End, rows, history
<1>3. ASSUME NEW s \in SessionIds, RevokeStreamTokens(s) PROVE Leftovers'
  BY <1>3 DEF RevokeStreamTokens, Delete
<1>4. ASSUME NEW s \in SessionIds, NEW u \in Users, NEW t \in Tokens, MintLookup(t, s, u)
      PROVE Leftovers'
  BY <1>4 DEF MintLookup, Fresh, history
<1>5. ASSUME NEW t \in Tokens, InsertStreamToken(t) PROVE Leftovers'
  BY <1>5 DEF InsertStreamToken
<1>6. ASSUME NEW t \in Tokens, Expire(t) PROVE Leftovers'
  BY <1>6 DEF Expire, history
<1>7. CASE SweepStreamTokens
  BY <1>7 DEF SweepStreamTokens, Delete, history
<1>8. ASSUME NEW u \in Users, DeleteUser(u) PROVE Leftovers'
  BY <1>8 DEF DeleteUser, Delete, history
<1>9. CASE Crash
  BY <1>9 DEF Crash
<1>10. CASE UNCHANGED <<session, revoked, rows, history>>
  BY <1>10 DEF rows, history
<1> QED
  BY <1>1, <1>2, <1>3, <1>4, <1>5, <1>6, <1>7, <1>8, <1>9, <1>10
     DEF ObserverNext, ReportProgress, Publish, observerVars

(* Session end is revocation: what stays of an announced or lost session   *)
(* is what a failed revocation, a crash or a late mint left.               *)
THEOREM EndIsRevocation == ObserverSpec => []EndedIsRevoked
<1>1. ObserverInit => EndOrder /\ Leftovers
  BY DEF ObserverInit, EndOrder, Leftovers, Announced, TokensOf
<1>2. ObserverTypeOK /\ EndOrder /\ Leftovers /\ [ObserverNext]_observerVars => (EndOrder /\ Leftovers)'
  BY EndOrderKept, LeftoversKept
<1>3. EndOrder /\ Leftovers => EndedIsRevoked
  BY DEF EndOrder, Leftovers, EndedIsRevoked
<1> QED
  BY <1>1, <1>2, <1>3, Typing, PTL DEF ObserverSpec

-----------------------------------------------------------------------------
Held == \A t \in Tokens : t \in minting \/ row[t] # "new" => holder[t] \in Holders

(* A token authorises its own session for that session's User.             *)
THEOREM TokensSpeakForOwners == ObserverSpec => []TokensAreTheOwners
<1>1. ObserverInit => Held /\ TokensAreTheOwners
  BY DEF ObserverInit, Held, TokensAreTheOwners
<1>2. ObserverTypeOK /\ Held /\ TokensAreTheOwners /\ [ObserverNext]_observerVars => (Held /\ TokensAreTheOwners)'
  <2> SUFFICES ASSUME ObserverTypeOK, Held, TokensAreTheOwners, [ObserverNext]_observerVars
               PROVE  (Held /\ TokensAreTheOwners)'
    OBVIOUS
  <2> USE DEF Held, TokensAreTheOwners, ObserverTypeOK, Holders
  <2>1. ASSUME NEW s \in SessionIds, NEW u \in Users, Negotiate(s, u)
        PROVE (Held /\ TokensAreTheOwners)'
    BY <2>1 DEF Negotiate, rows
  <2>2. ASSUME NEW s \in SessionIds, NEW u \in Users, NEW t \in Tokens, MintLookup(t, s, u)
        PROVE (Held /\ TokensAreTheOwners)'
    BY <2>2 DEF MintLookup, Fresh, Answered
  <2>3. ASSUME NEW s \in SessionIds, End(s) PROVE (Held /\ TokensAreTheOwners)'
    BY <2>3 DEF End, rows
  <2>4. ASSUME NEW s \in SessionIds, RevokeStreamTokens(s) PROVE (Held /\ TokensAreTheOwners)'
    BY <2>4 DEF RevokeStreamTokens, Delete, TokensOf
  <2>5. ASSUME NEW t \in Tokens, InsertStreamToken(t) \/ Expire(t)
        PROVE (Held /\ TokensAreTheOwners)'
    BY <2>5 DEF InsertStreamToken, Expire
  <2>6. CASE SweepStreamTokens
    BY <2>6 DEF SweepStreamTokens, Delete
  <2>7. ASSUME NEW u \in Users, DeleteUser(u) PROVE (Held /\ TokensAreTheOwners)'
    BY <2>7 DEF DeleteUser, Delete
  <2>8. CASE Crash
    BY <2>8 DEF Crash
  <2>9. CASE UNCHANGED <<session, owner, rows>>
    BY <2>9 DEF rows
  <2> QED
    BY <2>1, <2>2, <2>3, <2>4, <2>5, <2>6, <2>7, <2>8, <2>9
       DEF ObserverNext, ReportProgress, Publish, observerVars
<1> QED
  BY <1>1, <1>2, Typing, PTL DEF ObserverSpec

(* A deleted User's tokens are gone, and a mint under way inserts none.    *)
THEOREM NoTokenOutlivesItsUser == ObserverSpec => []DeletedUsersHoldNothing
<1>1. ObserverInit => DeletedUsersHoldNothing
  BY DEF ObserverInit, DeletedUsersHoldNothing, Usable
<1>2. ObserverTypeOK /\ DeletedUsersHoldNothing /\ [ObserverNext]_observerVars => DeletedUsersHoldNothing'
  <2> SUFFICES ASSUME ObserverTypeOK, DeletedUsersHoldNothing, [ObserverNext]_observerVars
               PROVE  DeletedUsersHoldNothing'
    OBVIOUS
  <2> USE DEF DeletedUsersHoldNothing, Usable, ObserverTypeOK
  <2>1. ASSUME NEW s \in SessionIds, RevokeStreamTokens(s) PROVE DeletedUsersHoldNothing'
    BY <2>1 DEF RevokeStreamTokens, Delete, TokensOf
  <2>2. ASSUME NEW s \in SessionIds, NEW u \in Users, NEW t \in Tokens, MintLookup(t, s, u)
        PROVE DeletedUsersHoldNothing'
    BY <2>2 DEF MintLookup, Fresh
  <2>3. ASSUME NEW t \in Tokens, InsertStreamToken(t) \/ Expire(t)
        PROVE DeletedUsersHoldNothing'
    BY <2>3 DEF InsertStreamToken, Expire
  <2>4. CASE SweepStreamTokens
    BY <2>4 DEF SweepStreamTokens, Delete
  <2>5. ASSUME NEW u \in Users, DeleteUser(u) PROVE DeletedUsersHoldNothing'
    BY <2>5 DEF DeleteUser, Delete
  <2>6. CASE Crash
    BY <2>6 DEF Crash
  <2>7. CASE UNCHANGED <<users, rows>>
    BY <2>7 DEF rows
  <2> QED
    BY <2>1, <2>2, <2>3, <2>4, <2>5, <2>6, <2>7
       DEF ObserverNext, Negotiate, ReportProgress, End, Publish, observerVars
<1> QED
  BY <1>1, <1>2, Typing, PTL DEF ObserverSpec
-----------------------------------------------------------------------------
(* The sinks: what swap, Close and Publish know in each of their phases.   *)
Phases ==
    /\ swapping # "swapped" => starting = {} /\ stopping = {}
    /\ ~closed => closing = {}
    /\ closed => live = {}
    /\ translator # "publish" => publishing = {}
    /\ translator # "wait" => latest # 0

\* A worker that was made has its sink, one that was not has no events.
MadeForASlug ==
    \A w \in Workers : IF stage[w] = "unused" THEN queue[w] = <<>> ELSE slug[w] \in Slugs

\* No save makes more workers than there are sinks.
Used    == {w \in Workers : stage[w] # "unused"}
ToCome  == owed + (IF swapping = "read" THEN 1 ELSE 0)
Enough  == Cardinality(Used) + ToCome * Cardinality(Slugs) <= saves * Cardinality(Slugs)

\* What a Reload has read is what was saved last, or another is to come.
ReadIsSaved ==
    /\ owed = 0 /\ ~unapplied /\ swapping # "no" => next = settings
    /\ swapping = "swapped" /\ ~closed => {slug[w] : w \in live} = next

SinksInv == SinksTypeOK /\ Phases /\ MadeForASlug /\ Enough

\* Events rise along the way; a tick is none.
Above(n, s)  == \A i \in DOMAIN s : n < s[i] \/ s[i] = Tick
AtMost(s, n) == \A i \in DOMAIN s : s[i] <= n

\* The event the translator has is yet to be sent to w.
Pending(w) == translator = "wanted" \/ w \in publishing

BrokerOrder ==
    /\ Rises(backlog) /\ Rises(inbox)
    /\ Above(latest, backlog) /\ Above(latest, inbox)
    /\ \A i \in DOMAIN backlog : backlog[i] # Tick /\ Above(backlog[i], inbox)
    /\ latest <= published /\ AtMost(backlog, published) /\ AtMost(inbox, published)

QueueOrder(w) ==
    /\ Rises(queue[w]) /\ Above(event[w], queue[w])
    /\ event[w] <= latest /\ AtMost(queue[w], latest)
    /\ Pending(w) => event[w] < latest /\ \A i \in DOMAIN queue[w] : queue[w][i] < latest

OrderInv == BrokerOrder /\ \A w \in Workers : QueueOrder(w)

-----------------------------------------------------------------------------
(* What swap makes, given that workers do not run out.                     *)
Unused == Workers \ Used

LEMMA SinkSets ==
    /\ IsFiniteSet(Slugs) /\ IsFiniteSet(Workers) /\ QueueCapacity \in Nat \ {0}
    /\ MaxEvents \in Nat /\ MaxSaves \in Nat /\ Nil \notin Workers
    /\ Cardinality(Slugs) \in Nat /\ Cardinality(Workers) \in Nat
    /\ Cardinality(Workers) >= MaxSaves * Cardinality(Slugs)
  BY SinkConstants, FS_CardinalityType

LEMMA FitsIn ==
    ASSUME NEW S, NEW T, IsFiniteSet(S), IsFiniteSet(T), Cardinality(S) <= Cardinality(T)
    PROVE  Injection(S, T) # {}
<1> DEFINE m == Cardinality(S)  n == Cardinality(T)
<1>1. m \in Nat /\ n \in Nat /\ ExistsBijection(1..m, S) /\ ExistsBijection(1..n, T)
  BY FS_CardinalityType
<1>2. ExistsInjection(S, 1..m)
  BY <1>1, Fun_ExistsBijSymmetric DEF ExistsBijection, Bijection,
       ExistsInjection
<1>3. ExistsInjection(1..m, 1..n)
  BY <1>1, Fun_NatInjLeq
<1>4. ExistsInjection(1..n, T)
  BY <1>1 DEF ExistsBijection, Bijection, ExistsInjection
<1> QED
  BY <1>2, <1>3, <1>4, Fun_ExistsInjTransitive DEF ExistsInjection

LEMMA RoomForAll ==
    ASSUME SinksTypeOK, Enough, swapping = "read" PROVE Injection(next, Unused) # {}
<1> DEFINE c == Cardinality(Slugs)  u == Cardinality(Used)  n == Cardinality(next)
<1>1. IsFiniteSet(next) /\ n <= c /\ n \in Nat
  BY SinkSets, FS_Subset, FS_CardinalityType DEF SinksTypeOK
<1>2. Used \subseteq Workers /\ IsFiniteSet(Used) /\ u \in Nat
  BY SinkSets, FS_Subset, FS_CardinalityType DEF Used
<1>3. IsFiniteSet(Unused) /\ Cardinality(Unused) = Cardinality(Workers) - u
  <2>1. Workers \cap Used = Used
    BY <1>2
  <2> QED BY <2>1, SinkSets, FS_Difference DEF Unused
<1>4. saves \in 0..MaxSaves /\ owed \in 0..saves /\ u + (owed + 1) * c <= saves * c /\ c \in Nat
  BY SinkSets DEF SinksTypeOK, Enough, ToCome
<1>5. (owed + 1) * c = owed * c + c /\ owed * c >= 0 /\ saves * c <= MaxSaves * c
  <2>1. \A x, y \in Nat : (x + 1) * y = x * y + y /\ x * y \in Nat
    OBVIOUS
  <2>2. \A x, z, y \in Nat : x <= z => x * y <= z * y
    OBVIOUS
  <2> QED BY <2>1, <2>2, <1>4, SinkSets
<1>6. u + c <= MaxSaves * c
  <2>1. owed * c \in Int /\ saves * c \in Int /\ MaxSaves * c \in Int
    BY <1>4, SinkSets
  <2> QED BY <1>2, <1>4, <1>5, <2>1
<1>7. n <= Cardinality(Unused)
  <2>1. MaxSaves * c \in Int
    BY <1>4, SinkSets
  <2> QED BY <1>1, <1>2, <1>3, <1>4, <1>6, <2>1, SinkSets
<1> QED
  BY <1>1, <1>3, <1>7, FitsIn

(* N is the set of workers swap makes.                                     *)
MadeNew(N) ==
    /\ N \subseteq Unused /\ IsFiniteSet(N) /\ Cardinality(N) <= Cardinality(Slugs)
    /\ live' = N /\ starting' = N
    /\ stage' = [w \in Workers |-> IF w \in N THEN "made" ELSE stage[w]]
    /\ slug' \in [Workers -> Slugs \cup {Nil}]
    /\ \A w \in Workers : w \notin N => slug'[w] = slug[w]
    /\ {slug'[w] : w \in N} = next

LEMMA SwapMakes ==
    ASSUME SinksTypeOK, Enough, swapping = "read", MakeWorkers PROVE \E N : MadeNew(N)
<1> DEFINE new == CHOOSE f \in Injection(next, {w \in Workers : stage[w] = "unused"}) : TRUE
           N   == Range(new)
<1>1. Unused = {w \in Workers : stage[w] = "unused"}
  BY DEF Unused, Used
<1>2. new \in Injection(next, Unused)
  BY <1>1, RoomForAll
<1>3. /\ new \in [next -> Unused] /\ \A a, b \in next : new[a] = new[b] => a = b
      /\ N \subseteq Unused /\ N = {new[s] : s \in next}
  <2> HIDE DEF new
  <2>1. new \in [next -> Unused] /\ DOMAIN new = next
    BY <1>2 DEF Injection
  <2>2. \A a, b \in next : new[a] = new[b] => a = b
    BY <1>2, <2>1 DEF Injection, IsInjective
  <2>3. N = {new[s] : s \in next}
    BY <2>1 DEF Range
  <2> QED BY <2>1, <2>2, <2>3
<1>4. next \subseteq Slugs /\ IsFiniteSet(next) /\ Cardinality(next) <= Cardinality(Slugs)
      /\ Cardinality(next) \in Nat
  BY SinkSets, FS_Subset, FS_CardinalityType DEF SinksTypeOK
<1>5. IsFiniteSet(N) /\ Cardinality(N) <= Cardinality(Slugs) /\ Cardinality(N) \in Nat
  <2>1. new \in Surjection(next, N)
    BY <1>3 DEF Surjection
  <2>2. IsFiniteSet(N) /\ Cardinality(N) <= Cardinality(next)
    BY <2>1, <1>4, FS_Surjection
  <2> QED BY <1>4, <2>2, SinkSets, FS_CardinalityType
<1>6. /\ live' = N /\ starting' = N
      /\ stage' = [w \in Workers |-> IF w \in N THEN "made" ELSE stage[w]]
      /\ slug' = [w \in Workers |-> IF w \in N THEN CHOOSE s \in next : new[s] = w ELSE slug[w]]
  BY DEF MakeWorkers
<1>7. \A s \in next : slug'[new[s]] = s
  <2> TAKE s \in next
  <2>1. new[s] \in N /\ new[s] \in Workers
    BY <1>3 DEF Unused
  <2>2. (CHOOSE x \in next : new[x] = new[s]) = s
    BY <1>3
  <2> QED BY <1>6, <2>1, <2>2
<1>8. \A w \in N : slug'[w] \in next
  <2> HIDE DEF new, N
  <2> SUFFICES ASSUME NEW w \in N PROVE slug'[w] \in next
    OBVIOUS
  <2>1. PICK s \in next : w = new[s]
    BY <1>3
  <2> QED BY <2>1, <1>7
<1>9. {slug'[w] : w \in N} = next
  <2> HIDE DEF new, N
  <2>1. ASSUME NEW s \in next PROVE s \in {slug'[w] : w \in N}
    <3>1. new[s] \in N /\ slug'[new[s]] = s
      BY <1>3, <1>7, Zenon
    <3> QED BY <3>1
  <2>2. {slug'[w] : w \in N} \subseteq next
    BY <1>8
  <2> QED BY <2>1, <2>2
<1>10. slug' \in [Workers -> Slugs \cup {Nil}]
  <2>1. \A w \in Workers : slug'[w] \in Slugs \cup {Nil}
    BY <1>4, <1>6, <1>8 DEF SinksTypeOK
  <2> QED BY <2>1, <1>6
<1>11. \A w \in Workers : w \notin N => slug'[w] = slug[w]
  BY <1>6
<1>12. MadeNew(N)
  BY <1>3, <1>5, <1>6, <1>9, <1>10, <1>11 DEF MadeNew
<1> QED BY <1>12

-----------------------------------------------------------------------------
(* Types and phases.  What the Broker does to the sinks is one of these.   *)
SinkNext == SinkSteps \/ (\E e \in 1..MaxEvents : Translate(e)) \/ Close

TallyType == accepted \in [Slugs -> Nat] /\ counts \in [Slugs -> Tallies]

LEMMA CountType ==
    ASSUME TallyType, NEW w \in Workers, slug[w] \in Slugs,
           NEW f \in {"delivered", "failed", "dropped"}, Count(w, f)
    PROVE  /\ counts' \in [Slugs -> Tallies]
           /\ \A s \in Slugs : s # slug[w] => counts'[s] = counts[s]
           /\ counts'[slug[w]].delivered + counts'[slug[w]].failed + counts'[slug[w]].dropped
                + counts'[slug[w]].discarded
              = counts[slug[w]].delivered + counts[slug[w]].failed + counts[slug[w]].dropped
                + counts[slug[w]].discarded + 1
<1> DEFINE c == counts[slug[w]]
<1>1. c \in Tallies
  BY DEF TallyType
<1>2. counts' = [counts EXCEPT ![slug[w]] = [c EXCEPT ![f] = c[f] + 1]]
  BY DEF Count, TallyType
<1>3. counts'[slug[w]] = [c EXCEPT ![f] = c[f] + 1] /\ \A s \in Slugs : s # slug[w] => counts'[s] = counts[s]
  BY <1>2 DEF TallyType
<1> DEFINE d == [c EXCEPT ![f] = c[f] + 1]
<1>4. d \in Tallies /\ d.delivered + d.failed + d.dropped + d.discarded
                     = c.delivered + c.failed + c.dropped + c.discarded + 1
  <2>1. CASE f = "delivered"
    BY <1>1, <2>1 DEF Tallies
  <2>2. CASE f = "failed"
    BY <1>1, <2>2 DEF Tallies
  <2>3. CASE f = "dropped"
    BY <1>1, <2>3 DEF Tallies
  <2> QED BY <2>1, <2>2, <2>3
<1> QED
  <2> HIDE DEF c, d
  <2>1. counts' \in [Slugs -> Tallies]
    BY <1>2, <1>4 DEF TallyType, d
  <2> QED BY <1>3, <1>4, <2>1 DEF c, d

LEMMA DiscardType ==
    ASSUME TallyType, NEW w \in Workers, slug[w] \in Slugs, NEW n \in Nat,
           counts' = [counts EXCEPT ![slug[w]].discarded = @ + n]
    PROVE  /\ counts' \in [Slugs -> Tallies]
           /\ \A s \in Slugs : s # slug[w] => counts'[s] = counts[s]
           /\ counts'[slug[w]].delivered + counts'[slug[w]].failed + counts'[slug[w]].dropped
                + counts'[slug[w]].discarded
              = counts[slug[w]].delivered + counts[slug[w]].failed + counts[slug[w]].dropped
                + counts[slug[w]].discarded + n
<1> DEFINE c == counts[slug[w]]  d == [c EXCEPT !.discarded = c.discarded + n]
<1>1. c \in Tallies
  BY DEF TallyType
<1>2. counts' = [counts EXCEPT ![slug[w]] = d]
  BY DEF TallyType
<1>3. counts'[slug[w]] = d /\ \A s \in Slugs : s # slug[w] => counts'[s] = counts[s]
  BY <1>2 DEF TallyType
<1>4. d \in Tallies /\ d.delivered + d.failed + d.dropped + d.discarded
                     = c.delivered + c.failed + c.dropped + c.discarded + n
  BY <1>1 DEF Tallies
<1> QED
  <2> HIDE DEF c, d
  <2>1. counts' \in [Slugs -> Tallies]
    BY <1>2, <1>4 DEF TallyType, d
  <2> QED BY <1>3, <1>4, <2>1 DEF c, d

(* What a step may do to the workers that there are.                       *)
LEMMA MadeWorkers ==
    ASSUME SinksInv, NEW N, MadeNew(N), swapping = "read", swapping' = "swapped",
           owed' = owed, saves' = saves, queue' = queue
    PROVE  /\ MadeForASlug' /\ Enough'
           /\ stage' \in [Workers -> Stages]
           /\ N = {w \in Workers : w \in N /\ stage'[w] = "made"}
           /\ \A w \in Workers : stage[w] # "unused" => stage'[w] = stage[w]
<1> DEFINE c == Cardinality(Slugs)  u == Cardinality(Used)
<1>1. N \subseteq Workers /\ IsFiniteSet(N) /\ Cardinality(N) <= c /\ Cardinality(N) \in Nat
  BY FS_CardinalityType DEF MadeNew, Unused
<1>2. \A w \in Workers : stage'[w] = IF w \in N THEN "made" ELSE stage[w]
  BY DEF MadeNew
<1>3. \A w \in N : stage[w] = "unused" /\ slug'[w] \in Slugs
  <2>1. next \subseteq Slugs
    BY DEF SinksInv, SinksTypeOK
  <2> QED BY <2>1 DEF MadeNew, Unused, Used
<1>4. stage' \in [Workers -> Stages]
  BY DEF MadeNew, SinksInv, SinksTypeOK, Stages
<1>5. MadeForASlug'
  <2> SUFFICES ASSUME NEW w \in Workers
               PROVE  IF stage'[w] = "unused" THEN queue'[w] = <<>> ELSE slug'[w] \in Slugs
    BY DEF MadeForASlug
  <2>1. CASE w \in N
    BY <2>1, <1>2, <1>3
  <2>2. CASE w \notin N
    BY <2>2, <1>2 DEF SinksInv, MadeForASlug, MadeNew
  <2> QED BY <2>1, <2>2
<1>6. Used' = Used \cup N /\ Used \cap N = {}
  BY <1>1, <1>2, <1>3 DEF Used
<1>7. IsFiniteSet(Used) /\ u \in Nat
  BY SinkSets, FS_Subset, FS_CardinalityType DEF Used
<1>8. Cardinality(Used \cup N) <= u + c
  <2>1. Cardinality(Used \cup N) = u + Cardinality(N) - Cardinality(Used \cap N)
    BY <1>1, <1>7, FS_Union
  <2>2. Cardinality(Used \cap N) = 0
    BY <1>6, FS_EmptySet
  <2>3. Cardinality(Used \cup N) \in Nat
    BY <1>1, <1>7, FS_Union, FS_CardinalityType
  <2> QED BY <1>1, <1>7, <2>1, <2>2, <2>3, SinkSets
<1>9. Enough'
  <2>1. saves \in Nat /\ owed \in Nat /\ u + (owed + 1) * c <= saves * c /\ c \in Nat
    BY SinkSets DEF SinksInv, SinksTypeOK, Enough, ToCome
  <2>2. \A x, y \in Nat : (x + 1) * y = x * y + y /\ x * y \in Nat
    OBVIOUS
  <2>3. (owed + 1) * c = owed * c + c /\ owed * c \in Nat /\ saves * c \in Nat
    BY <2>1, <2>2
  <2>4. Cardinality(Used') \in Nat
    BY <1>1, <1>6, <1>7, FS_Union, FS_CardinalityType
  <2>5. Cardinality(Used') + owed * c <= saves * c
    BY <1>6, <1>7, <1>8, <2>1, <2>3, <2>4
  <2>6. ToCome' = owed
    BY <2>1 DEF ToCome
  <2> QED BY <2>5, <2>6 DEF Enough
<1> QED
  BY <1>1, <1>2, <1>3, <1>4, <1>5, <1>9

LEMMA EnoughStays ==
    ASSUME SinksInv, Used' = Used,
           \/ saves' = saves /\ owed' \in Nat /\ ToCome' <= ToCome
           \/ saves' = saves + 1 /\ owed' \in Nat /\ ToCome' <= ToCome + 1
    PROVE  Enough'
<1> DEFINE c == Cardinality(Slugs)  u == Cardinality(Used)
<1>1. c \in Nat /\ u \in Nat
  BY SinkSets, FS_Subset, FS_CardinalityType DEF Used
<1>2. saves \in Nat /\ ToCome \in Nat /\ ToCome' \in Nat
  BY DEF SinksInv, SinksTypeOK, ToCome
<1>3. u + ToCome * c <= saves * c
  BY DEF SinksInv, Enough
<1>4. \A x, y \in Nat : (x + 1) * y = x * y + y /\ x * y \in Nat
  OBVIOUS
<1>5. \A x, z, y \in Nat : x <= z => x * y <= z * y
  OBVIOUS
<1>6. ToCome * c \in Nat /\ ToCome' * c \in Nat /\ saves * c \in Nat
  BY <1>1, <1>2, <1>4
<1>7. CASE saves' = saves /\ ToCome' <= ToCome
  <2>1. ToCome' * c <= ToCome * c
    BY <1>1, <1>2, <1>5, <1>7
  <2> QED BY <1>1, <1>3, <1>6, <1>7, <2>1 DEF Enough
<1>8. CASE saves' = saves + 1 /\ ToCome' <= ToCome + 1
  <2>1. ToCome' * c <= ToCome * c + c /\ saves' * c = saves * c + c
    <3>1. ToCome' * c <= (ToCome + 1) * c
      BY <1>1, <1>2, <1>5, <1>8
    <3> QED BY <3>1, <1>1, <1>2, <1>4, <1>8
  <2> QED BY <1>1, <1>3, <1>6, <1>8, <2>1 DEF Enough
<1> QED BY <1>7, <1>8

LEMMA SinksInvInit == SinksInit => SinksInv
<1> SUFFICES ASSUME SinksInit PROVE SinksInv
  OBVIOUS
<1>1. SinksTypeOK
  <2>1. [delivered |-> 0, failed |-> 0, dropped |-> 0, discarded |-> 0] \in Tallies
    BY DEF Tallies
  <2>2. /\ queue \in [Workers -> Seq(1..MaxEvents)] /\ \A w \in Workers : Len(queue[w]) <= QueueCapacity
        /\ event \in [Workers -> 0..MaxEvents]
    BY SinkSets DEF SinksInit
  <2>3. accepted \in [Slugs -> Nat] /\ counts \in [Slugs -> Tallies]
    BY <2>1 DEF SinksInit
  <2>4. slug \in [Workers -> Slugs \cup {Nil}] /\ stage \in [Workers -> Stages] /\ saves \in 0..MaxSaves
        /\ owed \in 0..saves /\ latest \in 0..MaxEvents
    BY SinkSets DEF SinksInit, Stages
  <2>5. /\ settings \subseteq Slugs /\ next \subseteq Slugs /\ unapplied \in BOOLEAN /\ closed \in BOOLEAN
        /\ swapping = "no" /\ starting = {} /\ stopping = {} /\ closing = {} /\ live = {} /\ quit = {}
        /\ publishing = {} /\ full = Nil /\ translator = "wait"
    BY DEF SinksInit
  <2> QED BY <2>2, <2>3, <2>4, <2>5 DEF SinksTypeOK
<1>2. Phases /\ MadeForASlug
  BY DEF SinksInit, Phases, MadeForASlug
<1>3. Used = {} /\ ToCome = 0
  BY DEF SinksInit, Used, ToCome
<1>4. Enough
  BY <1>3, SinkSets, FS_EmptySet DEF SinksInit, Enough
<1> QED
  BY <1>1, <1>2, <1>4 DEF SinksInv

(* Everything of the invariant but the tallies and the supply of workers.  *)
SinksShape ==
    /\ settings \subseteq Slugs /\ next \subseteq Slugs
    /\ saves \in 0..MaxSaves /\ owed \in 0..saves
    /\ unapplied \in BOOLEAN /\ closed \in BOOLEAN
    /\ swapping \in {"no", "read", "swapped"}
    /\ starting \subseteq {w \in Workers : stage[w] = "made"}
    /\ stopping \cup closing \cup live \subseteq Used
    /\ slug \in [Workers -> Slugs \cup {Nil}]
    /\ stage \in [Workers -> Stages]
    /\ quit \subseteq stopping \cup closing \cup {w \in Workers : stage[w] = "done"}
    /\ publishing \subseteq live /\ full \in publishing \cup {Nil}
    /\ translator \in {"wait", "wanted", "publish"}
    /\ latest \in 0..MaxEvents
    /\ Phases

Queues ==
    /\ queue \in [Workers -> Seq(1..MaxEvents)]
    /\ \A w \in Workers : Len(queue[w]) <= QueueCapacity
    /\ event \in [Workers -> 0..MaxEvents]
    /\ MadeForASlug

LEMMA SinksParts == SinksInv <=> SinksShape /\ Queues /\ TallyType /\ Enough
  BY DEF SinksInv, SinksTypeOK, SinksShape, Queues, TallyType, Used

LEMMA SaveShapes ==
    ASSUME SinksInv, NEW S \in SUBSET Slugs, Save(S)
    PROVE SinksShape' /\ Queues' /\ Used' = Used
<1>0. SinksShape /\ Queues
  BY SinksParts
<1>1. Used' = Used
  BY <1>0 DEF Used, Save, SinksShape, running, swaps
<1>2. Phases'
  BY <1>0 DEF Save, SinksShape, Phases, manager, swaps, dispatcher, running,
       publisher, tallies
<1>3. SinksShape'
  <2>1. saves' \in 0..MaxSaves /\ owed' \in 0..saves'
    BY <1>0, SinkSets DEF Save, SinksShape
  <2>2. next' \subseteq Slugs /\ settings' \subseteq Slugs /\ unapplied' \in BOOLEAN
        /\ swapping' \in {"no", "read", "swapped"}
    BY <1>0 DEF Save, SinksShape
  <2> QED BY <2>1, <2>2, <1>0, <1>1, <1>2, SinkSets DEF Save, SinksShape,
       Phases, Stages, manager, swaps, dispatcher, running, publisher, tallies
<1>4. Queues'
  BY <1>0, <1>1, SinkSets DEF Save, SinksShape, Queues, MadeForASlug, Used,
       manager, swaps, dispatcher, running, publisher, tallies
<1> QED BY <1>1, <1>3, <1>4

LEMMA ReloadShapes ==
    ASSUME SinksInv, Reload
    PROVE SinksShape' /\ Queues' /\ Used' = Used
<1>0. SinksShape /\ Queues
  BY SinksParts
<1>1. Used' = Used
  BY <1>0 DEF Used, Reload, SinksShape, running, swaps
<1>2. Phases'
  BY <1>0 DEF Reload, SinksShape, Phases, manager, swaps, dispatcher, running,
       publisher, tallies
<1>3. SinksShape'
  <2>1. saves' \in 0..MaxSaves /\ owed' \in 0..saves'
    BY <1>0, SinkSets DEF Reload, SinksShape
  <2>2. next' \subseteq Slugs /\ settings' \subseteq Slugs /\ unapplied' \in BOOLEAN
        /\ swapping' \in {"no", "read", "swapped"}
    BY <1>0 DEF Reload, SinksShape
  <2> QED BY <2>1, <2>2, <1>0, <1>1, <1>2, SinkSets DEF Reload, SinksShape,
       Phases, Stages, manager, swaps, dispatcher, running, publisher, tallies
<1>4. Queues'
  BY <1>0, <1>1, SinkSets DEF Reload, SinksShape, Queues, MadeForASlug, Used,
       manager, swaps, dispatcher, running, publisher, tallies
<1> QED BY <1>1, <1>3, <1>4

LEMMA SwapClosedShapes ==
    ASSUME SinksInv, SwapClosed
    PROVE SinksShape' /\ Queues' /\ Used' = Used
<1>0. SinksShape /\ Queues
  BY SinksParts
<1>1. Used' = Used
  BY <1>0 DEF Used, SwapClosed, SinksShape, running, swaps
<1>2. Phases'
  BY <1>0 DEF SwapClosed, SinksShape, Phases, manager, swaps, dispatcher,
       running, publisher, tallies
<1>3. SinksShape'
  BY <1>0, <1>1, <1>2, SinkSets DEF SwapClosed, SinksShape, Phases, Stages,
       manager, swaps, dispatcher, running, publisher, tallies
<1>4. Queues'
  BY <1>0, <1>1, SinkSets DEF SwapClosed, SinksShape, Queues, MadeForASlug,
       Used, manager, swaps, dispatcher, running, publisher, tallies
<1> QED BY <1>1, <1>3, <1>4

LEMMA SwapDoneShapes ==
    ASSUME SinksInv, SwapDone
    PROVE SinksShape' /\ Queues' /\ Used' = Used
<1>0. SinksShape /\ Queues
  BY SinksParts
<1>1. Used' = Used
  BY <1>0 DEF Used, SwapDone, SinksShape, running, swaps
<1>2. Phases'
  BY <1>0 DEF SwapDone, SinksShape, Phases, manager, swaps, dispatcher,
       running, publisher, tallies
<1>3. SinksShape'
  BY <1>0, <1>1, <1>2, SinkSets DEF SwapDone, SinksShape, Phases, Stages,
       manager, swaps, dispatcher, running, publisher, tallies
<1>4. Queues'
  BY <1>0, <1>1, SinkSets DEF SwapDone, SinksShape, Queues, MadeForASlug, Used,
       manager, swaps, dispatcher, running, publisher, tallies
<1> QED BY <1>1, <1>3, <1>4

LEMMA StartWorkerShapes ==
    ASSUME SinksInv, NEW w \in Workers, StartWorker(w)
    PROVE SinksShape' /\ Queues' /\ Used' = Used
<1>0. SinksShape /\ Queues
  BY SinksParts
<1>1. Used' = Used
  BY <1>0 DEF Used, StartWorker, SinksShape, running, swaps
<1>2. Phases'
  BY <1>0 DEF StartWorker, SinksShape, Phases, manager, swaps, dispatcher,
       running, publisher, tallies
<1>3. SinksShape'
  BY <1>0, <1>1, <1>2, SinkSets DEF StartWorker, SinksShape, Phases, Stages,
       manager, swaps, dispatcher, running, publisher, tallies
<1>4. Queues'
  BY <1>0, <1>1, SinkSets DEF StartWorker, SinksShape, Queues, MadeForASlug,
       Used, manager, swaps, dispatcher, running, publisher, tallies
<1> QED BY <1>1, <1>3, <1>4

LEMMA StopWorkerShapes ==
    ASSUME SinksInv, NEW w \in Workers, StopWorker(w)
    PROVE SinksShape' /\ Queues' /\ Used' = Used
<1>0. SinksShape /\ Queues
  BY SinksParts
<1>1. Used' = Used
  BY <1>0 DEF Used, StopWorker, SinksShape, running, swaps
<1>2. Phases'
  BY <1>0 DEF StopWorker, SinksShape, Phases, manager, swaps, dispatcher,
       running, publisher, tallies
<1>3. SinksShape'
  BY <1>0, <1>1, <1>2, SinkSets DEF StopWorker, SinksShape, Phases, Stages,
       manager, swaps, dispatcher, running, publisher, tallies
<1>4. Queues'
  BY <1>0, <1>1, SinkSets DEF StopWorker, SinksShape, Queues, MadeForASlug,
       Used, manager, swaps, dispatcher, running, publisher, tallies
<1> QED BY <1>1, <1>3, <1>4

LEMMA WorkerStoppedShapes ==
    ASSUME SinksInv, NEW w \in Workers, WorkerStopped(w)
    PROVE SinksShape' /\ Queues' /\ Used' = Used
<1>0. SinksShape /\ Queues
  BY SinksParts
<1>1. Used' = Used
  BY <1>0 DEF Used, WorkerStopped, SinksShape, running, swaps
<1>2. Phases'
  BY <1>0 DEF WorkerStopped, SinksShape, Phases, manager, swaps, dispatcher,
       running, publisher, tallies
<1>3. SinksShape'
  BY <1>0, <1>1, <1>2, SinkSets DEF WorkerStopped, SinksShape, Phases, Stages,
       manager, swaps, dispatcher, running, publisher, tallies
<1>4. Queues'
  BY <1>0, <1>1, SinkSets DEF WorkerStopped, SinksShape, Queues, MadeForASlug,
       Used, manager, swaps, dispatcher, running, publisher, tallies
<1> QED BY <1>1, <1>3, <1>4

LEMMA CloseShapes ==
    ASSUME SinksInv, Close
    PROVE SinksShape' /\ Queues' /\ Used' = Used
<1>0. SinksShape /\ Queues
  BY SinksParts
<1>1. Used' = Used
  BY <1>0 DEF Used, Close, SinksShape, running, swaps
<1>2. Phases'
  BY <1>0 DEF Close, MuFree, SinksShape, Phases, manager, swaps, dispatcher,
       running, publisher, tallies
<1>3. SinksShape'
  BY <1>0, <1>1, <1>2, SinkSets DEF Close, MuFree, SinksShape, Phases, Stages,
       manager, swaps, dispatcher, running, publisher, tallies
<1>4. Queues'
  BY <1>0, <1>1, SinkSets DEF Close, SinksShape, Queues, MadeForASlug, Used,
       manager, swaps, dispatcher, running, publisher, tallies
<1> QED BY <1>1, <1>3, <1>4

LEMMA CloseStopsShapes ==
    ASSUME SinksInv, NEW w \in Workers, CloseStops(w)
    PROVE SinksShape' /\ Queues' /\ Used' = Used
<1>0. SinksShape /\ Queues
  BY SinksParts
<1>1. Used' = Used
  BY <1>0 DEF Used, CloseStops, SinksShape, running, swaps
<1>2. Phases'
  BY <1>0 DEF CloseStops, SinksShape, Phases, manager, swaps, dispatcher,
       running, publisher, tallies
<1>3. SinksShape'
  BY <1>0, <1>1, <1>2, SinkSets DEF CloseStops, SinksShape, Phases, Stages,
       manager, swaps, dispatcher, running, publisher, tallies
<1>4. Queues'
  BY <1>0, <1>1, SinkSets DEF CloseStops, SinksShape, Queues, MadeForASlug,
       Used, manager, swaps, dispatcher, running, publisher, tallies
<1> QED BY <1>1, <1>3, <1>4

LEMMA CloseStoppedShapes ==
    ASSUME SinksInv, NEW w \in Workers, CloseStopped(w)
    PROVE SinksShape' /\ Queues' /\ Used' = Used
<1>0. SinksShape /\ Queues
  BY SinksParts
<1>1. Used' = Used
  BY <1>0 DEF Used, CloseStopped, SinksShape, running, swaps
<1>2. Phases'
  BY <1>0 DEF CloseStopped, SinksShape, Phases, manager, swaps, dispatcher,
       running, publisher, tallies
<1>3. SinksShape'
  BY <1>0, <1>1, <1>2, SinkSets DEF CloseStopped, SinksShape, Phases, Stages,
       manager, swaps, dispatcher, running, publisher, tallies
<1>4. Queues'
  BY <1>0, <1>1, SinkSets DEF CloseStopped, SinksShape, Queues, MadeForASlug,
       Used, manager, swaps, dispatcher, running, publisher, tallies
<1> QED BY <1>1, <1>3, <1>4

LEMMA TranslateShapes ==
    ASSUME SinksInv, NEW e \in 1..MaxEvents, Translate(e)
    PROVE SinksShape' /\ Queues' /\ Used' = Used
<1>0. SinksShape /\ Queues
  BY SinksParts
<1>1. Used' = Used
  BY <1>0 DEF Used, Translate, SinksShape, running, swaps
<1>2. Phases'
  BY <1>0 DEF Translate, SinksShape, Phases, manager, swaps, dispatcher,
       running, publisher, tallies
<1>3. SinksShape'
  BY <1>0, <1>1, <1>2, SinkSets DEF Translate, SinksShape, Phases, Stages,
       manager, swaps, dispatcher, running, publisher, tallies
<1>4. Queues'
  BY <1>0, <1>1, SinkSets DEF Translate, SinksShape, Queues, MadeForASlug,
       Used, manager, swaps, dispatcher, running, publisher, tallies
<1> QED BY <1>1, <1>3, <1>4

LEMMA PublishBeginsShapes ==
    ASSUME SinksInv, PublishBegins
    PROVE SinksShape' /\ Queues' /\ Used' = Used
<1>0. SinksShape /\ Queues
  BY SinksParts
<1>1. Used' = Used
  BY <1>0 DEF Used, PublishBegins, SinksShape, running, swaps
<1>2. Phases'
  BY <1>0 DEF PublishBegins, SinksShape, Phases, manager, swaps, dispatcher,
       running, publisher, tallies
<1>3. SinksShape'
  BY <1>0, <1>1, <1>2, SinkSets DEF PublishBegins, SinksShape, Phases, Stages,
       manager, swaps, dispatcher, running, publisher, tallies
<1>4. Queues'
  BY <1>0, <1>1, SinkSets DEF PublishBegins, SinksShape, Queues, MadeForASlug,
       Used, manager, swaps, dispatcher, running, publisher, tallies
<1> QED BY <1>1, <1>3, <1>4

LEMMA EnqueueShapes ==
    ASSUME SinksInv, NEW w \in Workers, Enqueue(w)
    PROVE SinksShape' /\ Queues' /\ Used' = Used
<1>0. SinksShape /\ Queues
  BY SinksParts
<1>1. Used' = Used
  BY <1>0 DEF Used, Enqueue, SinksShape, running, swaps
<1>2. Phases'
  BY <1>0 DEF Enqueue, SinksShape, Phases, manager, swaps, dispatcher, running,
       publisher, tallies
<1>3. SinksShape'
  BY <1>0, <1>1, <1>2, SinkSets DEF Enqueue, SinksShape, Phases, Stages,
       manager, swaps, dispatcher, running, publisher, tallies
<1>4. Queues'
  <2>1. queue[w] \in Seq(1..MaxEvents) /\ w \in Used /\ latest \in 1..MaxEvents
    BY <1>0 DEF Enqueue, SinksShape, Queues, Phases
  <2>2. Append(queue[w], latest) \in Seq(1..MaxEvents) /\ Len(Append(queue[w], latest)) <= QueueCapacity
    BY <2>1, <1>0, SinkSets DEF Enqueue, Queues
  <2> QED BY <2>1, <2>2, <1>0, <1>1, SinkSets DEF Enqueue, SinksShape, Queues,
       MadeForASlug, Used, manager, swaps, dispatcher, running, publisher,
       tallies
<1> QED BY <1>1, <1>3, <1>4

LEMMA EnqueueFullShapes ==
    ASSUME SinksInv, NEW w \in Workers, EnqueueFull(w)
    PROVE SinksShape' /\ Queues' /\ Used' = Used
<1>0. SinksShape /\ Queues
  BY SinksParts
<1>1. Used' = Used
  BY <1>0 DEF Used, EnqueueFull, SinksShape, running, swaps
<1>2. Phases'
  BY <1>0 DEF EnqueueFull, SinksShape, Phases, manager, swaps, dispatcher,
       running, publisher, tallies
<1>3. SinksShape'
  BY <1>0, <1>1, <1>2, SinkSets DEF EnqueueFull, SinksShape, Phases, Stages,
       manager, swaps, dispatcher, running, publisher, tallies
<1>4. Queues'
  BY <1>0, <1>1, SinkSets DEF EnqueueFull, SinksShape, Queues, MadeForASlug,
       Used, manager, swaps, dispatcher, running, publisher, tallies
<1> QED BY <1>1, <1>3, <1>4

LEMMA DropOldestShapes ==
    ASSUME SinksInv, NEW w \in Workers, DropOldest(w)
    PROVE SinksShape' /\ Queues' /\ Used' = Used
<1>0. SinksShape /\ Queues
  BY SinksParts
<1>1. Used' = Used
  BY <1>0 DEF Used, DropOldest, SinksShape, running, swaps
<1>2. Phases'
  BY <1>0 DEF DropOldest, SinksShape, Phases, manager, swaps, dispatcher,
       running, publisher, tallies
<1>3. SinksShape'
  BY <1>0, <1>1, <1>2, SinkSets DEF DropOldest, SinksShape, Phases, Stages,
       manager, swaps, dispatcher, running, publisher, tallies
<1>4. Queues'
  BY <1>0, <1>1, SinkSets DEF DropOldest, SinksShape, Queues, MadeForASlug,
       Used, manager, swaps, dispatcher, running, publisher, tallies
<1> QED BY <1>1, <1>3, <1>4

LEMMA PublishReturnsShapes ==
    ASSUME SinksInv, PublishReturns
    PROVE SinksShape' /\ Queues' /\ Used' = Used
<1>0. SinksShape /\ Queues
  BY SinksParts
<1>1. Used' = Used
  BY <1>0 DEF Used, PublishReturns, SinksShape, running, swaps
<1>2. Phases'
  BY <1>0 DEF PublishReturns, SinksShape, Phases, manager, swaps, dispatcher,
       running, publisher, tallies
<1>3. SinksShape'
  BY <1>0, <1>1, <1>2, SinkSets DEF PublishReturns, SinksShape, Phases, Stages,
       manager, swaps, dispatcher, running, publisher, tallies
<1>4. Queues'
  BY <1>0, <1>1, SinkSets DEF PublishReturns, SinksShape, Queues, MadeForASlug,
       Used, manager, swaps, dispatcher, running, publisher, tallies
<1> QED BY <1>1, <1>3, <1>4

LEMMA LoopTopShapes ==
    ASSUME SinksInv, NEW w \in Workers, LoopTop(w)
    PROVE SinksShape' /\ Queues' /\ Used' = Used
<1>0. SinksShape /\ Queues
  BY SinksParts
<1>1. Used' = Used
  BY <1>0 DEF Used, LoopTop, Exit, SinksShape, running, swaps
<1>2. Phases'
  BY <1>0 DEF LoopTop, Exit, SinksShape, Phases, manager, swaps, dispatcher,
       running, publisher, tallies
<1>3. SinksShape'
  BY <1>0, <1>1, <1>2, SinkSets DEF LoopTop, Exit, SinksShape, Phases, Stages,
       manager, swaps, dispatcher, running, publisher, tallies
<1>4. Queues'
  <2>1. queue' = queue \/ queue' = [queue EXCEPT ![w] = <<>>]
    BY DEF LoopTop, Exit
  <2>e. <<>> \in Seq(1..MaxEvents) /\ Len(<<>>) = 0
    OBVIOUS
  <2>2. event' = event /\ slug' = slug
    BY DEF LoopTop, Exit, running, dispatcher
  <2>3. \A x \in Workers : stage'[x] = "unused" <=> stage[x] = "unused"
    BY <1>1 DEF Used
  <2>4. queue' \in [Workers -> Seq(1..MaxEvents)] /\ \A x \in Workers : queue'[x] = queue[x] \/ queue'[x] = <<>>
    BY <2>1, <2>e, <1>0 DEF Queues
  <2> QED BY <2>2, <2>3, <2>4, <1>0, SinkSets DEF Queues, MadeForASlug
<1> QED BY <1>1, <1>3, <1>4

LEMMA SelectQuitShapes ==
    ASSUME SinksInv, NEW w \in Workers, SelectQuit(w)
    PROVE SinksShape' /\ Queues' /\ Used' = Used
<1>0. SinksShape /\ Queues
  BY SinksParts
<1>1. Used' = Used
  BY <1>0 DEF Used, SelectQuit, Exit, SinksShape, running, swaps
<1>2. Phases'
  BY <1>0 DEF SelectQuit, Exit, SinksShape, Phases, manager, swaps, dispatcher,
       running, publisher, tallies
<1>3. SinksShape'
  BY <1>0, <1>1, <1>2, SinkSets DEF SelectQuit, Exit, SinksShape, Phases,
       Stages, manager, swaps, dispatcher, running, publisher, tallies
<1>4. Queues'
  BY <1>0, <1>1, SinkSets DEF SelectQuit, Exit, SinksShape, Queues,
       MadeForASlug, Used, manager, swaps, dispatcher, running, publisher,
       tallies
<1> QED BY <1>1, <1>3, <1>4

LEMMA SelectEventShapes ==
    ASSUME SinksInv, NEW w \in Workers, SelectEvent(w)
    PROVE SinksShape' /\ Queues' /\ Used' = Used
<1>0. SinksShape /\ Queues
  BY SinksParts
<1>1. Used' = Used
  BY <1>0 DEF Used, SelectEvent, SinksShape, running, swaps
<1>2. Phases'
  BY <1>0 DEF SelectEvent, SinksShape, Phases, manager, swaps, dispatcher,
       running, publisher, tallies
<1>3. SinksShape'
  BY <1>0, <1>1, <1>2, SinkSets DEF SelectEvent, SinksShape, Phases, Stages,
       manager, swaps, dispatcher, running, publisher, tallies
<1>4. Queues'
  BY <1>0, <1>1, SinkSets DEF SelectEvent, SinksShape, Queues, MadeForASlug,
       Used, manager, swaps, dispatcher, running, publisher, tallies
<1> QED BY <1>1, <1>3, <1>4

LEMMA DeliverReturnsShapes ==
    ASSUME SinksInv, NEW w \in Workers, DeliverReturns(w)
    PROVE SinksShape' /\ Queues' /\ Used' = Used
<1>0. SinksShape /\ Queues
  BY SinksParts
<1>1. Used' = Used
  BY <1>0 DEF Used, DeliverReturns, SinksShape, running, swaps
<1>2. Phases'
  BY <1>0 DEF DeliverReturns, SinksShape, Phases, manager, swaps, dispatcher,
       running, publisher, tallies
<1>3. SinksShape'
  BY <1>0, <1>1, <1>2, SinkSets DEF DeliverReturns, SinksShape, Phases, Stages,
       manager, swaps, dispatcher, running, publisher, tallies
<1>4. Queues'
  BY <1>0, <1>1, SinkSets DEF DeliverReturns, SinksShape, Queues, MadeForASlug,
       Used, manager, swaps, dispatcher, running, publisher, tallies
<1> QED BY <1>1, <1>3, <1>4
LEMMA SwapShapes ==
    ASSUME SinksInv, Swap PROVE SinksShape' /\ Queues' /\ Enough'
<1>0. SinksShape /\ Queues
  BY SinksParts
<1>1. PICK N : MadeNew(N)
  BY SwapMakes DEF Swap, SinksInv
<1>2. /\ MadeForASlug' /\ Enough' /\ stage' \in [Workers -> Stages]
      /\ N = {w \in Workers : w \in N /\ stage'[w] = "made"}
      /\ \A w \in Workers : stage[w] # "unused" => stage'[w] = stage[w]
  BY <1>1, MadeWorkers DEF Swap
<1>3. /\ live' = N /\ starting' = N /\ N \subseteq Workers /\ stopping' = live /\ closing' = closing
      /\ slug' \in [Workers -> Slugs \cup {Nil}] /\ closing = {} /\ stopping = {} /\ starting = {}
      /\ publishing = {} /\ closed = FALSE
  BY <1>0, <1>1 DEF MadeNew, Unused, Swap, SinksShape, Phases, MuFree
<1>4. Used \cup N \subseteq Used'
  BY <1>2 DEF Used
<1>5. quit' \subseteq stopping' \cup closing' \cup {w \in Workers : stage'[w] = "done"}
  <2>1. quit' = quit /\ quit \subseteq {w \in Workers : stage[w] = "done"}
    BY <1>0, <1>3 DEF Swap, SinksShape
  <2>2. {w \in Workers : stage[w] = "done"} \subseteq {w \in Workers : stage'[w] = "done"}
    BY <1>2
  <2> QED BY <2>1, <2>2
<1>6. Phases'
  BY <1>0, <1>3 DEF Swap, SinksShape, Phases, publisher
<1>7. starting' \subseteq {w \in Workers : stage'[w] = "made"} /\ stopping' \cup closing' \cup live' \subseteq Used'
  BY <1>0, <1>2, <1>3, <1>4 DEF SinksShape
<1>8. SinksShape'
  BY <1>0, <1>2, <1>3, <1>5, <1>6, <1>7 DEF Swap, SinksShape, publisher
<1>9. Queues'
  BY <1>0, <1>2 DEF Swap, Queues
<1> QED BY <1>2, <1>8, <1>9

-----------------------------------------------------------------------------
(* What is in hand, and how a step changes it.                             *)
LEMMA InHandIsFinite ==
    ASSUME NEW s
    PROVE  /\ IsFiniteSet(InHand(s)) /\ Cardinality(InHand(s)) \in Nat
           /\ IsFiniteSet(InHand(s)') /\ Cardinality(InHand(s)') \in Nat
<1>1. IsFiniteSet(0..QueueCapacity)
  BY SinkSets, FS_Interval
<1>2. IsFiniteSet(Workers \X (0..QueueCapacity))
  BY <1>1, SinkSets, FS_Product
<1>3. /\ InHand(s) \subseteq Workers \X (0..QueueCapacity)
      /\ InHand(s)' \subseteq Workers \X (0..QueueCapacity)
  BY DEF InHand
<1> QED
  BY <1>2, <1>3, FS_Subset, FS_CardinalityType

\* Nothing of what counts is changed.
LEMMA HandStays ==
    ASSUME slug' = slug, \A x \in Workers : (stage'[x] = "deliver" <=> stage[x] = "deliver"),
           queue' = queue
    PROVE  \A s : InHand(s)' = InHand(s)
  BY DEF InHand

\* All but w keep what they have.
Others(w) ==
    \A x \in Workers : x # w =>
        /\ queue'[x] = queue[x] /\ slug'[x] = slug[x]
        /\ stage'[x] = "deliver" <=> stage[x] = "deliver"

Has(p) == IF p[2] = 0 THEN stage[p[1]] = "deliver" ELSE p[2] <= Len(queue[p[1]])

\* w puts down S and takes T.
Trades(w, S, T) ==
    \A n \in 0..QueueCapacity : Has(<<w, n>>)' <=> (Has(<<w, n>>) /\ <<w, n>> \notin S) \/ <<w, n>> \in T

\* What the sink h has in hand loses S and gains T; the others' stays.
Hands(h, S, T) ==
    /\ InHand(h)' = (InHand(h) \ S) \cup T
    /\ \A s : s # h => InHand(s)' = InHand(s)

LEMMA HandOf ==
    ASSUME NEW w \in Workers, NEW h, slug[w] = h, slug'[w] = h, Others(w),
           NEW S, NEW T, S \subseteq {w} \X (0..QueueCapacity), T \subseteq {w} \X (0..QueueCapacity),
           Trades(w, S, T)
    PROVE  Hands(h, S, T)
<1>1. \A s, p : p \in InHand(s) <=> p \in Workers \X (0..QueueCapacity) /\ slug[p[1]] = s /\ Has(p)
  BY DEF InHand, Has
<1>2. \A s, p : p \in InHand(s)' <=> p \in Workers \X (0..QueueCapacity) /\ slug'[p[1]] = s /\ Has(p)'
  BY DEF InHand, Has
<1>3. \A p \in Workers \X (0..QueueCapacity) : p[1] \in Workers /\ p[2] \in 0..QueueCapacity /\ p = <<p[1], p[2]>>
  OBVIOUS
<1>4. ASSUME NEW p \in Workers \X (0..QueueCapacity), p[1] # w
      PROVE  slug'[p[1]] = slug[p[1]] /\ (Has(p)' <=> Has(p)) /\ p \notin S /\ p \notin T
  BY <1>3, <1>4 DEF Others, Has
<1>5. ASSUME NEW p \in Workers \X (0..QueueCapacity), p[1] = w
      PROVE  slug'[p[1]] = h /\ slug[p[1]] = h /\ (Has(p)' <=> (Has(p) /\ p \notin S) \/ p \in T)
  BY <1>3, <1>5 DEF Trades
<1>6. T \subseteq Workers \X (0..QueueCapacity) /\ \A p \in S \cup T : p[1] = w
  OBVIOUS
<1>7. ASSUME NEW p PROVE p \in InHand(h)' <=> (p \in InHand(h) /\ p \notin S) \/ p \in T
  <2>1. CASE p \notin Workers \X (0..QueueCapacity)
    BY <1>1, <1>2, <1>6, <2>1
  <2>2. CASE p \in Workers \X (0..QueueCapacity) /\ p[1] = w
    BY <1>1, <1>2, <1>5, <2>2
  <2>3. CASE p \in Workers \X (0..QueueCapacity) /\ p[1] # w
    BY <1>1, <1>2, <1>4, <2>3
  <2> QED BY <2>1, <2>2, <2>3
<1>8. ASSUME NEW s, s # h, NEW p PROVE p \in InHand(s)' <=> p \in InHand(s)
  <2>1. CASE p \notin Workers \X (0..QueueCapacity)
    BY <1>1, <1>2, <2>1
  <2>2. CASE p \in Workers \X (0..QueueCapacity) /\ p[1] = w
    BY <1>1, <1>2, <1>5, <1>8, <2>2
  <2>3. CASE p \in Workers \X (0..QueueCapacity) /\ p[1] # w
    BY <1>1, <1>2, <1>4, <2>3
  <2> QED BY <2>1, <2>2, <2>3
<1> QED
  <2>1. InHand(h)' = (InHand(h) \ S) \cup T
    BY <1>7
  <2>2. ASSUME NEW s, s # h PROVE InHand(s)' = InHand(s)
    <3>1. \A p : p \in InHand(s)' <=> p \in InHand(s)
      BY <1>8, <2>2
    <3> QED BY <3>1, Zenon
  <2> QED BY <2>1, <2>2 DEF Hands

Sum(s) == counts[s].delivered + counts[s].failed + counts[s].dropped + counts[s].discarded

(* One sink's tally gains as much as it is given, or as much as it puts    *)
(* down.                                                                   *)
LEMMA SumType == ASSUME TallyType, NEW s \in Slugs PROVE Sum(s) \in Nat /\ accepted[s] \in Nat
<1>1. counts[s] \in Tallies
  BY DEF TallyType
<1> QED BY <1>1 DEF TallyType, Tallies, Sum

LEMMA OneTally ==
    ASSUME TallyAddsUp, NEW s \in Slugs, NEW S, NEW T, Hands(s, S, T),
           accepted'[s] + Sum(s) + Cardinality(InHand(s)) = accepted[s] + Sum(s)' + Cardinality(InHand(s)'),
           TallyType, TallyType', \A r \in Slugs : r # s =>
                accepted'[r] = accepted[r] /\ counts'[r] = counts[r]
    PROVE  TallyAddsUp'
<1>1. \A r \in Slugs : accepted[r] = Sum(r) + Cardinality(InHand(r))
  BY DEF TallyAddsUp, Sum
<1>2. accepted'[s] = Sum(s)' + Cardinality(InHand(s)')
  <2>1. Sum(s) \in Nat /\ accepted[s] \in Nat
    BY SumType
  <2>2. Sum(s)' \in Nat /\ accepted'[s] \in Nat
    <3>1. counts'[s] \in Tallies /\ accepted'[s] \in Nat
      BY DEF TallyType
    <3> QED BY <3>1 DEF Tallies, Sum
  <2>3. Cardinality(InHand(s)) \in Nat
    BY InHandIsFinite
  <2>4. Cardinality(InHand(s)') \in Nat
    BY InHandIsFinite
  <2> QED BY <1>1, <2>1, <2>2, <2>3, <2>4
<1>3. \A r \in Slugs : r # s => accepted'[r] = Sum(r)' + Cardinality(InHand(r)')
  BY <1>1 DEF Sum, Hands
<1>4. \A r \in Slugs : accepted'[r] = Sum(r)' + Cardinality(InHand(r)')
  BY <1>2, <1>3
<1> QED
  BY <1>4 DEF TallyAddsUp, Sum

LEMMA SameTally ==
    ASSUME TallyAddsUp, tallies' = tallies, \A s \in Slugs : InHand(s)' = InHand(s)
    PROVE  TallyAddsUp'
  BY DEF TallyAddsUp, tallies

LEMMA UsedHasSlug == ASSUME SinksInv, NEW w \in Used PROVE slug[w] \in Slugs
  BY DEF SinksInv, MadeForASlug, Used

LEMMA QueueLength ==
    ASSUME SinksInv, NEW w \in Workers
    PROVE  /\ queue \in [Workers -> Seq(1..MaxEvents)] /\ queue[w] \in Seq(1..MaxEvents)
           /\ Len(queue[w]) \in 0..QueueCapacity
  BY SinkSets DEF SinksInv, SinksTypeOK

LEMMA EnqueueTally ==
    ASSUME SinksInv, TallyAddsUp, NEW w \in Workers, Enqueue(w) PROVE TallyType' /\ TallyAddsUp'
<1>0. PICK n \in 0..QueueCapacity : n = Len(queue[w])
  BY QueueLength
<1>1. PICK s \in Slugs : s = slug[w] /\ w \in Used
  BY UsedHasSlug DEF Enqueue, SinksInv, SinksTypeOK, Used
<1>2. TallyType /\ accepted' = [accepted EXCEPT ![s] = @ + 1] /\ counts' = counts
  BY <1>1 DEF SinksInv, SinksTypeOK, TallyType, Enqueue
<1>3. TallyType'
  BY <1>1, <1>2 DEF TallyType
<1>4. n \in 0..QueueCapacity /\ n < QueueCapacity /\ n + 1 \in 0..QueueCapacity
  BY <1>0, QueueLength, SinkSets DEF Enqueue
<1>5. queue' = [queue EXCEPT ![w] = Append(@, latest)] /\ Len(queue'[w]) = n + 1
  BY <1>0, QueueLength DEF Enqueue
<1>6. stage' = stage /\ slug' = slug
  BY DEF Enqueue, running, dispatcher
<1>7. Others(w)
  BY <1>0, <1>5, <1>6, QueueLength DEF Others
<1>8. Trades(w, {}, {<<w, n + 1>>})
  BY <1>0, <1>4, <1>5, <1>6 DEF Trades, Has
<1>9. Hands(s, {}, {<<w, n + 1>>})
  <2>1. {<<w, n + 1>>} \subseteq {w} \X (0..QueueCapacity) /\ {} \subseteq {w} \X (0..QueueCapacity)
    BY <1>4
  <2>2. slug[w] = s /\ slug'[w] = s
    BY <1>1, <1>6
  <2> QED BY <1>6, <1>7, <1>8, <2>1, <1>1, <2>2, HandOf
<1>10. Cardinality(InHand(s)') = Cardinality(InHand(s)) + 1
  <2>1. <<w, n + 1>> \notin InHand(s)
    BY <1>0, <1>1, <1>4 DEF InHand
  <2>2. InHand(s)' = InHand(s) \cup {<<w, n + 1>>}
    BY <1>9 DEF Hands
  <2> QED BY <2>1, <2>2, InHandIsFinite, FS_AddElement
<1>11. accepted'[s] = accepted[s] + 1 /\ Sum(s)' = Sum(s)
       /\ \A r \in Slugs : r # s => accepted'[r] = accepted[r] /\ counts'[r] = counts[r]
  BY <1>1, <1>2 DEF TallyType, Sum
<1>12. accepted'[s] + Sum(s) + Cardinality(InHand(s)) = accepted[s] + Sum(s)' + Cardinality(InHand(s)')
  BY <1>1, <1>2, <1>10, <1>11, SumType, InHandIsFinite
<1> QED
  BY <1>1, <1>2, <1>3, <1>9, <1>11, <1>12, OneTally

LEMMA DropTally ==
    ASSUME SinksInv, TallyAddsUp, NEW w \in Workers, DropOldest(w) PROVE TallyType' /\ TallyAddsUp'
<1>0. PICK n \in 0..QueueCapacity : n = Len(queue[w])
  BY QueueLength
<1>1. PICK s \in Slugs : s = slug[w] /\ w \in Used
  BY SinkSets, UsedHasSlug DEF DropOldest, SinksInv, SinksTypeOK, Used
<1>2. TallyType /\ accepted' = accepted /\ Count(w, "dropped")
  BY DEF SinksInv, SinksTypeOK, TallyType, DropOldest
<1>3. /\ counts' \in [Slugs -> Tallies] /\ Sum(s)' = Sum(s) + 1
      /\ \A r \in Slugs : r # s => counts'[r] = counts[r]
  <2>1. slug' = slug
    BY DEF DropOldest, dispatcher
  <2> QED BY <1>1, <1>2, CountType DEF Sum
<1>4. TallyType'
  BY <1>2, <1>3 DEF TallyType
<1>5. n \in 1..QueueCapacity /\ Len(queue'[w]) = n - 1 /\ queue' = [queue EXCEPT ![w] = Tail(@)]
  BY <1>0, QueueLength, SinkSets DEF DropOldest
<1>6. stage' = stage /\ slug' = slug
  BY DEF DropOldest, running, dispatcher
<1>7. Others(w)
  BY <1>0, <1>5, <1>6, QueueLength DEF Others
<1>8. Trades(w, {<<w, n>>}, {})
  BY <1>0, <1>5, <1>6 DEF Trades, Has
<1>9. Hands(s, {<<w, n>>}, {})
  <2>1. {<<w, n>>} \subseteq {w} \X (0..QueueCapacity) /\ {} \subseteq {w} \X (0..QueueCapacity)
    BY <1>5
  <2>2. slug[w] = s /\ slug'[w] = s
    BY <1>1, <1>6
  <2> QED BY <1>6, <1>7, <1>8, <2>1, <1>1, <2>2, HandOf
<1>10. Cardinality(InHand(s)') = Cardinality(InHand(s)) - 1
  <2>1. <<w, n>> \in InHand(s)
    BY <1>0, <1>1, <1>5 DEF InHand
  <2>2. InHand(s)' = InHand(s) \ {<<w, n>>}
    BY <1>9 DEF Hands
  <2> QED BY <2>1, <2>2, InHandIsFinite, FS_RemoveElement
<1>11. accepted'[s] + Sum(s) + Cardinality(InHand(s)) = accepted[s] + Sum(s)' + Cardinality(InHand(s)')
  BY <1>1, <1>2, <1>3, <1>10, SumType, InHandIsFinite
<1> QED
  BY <1>1, <1>2, <1>3, <1>4, <1>9, <1>11, OneTally

LEMMA SelectTally ==
    ASSUME SinksInv, TallyAddsUp, NEW w \in Workers, SelectEvent(w) PROVE TallyType' /\ TallyAddsUp'
<1>0. PICK n \in 0..QueueCapacity : n = Len(queue[w])
  BY QueueLength
<1>1. PICK s \in Slugs : s = slug[w] /\ w \in Used
  BY UsedHasSlug DEF SelectEvent, Used
<1>2. TallyType /\ accepted' = accepted /\ counts' = counts
  BY DEF SinksInv, SinksTypeOK, TallyType, SelectEvent, tallies
<1>3. TallyType'
  BY <1>2 DEF TallyType
<1>4. n \in 1..QueueCapacity /\ Len(queue'[w]) = n - 1 /\ queue' = [queue EXCEPT ![w] = Tail(@)]
  BY <1>0, QueueLength, SinkSets DEF SelectEvent
<1>5. stage[w] = "select" /\ stage' = [stage EXCEPT ![w] = "deliver"] /\ slug' = slug /\ stage'[w] = "deliver"
  BY DEF SelectEvent, dispatcher, SinksInv, SinksTypeOK
<1>6. Others(w)
  BY <1>0, <1>4, <1>5, QueueLength DEF Others, SinksInv, SinksTypeOK
<1>7. Trades(w, {<<w, n>>}, {<<w, 0>>})
  BY <1>0, <1>4, <1>5, SinkSets DEF Trades, Has
<1>8. Hands(s, {<<w, n>>}, {<<w, 0>>})
  <2>1. {<<w, n>>} \subseteq {w} \X (0..QueueCapacity) /\ {<<w, 0>>} \subseteq {w} \X (0..QueueCapacity)
    BY <1>0, <1>4, SinkSets
  <2>2. slug[w] = s /\ slug'[w] = s
    BY <1>1, <1>5
  <2> QED BY <1>5, <1>6, <1>7, <2>1, <1>1, <2>2, HandOf
<1>9. Cardinality(InHand(s)') = Cardinality(InHand(s))
  <2>1. <<w, n>> \in InHand(s) /\ <<w, 0>> \notin InHand(s) \ {<<w, n>>}
    BY <1>0, <1>1, <1>4, <1>5 DEF InHand
  <2>2. IsFiniteSet(InHand(s) \ {<<w, n>>}) /\ Cardinality(InHand(s) \ {<<w, n>>}) = Cardinality(InHand(s)) - 1
    BY <2>1, InHandIsFinite, FS_RemoveElement
  <2>3. Cardinality(InHand(s)') = Cardinality(InHand(s) \ {<<w, n>>}) + 1
    BY <1>8, <2>1, <2>2, FS_AddElement DEF Hands
  <2> QED BY <2>2, <2>3, InHandIsFinite
<1>10. accepted'[s] + Sum(s) + Cardinality(InHand(s)) = accepted[s] + Sum(s)' + Cardinality(InHand(s)')
  BY <1>1, <1>2, <1>9, SumType, InHandIsFinite DEF Sum
<1> QED
  BY <1>1, <1>2, <1>3, <1>8, <1>10, OneTally

LEMMA DeliverTally ==
    ASSUME SinksInv, TallyAddsUp, NEW w \in Workers, DeliverReturns(w) PROVE TallyType' /\ TallyAddsUp'
<1>1. PICK s \in Slugs : s = slug[w] /\ w \in Used
  BY UsedHasSlug DEF DeliverReturns, Used
<1>2. TallyType /\ accepted' = accepted /\ slug' = slug /\ queue' = queue
  BY DEF SinksInv, SinksTypeOK, TallyType, DeliverReturns, dispatcher
<1>3. PICK f \in {"delivered", "failed"} : Count(w, f)
  BY DEF DeliverReturns
<1>4. /\ counts' \in [Slugs -> Tallies] /\ Sum(s)' = Sum(s) + 1
      /\ \A r \in Slugs : r # s => counts'[r] = counts[r]
  BY <1>1, <1>2, <1>3, CountType DEF Sum
<1>5. TallyType'
  BY <1>2, <1>4 DEF TallyType
<1>6. stage[w] = "deliver" /\ stage' = [stage EXCEPT ![w] = "top"] /\ stage'[w] = "top"
  BY DEF DeliverReturns, SinksInv, SinksTypeOK
<1>7. Others(w)
  BY <1>2, <1>6 DEF Others, SinksInv, SinksTypeOK
<1>8. Trades(w, {<<w, 0>>}, {})
  BY <1>2, <1>6, SinkSets DEF Trades, Has
<1>9. Hands(s, {<<w, 0>>}, {})
  <2>1. {<<w, 0>>} \subseteq {w} \X (0..QueueCapacity) /\ {} \subseteq {w} \X (0..QueueCapacity)
    BY SinkSets
  <2>2. slug[w] = s /\ slug'[w] = s
    BY <1>1, <1>2
  <2> QED BY <1>2, <1>7, <1>8, <2>1, <1>1, <2>2, HandOf
<1>10. Cardinality(InHand(s)') = Cardinality(InHand(s)) - 1
  <2>1. <<w, 0>> \in InHand(s)
    BY <1>1, <1>6, SinkSets DEF InHand
  <2>2. InHand(s)' = InHand(s) \ {<<w, 0>>}
    BY <1>9 DEF Hands
  <2> QED BY <2>1, <2>2, InHandIsFinite, FS_RemoveElement
<1>11. accepted'[s] + Sum(s) + Cardinality(InHand(s)) = accepted[s] + Sum(s)' + Cardinality(InHand(s)')
  BY <1>1, <1>2, <1>4, <1>10, SumType, InHandIsFinite
<1> QED
  BY <1>1, <1>2, <1>4, <1>5, <1>9, <1>11, OneTally

LEMMA ExitTally ==
    ASSUME SinksInv, TallyAddsUp, NEW w \in Workers, stage[w] \in {"top", "select"}, Exit(w)
    PROVE  TallyType' /\ TallyAddsUp'
<1>0. PICK n \in 0..QueueCapacity : n = Len(queue[w])
  BY QueueLength
<1> DEFINE S == {w} \X (1..n)
<1>1. PICK s \in Slugs : s = slug[w] /\ w \in Used
  BY UsedHasSlug DEF Used
<1>2. TallyType /\ accepted' = accepted /\ slug' = slug
  BY DEF SinksInv, SinksTypeOK, TallyType, Exit, dispatcher
<1>3. n \in 0..QueueCapacity /\ n \in Nat /\ Len(queue'[w]) = 0 /\ queue' = [queue EXCEPT ![w] = <<>>]
  BY <1>0, QueueLength, SinkSets DEF Exit
<1>4. /\ counts' \in [Slugs -> Tallies] /\ Sum(s)' = Sum(s) + n
      /\ \A r \in Slugs : r # s => counts'[r] = counts[r]
  <2>1. counts' = [counts EXCEPT ![s].discarded = @ + n]
    BY <1>0, <1>1 DEF Exit
  <2> QED BY <1>1, <1>2, <1>3, <2>1, DiscardType DEF Sum
<1>5. TallyType'
  BY <1>2, <1>4 DEF TallyType
<1>6. stage' = [stage EXCEPT ![w] = "done"] /\ stage'[w] = "done" /\ stage[w] # "deliver"
  BY DEF Exit, SinksInv, SinksTypeOK
<1>7. Others(w)
  BY <1>0, <1>2, <1>3, <1>6, QueueLength DEF Others, SinksInv, SinksTypeOK
<1>8. Trades(w, S, {})
  BY <1>0, <1>3, <1>6, SinkSets DEF Trades, Has
<1>9. Hands(s, S, {})
  <2>1. S \subseteq {w} \X (0..QueueCapacity) /\ {} \subseteq {w} \X (0..QueueCapacity)
    BY <1>0, <1>3, SinkSets
  <2>2. slug[w] = s /\ slug'[w] = s
    BY <1>1, <1>2
  <2> HIDE DEF S
  <2> QED BY <1>2, <1>7, <1>8, <2>1, <1>1, <2>2, HandOf
<1>10. Cardinality(InHand(s)') = Cardinality(InHand(s)) - n
  <2>1. S \subseteq InHand(s)
    BY <1>0, <1>1, <1>3, SinkSets DEF InHand
  <2>2. Cardinality({w}) = 1 /\ IsFiniteSet({w}) /\ Cardinality(1..n) = n /\ IsFiniteSet(1..n)
    <3>1. n \in Int /\ (IF 1 > n THEN 0 ELSE n - 1 + 1) = n
      BY <1>3
    <3>2. IsFiniteSet(1..n) /\ Cardinality(1..n) = IF 1 > n THEN 0 ELSE n - 1 + 1
      BY <3>1, FS_Interval
    <3> QED BY <3>1, <3>2, FS_Singleton
  <2>3. IsFiniteSet(S) /\ Cardinality(S) = n
    BY <1>3, <2>2, FS_Product
  <2>4. InHand(s)' = InHand(s) \ S /\ InHand(s) \cap S = S
    BY <1>9, <2>1 DEF Hands
  <2> HIDE DEF S
  <2>5. Cardinality(InHand(s) \ S) = Cardinality(InHand(s)) - Cardinality(InHand(s) \cap S)
    BY InHandIsFinite, FS_Difference
  <2> QED BY <2>3, <2>4, <2>5
<1>11. accepted'[s] + Sum(s) + Cardinality(InHand(s)) = accepted[s] + Sum(s)' + Cardinality(InHand(s)')
  BY <1>1, <1>2, <1>3, <1>4, <1>10, SumType, InHandIsFinite
<1> QED
  BY <1>1, <1>2, <1>4, <1>5, <1>9, <1>11, OneTally

LEMMA SwapTally ==
    ASSUME SinksInv, TallyAddsUp, Swap PROVE TallyType' /\ TallyAddsUp'
<1>1. PICK N : MadeNew(N)
  BY SwapMakes DEF Swap, SinksInv
<1>2. queue' = queue /\ tallies' = tallies /\ TallyType
  BY DEF Swap, SinksInv, SinksTypeOK, TallyType, tallies
<1>3. \A w \in Workers : \/ w \notin N /\ slug'[w] = slug[w] /\ stage'[w] = stage[w]
                         \/ w \in N /\ queue[w] = <<>> /\ stage[w] = "unused" /\ stage'[w] = "made"
  BY <1>1 DEF MadeNew, Unused, Used, SinksInv, MadeForASlug
<1>4. ASSUME NEW s, NEW p PROVE p \in InHand(s)' <=> p \in InHand(s)
  <2>1. CASE p \in Workers \X (0..QueueCapacity) /\ p[1] \in N
    <3>1. /\ p[1] \in Workers /\ p[2] \in 0..QueueCapacity /\ queue[p[1]] = <<>>
          /\ stage[p[1]] = "unused" /\ stage'[p[1]] = "made" /\ Len(queue[p[1]]) = 0
      BY <1>3, <2>1
    <3> QED BY <3>1, <1>2, SinkSets DEF InHand
  <2>2. CASE p \in Workers \X (0..QueueCapacity) /\ p[1] \notin N
    <3>1. p[1] \in Workers /\ slug'[p[1]] = slug[p[1]] /\ stage'[p[1]] = stage[p[1]]
      BY <1>3, <2>2
    <3> QED BY <3>1, <1>2 DEF InHand
  <2>3. CASE p \notin Workers \X (0..QueueCapacity)
    BY <2>3 DEF InHand
  <2> QED BY <2>1, <2>2, <2>3
<1>5. \A s \in Slugs : InHand(s)' = InHand(s)
  <2> TAKE s \in Slugs
  <2>1. \A p : p \in InHand(s)' <=> p \in InHand(s)
    BY <1>4
  <2> QED BY <2>1, Zenon
<1>6. TallyType'
  BY <1>2 DEF TallyType, tallies
<1> QED BY <1>2, <1>5, <1>6, SameTally

-----------------------------------------------------------------------------
(* A step, whatever it is.                                                 *)
LEMMA QuietTally ==
    ASSUME SinksInv, TallyAddsUp, tallies' = tallies, slug' = slug, queue' = queue,
           \A x \in Workers : (stage'[x] = "deliver" <=> stage[x] = "deliver")
    PROVE  TallyType' /\ TallyAddsUp'
<1>1. TallyType'
  BY DEF SinksInv, SinksTypeOK, TallyType, tallies
<1>2. \A s : InHand(s)' = InHand(s)
  BY HandStays
<1> QED BY <1>1, <1>2, SameTally

LEMMA SupplyStays ==
    ASSUME SinksInv, SinksShape', Used' = Used,
           \/ saves' = saves /\ ToCome' <= ToCome
           \/ saves' = saves + 1 /\ ToCome' <= ToCome + 1
    PROVE  Enough'
<1>1. owed' \in Nat
  BY DEF SinksShape
<1> QED BY <1>1, EnoughStays

SinksGood == SinksInv /\ TallyAddsUp

LEMMA GoodParts ==
    ASSUME SinksShape', Queues', TallyType', Enough', TallyAddsUp' PROVE SinksGood'
  BY DEF SinksGood, SinksInv, SinksTypeOK, SinksShape, Queues, TallyType, Used

LEMMA SaveGood == ASSUME SinksGood, NEW S \in SUBSET Slugs, Save(S) PROVE SinksGood'
<1>1. SinksInv /\ TallyAddsUp
  BY DEF SinksGood
<1>2. SinksShape' /\ Queues' /\ Used' = Used
  BY <1>1, SaveShapes
<1>3. Enough'
  <2>1. \/ saves' = saves /\ ToCome' <= ToCome
        \/ saves' = saves + 1 /\ ToCome' <= ToCome + 1
    BY <1>1 DEF Save, ToCome, SinksInv, SinksTypeOK, manager
  <2> QED BY <1>1, <1>2, <2>1, SupplyStays
<1>4. TallyType' /\ TallyAddsUp'
  BY <1>1, QuietTally DEF Save, SinksInv, SinksTypeOK, dispatcher, running
<1> QED BY <1>2, <1>3, <1>4, GoodParts

LEMMA ReloadGood == ASSUME SinksGood, Reload PROVE SinksGood'
<1>1. SinksInv /\ TallyAddsUp
  BY DEF SinksGood
<1>2. SinksShape' /\ Queues' /\ Used' = Used
  BY <1>1, ReloadShapes
<1>3. Enough'
  <2>1. \/ saves' = saves /\ ToCome' <= ToCome
        \/ saves' = saves + 1 /\ ToCome' <= ToCome + 1
    BY <1>1 DEF Reload, ToCome, SinksInv, SinksTypeOK, manager
  <2> QED BY <1>1, <1>2, <2>1, SupplyStays
<1>4. TallyType' /\ TallyAddsUp'
  BY <1>1, QuietTally DEF Reload, SinksInv, SinksTypeOK, dispatcher, running
<1> QED BY <1>2, <1>3, <1>4, GoodParts

LEMMA SwapGood == ASSUME SinksGood, Swap PROVE SinksGood'
  BY SwapShapes, SwapTally, GoodParts DEF SinksGood

LEMMA SwapClosedGood == ASSUME SinksGood, SwapClosed PROVE SinksGood'
<1>1. SinksInv /\ TallyAddsUp
  BY DEF SinksGood
<1>2. SinksShape' /\ Queues' /\ Used' = Used
  BY <1>1, SwapClosedShapes
<1>3. Enough'
  <2>1. \/ saves' = saves /\ ToCome' <= ToCome
        \/ saves' = saves + 1 /\ ToCome' <= ToCome + 1
    BY <1>1 DEF SwapClosed, ToCome, SinksInv, SinksTypeOK, manager
  <2> QED BY <1>1, <1>2, <2>1, SupplyStays
<1>4. TallyType' /\ TallyAddsUp'
  BY <1>1, QuietTally DEF SwapClosed, SinksInv, SinksTypeOK, dispatcher, running
<1> QED BY <1>2, <1>3, <1>4, GoodParts

LEMMA SwapDoneGood == ASSUME SinksGood, SwapDone PROVE SinksGood'
<1>1. SinksInv /\ TallyAddsUp
  BY DEF SinksGood
<1>2. SinksShape' /\ Queues' /\ Used' = Used
  BY <1>1, SwapDoneShapes
<1>3. Enough'
  <2>1. \/ saves' = saves /\ ToCome' <= ToCome
        \/ saves' = saves + 1 /\ ToCome' <= ToCome + 1
    BY <1>1 DEF SwapDone, ToCome, SinksInv, SinksTypeOK, manager
  <2> QED BY <1>1, <1>2, <2>1, SupplyStays
<1>4. TallyType' /\ TallyAddsUp'
  BY <1>1, QuietTally DEF SwapDone, SinksInv, SinksTypeOK, dispatcher, running
<1> QED BY <1>2, <1>3, <1>4, GoodParts

LEMMA StartWorkerGood == ASSUME SinksGood, NEW w \in Workers, StartWorker(w) PROVE SinksGood'
<1>1. SinksInv /\ TallyAddsUp
  BY DEF SinksGood
<1>2. SinksShape' /\ Queues' /\ Used' = Used
  BY <1>1, StartWorkerShapes
<1>3. Enough'
  <2>1. \/ saves' = saves /\ ToCome' <= ToCome
        \/ saves' = saves + 1 /\ ToCome' <= ToCome + 1
    BY <1>1 DEF StartWorker, ToCome, SinksInv, SinksTypeOK, manager
  <2> QED BY <1>1, <1>2, <2>1, SupplyStays
<1>4. TallyType' /\ TallyAddsUp'
  BY <1>1, QuietTally DEF StartWorker, SinksInv, SinksTypeOK, dispatcher,
       running
<1> QED BY <1>2, <1>3, <1>4, GoodParts

LEMMA StopWorkerGood == ASSUME SinksGood, NEW w \in Workers, StopWorker(w) PROVE SinksGood'
<1>1. SinksInv /\ TallyAddsUp
  BY DEF SinksGood
<1>2. SinksShape' /\ Queues' /\ Used' = Used
  BY <1>1, StopWorkerShapes
<1>3. Enough'
  <2>1. \/ saves' = saves /\ ToCome' <= ToCome
        \/ saves' = saves + 1 /\ ToCome' <= ToCome + 1
    BY <1>1 DEF StopWorker, ToCome, SinksInv, SinksTypeOK, manager
  <2> QED BY <1>1, <1>2, <2>1, SupplyStays
<1>4. TallyType' /\ TallyAddsUp'
  BY <1>1, QuietTally DEF StopWorker, SinksInv, SinksTypeOK, dispatcher, running
<1> QED BY <1>2, <1>3, <1>4, GoodParts

LEMMA WorkerStoppedGood == ASSUME SinksGood, NEW w \in Workers, WorkerStopped(w) PROVE SinksGood'
<1>1. SinksInv /\ TallyAddsUp
  BY DEF SinksGood
<1>2. SinksShape' /\ Queues' /\ Used' = Used
  BY <1>1, WorkerStoppedShapes
<1>3. Enough'
  <2>1. \/ saves' = saves /\ ToCome' <= ToCome
        \/ saves' = saves + 1 /\ ToCome' <= ToCome + 1
    BY <1>1 DEF WorkerStopped, ToCome, SinksInv, SinksTypeOK, manager
  <2> QED BY <1>1, <1>2, <2>1, SupplyStays
<1>4. TallyType' /\ TallyAddsUp'
  BY <1>1, QuietTally DEF WorkerStopped, SinksInv, SinksTypeOK, dispatcher,
       running
<1> QED BY <1>2, <1>3, <1>4, GoodParts

LEMMA CloseGood == ASSUME SinksGood, Close PROVE SinksGood'
<1>1. SinksInv /\ TallyAddsUp
  BY DEF SinksGood
<1>2. SinksShape' /\ Queues' /\ Used' = Used
  BY <1>1, CloseShapes
<1>3. Enough'
  <2>1. \/ saves' = saves /\ ToCome' <= ToCome
        \/ saves' = saves + 1 /\ ToCome' <= ToCome + 1
    BY <1>1 DEF Close, ToCome, SinksInv, SinksTypeOK, manager
  <2> QED BY <1>1, <1>2, <2>1, SupplyStays
<1>4. TallyType' /\ TallyAddsUp'
  BY <1>1, QuietTally DEF Close, SinksInv, SinksTypeOK, dispatcher, running
<1> QED BY <1>2, <1>3, <1>4, GoodParts

LEMMA CloseStopsGood == ASSUME SinksGood, NEW w \in Workers, CloseStops(w) PROVE SinksGood'
<1>1. SinksInv /\ TallyAddsUp
  BY DEF SinksGood
<1>2. SinksShape' /\ Queues' /\ Used' = Used
  BY <1>1, CloseStopsShapes
<1>3. Enough'
  <2>1. \/ saves' = saves /\ ToCome' <= ToCome
        \/ saves' = saves + 1 /\ ToCome' <= ToCome + 1
    BY <1>1 DEF CloseStops, ToCome, SinksInv, SinksTypeOK, manager
  <2> QED BY <1>1, <1>2, <2>1, SupplyStays
<1>4. TallyType' /\ TallyAddsUp'
  BY <1>1, QuietTally DEF CloseStops, SinksInv, SinksTypeOK, dispatcher, running
<1> QED BY <1>2, <1>3, <1>4, GoodParts

LEMMA CloseStoppedGood == ASSUME SinksGood, NEW w \in Workers, CloseStopped(w) PROVE SinksGood'
<1>1. SinksInv /\ TallyAddsUp
  BY DEF SinksGood
<1>2. SinksShape' /\ Queues' /\ Used' = Used
  BY <1>1, CloseStoppedShapes
<1>3. Enough'
  <2>1. \/ saves' = saves /\ ToCome' <= ToCome
        \/ saves' = saves + 1 /\ ToCome' <= ToCome + 1
    BY <1>1 DEF CloseStopped, ToCome, SinksInv, SinksTypeOK, manager
  <2> QED BY <1>1, <1>2, <2>1, SupplyStays
<1>4. TallyType' /\ TallyAddsUp'
  BY <1>1, QuietTally DEF CloseStopped, SinksInv, SinksTypeOK, dispatcher,
       running
<1> QED BY <1>2, <1>3, <1>4, GoodParts

LEMMA TranslateGood == ASSUME SinksGood, NEW e \in 1..MaxEvents, Translate(e) PROVE SinksGood'
<1>1. SinksInv /\ TallyAddsUp
  BY DEF SinksGood
<1>2. SinksShape' /\ Queues' /\ Used' = Used
  BY <1>1, TranslateShapes
<1>3. Enough'
  <2>1. \/ saves' = saves /\ ToCome' <= ToCome
        \/ saves' = saves + 1 /\ ToCome' <= ToCome + 1
    BY <1>1 DEF Translate, ToCome, SinksInv, SinksTypeOK, manager
  <2> QED BY <1>1, <1>2, <2>1, SupplyStays
<1>4. TallyType' /\ TallyAddsUp'
  BY <1>1, QuietTally DEF Translate, SinksInv, SinksTypeOK, dispatcher, running
<1> QED BY <1>2, <1>3, <1>4, GoodParts

LEMMA PublishBeginsGood == ASSUME SinksGood, PublishBegins PROVE SinksGood'
<1>1. SinksInv /\ TallyAddsUp
  BY DEF SinksGood
<1>2. SinksShape' /\ Queues' /\ Used' = Used
  BY <1>1, PublishBeginsShapes
<1>3. Enough'
  <2>1. \/ saves' = saves /\ ToCome' <= ToCome
        \/ saves' = saves + 1 /\ ToCome' <= ToCome + 1
    BY <1>1 DEF PublishBegins, ToCome, SinksInv, SinksTypeOK, manager
  <2> QED BY <1>1, <1>2, <2>1, SupplyStays
<1>4. TallyType' /\ TallyAddsUp'
  BY <1>1, QuietTally DEF PublishBegins, SinksInv, SinksTypeOK, dispatcher,
       running
<1> QED BY <1>2, <1>3, <1>4, GoodParts

LEMMA EnqueueGood == ASSUME SinksGood, NEW w \in Workers, Enqueue(w) PROVE SinksGood'
<1>1. SinksInv /\ TallyAddsUp
  BY DEF SinksGood
<1>2. SinksShape' /\ Queues' /\ Used' = Used
  BY <1>1, EnqueueShapes
<1>3. Enough'
  <2>1. \/ saves' = saves /\ ToCome' <= ToCome
        \/ saves' = saves + 1 /\ ToCome' <= ToCome + 1
    BY <1>1 DEF Enqueue, ToCome, SinksInv, SinksTypeOK, manager
  <2> QED BY <1>1, <1>2, <2>1, SupplyStays
<1>4. TallyType' /\ TallyAddsUp'
  BY <1>1, EnqueueTally
<1> QED BY <1>2, <1>3, <1>4, GoodParts

LEMMA EnqueueFullGood == ASSUME SinksGood, NEW w \in Workers, EnqueueFull(w) PROVE SinksGood'
<1>1. SinksInv /\ TallyAddsUp
  BY DEF SinksGood
<1>2. SinksShape' /\ Queues' /\ Used' = Used
  BY <1>1, EnqueueFullShapes
<1>3. Enough'
  <2>1. \/ saves' = saves /\ ToCome' <= ToCome
        \/ saves' = saves + 1 /\ ToCome' <= ToCome + 1
    BY <1>1 DEF EnqueueFull, ToCome, SinksInv, SinksTypeOK, manager
  <2> QED BY <1>1, <1>2, <2>1, SupplyStays
<1>4. TallyType' /\ TallyAddsUp'
  BY <1>1, QuietTally DEF EnqueueFull, SinksInv, SinksTypeOK, dispatcher,
       running
<1> QED BY <1>2, <1>3, <1>4, GoodParts

LEMMA DropOldestGood == ASSUME SinksGood, NEW w \in Workers, DropOldest(w) PROVE SinksGood'
<1>1. SinksInv /\ TallyAddsUp
  BY DEF SinksGood
<1>2. SinksShape' /\ Queues' /\ Used' = Used
  BY <1>1, DropOldestShapes
<1>3. Enough'
  <2>1. \/ saves' = saves /\ ToCome' <= ToCome
        \/ saves' = saves + 1 /\ ToCome' <= ToCome + 1
    BY <1>1 DEF DropOldest, ToCome, SinksInv, SinksTypeOK, manager
  <2> QED BY <1>1, <1>2, <2>1, SupplyStays
<1>4. TallyType' /\ TallyAddsUp'
  BY <1>1, DropTally
<1> QED BY <1>2, <1>3, <1>4, GoodParts

LEMMA PublishReturnsGood == ASSUME SinksGood, PublishReturns PROVE SinksGood'
<1>1. SinksInv /\ TallyAddsUp
  BY DEF SinksGood
<1>2. SinksShape' /\ Queues' /\ Used' = Used
  BY <1>1, PublishReturnsShapes
<1>3. Enough'
  <2>1. \/ saves' = saves /\ ToCome' <= ToCome
        \/ saves' = saves + 1 /\ ToCome' <= ToCome + 1
    BY <1>1 DEF PublishReturns, ToCome, SinksInv, SinksTypeOK, manager
  <2> QED BY <1>1, <1>2, <2>1, SupplyStays
<1>4. TallyType' /\ TallyAddsUp'
  BY <1>1, QuietTally DEF PublishReturns, SinksInv, SinksTypeOK, dispatcher,
       running
<1> QED BY <1>2, <1>3, <1>4, GoodParts

LEMMA LoopTopGood == ASSUME SinksGood, NEW w \in Workers, LoopTop(w) PROVE SinksGood'
<1>1. SinksInv /\ TallyAddsUp
  BY DEF SinksGood
<1>2. SinksShape' /\ Queues' /\ Used' = Used
  BY <1>1, LoopTopShapes
<1>3. Enough'
  <2>1. \/ saves' = saves /\ ToCome' <= ToCome
        \/ saves' = saves + 1 /\ ToCome' <= ToCome + 1
    BY <1>1 DEF LoopTop, Exit, ToCome, SinksInv, SinksTypeOK, manager
  <2> QED BY <1>1, <1>2, <2>1, SupplyStays
<1>4. TallyType' /\ TallyAddsUp'
  <2>1. CASE Exit(w)
    BY <1>1, <2>1, ExitTally DEF LoopTop
  <2>2. CASE ~Exit(w)
    BY <1>1, <2>2, QuietTally DEF LoopTop, SinksInv, SinksTypeOK, dispatcher
  <2> QED BY <2>1, <2>2
<1> QED BY <1>2, <1>3, <1>4, GoodParts

LEMMA SelectQuitGood == ASSUME SinksGood, NEW w \in Workers, SelectQuit(w) PROVE SinksGood'
<1>1. SinksInv /\ TallyAddsUp
  BY DEF SinksGood
<1>2. SinksShape' /\ Queues' /\ Used' = Used
  BY <1>1, SelectQuitShapes
<1>3. Enough'
  <2>1. \/ saves' = saves /\ ToCome' <= ToCome
        \/ saves' = saves + 1 /\ ToCome' <= ToCome + 1
    BY <1>1 DEF SelectQuit, Exit, ToCome, SinksInv, SinksTypeOK, manager
  <2> QED BY <1>1, <1>2, <2>1, SupplyStays
<1>4. TallyType' /\ TallyAddsUp'
  <2>1. CASE Exit(w)
    BY <1>1, <2>1, ExitTally DEF SelectQuit
  <2> QED BY <2>1 DEF SelectQuit
<1> QED BY <1>2, <1>3, <1>4, GoodParts

LEMMA SelectEventGood == ASSUME SinksGood, NEW w \in Workers, SelectEvent(w) PROVE SinksGood'
<1>1. SinksInv /\ TallyAddsUp
  BY DEF SinksGood
<1>2. SinksShape' /\ Queues' /\ Used' = Used
  BY <1>1, SelectEventShapes
<1>3. Enough'
  <2>1. \/ saves' = saves /\ ToCome' <= ToCome
        \/ saves' = saves + 1 /\ ToCome' <= ToCome + 1
    BY <1>1 DEF SelectEvent, ToCome, SinksInv, SinksTypeOK, manager
  <2> QED BY <1>1, <1>2, <2>1, SupplyStays
<1>4. TallyType' /\ TallyAddsUp'
  BY <1>1, SelectTally
<1> QED BY <1>2, <1>3, <1>4, GoodParts

LEMMA DeliverReturnsGood == ASSUME SinksGood, NEW w \in Workers, DeliverReturns(w) PROVE SinksGood'
<1>1. SinksInv /\ TallyAddsUp
  BY DEF SinksGood
<1>2. SinksShape' /\ Queues' /\ Used' = Used
  BY <1>1, DeliverReturnsShapes
<1>3. Enough'
  <2>1. \/ saves' = saves /\ ToCome' <= ToCome
        \/ saves' = saves + 1 /\ ToCome' <= ToCome + 1
    BY <1>1 DEF DeliverReturns, ToCome, SinksInv, SinksTypeOK, manager
  <2> QED BY <1>1, <1>2, <2>1, SupplyStays
<1>4. TallyType' /\ TallyAddsUp'
  BY <1>1, DeliverTally
<1> QED BY <1>2, <1>3, <1>4, GoodParts

LEMMA GoodStays == ASSUME SinksGood, UNCHANGED sinkVars PROVE SinksGood'
<1>1. UNCHANGED <<manager, swaps, dispatcher, running, queue, publisher, tallies>>
  BY DEF sinkVars
<1>2. SinksShape' /\ Queues' /\ TallyType' /\ Enough'
  BY <1>1, SinksParts DEF SinksGood, SinksShape, Phases, Queues, MadeForASlug,
       TallyType, Enough, ToCome, Used,
     manager, swaps, dispatcher, running, publisher, tallies
<1>3. TallyAddsUp'
  BY <1>1, QuietTally DEF SinksGood, dispatcher, running
<1> QED BY <1>2, <1>3, GoodParts

LEMMA GoodStep == ASSUME SinksGood, SinkNext \/ UNCHANGED sinkVars PROVE SinksGood'
<1>1. CASE UNCHANGED sinkVars
  BY <1>1, GoodStays
<1>2. CASE \E S \in SUBSET Slugs : Save(S)
  BY <1>2, SaveGood
<1>3. CASE Reload
  BY <1>3, ReloadGood
<1>4. CASE Swap
  BY <1>4, SwapGood
<1>5. CASE SwapClosed
  BY <1>5, SwapClosedGood
<1>6. CASE SwapDone
  BY <1>6, SwapDoneGood
<1>7. CASE \E w \in Workers : StartWorker(w)
  BY <1>7, StartWorkerGood
<1>8. CASE \E w \in Workers : StopWorker(w)
  BY <1>8, StopWorkerGood
<1>9. CASE \E w \in Workers : WorkerStopped(w)
  BY <1>9, WorkerStoppedGood
<1>10. CASE Close
  BY <1>10, CloseGood
<1>11. CASE \E w \in Workers : CloseStops(w)
  BY <1>11, CloseStopsGood
<1>12. CASE \E w \in Workers : CloseStopped(w)
  BY <1>12, CloseStoppedGood
<1>13. CASE \E e \in 1..MaxEvents : Translate(e)
  BY <1>13, TranslateGood
<1>14. CASE PublishBegins
  BY <1>14, PublishBeginsGood
<1>15. CASE \E w \in Workers : Enqueue(w)
  BY <1>15, EnqueueGood
<1>16. CASE \E w \in Workers : EnqueueFull(w)
  BY <1>16, EnqueueFullGood
<1>17. CASE \E w \in Workers : DropOldest(w)
  BY <1>17, DropOldestGood
<1>18. CASE PublishReturns
  BY <1>18, PublishReturnsGood
<1>19. CASE \E w \in Workers : LoopTop(w)
  BY <1>19, LoopTopGood
<1>20. CASE \E w \in Workers : SelectQuit(w)
  BY <1>20, SelectQuitGood
<1>21. CASE \E w \in Workers : SelectEvent(w)
  BY <1>21, SelectEventGood
<1>22. CASE \E w \in Workers : DeliverReturns(w)
  BY <1>22, DeliverReturnsGood
<1> QED
  BY <1>1, <1>2, <1>3, <1>4, <1>5, <1>6, <1>7, <1>8, <1>9, <1>10, <1>11, <1>12,
       <1>13, <1>14, <1>15, <1>16, <1>17, <1>18, <1>19, <1>20, <1>21,
     <1>22, Zenon
  DEF SinkNext, SinkSteps, WorkerSteps

-----------------------------------------------------------------------------
(* What was saved.                                                         *)
SavedInv == NoStrayWorker /\ ReadIsSaved /\ SettledIsSaved

LEMMA SaveSaved == ASSUME SinksInv, SavedInv, NEW S \in SUBSET Slugs, Save(S) PROVE SavedInv'
<1>1. NoStrayWorker'
  BY DEF Save, manager, swaps, dispatcher, running, SavedInv, NoStrayWorker,
       Running,
     SinksInv, SinksTypeOK, Phases
<1>2. ReadIsSaved'
  BY DEF Save, manager, swaps, dispatcher, running, SavedInv, ReadIsSaved,
     SettledIsSaved, SinksInv, SinksTypeOK, Phases
<1>3. SettledIsSaved'
  BY DEF Save, manager, swaps, dispatcher, running, SavedInv, ReadIsSaved,
     SettledIsSaved, SinksInv, SinksTypeOK, Phases
<1> QED BY <1>1, <1>2, <1>3 DEF SavedInv

LEMMA ReloadSaved == ASSUME SinksInv, SavedInv, Reload PROVE SavedInv'
<1>1. NoStrayWorker'
  BY DEF Reload, manager, swaps, dispatcher, running, SavedInv, NoStrayWorker,
       Running,
     SinksInv, SinksTypeOK, Phases
<1>2. ReadIsSaved'
  BY DEF Reload, manager, swaps, dispatcher, running, SavedInv, ReadIsSaved,
     SettledIsSaved, SinksInv, SinksTypeOK, Phases
<1>3. SettledIsSaved'
  BY DEF Reload, manager, swaps, dispatcher, running, SavedInv, ReadIsSaved,
     SettledIsSaved, SinksInv, SinksTypeOK, Phases
<1> QED BY <1>1, <1>2, <1>3 DEF SavedInv

LEMMA SwapSaved == ASSUME SinksInv, SavedInv, Swap PROVE SavedInv'
<1>1. PICK N : MadeNew(N)
  BY SwapMakes DEF Swap, SinksInv
<1>2. closing = {} /\ stopping = {} /\ closing' = closing /\ stopping' = live /\ live' = N
  BY <1>1 DEF Swap, SinksInv, Phases, MadeNew
<1>3. NoStrayWorker'
  BY <1>1, <1>2 DEF MadeNew, SavedInv, NoStrayWorker, Running, SinksInv,
       SinksTypeOK
<1>4. ReadIsSaved'
  BY <1>1, <1>2 DEF Swap, MadeNew, SavedInv, ReadIsSaved
<1>5. SettledIsSaved'
  BY DEF Swap, SettledIsSaved
<1> QED BY <1>3, <1>4, <1>5 DEF SavedInv

LEMMA SwapClosedSaved == ASSUME SinksInv, SavedInv, SwapClosed PROVE SavedInv'
<1>1. NoStrayWorker'
  BY DEF SwapClosed, manager, swaps, dispatcher, running, SavedInv,
       NoStrayWorker, Running,
     SinksInv, SinksTypeOK, Phases
<1>2. ReadIsSaved'
  BY DEF SwapClosed, manager, swaps, dispatcher, running, SavedInv, ReadIsSaved,
     SettledIsSaved, SinksInv, SinksTypeOK, Phases
<1>3. SettledIsSaved'
  BY DEF SwapClosed, manager, swaps, dispatcher, running, SavedInv, ReadIsSaved,
     SettledIsSaved, SinksInv, SinksTypeOK, Phases
<1> QED BY <1>1, <1>2, <1>3 DEF SavedInv

LEMMA SwapDoneSaved == ASSUME SinksInv, SavedInv, SwapDone PROVE SavedInv'
<1>1. NoStrayWorker'
  BY DEF SwapDone, manager, swaps, dispatcher, running, SavedInv,
       NoStrayWorker, Running,
     SinksInv, SinksTypeOK, Phases
<1>2. ReadIsSaved'
  BY DEF SwapDone, manager, swaps, dispatcher, running, SavedInv, ReadIsSaved,
     SettledIsSaved, SinksInv, SinksTypeOK, Phases
<1>3. SettledIsSaved'
  BY DEF SwapDone, manager, swaps, dispatcher, running, SavedInv, ReadIsSaved,
     SettledIsSaved, SinksInv, SinksTypeOK, Phases
<1> QED BY <1>1, <1>2, <1>3 DEF SavedInv

LEMMA StartWorkerSaved == ASSUME SinksInv, SavedInv, NEW w \in Workers, StartWorker(w) PROVE SavedInv'
<1>1. NoStrayWorker'
  BY DEF StartWorker, manager, swaps, dispatcher, running, SavedInv,
       NoStrayWorker, Running,
     SinksInv, SinksTypeOK, Phases
<1>2. ReadIsSaved'
  BY DEF StartWorker, manager, swaps, dispatcher, running, SavedInv,
       ReadIsSaved,
     SettledIsSaved, SinksInv, SinksTypeOK, Phases
<1>3. SettledIsSaved'
  BY DEF StartWorker, manager, swaps, dispatcher, running, SavedInv,
       ReadIsSaved,
     SettledIsSaved, SinksInv, SinksTypeOK, Phases
<1> QED BY <1>1, <1>2, <1>3 DEF SavedInv

LEMMA StopWorkerSaved == ASSUME SinksInv, SavedInv, NEW w \in Workers, StopWorker(w) PROVE SavedInv'
<1>1. NoStrayWorker'
  BY DEF StopWorker, manager, swaps, dispatcher, running, SavedInv,
       NoStrayWorker, Running,
     SinksInv, SinksTypeOK, Phases
<1>2. ReadIsSaved'
  BY DEF StopWorker, manager, swaps, dispatcher, running, SavedInv, ReadIsSaved,
     SettledIsSaved, SinksInv, SinksTypeOK, Phases
<1>3. SettledIsSaved'
  BY DEF StopWorker, manager, swaps, dispatcher, running, SavedInv, ReadIsSaved,
     SettledIsSaved, SinksInv, SinksTypeOK, Phases
<1> QED BY <1>1, <1>2, <1>3 DEF SavedInv

LEMMA WorkerStoppedSaved == ASSUME SinksInv, SavedInv, NEW w \in Workers, WorkerStopped(w) PROVE SavedInv'
<1>1. NoStrayWorker'
  BY DEF WorkerStopped, manager, swaps, dispatcher, running, SavedInv,
       NoStrayWorker, Running,
     SinksInv, SinksTypeOK, Phases
<1>2. ReadIsSaved'
  BY DEF WorkerStopped, manager, swaps, dispatcher, running, SavedInv,
       ReadIsSaved,
     SettledIsSaved, SinksInv, SinksTypeOK, Phases
<1>3. SettledIsSaved'
  BY DEF WorkerStopped, manager, swaps, dispatcher, running, SavedInv,
       ReadIsSaved,
     SettledIsSaved, SinksInv, SinksTypeOK, Phases
<1> QED BY <1>1, <1>2, <1>3 DEF SavedInv

LEMMA CloseSaved == ASSUME SinksInv, SavedInv, Close PROVE SavedInv'
<1>1. NoStrayWorker'
  BY DEF Close, MuFree, manager, swaps, dispatcher, running, SavedInv,
       NoStrayWorker, Running,
     SinksInv, SinksTypeOK, Phases
<1>2. ReadIsSaved'
  BY DEF Close, MuFree, manager, swaps, dispatcher, running, SavedInv,
       ReadIsSaved,
     SettledIsSaved, SinksInv, SinksTypeOK, Phases
<1>3. SettledIsSaved'
  BY DEF Close, MuFree, manager, swaps, dispatcher, running, SavedInv,
       ReadIsSaved,
     SettledIsSaved, SinksInv, SinksTypeOK, Phases
<1> QED BY <1>1, <1>2, <1>3 DEF SavedInv

LEMMA CloseStopsSaved == ASSUME SinksInv, SavedInv, NEW w \in Workers, CloseStops(w) PROVE SavedInv'
<1>1. NoStrayWorker'
  BY DEF CloseStops, manager, swaps, dispatcher, running, SavedInv,
       NoStrayWorker, Running,
     SinksInv, SinksTypeOK, Phases
<1>2. ReadIsSaved'
  BY DEF CloseStops, manager, swaps, dispatcher, running, SavedInv, ReadIsSaved,
     SettledIsSaved, SinksInv, SinksTypeOK, Phases
<1>3. SettledIsSaved'
  BY DEF CloseStops, manager, swaps, dispatcher, running, SavedInv, ReadIsSaved,
     SettledIsSaved, SinksInv, SinksTypeOK, Phases
<1> QED BY <1>1, <1>2, <1>3 DEF SavedInv

LEMMA CloseStoppedSaved == ASSUME SinksInv, SavedInv, NEW w \in Workers, CloseStopped(w) PROVE SavedInv'
<1>1. NoStrayWorker'
  BY DEF CloseStopped, manager, swaps, dispatcher, running, SavedInv,
       NoStrayWorker, Running,
     SinksInv, SinksTypeOK, Phases
<1>2. ReadIsSaved'
  BY DEF CloseStopped, manager, swaps, dispatcher, running, SavedInv,
       ReadIsSaved,
     SettledIsSaved, SinksInv, SinksTypeOK, Phases
<1>3. SettledIsSaved'
  BY DEF CloseStopped, manager, swaps, dispatcher, running, SavedInv,
       ReadIsSaved,
     SettledIsSaved, SinksInv, SinksTypeOK, Phases
<1> QED BY <1>1, <1>2, <1>3 DEF SavedInv

LEMMA TranslateSaved == ASSUME SinksInv, SavedInv, NEW e \in 1..MaxEvents, Translate(e) PROVE SavedInv'
<1>1. NoStrayWorker'
  BY DEF Translate, manager, swaps, dispatcher, running, SavedInv,
       NoStrayWorker, Running,
     SinksInv, SinksTypeOK, Phases
<1>2. ReadIsSaved'
  BY DEF Translate, manager, swaps, dispatcher, running, SavedInv, ReadIsSaved,
     SettledIsSaved, SinksInv, SinksTypeOK, Phases
<1>3. SettledIsSaved'
  BY DEF Translate, manager, swaps, dispatcher, running, SavedInv, ReadIsSaved,
     SettledIsSaved, SinksInv, SinksTypeOK, Phases
<1> QED BY <1>1, <1>2, <1>3 DEF SavedInv

LEMMA PublishBeginsSaved == ASSUME SinksInv, SavedInv, PublishBegins PROVE SavedInv'
<1>1. NoStrayWorker'
  BY DEF PublishBegins, manager, swaps, dispatcher, running, SavedInv,
       NoStrayWorker, Running,
     SinksInv, SinksTypeOK, Phases
<1>2. ReadIsSaved'
  BY DEF PublishBegins, manager, swaps, dispatcher, running, SavedInv,
       ReadIsSaved,
     SettledIsSaved, SinksInv, SinksTypeOK, Phases
<1>3. SettledIsSaved'
  BY DEF PublishBegins, manager, swaps, dispatcher, running, SavedInv,
       ReadIsSaved,
     SettledIsSaved, SinksInv, SinksTypeOK, Phases
<1> QED BY <1>1, <1>2, <1>3 DEF SavedInv

LEMMA EnqueueSaved == ASSUME SinksInv, SavedInv, NEW w \in Workers, Enqueue(w) PROVE SavedInv'
<1>1. NoStrayWorker'
  BY DEF Enqueue, manager, swaps, dispatcher, running, SavedInv, NoStrayWorker,
       Running,
     SinksInv, SinksTypeOK, Phases
<1>2. ReadIsSaved'
  BY DEF Enqueue, manager, swaps, dispatcher, running, SavedInv, ReadIsSaved,
     SettledIsSaved, SinksInv, SinksTypeOK, Phases
<1>3. SettledIsSaved'
  BY DEF Enqueue, manager, swaps, dispatcher, running, SavedInv, ReadIsSaved,
     SettledIsSaved, SinksInv, SinksTypeOK, Phases
<1> QED BY <1>1, <1>2, <1>3 DEF SavedInv

LEMMA EnqueueFullSaved == ASSUME SinksInv, SavedInv, NEW w \in Workers, EnqueueFull(w) PROVE SavedInv'
<1>1. NoStrayWorker'
  BY DEF EnqueueFull, manager, swaps, dispatcher, running, SavedInv,
       NoStrayWorker, Running,
     SinksInv, SinksTypeOK, Phases
<1>2. ReadIsSaved'
  BY DEF EnqueueFull, manager, swaps, dispatcher, running, SavedInv,
       ReadIsSaved,
     SettledIsSaved, SinksInv, SinksTypeOK, Phases
<1>3. SettledIsSaved'
  BY DEF EnqueueFull, manager, swaps, dispatcher, running, SavedInv,
       ReadIsSaved,
     SettledIsSaved, SinksInv, SinksTypeOK, Phases
<1> QED BY <1>1, <1>2, <1>3 DEF SavedInv

LEMMA DropOldestSaved == ASSUME SinksInv, SavedInv, NEW w \in Workers, DropOldest(w) PROVE SavedInv'
<1>1. NoStrayWorker'
  BY DEF DropOldest, manager, swaps, dispatcher, running, SavedInv,
       NoStrayWorker, Running,
     SinksInv, SinksTypeOK, Phases
<1>2. ReadIsSaved'
  BY DEF DropOldest, manager, swaps, dispatcher, running, SavedInv, ReadIsSaved,
     SettledIsSaved, SinksInv, SinksTypeOK, Phases
<1>3. SettledIsSaved'
  BY DEF DropOldest, manager, swaps, dispatcher, running, SavedInv, ReadIsSaved,
     SettledIsSaved, SinksInv, SinksTypeOK, Phases
<1> QED BY <1>1, <1>2, <1>3 DEF SavedInv

LEMMA PublishReturnsSaved == ASSUME SinksInv, SavedInv, PublishReturns PROVE SavedInv'
<1>1. NoStrayWorker'
  BY DEF PublishReturns, manager, swaps, dispatcher, running, SavedInv,
       NoStrayWorker, Running,
     SinksInv, SinksTypeOK, Phases
<1>2. ReadIsSaved'
  BY DEF PublishReturns, manager, swaps, dispatcher, running, SavedInv,
       ReadIsSaved,
     SettledIsSaved, SinksInv, SinksTypeOK, Phases
<1>3. SettledIsSaved'
  BY DEF PublishReturns, manager, swaps, dispatcher, running, SavedInv,
       ReadIsSaved,
     SettledIsSaved, SinksInv, SinksTypeOK, Phases
<1> QED BY <1>1, <1>2, <1>3 DEF SavedInv

LEMMA LoopTopSaved == ASSUME SinksInv, SavedInv, NEW w \in Workers, LoopTop(w) PROVE SavedInv'
<1>1. NoStrayWorker'
  BY DEF LoopTop, Exit, manager, swaps, dispatcher, running, SavedInv,
       NoStrayWorker, Running,
     SinksInv, SinksTypeOK, Phases
<1>2. ReadIsSaved'
  BY DEF LoopTop, Exit, manager, swaps, dispatcher, running, SavedInv,
       ReadIsSaved,
     SettledIsSaved, SinksInv, SinksTypeOK, Phases
<1>3. SettledIsSaved'
  BY DEF LoopTop, Exit, manager, swaps, dispatcher, running, SavedInv,
       ReadIsSaved,
     SettledIsSaved, SinksInv, SinksTypeOK, Phases
<1> QED BY <1>1, <1>2, <1>3 DEF SavedInv

LEMMA SelectQuitSaved == ASSUME SinksInv, SavedInv, NEW w \in Workers, SelectQuit(w) PROVE SavedInv'
<1>1. NoStrayWorker'
  BY DEF SelectQuit, Exit, manager, swaps, dispatcher, running, SavedInv,
       NoStrayWorker, Running,
     SinksInv, SinksTypeOK, Phases
<1>2. ReadIsSaved'
  BY DEF SelectQuit, Exit, manager, swaps, dispatcher, running, SavedInv,
       ReadIsSaved,
     SettledIsSaved, SinksInv, SinksTypeOK, Phases
<1>3. SettledIsSaved'
  BY DEF SelectQuit, Exit, manager, swaps, dispatcher, running, SavedInv,
       ReadIsSaved,
     SettledIsSaved, SinksInv, SinksTypeOK, Phases
<1> QED BY <1>1, <1>2, <1>3 DEF SavedInv

LEMMA SelectEventSaved == ASSUME SinksInv, SavedInv, NEW w \in Workers, SelectEvent(w) PROVE SavedInv'
<1>1. NoStrayWorker'
  BY DEF SelectEvent, manager, swaps, dispatcher, running, SavedInv,
       NoStrayWorker, Running,
     SinksInv, SinksTypeOK, Phases
<1>2. ReadIsSaved'
  BY DEF SelectEvent, manager, swaps, dispatcher, running, SavedInv,
       ReadIsSaved,
     SettledIsSaved, SinksInv, SinksTypeOK, Phases
<1>3. SettledIsSaved'
  BY DEF SelectEvent, manager, swaps, dispatcher, running, SavedInv,
       ReadIsSaved,
     SettledIsSaved, SinksInv, SinksTypeOK, Phases
<1> QED BY <1>1, <1>2, <1>3 DEF SavedInv

LEMMA DeliverReturnsSaved == ASSUME SinksInv, SavedInv, NEW w \in Workers, DeliverReturns(w) PROVE SavedInv'
<1>1. NoStrayWorker'
  BY DEF DeliverReturns, manager, swaps, dispatcher, running, SavedInv,
       NoStrayWorker, Running,
     SinksInv, SinksTypeOK, Phases
<1>2. ReadIsSaved'
  BY DEF DeliverReturns, manager, swaps, dispatcher, running, SavedInv,
       ReadIsSaved,
     SettledIsSaved, SinksInv, SinksTypeOK, Phases
<1>3. SettledIsSaved'
  BY DEF DeliverReturns, manager, swaps, dispatcher, running, SavedInv,
       ReadIsSaved,
     SettledIsSaved, SinksInv, SinksTypeOK, Phases
<1> QED BY <1>1, <1>2, <1>3 DEF SavedInv

LEMMA SavedStep == ASSUME SinksInv, SavedInv, SinkNext \/ UNCHANGED sinkVars PROVE SavedInv'
<1>1. CASE UNCHANGED sinkVars
  BY <1>1 DEF sinkVars, manager, swaps, dispatcher, running, SavedInv,
       NoStrayWorker, Running, ReadIsSaved, SettledIsSaved
<1>2. CASE \E S \in SUBSET Slugs : Save(S)
  BY <1>2, SaveSaved
<1>3. CASE Reload
  BY <1>3, ReloadSaved
<1>4. CASE Swap
  BY <1>4, SwapSaved
<1>5. CASE SwapClosed
  BY <1>5, SwapClosedSaved
<1>6. CASE SwapDone
  BY <1>6, SwapDoneSaved
<1>7. CASE \E w \in Workers : StartWorker(w)
  BY <1>7, StartWorkerSaved
<1>8. CASE \E w \in Workers : StopWorker(w)
  BY <1>8, StopWorkerSaved
<1>9. CASE \E w \in Workers : WorkerStopped(w)
  BY <1>9, WorkerStoppedSaved
<1>10. CASE Close
  BY <1>10, CloseSaved
<1>11. CASE \E w \in Workers : CloseStops(w)
  BY <1>11, CloseStopsSaved
<1>12. CASE \E w \in Workers : CloseStopped(w)
  BY <1>12, CloseStoppedSaved
<1>13. CASE \E e \in 1..MaxEvents : Translate(e)
  BY <1>13, TranslateSaved
<1>14. CASE PublishBegins
  BY <1>14, PublishBeginsSaved
<1>15. CASE \E w \in Workers : Enqueue(w)
  BY <1>15, EnqueueSaved
<1>16. CASE \E w \in Workers : EnqueueFull(w)
  BY <1>16, EnqueueFullSaved
<1>17. CASE \E w \in Workers : DropOldest(w)
  BY <1>17, DropOldestSaved
<1>18. CASE PublishReturns
  BY <1>18, PublishReturnsSaved
<1>19. CASE \E w \in Workers : LoopTop(w)
  BY <1>19, LoopTopSaved
<1>20. CASE \E w \in Workers : SelectQuit(w)
  BY <1>20, SelectQuitSaved
<1>21. CASE \E w \in Workers : SelectEvent(w)
  BY <1>21, SelectEventSaved
<1>22. CASE \E w \in Workers : DeliverReturns(w)
  BY <1>22, DeliverReturnsSaved
<1> QED
  BY <1>1, <1>2, <1>3, <1>4, <1>5, <1>6, <1>7, <1>8, <1>9, <1>10, <1>11, <1>12,
       <1>13, <1>14, <1>15, <1>16, <1>17, <1>18, <1>19, <1>20, <1>21, <1>22,
       Zenon
  DEF SinkNext, SinkSteps, WorkerSteps

LEMMA SavedInit == SinksInit => SavedInv
  BY DEF SinksInit, SavedInv, NoStrayWorker, Running, ReadIsSaved,
       SettledIsSaved

-----------------------------------------------------------------------------
(* The Broker's types, and its steps as steps of the sinks.                *)
LEMMA BrokerSets == BrokerBuffer \in Nat \ {0} /\ Depth \in Nat \ {0}
  BY BrokerConstants

LEMMA BrokerTypesInit == BrokerInit => BrokerTypeOK
  BY BrokerSets, SinkSets DEF BrokerInit, BrokerTypeOK

LEMMA Sent ==
    ASSUME BrokerTypeOK, NEW e \in 0..MaxEvents, Send(e)
    PROVE  inbox' \in Seq(0..MaxEvents) /\ Len(inbox') <= BrokerBuffer
<1>1. CASE inbox' = inbox
  BY <1>1 DEF BrokerTypeOK
<1>2. CASE Len(inbox) < BrokerBuffer /\ inbox' = Append(inbox, e)
  BY <1>2, BrokerSets DEF BrokerTypeOK
<1> QED BY <1>1, <1>2 DEF Send

LEMMA FirstAndRest ==
    ASSUME NEW S, NEW s \in Seq(S), s # <<>>
    PROVE  /\ Head(s) \in S /\ Tail(s) \in Seq(S) /\ Len(s) \in Nat /\ Len(s) >= 1 /\ Len(Tail(s)) = Len(s) - 1
           /\ Head(s) = s[1] /\ \A i \in 1..(Len(s) - 1) : Tail(s)[i] = s[i + 1]
<1>1. Len(s) \in Nat /\ Len(s) >= 1
  OBVIOUS
<1> QED BY <1>1

LEMMA BrokerTypesStep ==
    ASSUME BrokerTypeOK, BrokerNext \/ UNCHANGED brokerVars PROVE BrokerTypeOK'
<1>1. CASE BrokerPublish
  <2>1. published' \in 0..MaxEvents
    BY <1>1, SinkSets DEF BrokerPublish, BrokerTypeOK
  <2> QED BY <1>1, <2>1, Sent DEF BrokerPublish, BrokerTypeOK
<1>2. CASE NowPlaying
  <2>1. Tick \in 0..MaxEvents
    BY SinkSets DEF Tick
  <2> QED BY <1>2, <2>1, Sent DEF NowPlaying, BrokerTypeOK
<1>3. CASE Read
  <2>1. Head(inbox) \in 0..MaxEvents /\ Tail(inbox) \in Seq(0..MaxEvents) /\ Len(Tail(inbox)) <= BrokerBuffer
    <3>1. inbox \in Seq(0..MaxEvents) /\ inbox # <<>> /\ Len(inbox) <= BrokerBuffer
      BY <1>3 DEF Read, BrokerTypeOK
    <3>2. /\ Head(inbox) \in 0..MaxEvents /\ Tail(inbox) \in Seq(0..MaxEvents)
          /\ Len(Tail(inbox)) = Len(inbox) - 1 /\ Len(inbox) \in Nat
      BY <3>1, FirstAndRest
    <3> QED BY <3>1, <3>2, BrokerSets
  <2>2. backlog' \in Seq(1..MaxEvents) /\ Len(backlog') <= Depth
    <3>1. CASE Head(inbox) # Tick /\ Len(backlog) < Depth
      <4>1. Head(inbox) \in 1..MaxEvents
        BY <2>1, <3>1 DEF Tick
      <4>2. backlog' = Append(backlog, Head(inbox))
        BY <1>3, <3>1 DEF Read
      <4> QED BY <3>1, <4>1, <4>2, BrokerSets DEF BrokerTypeOK
    <3>2. CASE ~(Head(inbox) # Tick /\ Len(backlog) < Depth)
      BY <1>3, <3>2 DEF Read, BrokerTypeOK
    <3> QED BY <3>1, <3>2
  <2> QED BY <1>3, <2>1, <2>2 DEF Read, BrokerTypeOK
<1>4. CASE ReadEnds
  BY <1>4 DEF ReadEnds, BrokerTypeOK
<1>5. CASE TranslateNext
  <2>1. Tail(backlog) \in Seq(1..MaxEvents) /\ Len(Tail(backlog)) <= Depth
    BY <1>5, BrokerSets DEF TranslateNext, BrokerTypeOK
  <2> QED BY <1>5, <2>1 DEF TranslateNext, BrokerTypeOK
<1>6. CASE Unsubscribe
  BY <1>6 DEF Unsubscribe, BrokerTypeOK
<1>7. CASE UNCHANGED broker
  BY <1>7 DEF broker, BrokerTypeOK
<1> QED BY <1>1, <1>2, <1>3, <1>4, <1>5, <1>6, <1>7 DEF BrokerNext,
     CloseDispatcher, brokerVars

LEMMA BrokerIsSinks ==
    ASSUME BrokerTypeOK, BrokerNext \/ UNCHANGED brokerVars PROVE SinkNext \/ UNCHANGED sinkVars
<1>1. CASE TranslateNext
  <2>1. Head(backlog) \in 1..MaxEvents
    BY <1>1, FirstAndRest DEF TranslateNext, BrokerTypeOK
  <2> QED BY <1>1, <2>1 DEF TranslateNext, SinkNext
<1>2. CASE CloseDispatcher \/ SinkSteps
  BY <1>2 DEF CloseDispatcher, SinkNext
<1>3. CASE BrokerPublish \/ NowPlaying \/ Read \/ ReadEnds \/ Unsubscribe \/ UNCHANGED brokerVars
  BY <1>3 DEF BrokerPublish, NowPlaying, Read, ReadEnds, Unsubscribe, brokerVars
<1> QED BY <1>1, <1>2, <1>3 DEF BrokerNext

LEMMA GoodInit == SinksInit => SinksGood
<1> SUFFICES ASSUME SinksInit PROVE SinksGood
  OBVIOUS
<1>1. \A s \in Slugs : InHand(s) = {}
  BY DEF SinksInit, InHand
<1>2. TallyAddsUp
  <2> SUFFICES ASSUME NEW s \in Slugs
               PROVE  accepted[s] = counts[s].delivered + counts[s].failed + counts[s].dropped
                                      + counts[s].discarded + Cardinality(InHand(s))
    BY DEF TallyAddsUp
  <2>1. counts[s] = [delivered |-> 0, failed |-> 0, dropped |-> 0, discarded |-> 0] /\ accepted[s] = 0
    BY DEF SinksInit
  <2>2. Cardinality(InHand(s)) = 0
    BY <1>1, FS_EmptySet
  <2> QED BY <2>1, <2>2
<1> QED BY <1>2, SinksInvInit DEF SinksGood

LEMMA GoodAlways == BrokerSpec => [](SinksGood /\ BrokerTypeOK)
<1>1. BrokerInit => SinksGood /\ BrokerTypeOK
  BY GoodInit, BrokerTypesInit DEF BrokerInit
<1>2. SinksGood /\ BrokerTypeOK /\ [BrokerNext]_brokerVars => SinksGood' /\ BrokerTypeOK'
  BY BrokerIsSinks, GoodStep, BrokerTypesStep
<1> QED BY <1>1, <1>2, PTL DEF BrokerSpec

(* The types of the sinks, the translator and the Broker.                  *)
THEOREM EventTypes == BrokerSpec => [](SinksTypeOK /\ BrokerTypeOK)
<1>1. SinksGood => SinksTypeOK
  BY DEF SinksGood, SinksInv
<1> QED BY <1>1, GoodAlways, PTL

(* SinksAsSaved: a worker that runs is live or about to be stopped, and    *)
(* once the saves have been applied the live ones are the last one's.      *)
THEOREM SinksFollowTheSettings == BrokerSpec => []SinksAsSaved
<1>1. BrokerInit => SavedInv
  BY SavedInit DEF BrokerInit
<1>2. SavedInv /\ SinksGood /\ BrokerTypeOK /\ [BrokerNext]_brokerVars => SavedInv'
  BY BrokerIsSinks, SavedStep DEF SinksGood
<1>3. SavedInv => SinksAsSaved
  BY DEF SavedInv, SinksAsSaved
<1> QED BY <1>1, <1>2, <1>3, GoodAlways, PTL DEF BrokerSpec

-----------------------------------------------------------------------------
(* The order.  First, of sequences: s under t is s before t.               *)
Under(s, t) == \A i \in DOMAIN s : Above(s[i], t)

LEMMA Joined ==
    ASSUME NEW s \in Seq(Int), NEW t \in Seq(Int), Rises(s), Rises(t), Under(s, t)
    PROVE  s \o t \in Seq(Int) /\ Rises(s \o t)
<1>1. /\ s \o t \in Seq(Int) /\ Len(s) \in Nat /\ Len(t) \in Nat /\ DOMAIN (s \o t) = 1..(Len(s) + Len(t))
      /\ \A i \in 1..(Len(s) + Len(t)) : (s \o t)[i] = IF i <= Len(s) THEN s[i] ELSE t[i - Len(s)]
  OBVIOUS
<1>2. DOMAIN s = 1..Len(s) /\ DOMAIN t = 1..Len(t)
  OBVIOUS
<1>3. ASSUME NEW i \in 1..(Len(s) + Len(t)), NEW j \in 1..(Len(s) + Len(t)), i < j
      PROVE  (s \o t)[i] < (s \o t)[j] \/ (s \o t)[j] = Tick
  <2>1. CASE j <= Len(s)
    <3>1. i \in 1..Len(s) /\ j \in 1..Len(s)
      BY <1>1, <1>3, <2>1
    <3>2. s[i] < s[j] \/ s[j] = Tick
      BY <1>2, <1>3, <3>1 DEF Rises
    <3> QED BY <1>1, <2>1, <3>1, <3>2
  <2>2. CASE i > Len(s)
    <3>1. i - Len(s) \in 1..Len(t) /\ j - Len(s) \in 1..Len(t) /\ i - Len(s) < j - Len(s)
      BY <1>1, <1>3, <2>2
    <3>2. t[i - Len(s)] < t[j - Len(s)] \/ t[j - Len(s)] = Tick
      BY <1>2, <3>1 DEF Rises
    <3> QED BY <1>1, <1>3, <2>2, <3>2
  <2>3. CASE i <= Len(s) /\ j > Len(s)
    <3>1. i \in 1..Len(s) /\ j - Len(s) \in 1..Len(t)
      BY <1>1, <1>3, <2>3
    <3>2. s[i] < t[j - Len(s)] \/ t[j - Len(s)] = Tick
      BY <1>2, <3>1 DEF Under, Above
    <3> QED BY <1>1, <1>3, <2>3, <3>2
  <2> QED BY <1>1, <1>3, <2>1, <2>2, <2>3
<1> QED BY <1>1, <1>3 DEF Rises

LEMMA JoinedUnder ==
    ASSUME NEW s \in Seq(Int), NEW t \in Seq(Int), NEW u, Under(s, u), Under(t, u)
    PROVE  Under(s \o t, u)
<1>1. /\ Len(s) \in Nat /\ Len(t) \in Nat /\ DOMAIN (s \o t) = 1..(Len(s) + Len(t))
      /\ \A i \in 1..(Len(s) + Len(t)) : (s \o t)[i] = IF i <= Len(s) THEN s[i] ELSE t[i - Len(s)]
  OBVIOUS
<1>2. DOMAIN s = 1..Len(s) /\ DOMAIN t = 1..Len(t)
  OBVIOUS
<1>3. ASSUME NEW i \in 1..(Len(s) + Len(t)) PROVE Above((s \o t)[i], u)
  <2>1. CASE i <= Len(s)
    <3>1. i \in 1..Len(s) /\ (s \o t)[i] = s[i]
      BY <1>1, <2>1
    <3> QED BY <1>2, <3>1 DEF Under
  <2>2. CASE i > Len(s)
    <3>1. i - Len(s) \in 1..Len(t) /\ (s \o t)[i] = t[i - Len(s)]
      BY <1>1, <2>2
    <3> QED BY <1>2, <3>1 DEF Under
  <2> QED BY <1>1, <2>1, <2>2
<1> QED BY <1>1, <1>3 DEF Under

LEMMA AtMostUnder ==
    ASSUME NEW s \in Seq(Int), NEW t \in Seq(Int), NEW n \in Int, AtMost(s, n), Above(n, t) PROVE Under(s, t)
  BY DEF AtMost, Above, Under

LEMMA TailRises ==
    ASSUME NEW s \in Seq(Int), s # <<>>, Rises(s), NEW n \in Int
    PROVE  /\ Rises(Tail(s)) /\ Above(Head(s), Tail(s)) /\ Head(s) \in Int /\ Tail(s) \in Seq(Int)
           /\ Above(n, s) => Above(n, Tail(s)) /\ (n < Head(s) \/ Head(s) = Tick)
           /\ AtMost(s, n) => AtMost(Tail(s), n) /\ Head(s) <= n
<1>1. /\ Head(s) \in Int /\ Tail(s) \in Seq(Int) /\ Len(s) \in Nat /\ Len(s) >= 1 /\ Len(Tail(s)) = Len(s) - 1
      /\ Head(s) = s[1] /\ \A i \in 1..(Len(s) - 1) : Tail(s)[i] = s[i + 1]
  BY FirstAndRest
<1>2. DOMAIN s = 1..Len(s) /\ DOMAIN Tail(s) = 1..(Len(s) - 1)
  BY <1>1
<1>3. \A i \in 1..(Len(s) - 1) : i + 1 \in 1..Len(s) /\ 1 < i + 1
  BY <1>1
<1>4. 1 \in 1..Len(s)
  BY <1>1
<1>5. Rises(Tail(s))
  BY <1>1, <1>2, <1>3 DEF Rises
<1>6. Above(Head(s), Tail(s))
  BY <1>1, <1>2, <1>3, <1>4 DEF Rises, Above
<1>7. Above(n, s) => Above(n, Tail(s)) /\ (n < Head(s) \/ Head(s) = Tick)
  BY <1>1, <1>2, <1>3, <1>4 DEF Above
<1>8. AtMost(s, n) => AtMost(Tail(s), n) /\ Head(s) <= n
  BY <1>1, <1>2, <1>3, <1>4 DEF AtMost
<1> QED BY <1>1, <1>5, <1>6, <1>7, <1>8

LEMMA AppendRises ==
    ASSUME NEW s \in Seq(Int), NEW e \in Int, Rises(s), NEW n \in Int, NEW m \in Int
    PROVE  /\ Append(s, e) \in Seq(Int)
           /\ (e = Tick \/ \A i \in DOMAIN s : s[i] < e) => Rises(Append(s, e))
           /\ Above(n, s) /\ (n < e \/ e = Tick) => Above(n, Append(s, e))
           /\ AtMost(s, m) /\ e <= m => AtMost(Append(s, e), m)
<1>1. /\ Append(s, e) \in Seq(Int) /\ Len(s) \in Nat /\ Len(Append(s, e)) = Len(s) + 1
      /\ \A i \in 1..Len(s) : Append(s, e)[i] = s[i]
      /\ Append(s, e)[Len(s) + 1] = e
  OBVIOUS
<1>2. DOMAIN s = 1..Len(s) /\ DOMAIN Append(s, e) = 1..(Len(s) + 1)
  BY <1>1
<1>3. \A i \in 1..(Len(s) + 1) : i \in 1..Len(s) \/ i = Len(s) + 1
  BY <1>1
<1>4. (e = Tick \/ \A i \in DOMAIN s : s[i] < e) => Rises(Append(s, e))
  BY <1>1, <1>2, <1>3 DEF Rises
<1>5. Above(n, s) /\ (n < e \/ e = Tick) => Above(n, Append(s, e))
  BY <1>1, <1>2, <1>3 DEF Above
<1>6. AtMost(s, m) /\ e <= m => AtMost(Append(s, e), m)
  BY <1>1, <1>2, <1>3 DEF AtMost
<1> QED BY <1>1, <1>4, <1>5, <1>6

LEMMA OneRises == ASSUME NEW n \in Int PROVE <<n>> \in Seq(Int) /\ Rises(<<n>>) /\ AtMost(<<n>>, n)
  BY DEF Rises, AtMost

LEMMA NoneRises == /\ <<>> \in Seq(Int) /\ Rises(<<>>) /\ \A n : Above(n, <<>>) /\ AtMost(<<>>, n)
  BY DEF Rises, Above, AtMost

-----------------------------------------------------------------------------
(* And of the events.                                                      *)
LEMMA OrderTypes ==
    ASSUME SinksInv, BrokerTypeOK
    PROVE  /\ inbox \in Seq(Int) /\ backlog \in Seq(Int) /\ latest \in Nat /\ published \in Nat
           /\ queue \in [Workers -> Seq(1..MaxEvents)] /\ \A w \in Workers : queue[w] \in Seq(Int)
           /\ event \in [Workers -> 0..MaxEvents] /\ \A w \in Workers : event[w] \in Nat
<1>1. \A s : s \in Seq(0..MaxEvents) \/ s \in Seq(1..MaxEvents) => s \in Seq(Int)
  BY SinkSets
<1> QED BY <1>1, SinkSets DEF SinksInv, SinksTypeOK, BrokerTypeOK

LEMMA QueueRests ==
    ASSUME NEW w \in Workers, QueueOrder(w), queue'[w] = queue[w], event'[w] = event[w], latest' = latest,
           Pending(w)' => Pending(w)
    PROVE  QueueOrder(w)'
  BY DEF QueueOrder, Rises, Above, AtMost

LEMMA QueuesInOrder ==
    ASSUME SinksInv, BrokerTypeOK, OrderInv, SinkSteps \/ Close \/ UNCHANGED sinkVars, NEW w \in Workers
    PROVE  QueueOrder(w)' /\ latest' = latest
<1>0. /\ queue \in [Workers -> Seq(1..MaxEvents)] /\ queue[w] \in Seq(Int) /\ event[w] \in Nat /\ latest \in Nat
      /\ event \in [Workers -> 0..MaxEvents]
  BY OrderTypes
<1>1. QueueOrder(w)
  BY DEF OrderInv
<1>2. latest' = latest
  BY DEF SinkSteps, WorkerSteps, Save, Reload, Swap, SwapClosed, SwapDone,
       PublishBegins, PublishReturns,
     StartWorker, StopWorker, WorkerStopped, CloseStops, CloseStopped, Enqueue, EnqueueFull, DropOldest,
     LoopTop, SelectQuit, Exit, SelectEvent, DeliverReturns, Close, sinkVars, publisher
<1>3. CASE queue' = queue /\ event' = event /\ UNCHANGED <<translator, publishing>>
  BY <1>1, <1>2, <1>3, QueueRests DEF Pending
<1>4. CASE PublishBegins \/ PublishReturns
  <2>1. Pending(w)' => Pending(w)
    BY <1>4 DEF Pending, PublishBegins, PublishReturns
  <2> QED BY <1>1, <1>2, <1>4, <2>1, QueueRests DEF PublishBegins,
       PublishReturns, running
<1>5. ASSUME NEW v \in Workers, v # w,
             Enqueue(v) \/ DropOldest(v) \/ SelectEvent(v) \/ Exit(v)
      PROVE  QueueOrder(w)'
  <2>1. queue'[w] = queue[w] /\ event'[w] = event[w]
    BY <1>0, <1>5 DEF Enqueue, DropOldest, SelectEvent, Exit, running
  <2>2. Pending(w)' => Pending(w)
    BY <1>5 DEF Enqueue, DropOldest, SelectEvent, Exit, publisher, Pending
  <2> QED BY <1>1, <1>2, <2>1, <2>2, QueueRests
<1>6. CASE Enqueue(w)
  <2>1. Pending(w) /\ ~Pending(w)'
    BY <1>6 DEF Enqueue, Pending, SinksInv, Phases
  <2>2. event[w] < latest /\ \A i \in DOMAIN queue[w] : queue[w][i] < latest
    BY <1>1, <2>1 DEF QueueOrder
  <2>3. /\ Rises(Append(queue[w], latest)) /\ Above(event[w], Append(queue[w], latest))
        /\ AtMost(Append(queue[w], latest), latest)
    BY <1>0, <1>1, <2>2, AppendRises DEF QueueOrder
  <2>4. queue'[w] = Append(queue[w], latest) /\ event'[w] = event[w]
    BY <1>0, <1>6 DEF Enqueue, running
  <2> QED BY <1>1, <1>2, <2>1, <2>3, <2>4 DEF QueueOrder, Rises, Above, AtMost
<1>7. CASE DropOldest(w) \/ SelectEvent(w)
  <2>1. queue[w] # <<>> /\ queue'[w] = Tail(queue[w]) /\ (Pending(w)' => Pending(w))
    BY <1>0, <1>7 DEF DropOldest, SelectEvent, Pending, publisher
  <2>2. event'[w] = event[w] \/ event'[w] = Head(queue[w])
    BY <1>0, <1>7 DEF DropOldest, SelectEvent, running
  <2>3. /\ Rises(Tail(queue[w])) /\ Above(Head(queue[w]), Tail(queue[w])) /\ Head(queue[w]) \in Int
        /\ Above(event[w], Tail(queue[w])) /\ AtMost(Tail(queue[w]), latest) /\ Head(queue[w]) <= latest
        /\ event[w] <= latest
    BY <1>0, <1>1, <2>1, TailRises DEF QueueOrder
  <2>4. Pending(w) => Head(queue[w]) < latest /\ \A i \in DOMAIN Tail(queue[w]) : Tail(queue[w])[i] < latest
    <3>1. AtMost(queue[w], latest - 1) => AtMost(Tail(queue[w]), latest - 1) /\ Head(queue[w]) <= latest - 1
      BY <1>0, <1>1, <2>1, TailRises DEF QueueOrder
    <3>2. \A i \in DOMAIN queue[w] : queue[w][i] \in Int
      BY <1>0
    <3>3. \A i \in DOMAIN Tail(queue[w]) : Tail(queue[w])[i] \in Int
      BY <1>0, <1>1, <2>1, TailRises DEF QueueOrder
    <3>4. Pending(w) => AtMost(queue[w], latest - 1)
      BY <1>0, <1>1, <3>2 DEF QueueOrder, AtMost
    <3> QED BY <1>0, <2>3, <3>1, <3>3, <3>4 DEF AtMost
  <2>5. Pending(w) => event[w] < latest
    BY <1>1 DEF QueueOrder
  <2> QED BY <1>2, <2>1, <2>2, <2>3, <2>4, <2>5 DEF QueueOrder, Rises, Above,
       AtMost
<1>8. CASE Exit(w)
  <2>1. queue'[w] = <<>> /\ event'[w] = event[w] /\ (Pending(w)' => Pending(w))
    BY <1>0, <1>8 DEF Exit, running, Pending, publisher
  <2> QED BY <1>1, <1>2, <2>1 DEF QueueOrder, Rises, Above, AtMost
<1>9. \/ queue' = queue /\ event' = event /\ UNCHANGED <<translator, publishing>>
      \/ PublishBegins \/ PublishReturns
      \/ \E v \in Workers : Enqueue(v) \/ DropOldest(v) \/ SelectEvent(v) \/ Exit(v)
  BY DEF SinkSteps, WorkerSteps, Save, Reload, Swap, SwapClosed, SwapDone,
     StartWorker, StopWorker, WorkerStopped, CloseStops, CloseStopped, EnqueueFull,
     LoopTop, SelectQuit, DeliverReturns, Close, sinkVars, publisher, running
<1> QED BY <1>2, <1>3, <1>4, <1>5, <1>6, <1>7, <1>8, <1>9

LEMMA QueuesRest ==
    ASSUME OrderInv, UNCHANGED sinkVars PROVE \A w \in Workers : QueueOrder(w)'
<1>1. UNCHANGED <<queue, event, latest, translator, publishing>>
  BY DEF sinkVars, running, publisher
<1> QED BY <1>1, QueueRests DEF OrderInv, Pending

LEMMA SentInOrder ==
    ASSUME SinksInv, BrokerTypeOK, BrokerOrder, NEW e \in Nat, e = Tick \/ e > published, Send(e)
    PROVE  /\ Rises(inbox') /\ Above(latest, inbox') /\ AtMost(inbox', IF e = Tick THEN published ELSE e)
           /\ \A i \in DOMAIN backlog : Above(backlog[i], inbox')
<1>0. inbox \in Seq(Int) /\ backlog \in Seq(Int) /\ latest \in Nat /\ published \in Nat
  BY OrderTypes
<1> DEFINE m == IF e = Tick THEN published ELSE e
<1>1. \A i \in DOMAIN inbox : inbox[i] \in Int
  BY <1>0
<1>2. m \in Nat /\ AtMost(inbox, m) /\ e <= m
  BY <1>0, <1>1 DEF BrokerOrder, AtMost, Tick
<1>3. CASE inbox' = inbox
  BY <1>2, <1>3 DEF BrokerOrder, Rises, Above, AtMost
<1>4. CASE inbox' = Append(inbox, e)
  <2>1. e = Tick \/ \A i \in DOMAIN inbox : inbox[i] < e
    BY <1>0, <1>1 DEF BrokerOrder, AtMost
  <2>2. Rises(Append(inbox, e)) /\ AtMost(Append(inbox, e), m)
    BY <1>0, <1>2, <2>1, AppendRises DEF BrokerOrder
  <2>3. latest < e \/ e = Tick
    BY <1>0 DEF BrokerOrder
  <2>4. Above(latest, Append(inbox, e))
    BY <1>0, <2>3, AppendRises DEF BrokerOrder
  <2>5. ASSUME NEW i \in DOMAIN backlog PROVE Above(backlog[i], Append(inbox, e))
    <3>1. backlog[i] \in Int /\ backlog[i] <= published /\ Above(backlog[i], inbox)
      BY <1>0 DEF BrokerOrder, AtMost
    <3>2. backlog[i] < e \/ e = Tick
      BY <1>0, <3>1
    <3> QED BY <1>0, <3>1, <3>2, AppendRises DEF BrokerOrder
  <2> QED BY <1>4, <2>2, <2>4, <2>5
<1> QED BY <1>3, <1>4 DEF Send

LEMMA ReadInOrder == ASSUME SinksInv, BrokerTypeOK, BrokerOrder, Read PROVE BrokerOrder'
<1>0. inbox \in Seq(Int) /\ backlog \in Seq(Int) /\ latest \in Nat /\ published \in Nat /\ inbox # <<>>
  BY OrderTypes DEF Read
<1> DEFINE e == Head(inbox)
<1>1. /\ e \in Int /\ Tail(inbox) \in Seq(Int) /\ Rises(Tail(inbox)) /\ Above(e, Tail(inbox))
      /\ Above(latest, Tail(inbox)) /\ (latest < e \/ e = Tick) /\ AtMost(Tail(inbox), published) /\ e <= published
  BY <1>0, TailRises DEF BrokerOrder
<1>2. ASSUME NEW i \in DOMAIN backlog
      PROVE  backlog[i] \in Int /\ Above(backlog[i], Tail(inbox)) /\ (backlog[i] < e \/ e = Tick)
  <2>1. backlog[i] \in Int /\ Above(backlog[i], inbox)
    BY <1>0 DEF BrokerOrder
  <2> QED BY <1>0, <2>1, TailRises DEF BrokerOrder
<1>3. inbox' = Tail(inbox) /\ latest' = latest /\ published' = published
  BY DEF Read, sinkVars, publisher
<1>4. CASE backlog' = backlog
  BY <1>1, <1>2, <1>3, <1>4 DEF BrokerOrder, Rises, Above, AtMost
<1>5. CASE e # Tick /\ backlog' = Append(backlog, e)
  <2>1. /\ Rises(Append(backlog, e)) /\ Above(latest, Append(backlog, e)) /\ AtMost(Append(backlog, e), published)
    BY <1>0, <1>1, <1>2, <1>5, AppendRises DEF BrokerOrder
  <2>2. \A i \in DOMAIN Append(backlog, e) :
           \/ i \in DOMAIN backlog /\ Append(backlog, e)[i] = backlog[i]
           \/ Append(backlog, e)[i] = e
    BY <1>0, <1>1
  <2>3. \A i \in DOMAIN backlog : backlog[i] # Tick
    BY DEF BrokerOrder
  <2>4. \A i \in DOMAIN Append(backlog, e) : Append(backlog, e)[i] # Tick /\ Above(Append(backlog, e)[i], Tail(inbox))
    BY <1>1, <1>2, <1>5, <2>2, <2>3
  <2> HIDE DEF e
  <2> QED BY <1>0, <1>1, <1>3, <1>5, <2>1, <2>4 DEF BrokerOrder
<1> QED BY <1>4, <1>5 DEF Read

LEMMA TranslatedInOrder == ASSUME SinksInv, BrokerTypeOK, OrderInv, TranslateNext PROVE OrderInv'
<1>0. /\ inbox \in Seq(Int) /\ backlog \in Seq(Int) /\ latest \in Nat /\ published \in Nat /\ backlog # <<>>
      /\ \A w \in Workers : queue[w] \in Seq(Int) /\ event[w] \in Nat
  BY OrderTypes DEF TranslateNext
<1> DEFINE e == Head(backlog)
<1>1. /\ e \in Int /\ Tail(backlog) \in Seq(Int) /\ Rises(Tail(backlog)) /\ Above(e, Tail(backlog))
      /\ (latest < e \/ e = Tick) /\ AtMost(Tail(backlog), published) /\ e <= published
  BY <1>0, TailRises DEF OrderInv, BrokerOrder
<1>2. /\ Len(backlog) \in Nat /\ Len(backlog) >= 1 /\ e = backlog[1] /\ DOMAIN backlog = 1..Len(backlog)
      /\ DOMAIN Tail(backlog) = 1..(Len(backlog) - 1)
      /\ \A i \in 1..(Len(backlog) - 1) : Tail(backlog)[i] = backlog[i + 1]
  BY <1>0, FirstAndRest
<1>3. e # Tick /\ Above(e, inbox)
  <2>1. 1 \in DOMAIN backlog
    BY <1>2
  <2> QED BY <1>2, <2>1 DEF OrderInv, BrokerOrder
<1>4. \A i \in DOMAIN Tail(backlog) : Tail(backlog)[i] # Tick /\ Above(Tail(backlog)[i], inbox)
  <2>1. \A i \in 1..(Len(backlog) - 1) : i + 1 \in 1..Len(backlog)
    BY <1>2
  <2> QED BY <1>2, <2>1 DEF OrderInv, BrokerOrder
<1>5. /\ inbox' = inbox /\ backlog' = Tail(backlog) /\ latest' = e /\ published' = published
      /\ queue' = queue /\ event' = event
  BY DEF TranslateNext, Translate, running
<1>6. BrokerOrder'
  <2>1. Rises(inbox) /\ AtMost(inbox, published)
    BY DEF OrderInv, BrokerOrder
  <2> HIDE DEF e
  <2> QED BY <1>1, <1>3, <1>4, <1>5, <2>1 DEF BrokerOrder
<1>7. ASSUME NEW w \in Workers PROVE QueueOrder(w)'
  <2>1. /\ Rises(queue[w]) /\ Above(event[w], queue[w]) /\ event[w] <= latest /\ AtMost(queue[w], latest)
        /\ event[w] \in Int /\ \A i \in DOMAIN queue[w] : queue[w][i] \in Int
    BY <1>0 DEF OrderInv, QueueOrder
  <2>2. event[w] < e /\ \A i \in DOMAIN queue[w] : queue[w][i] < e
    BY <1>0, <1>1, <1>3, <2>1 DEF AtMost
  <2>3. event[w] <= e /\ AtMost(queue[w], e)
    BY <1>1, <2>1, <2>2 DEF AtMost
  <2> HIDE DEF e
  <2> QED BY <1>5, <2>1, <2>2, <2>3 DEF QueueOrder
<1> QED BY <1>6, <1>7 DEF OrderInv

LEMMA OrderStep ==
    ASSUME SinksInv, BrokerTypeOK, OrderInv, BrokerNext \/ UNCHANGED brokerVars PROVE OrderInv'
<1>0. BrokerOrder
  BY DEF OrderInv
<1>1. CASE BrokerPublish
  <2>1. Send(published + 1) /\ published + 1 > published /\ published + 1 # Tick /\ published + 1 \in Nat
    BY <1>1, OrderTypes DEF BrokerPublish, Tick
  <2>2. /\ Rises(inbox') /\ Above(latest, inbox') /\ AtMost(inbox', published + 1)
        /\ \A i \in DOMAIN backlog : Above(backlog[i], inbox')
    BY <1>0, <2>1, SentInOrder
  <2>3. published' = published + 1 /\ backlog' = backlog /\ latest' = latest /\ UNCHANGED sinkVars
    BY <1>1 DEF BrokerPublish, sinkVars, publisher
  <2>4. latest <= published + 1 /\ AtMost(backlog, published + 1)
    <3>1. backlog \in Seq(Int) /\ latest \in Nat /\ published \in Nat
      BY OrderTypes
    <3>2. \A i \in DOMAIN backlog : backlog[i] \in Int
      BY <3>1
    <3> QED BY <1>0, <3>1, <3>2 DEF BrokerOrder, AtMost
  <2>5. BrokerOrder'
    BY <1>0, <2>2, <2>3, <2>4 DEF BrokerOrder
  <2> QED BY <2>3, <2>5, QueuesRest DEF OrderInv
<1>2. CASE NowPlaying
  <2>1. Send(Tick) /\ Tick \in Nat /\ UNCHANGED <<sinkVars, published, backlog, latest>>
    BY <1>2 DEF NowPlaying, Tick, sinkVars, publisher
  <2>2. /\ Rises(inbox') /\ Above(latest, inbox') /\ AtMost(inbox', published)
        /\ \A i \in DOMAIN backlog : Above(backlog[i], inbox')
    BY <1>0, <2>1, SentInOrder
  <2>3. BrokerOrder'
    BY <1>0, <2>1, <2>2 DEF BrokerOrder
  <2> QED BY <2>1, <2>3, QueuesRest DEF OrderInv
<1>3. CASE Read
  <2>1. UNCHANGED sinkVars
    BY <1>3 DEF Read
  <2> QED BY <1>0, <1>3, <2>1, ReadInOrder, QueuesRest DEF OrderInv
<1>4. CASE TranslateNext
  BY <1>4, TranslatedInOrder
<1>5. CASE ReadEnds \/ Unsubscribe \/ UNCHANGED brokerVars
  <2>1. UNCHANGED <<sinkVars, inbox, backlog, published, latest>>
    BY <1>5 DEF ReadEnds, Unsubscribe, brokerVars, broker, sinkVars, publisher
  <2>2. BrokerOrder'
    BY <1>0, <2>1 DEF BrokerOrder, Rises, Above, AtMost
  <2> QED BY <2>1, <2>2, QueuesRest DEF OrderInv
<1>6. CASE CloseDispatcher \/ (SinkSteps /\ UNCHANGED broker)
  <2>1. UNCHANGED <<inbox, backlog, published>> /\ (SinkSteps \/ Close)
    BY <1>6 DEF CloseDispatcher, broker
  <2>2. \A w \in Workers : QueueOrder(w)'
    BY <2>1, QueuesInOrder
  <2>3. latest' = latest
    BY <2>1 DEF SinkSteps, WorkerSteps, Save, Reload, Swap, SwapClosed,
         SwapDone, PublishBegins, PublishReturns,
     StartWorker, StopWorker, WorkerStopped, CloseStops, CloseStopped, Enqueue, EnqueueFull, DropOldest,
     LoopTop, SelectQuit, Exit, SelectEvent, DeliverReturns, Close, publisher
  <2>4. BrokerOrder'
    BY <1>0, <2>1, <2>3 DEF BrokerOrder, Rises, Above, AtMost
  <2> QED BY <2>2, <2>4 DEF OrderInv
<1> QED BY <1>1, <1>2, <1>3, <1>4, <1>5, <1>6 DEF BrokerNext

LEMMA OrderInit == BrokerInit => OrderInv
  BY DEF BrokerInit, SinksInit, OrderInv, BrokerOrder, QueueOrder, Pending,
       Rises, Above, AtMost

LEMMA OrderGivesLines == ASSUME SinksInv, BrokerTypeOK, OrderInv PROVE InOrder
<1> SUFFICES ASSUME NEW w \in Workers PROVE Rises(Line(w))
  BY DEF InOrder
<1> DEFINE here == IF Pending(w) THEN <<latest>> ELSE <<>>
           a == <<event[w]>> \o queue[w]
           b == a \o here
           c == b \o backlog
<1>0. /\ inbox \in Seq(Int) /\ backlog \in Seq(Int) /\ latest \in Int /\ queue[w] \in Seq(Int) /\ event[w] \in Int
  BY OrderTypes
<1>1. QueueOrder(w) /\ BrokerOrder
  BY DEF OrderInv
<1>2. <<event[w]>> \in Seq(Int) /\ Rises(<<event[w]>>) /\ Under(<<event[w]>>, queue[w])
  <2>1. Under(<<event[w]>>, queue[w])
    BY <1>1 DEF Under, QueueOrder
  <2> QED BY <1>0, <2>1, OneRises
<1>3. a \in Seq(Int) /\ Rises(a)
  BY <1>0, <1>1, <1>2, Joined DEF QueueOrder
<1>4. here \in Seq(Int) /\ Rises(here)
  BY <1>0, OneRises, NoneRises
<1>5. Under(a, here)
  <2>1. Under(<<event[w]>>, here) /\ Under(queue[w], here)
    BY <1>1 DEF Under, Above, QueueOrder
  <2> QED BY <1>0, <1>2, <2>1, JoinedUnder
<1>6. b \in Seq(Int) /\ Rises(b)
  BY <1>3, <1>4, <1>5, Joined
<1>7. ASSUME NEW t \in Seq(Int), Above(latest, t) PROVE Under(b, t)
  <2>1. AtMost(<<event[w]>>, latest) /\ AtMost(queue[w], latest) /\ AtMost(here, latest)
    BY <1>0, <1>1 DEF AtMost, QueueOrder
  <2>2. Under(<<event[w]>>, t) /\ Under(queue[w], t) /\ Under(here, t)
    BY <1>0, <1>2, <1>4, <1>7, <2>1, AtMostUnder
  <2>3. Under(a, t)
    BY <1>0, <1>2, <2>2, JoinedUnder
  <2> QED BY <1>3, <1>4, <2>2, <2>3, JoinedUnder
<1>8. c \in Seq(Int) /\ Rises(c)
  BY <1>0, <1>1, <1>6, <1>7, Joined DEF BrokerOrder
<1>9. Under(c, inbox)
  <2>1. Under(b, inbox) /\ Under(backlog, inbox)
    BY <1>0, <1>1, <1>7 DEF BrokerOrder, Under
  <2> QED BY <1>0, <1>6, <2>1, JoinedUnder
<1>10. Rises(c \o inbox)
  BY <1>0, <1>1, <1>8, <1>9, Joined DEF BrokerOrder
<1>11. Line(w) = c \o inbox
  BY DEF Line, Pending
<1> QED BY <1>10, <1>11

(* EveryEventOnce: a sink's tally adds up, and a worker is sent events in  *)
(* the order they happened, each once at most.                             *)
THEOREM NoEventTwice == BrokerSpec => []EveryEventOnce
<1>1. BrokerInit => OrderInv
  BY OrderInit
<1>2. OrderInv /\ SinksGood /\ BrokerTypeOK /\ [BrokerNext]_brokerVars => OrderInv'
  BY OrderStep DEF SinksGood
<1>3. OrderInv /\ SinksGood /\ BrokerTypeOK => EveryEventOnce
  BY OrderGivesLines DEF SinksGood, EveryEventOnce
<1> QED BY <1>1, <1>2, <1>3, GoodAlways, PTL DEF BrokerSpec
=============================================================================
