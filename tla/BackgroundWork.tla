---------------------------- MODULE BackgroundWork ----------------------------
(***************************************************************************)
(* The two heavy jobs of the Server on their one lane: the Seek preview    *)
(* generator's run loop and Marker detection, each client of the lane that *)
(* BackgroundLane models.  Of the generator's work only how many Files     *)
(* wait is kept; SeekPreviews models what it does with each.               *)
(***************************************************************************)
EXTENDS MarkerDetection, BackgroundLane

CONSTANTS Generator, Detector,  \* the two workers
          MaxPreviews           \* bound: Files that wait for previews

ASSUME WorkConstants ==
    /\ Generator # Detector /\ Clients = {Generator, Detector}
    /\ Prio[Generator] < Prio[Detector]
    /\ MaxPreviews \in Nat

VARIABLES
    previews,   \* Files queued for Seek previews
    generator,  \* where the generator's worker is in run
    server

detection == <<files, toggle, busy, stored, queue, detector, history>>
workVars  == <<vars, detection, previews, generator, server>>

WorkTypes == /\ DetectionTypes /\ TypeOK
             /\ previews \in 0..MaxPreviews
             /\ generator \in {"wait", "drain", "ask", "step", "done"}
             /\ server \in {"up", "closing", "ending", "down"}

\* Backfill has queued what there is.
WorkInit == /\ DetectionInit /\ Init
            /\ previews = MaxPreviews /\ generator = "wait" /\ server = "up"

\* Close ends the detector's context and waits for it, then the generator's.
Stopping(c) == server = "ending" \/ (server = "closing" /\ c = Detector)

-----------------------------------------------------------------------------
(* The generator: a claim for the drain, the lane for each File.           *)

Queue ==
    /\ server = "up" /\ previews < MaxPreviews /\ Spend /\ previews' = previews + 1
    /\ UNCHANGED <<vars, files, toggle, busy, stored, queue, detector, overtaken, generator, server>>

\* Mutant of GeneratorClaims: the lane is asked for without a claim.
GeneratorDrains ==
    /\ generator = "wait" /\ previews > 0 /\ generator' = "drain"
    /\ UNCHANGED <<vars, detection, previews, server>>

GeneratorClaims ==
    /\ generator = "wait" /\ previews > 0 /\ generator' = "drain"
    /\ Claim(Generator)
    /\ UNCHANGED <<detection, previews, server>>

GeneratorAsks ==
    /\ generator = "drain" /\ previews > 0 /\ ~Stopping(Generator) /\ generator' = "ask"
    /\ Acquire(Generator)
    /\ UNCHANGED <<detection, previews, server>>

\* One File; a safe point lies before it.
GeneratorSteps ==
    /\ generator = "ask" /\ pc[Generator] = "holding"
    /\ Stopping(Generator) \/ ~busy
    /\ generator' = "step" /\ previews' = IF Stopping(Generator) THEN previews ELSE previews - 1
    /\ UNCHANGED <<vars, detection, server>>

GeneratorReleases ==
    /\ generator = "step" /\ generator' = "drain"
    /\ Release(Generator)
    /\ UNCHANGED <<detection, previews, server>>

\* Acquire came back with ctx's error.
GeneratorGivesUp ==
    /\ generator = "ask" /\ pc[Generator] = "idle" /\ generator' = "drain"
    /\ UNCHANGED <<vars, detection, previews, server>>

GeneratorUnclaims ==
    /\ generator = "drain" /\ (previews = 0 \/ Stopping(Generator))
    /\ generator' = IF Stopping(Generator) THEN "done" ELSE "wait"
    /\ Unclaim(Generator)
    /\ UNCHANGED <<detection, previews, server>>

GeneratorLeaves ==
    /\ generator = "wait" /\ previews = 0 /\ Stopping(Generator) /\ generator' = "done"
    /\ UNCHANGED <<vars, detection, previews, server>>

GeneratorLoop ==
    \/ GeneratorClaims \/ GeneratorAsks \/ GeneratorSteps \/ GeneratorReleases
    \/ GeneratorGivesUp \/ GeneratorUnclaims \/ GeneratorLeaves

-----------------------------------------------------------------------------
(* The detector.                                                           *)

DetectorAsks ==
    /\ \E s \in Seasons : AskLane(s)
    /\ Acquire(Detector)
    /\ UNCHANGED <<previews, generator, server>>

DetectorBegins ==
    /\ pc[Detector] = "holding" /\ Begin
    /\ UNCHANGED <<vars, previews, generator, server>>

DetectorWorks ==
    /\ DetectSeason
    /\ UNCHANGED <<vars, previews, generator, server>>

DetectorReleases ==
    /\ detector.at = "failed" => ~Stopping(Detector)
    /\ SeasonDone
    /\ Release(Detector)
    /\ UNCHANGED <<previews, generator, server>>

\* Mutant of DetectorCutShort: a safe point waits for the Transcode to end.
DetectorCutShortWhenFree ==
    /\ Stopping(Detector) /\ ~busy /\ detector.at \in {"listen", "decoded", "failed"} /\ Leave
    /\ Release(Detector)
    /\ UNCHANGED <<previews, generator, server>>

\* A decoder is killed, a safe point sees ctx ended or an error finds it so: the
\* lane goes back, and the worker ends.
DetectorCutShort ==
    /\ Stopping(Detector) /\ detector.at \in {"listen", "decoded", "failed"} /\ Leave
    /\ Release(Detector)
    /\ UNCHANGED <<previews, generator, server>>

DetectorGivesUp ==
    /\ detector.at = "ask" /\ pc[Detector] = "idle" /\ Leave
    /\ UNCHANGED <<vars, previews, generator, server>>

DetectorLeaves ==
    /\ Stopping(Detector) /\ detector.at = "wait" /\ queue = <<>> /\ Leave
    /\ UNCHANGED <<vars, previews, generator, server>>

DetectorTakes ==
    /\ NextJob \/ Resolve \/ JobDone
    /\ UNCHANGED <<vars, previews, generator, server>>

DetectorLoop ==
    \/ DetectorTakes \/ DetectorAsks \/ DetectorBegins \/ DetectorWorks \/ DetectorReleases
    \/ DetectorCutShort \/ DetectorGivesUp \/ DetectorLeaves

-----------------------------------------------------------------------------
(* Inside Acquire, and the context that Close ends.                        *)

InAcquire(c) ==
    /\ \/ Wake(c)
       \/ Stopping(c) /\ ContextEnds(c)
       \/ LeaveQueue(c)
       \/ pc[c] = "handing" /\ Release(c)
    /\ UNCHANGED <<detection, previews, generator, server>>

FromOutside(A) == server = "up" /\ A /\ UNCHANGED <<vars, previews, generator, server>>

Outside ==
    \/ \E f \in Files : FromOutside(Rewrite(f) \/ ScanRow(f))
    \/ FromOutside(Toggle \/ Transcode \/ AfterScan \/ DetectShow)

\* Transcodes are reaped at shutdown after the workers have ended.
Close ==
    /\ server = "up" /\ Spend /\ server' = "closing"
    /\ UNCHANGED <<vars, files, toggle, busy, stored, queue, detector, overtaken, previews, generator>>

DetectorClosed ==
    /\ server = "closing" /\ detector.at = "done" /\ server' = "ending"
    /\ UNCHANGED <<vars, detection, previews, generator>>

Closed ==
    /\ server = "ending" /\ generator = "done" /\ server' = "down"
    /\ queue' = <<>> /\ detector' = Idle /\ previews' = 0 /\ generator' = "wait"
    /\ UNCHANGED <<vars, files, toggle, busy, stored, history>>

\* Backfill queues previews again; detection waits for the next scan.
Boot ==
    /\ server = "down" /\ server' = "up" /\ previews' = MaxPreviews
    /\ UNCHANGED <<vars, detection, generator>>

WorkNext ==
    \/ server # "down" /\ (GeneratorLoop \/ DetectorLoop \/ \E c \in Clients : InAcquire(c))
    \/ Queue \/ Outside \/ Close \/ DetectorClosed \/ Closed \/ Boot

WorkSpec == WorkInit /\ [][WorkNext]_workVars

(***************************************************************************)
(* Goroutines run, scans are scheduled and write the rows they find, and a *)
(* Server that is closed is started again.  No Transcode has to end.       *)
(***************************************************************************)
WorkFairness ==
    /\ WF_workVars(server # "down" /\ GeneratorLoop) /\ WF_workVars(server # "down" /\ DetectorLoop)
    /\ \A c \in Clients : WF_workVars(server # "down" /\ InAcquire(c))
    /\ \A f \in Files : WF_workVars(FromOutside(ScanRow(f)))
    /\ WF_workVars(FromOutside(AfterScan))
    /\ WF_workVars(DetectorClosed) /\ WF_workVars(Closed) /\ WF_workVars(Boot)

WorkFairSpec == WorkSpec /\ WorkFairness

-----------------------------------------------------------------------------
Listening == detector.at \in {"listen", "decoded", "save", "release", "failed"}

(* One heavy job at a time: the generator is at a File and the detector at *)
(* a Season only as the lane's one owner, and whatever a shutdown cut      *)
(* short, a lane nobody owns is free for the other.                        *)
OneAtWork ==
    /\ OneOwner
    /\ generator = "step" => Owns(Generator)
    /\ Listening => Owns(Detector)

(* Every preview that is queued when the generator takes its turn goes     *)
(* before the next Season: the detector never comes to own the lane        *)
(* between two Files of one drain.                                         *)
PreviewsGoFirst ==
    [][~Owns(Detector) /\ Owns(Detector)' =>
          generator \in {"wait", "done"} \/ (generator = "drain" /\ (previews = 0 \/ Stopping(Generator)))]_workVars

(* Scans come for ever, but listening does not: once nothing changes and   *)
(* Transcodes leave it alone, every File the detector can hear is heard    *)
(* and the others are given up.  Queued previews do not starve it.         *)
HearingEnds ==
    <>[](~busy /\ toggle) =>
       <>[](/\ detector.at \notin {"listen", "decoded", "save"}
            /\ \A f \in Files \ broken : analyzed[f] = version[f] \/
                  \A g \in Files : SeasonOf[g] = SeasonOf[f] /\ EpisodeOf[g] # EpisodeOf[f] => g \in broken)

(* A shutdown ends, whatever each worker is waiting for: the lane, each    *)
(* other or a Transcode that goes on for good.                             *)
ShutsDown == server = "closing" ~> server = "down"
===============================================================================
