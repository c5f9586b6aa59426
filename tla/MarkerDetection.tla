--------------------------- MODULE MarkerDetection ---------------------------
(***************************************************************************)
(* internal/markerdetect: the Detector that listens to a Season's Files,   *)
(* compares them and saves the Markers it heard.  One worker drains a      *)
(* queue of jobs, a scanned Library or a Show an Admin asked for, and      *)
(* takes the background lane for each Season; how it gets the lane is      *)
(* BackgroundWork's subject, which composes this module with the lane.     *)
(*                                                                         *)
(* A version stands for a File's mtime, and for the sound it has.  What a  *)
(* comparison finds is left out: only whose sound a File's Markers come    *)
(* from is kept.  Every File of a Season is compared with every other of   *)
(* another Episode, as in a Season of at most Partners + 1.                *)
(***************************************************************************)
EXTENDS Naturals, Sequences, FiniteSets

CONSTANTS Files, Episodes, EpisodeOf,  \* two Files may be one Episode
          Seasons, SeasonOf,
          MaxFailures,  \* maxDecodeFailures
          MaxVersion,   \* bound: how often a File's bytes change
          MaxEvents,    \* bound: what happens to the two workers from outside
          None, Failed

\* One Library, of one Show: a job is the one or the other.
Jobs == {"library", "show"}

ASSUME DetectionConstants ==
    /\ EpisodeOf \in [Files -> Episodes] /\ SeasonOf \in [Files -> Seasons]
    /\ MaxFailures \in Nat \ {0} /\ MaxVersion \in Nat /\ MaxEvents \in Nat
    /\ None \notin Seasons \cup Nat \cup {Failed} /\ Failed \notin Nat

VARIABLES
    version,   \* the files row's mtime
    bytes,     \* the version on disk
    broken,    \* Files whose bytes no decoder can read
    toggle,    \* library_marker_detection
    busy,      \* a Transcode is running
    analyzed,  \* marker_detection_files: the mtime each was heard at
    failures,  \* marker_detection_failures: how often in a row, and at what mtime
    soundOf,   \* the version each File's Detected Markers come from
    queue,     \* Detector.queue
    detector,  \* the worker
    overtaken, \* Files whose row changed between their listening and their save, until the next
    events

stored  == <<analyzed, failures, soundOf>>
files   == <<version, bytes, broken>>
history == <<overtaken, events>>

Versions == 0..MaxVersion
Idle == [at |-> "wait", job |-> None, seasons |-> {}, season |-> None, unheard |-> {},
         given |-> {}, todo |-> {}, file |-> None, heard |-> [f \in Files |-> None]]

DetectionTypes ==
    /\ version \in [Files -> Versions] /\ bytes \in [Files -> Versions] /\ broken \subseteq Files
    /\ toggle \in BOOLEAN /\ busy \in BOOLEAN
    /\ analyzed \in [Files -> Versions \cup {None}] /\ soundOf \in [Files -> Versions \cup {None}]
    /\ failures \in [Files -> [count : 0..MaxFailures, of : Versions]]
    /\ queue \in Seq(Jobs) /\ overtaken \subseteq Files /\ events \in 0..MaxEvents

DetectionInit ==
    /\ version = [f \in Files |-> 0] /\ bytes = version
    /\ broken \in SUBSET Files
    /\ toggle = TRUE /\ busy = FALSE
    /\ analyzed = [f \in Files |-> None] /\ soundOf = [f \in Files |-> None]
    /\ failures = [f \in Files |-> [count |-> 0, of |-> 0]]
    /\ queue = <<>> /\ detector = Idle
    /\ overtaken = {} /\ events = 0

Spend == events < MaxEvents /\ events' = events + 1

-----------------------------------------------------------------------------
(* What comes from outside.                                                *)

\* A File is replaced by another, which may or may not be decodable.
Rewrite(f) ==
    /\ bytes[f] < MaxVersion /\ Spend
    /\ bytes' = [bytes EXCEPT ![f] = @ + 1]
    /\ broken' \in {broken \ {f}, broken \cup {f}}
    /\ UNCHANGED <<version, toggle, busy, stored, queue, detector, overtaken>>

ScanRow(f) ==
    /\ version[f] # bytes[f]
    /\ version' = [version EXCEPT ![f] = bytes[f]]
    /\ overtaken' = IF detector.heard[f] # None THEN overtaken \cup {f} ELSE overtaken
    /\ UNCHANGED <<bytes, broken, toggle, busy, stored, queue, detector, events>>

Toggle ==
    /\ Spend /\ toggle' = ~toggle
    /\ UNCHANGED <<files, busy, stored, queue, detector, overtaken>>

Transcode ==
    /\ busy' = ~busy
    /\ IF busy THEN UNCHANGED events ELSE Spend
    /\ UNCHANGED <<files, toggle, stored, queue, detector, overtaken>>

\* AfterScan, for every scan there is.
AfterScan ==
    /\ \A i \in DOMAIN queue : queue[i] # "library"
    /\ queue' = Append(queue, "library")
    /\ UNCHANGED <<files, toggle, busy, stored, detector, history>>

DetectShow ==
    /\ Spend
    /\ queue' = <<"show">> \o SelectSeq(queue, LAMBDA j : j # "show")
    /\ UNCHANGED <<files, toggle, busy, stored, detector, overtaken>>

-----------------------------------------------------------------------------
(* The worker up to a Season and after it.                                 *)

Detecting(at) == detector' = [detector EXCEPT !.at = at]
WorkerOnly    == UNCHANGED <<files, toggle, busy, stored, queue, history>>

NextJob ==
    /\ detector.at = "wait" /\ queue # <<>>
    /\ detector' = [Idle EXCEPT !.at = "resolve", !.job = Head(queue)]
    /\ queue' = Tail(queue)
    /\ UNCHANGED <<files, toggle, busy, stored, history>>

\* seasonsOf: the toggle and the Files as they are now, for every Season of the
\* job.  When the store fails the job is over.
Resolve ==
    /\ detector.at = "resolve"
    /\ \/ /\ detector.job = "library" /\ ~toggle
          /\ detector' = Idle /\ UNCHANGED events
       \/ /\ detector.job = "show" \/ toggle
          /\ detector' = [detector EXCEPT !.at = "season", !.seasons = Seasons,
                !.unheard = {f \in Files : analyzed[f] # version[f]},
                !.given = {f \in Files : failures[f].count >= MaxFailures /\ failures[f].of = version[f]}]
          /\ UNCHANGED events
       \/ Spend /\ detector' = Idle
    /\ UNCHANGED <<files, toggle, busy, stored, queue, overtaken>>

JobDone ==
    /\ detector.at = "season" /\ detector.seasons = {}
    /\ detector' = Idle /\ WorkerOnly

\* inLane: asks for the lane, to have it or to be told that ctx ended.
AskLane(s) ==
    /\ detector.at = "season" /\ s \in detector.seasons
    /\ detector' = [detector EXCEPT !.at = "ask", !.season = s, !.seasons = @ \ {s}]
    /\ WorkerOnly

Forced == detector.job = "show"

\* The Files that this run listens to: all but those given up, unless forced.
Listened == {f \in Files : SeasonOf[f] = detector.season /\ (Forced \/ f \notin detector.given)}

Begin ==
    /\ detector.at = "ask"
    /\ IF /\ Forced \/ \E f \in Listened : f \in detector.unheard
          /\ Cardinality({EpisodeOf[f] : f \in Listened}) > 1
       THEN detector' = [detector EXCEPT !.at = "listen", !.todo = Listened]
       ELSE Detecting("release")
    /\ WorkerOnly

SeasonDone ==
    /\ detector.at \in {"release", "failed"}
    /\ detector' = [detector EXCEPT !.at = "season", !.season = None, !.todo = {}, !.file = None,
                                    !.heard = [f \in Files |-> None]]
    /\ WorkerOnly

Leave == detector' = [Idle EXCEPT !.at = "done"] /\ WorkerOnly

-----------------------------------------------------------------------------
(* detectSeason, between safe points.  A File that cannot be decoded is    *)
(* Failed; one that could is known by the version it was heard at.       *)

Listen(f) ==
    /\ detector.at = "listen" /\ f \in detector.todo /\ ~busy
    /\ detector' = [detector EXCEPT !.at = "decoded", !.file = f, !.todo = @ \ {f},
                          !.heard = [@ EXCEPT ![f] = IF f \in broken THEN Failed ELSE bytes[f]]]
    /\ UNCHANGED <<files, toggle, busy, stored, queue, history>>

\* Mutant of RecordDecode: the count starts again with every run.
RecordDecodeAnew ==
    /\ detector.at = "decoded"
    /\ LET f == detector.file IN
       /\ failures' = [failures EXCEPT ![f] =
              IF detector.heard[f] # Failed THEN [count |-> 0, of |-> 0]
              ELSE [count |-> 1, of |-> version[f]]]
       /\ Detecting("listen")
    /\ UNCHANGED <<files, toggle, busy, analyzed, soundOf, queue, history>>

\* At the mtime the row has now.  When the store fails the Season is over.
RecordDecode ==
    /\ detector.at = "decoded"
    /\ LET f == detector.file
           before == IF failures[f].of = version[f] THEN failures[f].count ELSE 0
       IN \/ /\ failures' = [failures EXCEPT ![f] =
                    IF detector.heard[f] # Failed THEN [count |-> 0, of |-> 0]
                    ELSE [count |-> IF before < MaxFailures THEN before + 1 ELSE before,
                          of |-> version[f]]]
             /\ Detecting("listen") /\ UNCHANGED events
          \/ Spend /\ Detecting("failed") /\ UNCHANGED failures
    /\ UNCHANGED <<files, toggle, busy, analyzed, soundOf, queue, overtaken>>

Partners(f) == {g \in Files : detector.heard[g] # None /\ EpisodeOf[g] # EpisodeOf[f]}

\* Mutant of Saved: Files that could not be decoded are saved like the others.
SavedAll == {f \in Files : detector.heard[f] # None}

\* Not the failed ones, nor those that had only failed ones to be compared with.
Saved == {f \in Files :
            /\ detector.heard[f] \notin {None, Failed}
            /\ Partners(f) # {} => \E g \in Partners(f) : detector.heard[g] # Failed}

\* There is no safe point where there is nothing to compare.
Compare ==
    /\ detector.at = "listen" /\ detector.todo = {}
    /\ busy => \A f, g \in Saved : EpisodeOf[f] = EpisodeOf[g]
    /\ detector' = [detector EXCEPT !.at = "save", !.todo = Saved]
    /\ WorkerOnly

\* SaveDetectedMarkers: also at the mtime the row has now.
Save(f) ==
    /\ detector.at = "save" /\ f \in detector.todo
    /\ \/ /\ analyzed' = [analyzed EXCEPT ![f] = version[f]]
          /\ soundOf' = [soundOf EXCEPT ![f] =
                 IF detector.heard[f] = Failed THEN None ELSE detector.heard[f]]
          /\ detector' = [detector EXCEPT !.todo = @ \ {f}]
          /\ overtaken' = IF detector.heard[f] = version[f] THEN overtaken \ {f} ELSE overtaken
          /\ UNCHANGED events
       \/ Spend /\ Detecting("failed") /\ UNCHANGED <<analyzed, soundOf, overtaken>>
    /\ UNCHANGED <<files, toggle, busy, failures, queue>>

SavesDone ==
    /\ detector.at = "save" /\ detector.todo = {}
    /\ Detecting("release") /\ WorkerOnly

DetectSeason == \/ RecordDecode \/ Compare \/ SavesDone
                \/ \E f \in Files : Listen(f) \/ Save(f)

-----------------------------------------------------------------------------
(* A File that counts as heard at its current version was: its Markers     *)
(* come from that sound, whichever runs failed, were forced or cut short.  *)
(* Only a row that changes between the listening and the save, which       *)
(* stamps the mtime it finds, makes it say so of a version nobody heard.   *)
HeardAtItsVersion ==
    \A f \in Files : analyzed[f] = version[f] /\ bytes[f] = version[f] /\ f \notin overtaken
                        => soundOf[f] = version[f]
=============================================================================
