---------------------------- MODULE SegmentGate ----------------------------
(***************************************************************************)
(* internal/playback/remux.go, gatedSegment: how a segment of a video copy *)
(* gets from ffmpeg to the player.  One ffmpeg at a time (HlsRuntime says  *)
(* which) writes segments in order from where it was started, either in    *)
(* place (the segment muxer of a TS copy, gateSequential) or under a       *)
(* temporary name it renames (the hls muxer of an fMP4 copy).  A request   *)
(* looks at the directory to decide whether to restart ffmpeg at its       *)
(* segment, and when to read the file.                                     *)
(***************************************************************************)
EXTENDS Integers

CONSTANTS Requests,  \* media requests in flight
          Last,      \* the last segment of the playlist
          Window     \* the window of nearFrontier

Segments == 0..Last

VARIABLES
    gateSequential,  \* hlsRuntime.gateSequential: ffmpeg writes in place
    disk,            \* what is under each segment's final name
    tmp,             \* segments with a .tmp, whoever left it
    job,             \* the current ffmpeg job: "none", "running", "ended"
    jobExited,       \* hlsRuntime.jobExited
    startNumber,     \* the segment it was started at
    writing,         \* the segment it is at, and whether it has opened it
    pc, wants, got,  \* each request: where it is, its segment, what it read
    crashed          \* history: a job ended inside a segment

ffmpeg  == <<job, jobExited, startNumber, writing>>
vars == <<gateSequential, disk, tmp, ffmpeg, pc, wants, got, crashed>>

TypeOK ==
    /\ gateSequential \in BOOLEAN
    /\ disk \in [Segments -> {"none", "partial", "whole"}]
    /\ tmp \subseteq Segments
    /\ job \in {"none", "running", "ended"} /\ jobExited \in BOOLEAN
    /\ startNumber \in Segments
    /\ writing \in [at : 0..(Last + 1), open : BOOLEAN]
    /\ job = "running" => startNumber <= writing.at /\ ~jobExited
    /\ gateSequential /\ job = "running" /\ writing.open => disk[writing.at] = "partial"
    /\ pc \in [Requests -> {"idle", "jumping", "waiting", "reading"}]
    /\ wants \in [Requests -> Segments]
    /\ got \in [Requests -> {"none", "partial", "whole"}]
    /\ crashed \in BOOLEAN

Init ==
    /\ gateSequential \in BOOLEAN
    /\ disk = [n \in Segments |-> "none"] /\ tmp = {}
    /\ job = "running" /\ jobExited = FALSE /\ startNumber = 0
    /\ writing = [at |-> 0, open |-> FALSE]
    /\ pc = [r \in Requests |-> "idle"]
    /\ wants = [r \in Requests |-> 0]
    /\ got = [r \in Requests |-> "none"]
    /\ crashed = FALSE

fileExists(n) == n \in Segments /\ disk[n] # "none"

\* nearFrontier: a few segments from the start, or a recent predecessor exists
\* (as the .tmp of the hls muxer, too).
nearFrontier(n) ==
    \/ n - startNumber <= Window
    \/ \E m \in (n - Window)..(n - 1) : fileExists(m) \/ m \in tmp

\* The jump rule of gatedSegment.
Jump(n) == n < startNumber \/ (n > startNumber /\ ~nearFrontier(n))

\* ffmpeg opens its next segment; in place, the old content is gone.
OpenSegment ==
    /\ job = "running" /\ ~writing.open /\ writing.at <= Last
    /\ writing' = [writing EXCEPT !.open = TRUE]
    /\ IF gateSequential THEN disk' = [disk EXCEPT ![writing.at] = "partial"] /\ UNCHANGED tmp
       ELSE tmp' = tmp \cup {writing.at} /\ UNCHANGED disk
    /\ UNCHANGED <<gateSequential, job, jobExited, startNumber, pc, wants, got, crashed>>

FinishSegment ==
    /\ job = "running" /\ writing.open
    /\ writing' = [at |-> writing.at + 1, open |-> FALSE]
    /\ disk' = [disk EXCEPT ![writing.at] = "whole"]
    /\ tmp' = tmp \ {writing.at}
    /\ UNCHANGED <<gateSequential, job, jobExited, startNumber, pc, wants, got, crashed>>

\* The job ends, at the end of the File or before, and its watcher has run.
JobExits ==
    /\ job = "running"
    /\ job' = "ended" /\ jobExited' = TRUE
    /\ crashed' = (crashed \/ writing.open)
    /\ UNCHANGED <<gateSequential, disk, tmp, startNumber, writing, pc, wants, got>>

\* The watcher of a killed job that has no successor runs.
KilledJobExits ==
    /\ job = "none" /\ ~jobExited
    /\ jobExited' = TRUE
    /\ UNCHANGED <<gateSequential, disk, tmp, job, startNumber, writing, pc, wants, got, crashed>>

\* A request for a segment; gatedRealign decides under mu.
Ask(r, n) ==
    /\ pc[r] = "idle"
    /\ wants' = [wants EXCEPT ![r] = n]
    /\ got' = [got EXCEPT ![r] = "none"]
    /\ pc' = [pc EXCEPT ![r] = IF job = "none" \/ Jump(n) THEN "jumping" ELSE "waiting"]
    /\ UNCHANGED <<gateSequential, disk, tmp, ffmpeg, crashed>>

\* What a request may realign to: its own segment, or the lowest one asked for in
\* the burst window it opened.
Targets(r) == {wants[q] : q \in {p \in Requests : pc[p] = "jumping" /\ wants[p] <= wants[r]}}

\* realignIf, at the end of the burst window: the rule is asked again; ffmpeg
\* is killed and another started at n, or cannot be.
Realign(r) == pc[r] = "jumping" /\ \E n \in Targets(r) :
    /\ \/ /\ job # "none" /\ ~Jump(n)
          /\ pc' = [pc EXCEPT ![r] = "waiting"]
          /\ UNCHANGED <<ffmpeg, crashed>>
       \/ /\ job = "none" \/ Jump(n)
          /\ job' = "running" /\ jobExited' = FALSE
          /\ startNumber' = n /\ writing' = [at |-> n, open |-> FALSE]
          /\ pc' = [pc EXCEPT ![r] = "waiting"]
          /\ UNCHANGED crashed
       \/ /\ job = "none" \/ Jump(n)
          /\ job' = "none"
          /\ pc' = [pc EXCEPT ![r] = "idle"]
          /\ UNCHANGED <<jobExited, startNumber, writing, crashed>>
    /\ UNCHANGED <<gateSequential, disk, tmp, wants, got>>

\* The gate: a file that is renamed into place is whole when it exists; one
\* written in place when the next exists, or nobody writes any more.
GateOpens(n) == gateSequential => jobExited \/ fileExists(n + 1)

PassGate(r) ==
    /\ pc[r] = "waiting" /\ GateOpens(wants[r])
    /\ pc' = [pc EXCEPT ![r] = "reading"]
    /\ UNCHANGED <<gateSequential, disk, tmp, ffmpeg, wants, got, crashed>>

\* waitReadFile returns whatever is there, once something is.
ReadFile(r) ==
    /\ pc[r] = "reading" /\ fileExists(wants[r])
    /\ pc' = [pc EXCEPT ![r] = "idle"]
    /\ got' = [got EXCEPT ![r] = disk[wants[r]]]
    /\ UNCHANGED <<gateSequential, disk, tmp, ffmpeg, wants, crashed>>

\* hlsSegmentTimeout: the request is answered 404.
TimeOut(r) ==
    /\ pc[r] \in {"waiting", "reading"}
    /\ pc' = [pc EXCEPT ![r] = "idle"]
    /\ UNCHANGED <<gateSequential, disk, tmp, ffmpeg, wants, got, crashed>>

Next == \/ OpenSegment \/ FinishSegment \/ JobExits \/ KilledJobExits
        \/ \E r \in Requests : \/ \E n \in Segments : Ask(r, n)
                               \/ Realign(r) \/ PassGate(r) \/ ReadFile(r) \/ TimeOut(r)

Spec == Init /\ [][Next]_vars

-----------------------------------------------------------------------------
(* What remux.go:98 says of gateSequential: a segment is served once its   *)
(* successor exists or the job has exited, "so a read can never return a   *)
(* half-written file"; the ones ffmpeg itself left half-written aside.     *)
NeverHalfWritten == \A r \in Requests : got[r] = "partial" => crashed
=============================================================================
