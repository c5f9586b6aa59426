-------------------------- MODULE EnrichmentProofs --------------------------
(***************************************************************************)
(* For any providers, ids, policies, requests and bounds: the Title tells  *)
(* its record, and the stored policy takes.  Three layers, each inductive  *)
(* on top of the one before: JobInv says what a job holds where it is, and *)
(* that one at a time is inside the Library's lock; RecordInv that what it *)
(* has read still stands, but for the picks and edits that overtook it;    *)
(* PolicyInv that after a change of policy neither the cache nor a job     *)
(* keeps the old one longer than until the full pass begins.               *)
(***************************************************************************)
EXTENDS Enrichment, TLAPS

\* A job under the Library's lock.
Inside(w) == job[w].pc \in {"ready", "asking"}

\* What a job holds of what it has read follows from where it is.
Sound(w, j) ==
    /\ IF j.pc \in {"ready", "asking"} THEN j.snap \in Policies /\ j.copy \in Copies
       ELSE j.snap = None
    /\ j.pc \in {"idle", "picked"} => j.copy = None
    /\ w = Pass /\ j.pc = "waiting" => j.copy = None
    /\ w = Pass /\ j.pc = "idle" => j.mode = None
    /\ w \in Requests => j.mode = None /\ (j.pc = "waiting" => j.copy \in Copies)
    /\ j.pc = "asking" => j.snap.lead # Off /\ ~Orphaned(j.snap, j.copy)

JobsHold ==
    /\ \A w \in Workers : Sound(w, job[w])
    /\ \A r \in Requests : job[r].pc # "idle" => record.chosen

OneInside == \A v, w \in Workers : Inside(v) /\ Inside(w) => v = w

\* An id or a choice is never without a record in use.
Whole(c) ==
    /\ \A n \in Namespaces : c.ids[n] # None => HasRecord(c)
    /\ c.chosen => HasRecord(c)

\* The Title read is the Title, but for a job a pick has overtaken.
CopiesAreCurrent ==
    \A w \in Workers : job[w].copy # None /\ ~job[w].old /\ ~torn => job[w].copy = record

\* The locks seen are the locks, but for a job an edit has overtaken.
LocksAreCurrent ==
    \A w \in Workers : job[w].pc = "asking" =>
        /\ locked /\ ~job[w].late => job[w].locks
        /\ job[w].locks /\ ~tornEdit => shows = Hand

JobInv    == EnrichmentTypes /\ JobsHold /\ OneInside
RecordInv == JobInv /\ Whole(record) /\ CopiesAreCurrent /\ LocksAreCurrent /\ TellsItsRecord

FullQueued  == \E i \in 1..Len(queue) : queue[i] = "full"
FullWaiting == job[Pass].pc = "waiting" /\ job[Pass].mode = "full"

\* The cache has been dropped since the policy was stored, or need not be.
Invalidated == saver = "invalidated" \/ (saver = "idle" /\ ~unapplied)

\* The last change of policy, if any, has its pass behind it or with the worker.
Handed == ~unapplied /\ saver = "idle" /\ ~FullQueued

\* Once a change is invalidated nothing of the old policy is found, and once
\* its pass has begun nobody is left who took it.
CacheIsCurrent  == Invalidated => cache \in {None, policy}
SnapsAreCurrent == Handed /\ ~FullWaiting => \A w \in Workers : job[w].snap \in {None, policy}

\* The Title is as the policy would have it.
Fits ==
    IF policy.lead = Off THEN status \in {"pending", "disabled"}
    ELSE /\ status # "disabled"
         /\ status = "matched" /\ shows # Hand /\ ~tornEdit =>
                shows[1] = Asked(policy, record) /\ ~Orphaned(policy, record)

FitsUnlessOwed ==
    Handed /\ ~torn /\ job[Pass].mode # "full" => Fits

PolicyInv == RecordInv /\ CacheIsCurrent /\ SnapsAreCurrent /\ FitsUnlessOwed

-----------------------------------------------------------------------------
(* What a write makes of a record.                                         *)

LEMMA ReplacedRecord ==
    ASSUME NEW c \in Copies, NEW n \in Namespaces, NEW id \in Ids
    PROVE  LET r == Replaced(c, n, id)
           IN r \in Copies /\ r.chosen = c.chosen /\ Whole(r) /\ RecordOf(r) = <<n, id>>
BY EnrichmentConstants DEF Replaced, Copies, Whole, HasRecord, RecordOf

LEMMA FilledRecord ==
    ASSUME NEW c \in Copies, NEW n \in Namespaces, NEW id \in Ids
    PROVE  LET r == Filled(c, n, id)
           IN /\ r \in Copies /\ r.chosen = c.chosen
              /\ Whole(c) => Whole(r)
              /\ c.ids[n] # None => r = c
              /\ Whole(c) /\ ~Replaces(c, n) /\ (c.chosen => c.ns = n) /\ id \in Hits(c, n)
                     => RecordOf(r) = <<n, id>>
<1> USE EnrichmentConstants DEF Copies, HasRecord
<1>1. CASE c.ids[n] # None
  BY <1>1 DEF Filled, Whole, Replaces, RecordOf, Hits
<1>2. CASE c.ids[n] = None
  <2>1. Filled(c, n, id) = [c EXCEPT !.ids[n] = id, !.ns = IF c.ns # n /\ HasRecord(c) THEN c.ns ELSE n]
    BY <1>2 DEF Filled
  <2>2. Filled(c, n, id) \in Copies /\ Filled(c, n, id).chosen = c.chosen
    BY <2>1
  <2>3. HasRecord(Filled(c, n, id))
    BY <2>1
  <2>4. ASSUME Whole(c), ~Replaces(c, n), c.chosen => c.ns = n
        PROVE  RecordOf(Filled(c, n, id)) = <<n, id>>
    BY <1>2, <2>1, <2>4 DEF Whole, Replaces, RecordOf
  <2> QED
    BY <1>2, <2>2, <2>3, <2>4 DEF Whole
<1> QED
  BY <1>1, <1>2

LEMMA AskedNamespace ==
    ASSUME NEW p \in Policies, NEW c \in Copies, p.lead # Off
    PROVE  Asked(p, c) \in Namespaces /\ \A id \in Hits(c, Asked(p, c)) : id \in Ids
BY EnrichmentConstants DEF Asked, Pinned, HasRecord, Copies, Hits

-----------------------------------------------------------------------------
(* What a job holds.                                                       *)

LEMMA NoJobType == NoJob \in Jobs
BY DEF NoJob, Jobs, Snaps

\* Where no job moves and no choice goes, the jobs hold what they held.
LEMMA JobsHoldStill ==
    ASSUME JobsHold, OneInside, UNCHANGED job, record.chosen => record'.chosen
    PROVE  JobsHold' /\ OneInside'
BY DEF JobsHold, OneInside, Inside

LEMMA Becoming ==
    ASSUME EnrichmentTypes, NEW w \in Workers, NEW j \in Jobs, Become(w, j)
    PROVE  /\ job' \in [Workers -> Jobs] /\ job'[w] = j
           /\ \A v \in Workers : v # w => job'[v] = job[v]
BY DEF EnrichmentTypes, Become

\* A job moves: it holds what it should, and enters only where nobody is.
LEMMA JobMoves ==
    ASSUME EnrichmentTypes, JobsHold, OneInside, NEW w \in Workers, NEW j \in Jobs,
           Become(w, j), Sound(w, j), record.chosen => record'.chosen,
           w \in Requests /\ j.pc # "idle" => record'.chosen,
           j.pc \notin {"ready", "asking"} \/ Inside(w) \/ ~LockHeld
    PROVE  /\ job' \in [Workers -> Jobs] /\ job'[w] = j
           /\ \A v \in Workers : v # w => job'[v] = job[v]
           /\ JobsHold' /\ OneInside'
<1>1. /\ job' \in [Workers -> Jobs] /\ job'[w] = j
      /\ \A v \in Workers : v # w => job'[v] = job[v]
  BY Becoming
<1>2. \A v \in Workers : Sound(v, job'[v])
  BY <1>1 DEF JobsHold
<1>3. ASSUME NEW r \in Requests, job'[r].pc # "idle" PROVE record'.chosen
  BY <1>1, <1>3 DEF JobsHold, Workers
<1>4. OneInside'
  BY <1>1 DEF OneInside, Inside, LockHeld
<1> QED
  BY <1>1, <1>2, <1>3, <1>4 DEF JobsHold

\* A job that goes back to nothing disturbs no other.
LEMMA JobDone ==
    ASSUME EnrichmentTypes, JobsHold, OneInside, NEW w \in Workers, Become(w, NoJob),
           record.chosen => record'.chosen
    PROVE  job' \in [Workers -> Jobs] /\ JobsHold' /\ OneInside'
<1>1. NoJob.pc = "idle" /\ Sound(w, NoJob)
  BY DEF NoJob, Sound
<1> QED
  BY <1>1, NoJobType, JobMoves

LEMMA EnqueueType ==
    ASSUME EnrichmentTypes, NEW m \in Modes, Enqueue(m)
    PROVE  queue' \in Seq(Modes) /\ Len(queue') <= MaxQueue
BY EnrichmentConstants DEF EnrichmentTypes, Enqueue

LEMMA JobInvInit == EnrichmentInit => JobInv
<1> SUFFICES ASSUME EnrichmentInit PROVE JobInv
  OBVIOUS
<1>1. EnrichmentTypes
  <2>1. record \in Copies
    BY DEF EnrichmentInit, Copies
  <2>2. job \in [Workers -> Jobs] /\ queue \in Seq(Modes) /\ Len(queue) = 0
    BY NoJobType DEF EnrichmentInit
  <2>3. Len(queue) <= MaxQueue /\ moves \in 0..MaxMoves
    BY <2>2, EnrichmentConstants DEF EnrichmentInit
  <2>4. /\ shows = None /\ status = "pending" /\ retry = "no" /\ locked = FALSE
        /\ policy \in Policies /\ cache = None /\ saver = "idle" /\ worker = "up"
        /\ picked = None /\ torn = FALSE /\ tornEdit = FALSE /\ unapplied = FALSE
    BY DEF EnrichmentInit
  <2> QED
    BY <2>1, <2>2, <2>3, <2>4 DEF EnrichmentTypes, Snaps
<1>2. JobsHold /\ OneInside
  BY DEF EnrichmentInit, JobsHold, Sound, OneInside, Inside, NoJob, Workers
<1> QED
  BY <1>1, <1>2 DEF JobInv

LEMMA JobInvStep == JobInv /\ [EnrichmentNext]_eVars => JobInv'
<1> SUFFICES ASSUME JobInv, [EnrichmentNext]_eVars PROVE JobInv'
  OBVIOUS
<1> USE EnrichmentConstants
<1>0. EnrichmentTypes /\ JobsHold /\ OneInside
  BY DEF JobInv
<1>e. Effective \in Policies
  BY <1>0 DEF EnrichmentTypes, Effective, Snaps
<1>a. \A w \in Workers : job[w] \in Jobs
  BY <1>0 DEF EnrichmentTypes
<1>1. CASE UNCHANGED eVars
  <2>1. EnrichmentTypes'
    BY <1>0, <1>1 DEF eVars, rows, memory, history, EnrichmentTypes
  <2> QED
    BY <1>0, <1>1, <2>1, JobsHoldStill DEF eVars, rows, JobInv
<1>2. CASE Sweep
  <2>1. EnrichmentTypes'
    BY <1>0, <1>2, <1>e, EnqueueType DEF Sweep, rows, history, EnrichmentTypes, Snaps, Modes
  <2> QED
    BY <1>0, <1>2, <2>1, JobsHoldStill DEF Sweep, rows, JobInv
<1>3. ASSUME NEW m \in Modes, StartEnrichPass(m) PROVE JobInv'
  <2>1. EnrichmentTypes'
    BY <1>0, <1>3, EnqueueType DEF StartEnrichPass, Move, rows, history, EnrichmentTypes
  <2> QED
    BY <1>0, <1>3, <2>1, JobsHoldStill DEF StartEnrichPass, rows, JobInv
<1>4. ASSUME NEW p \in Policies, SavePolicy(p) PROVE JobInv'
  <2>1. EnrichmentTypes'
    BY <1>0, <1>4 DEF SavePolicy, Move, rows, history, EnrichmentTypes
  <2> QED
    BY <1>0, <1>4, <2>1, JobsHoldStill DEF SavePolicy, rows, JobInv
<1>5. CASE SaveFails \/ InvalidateLibrary
  <2>1. saver' \in {"idle", "invalidated"} /\ cache' \in Snaps /\ unapplied' \in BOOLEAN
    BY <1>0, <1>5 DEF SaveFails, InvalidateLibrary, history, EnrichmentTypes, Snaps
  <2>2. UNCHANGED <<rows, policy, queue, worker, job, picked, torn, tornEdit, moves>>
    BY <1>5 DEF SaveFails, InvalidateLibrary, history
  <2>3. EnrichmentTypes'
    BY <1>0, <2>1, <2>2 DEF rows, EnrichmentTypes
  <2> QED
    BY <1>0, <2>2, <2>3, JobsHoldStill DEF rows, JobInv
<1>6. CASE EnqueueFull
  <2>1. EnrichmentTypes'
    BY <1>0, <1>6, EnqueueType DEF EnqueueFull, rows, EnrichmentTypes, Modes
  <2> QED
    BY <1>0, <1>6, <2>1, JobsHoldStill DEF EnqueueFull, rows, JobInv
<1>7. CASE Dequeue
  <2> DEFINE j == [NoJob EXCEPT !.pc = "waiting", !.mode = Head(queue)]
  <2>1. /\ queue' \in Seq(Modes) /\ Len(queue') <= MaxQueue /\ Head(queue) \in Modes
    BY <1>0, <1>7 DEF Dequeue, EnrichmentTypes
  <2>2. j \in Jobs /\ Pass \in Workers /\ j.pc = "waiting" /\ j.snap = None /\ j.copy = None
    BY <2>1 DEF NoJob, Jobs, Snaps, Workers
  <2>3. job' \in [Workers -> Jobs] /\ JobsHold' /\ OneInside'
    <3>1. Sound(Pass, j)
      BY <2>2 DEF Sound
    <3>2. Become(Pass, j) /\ UNCHANGED record
      BY <1>7 DEF Dequeue, rows
    <3> QED
      BY <1>0, <2>2, <3>1, <3>2, JobMoves
  <2>4. EnrichmentTypes'
    BY <1>0, <1>7, <2>1, <2>3 DEF Dequeue, rows, history, EnrichmentTypes
  <2> QED
    BY <2>3, <2>4 DEF JobInv
<1>8. CASE BeginPass
  <2>1. CASE Selects(job[Pass].mode)
    <3> DEFINE j == [job[Pass] EXCEPT !.pc = "ready", !.snap = Effective, !.copy = record]
    <3>0. record \in Copies /\ job[Pass] \in Jobs /\ Pass \in Workers /\ Sound(Pass, job[Pass])
      BY <1>0, <1>a DEF EnrichmentTypes, Workers, JobsHold
    <3>1. /\ j \in Jobs /\ j.pc = "ready" /\ j.snap = Effective /\ j.copy = record
          /\ j.mode = job[Pass].mode
      BY <3>0, <1>e DEF Jobs, Snaps
    <3>2. Sound(Pass, j)
      BY <1>e, <3>0, <3>1 DEF Sound
    <3>3. Become(Pass, j) /\ UNCHANGED record /\ ~LockHeld
      BY <1>8, <2>1 DEF BeginPass, rows
    <3>4. job' \in [Workers -> Jobs] /\ JobsHold' /\ OneInside'
      BY <1>0, <3>0, <3>1, <3>2, <3>3, JobMoves
    <3>5. EnrichmentTypes'
      BY <1>0, <1>8, <1>e, <3>4 DEF BeginPass, rows, history, EnrichmentTypes, Snaps
    <3> QED
      BY <3>4, <3>5 DEF JobInv
  <2>2. CASE ~Selects(job[Pass].mode)
    <3>1. Pass \in Workers /\ Become(Pass, NoJob) /\ UNCHANGED record
      BY <1>8, <2>2 DEF BeginPass, Workers, rows
    <3>2. job' \in [Workers -> Jobs] /\ JobsHold' /\ OneInside'
      BY <1>0, <3>1, JobDone
    <3>3. EnrichmentTypes'
      BY <1>0, <1>8, <1>e, <3>2 DEF BeginPass, rows, history, EnrichmentTypes, Snaps
    <3> QED
      BY <3>2, <3>3 DEF JobInv
  <2> QED
    BY <2>1, <2>2
<1>9. CASE PassStops
  <2>1. Pass \in Workers /\ Become(Pass, NoJob) /\ UNCHANGED record
    BY <1>9 DEF PassStops, Workers, rows
  <2>2. job' \in [Workers -> Jobs] /\ JobsHold' /\ OneInside'
    BY <1>0, <2>1, JobDone
  <2>3. EnrichmentTypes'
    BY <1>0, <1>9, <2>2 DEF PassStops, rows, memory, EnrichmentTypes
  <2> QED
    BY <2>2, <2>3 DEF JobInv
<1>10. ASSUME NEW r \in Requests, NEW n \in Namespaces, NEW id \in Ids, Pick(r, n, id)
       PROVE  JobInv'
  <2>1. /\ record' \in Copies /\ record'.chosen /\ <<n, id>> \in Records
    BY <1>0, <1>10 DEF Pick, EnrichmentTypes, Copies, Records
  <2>2. \A w \in Workers :
            /\ w = r => job'[w] = [NoJob EXCEPT !.pc = "picked"]
            /\ w # r => job'[w] = [job[w] EXCEPT !.old = job[w].copy # None]
    BY <1>10 DEF Pick
  <2>3. job' \in [Workers -> Jobs]
    BY <1>10, <1>a DEF Pick, Jobs, NoJob, Snaps
  <2>a. /\ status' = "pending" /\ retry' = "no" /\ picked' = <<n, id>> /\ torn' = FALSE
        /\ moves' \in 0..MaxMoves
        /\ UNCHANGED <<shows, locked, policy, memory, tornEdit, unapplied>>
    BY <1>0, <1>10 DEF Pick, Move, EnrichmentTypes
  <2>4. EnrichmentTypes'
    BY <1>0, <2>a, <2>1, <2>3 DEF memory, EnrichmentTypes
  <2>5. ASSUME NEW w \in Workers, w # r
        PROVE  /\ job'[w].pc = job[w].pc /\ job'[w].mode = job[w].mode
               /\ job'[w].snap = job[w].snap /\ job'[w].copy = job[w].copy
    <3>1. job'[w] = [job[w] EXCEPT !.old = job[w].copy # None] /\ job[w] \in Jobs
      BY <2>2, <2>5, <1>a
    <3> QED
      BY <3>1 DEF Jobs
  <2>6. r # Pass /\ job'[r].pc = "picked" /\ job'[r].mode = None /\ job'[r].snap = None /\ job'[r].copy = None
    BY <2>2 DEF NoJob, Workers
  <2>7. JobsHold' /\ OneInside'
    <3>1. \A w \in Workers : Sound(w, job'[w])
      BY <1>0, <2>5, <2>6 DEF JobsHold, Sound
    <3>2. OneInside'
      BY <1>0, <2>5, <2>6 DEF OneInside, Inside
    <3> QED
      BY <2>1, <3>1, <3>2 DEF JobsHold
  <2> QED
    BY <2>4, <2>7 DEF JobInv
<1>11. ASSUME NEW r \in Requests, ReadPicked(r) PROVE JobInv'
  <2> DEFINE j == [job[r] EXCEPT !.pc = "waiting", !.copy = record]
  <2>0. record \in Copies /\ job[r] \in Jobs /\ r \in Workers /\ r # Pass /\ Sound(r, job[r])
    BY <1>0, <1>a DEF EnrichmentTypes, Workers, JobsHold
  <2>1. /\ j \in Jobs /\ j.pc = "waiting" /\ j.mode = job[r].mode /\ j.snap = job[r].snap
        /\ j.copy = record
    BY <2>0 DEF Jobs
  <2>2. Become(r, j) /\ UNCHANGED record /\ job[r].pc = "picked"
    BY <1>11 DEF ReadPicked, rows
  <2>3. Sound(r, j) /\ record'.chosen
    BY <1>0, <2>0, <2>1, <2>2 DEF Sound, JobsHold
  <2>4. job' \in [Workers -> Jobs] /\ JobsHold' /\ OneInside'
    BY <1>0, <2>0, <2>1, <2>2, <2>3, JobMoves
  <2>5. EnrichmentTypes'
    BY <1>0, <1>11, <2>4 DEF ReadPicked, rows, memory, history, EnrichmentTypes
  <2> QED
    BY <2>4, <2>5 DEF JobInv
<1>12. ASSUME NEW r \in Requests, BeginRequest(r) PROVE JobInv'
  <2> DEFINE j == [job[r] EXCEPT !.pc = "ready", !.snap = Effective]
  <2>0. job[r] \in Jobs /\ r \in Workers /\ r # Pass /\ Sound(r, job[r])
    BY <1>0, <1>a DEF Workers, JobsHold
  <2>1. /\ j \in Jobs /\ j.pc = "ready" /\ j.mode = job[r].mode /\ j.snap = Effective
        /\ j.copy = job[r].copy
    BY <1>e, <2>0 DEF Jobs, Snaps
  <2>2. Become(r, j) /\ UNCHANGED record /\ job[r].pc = "waiting" /\ ~LockHeld
    BY <1>12 DEF BeginRequest, rows
  <2>3. job[r].copy \in Copies
    BY <2>0, <2>2 DEF Sound
  <2>4. Sound(r, j) /\ record'.chosen
    BY <1>0, <1>e, <2>0, <2>1, <2>2, <2>3 DEF Sound, JobsHold
  <2>5. job' \in [Workers -> Jobs] /\ JobsHold' /\ OneInside'
    BY <1>0, <2>0, <2>1, <2>2, <2>4, JobMoves
  <2>6. EnrichmentTypes'
    BY <1>0, <1>12, <1>e, <2>5 DEF BeginRequest, rows, history, EnrichmentTypes, Snaps
  <2> QED
    BY <2>5, <2>6 DEF JobInv
<1>13. ASSUME NEW w \in Workers, Ask(w) PROVE JobInv'
  <2> DEFINE j == [job[w] EXCEPT !.pc = "asking", !.locks = locked]
  <2>0. locked \in BOOLEAN /\ job[w] \in Jobs /\ Sound(w, job[w])
    BY <1>0, <1>a DEF EnrichmentTypes, JobsHold
  <2>1. /\ j \in Jobs /\ j.pc = "asking" /\ j.mode = job[w].mode /\ j.snap = job[w].snap
        /\ j.copy = job[w].copy
    BY <2>0 DEF Jobs
  <2>2. /\ Become(w, j) /\ UNCHANGED record /\ job[w].pc = "ready"
        /\ job[w].snap.lead # Off /\ ~Orphaned(job[w].snap, job[w].copy)
    BY <1>13 DEF Ask, rows
  <2>3. Sound(w, j) /\ Inside(w) /\ (w \in Requests => record'.chosen)
    BY <1>0, <2>0, <2>1, <2>2 DEF Sound, JobsHold, Inside
  <2>4. job' \in [Workers -> Jobs] /\ JobsHold' /\ OneInside'
    BY <1>0, <2>0, <2>1, <2>2, <2>3, JobMoves
  <2>5. EnrichmentTypes'
    BY <1>0, <1>13, <2>4 DEF Ask, rows, memory, history, EnrichmentTypes
  <2> QED
    BY <2>4, <2>5 DEF JobInv
<1>14. ASSUME NEW w \in Workers, Match(w) PROVE JobInv'
  <2>1. Become(w, NoJob)
    BY <1>14 DEF Match, Settle
  <2> DEFINE n == Asked(job[w].snap, job[w].copy)
  <2>2. job[w].snap \in Policies /\ job[w].copy \in Copies /\ job[w].snap.lead # Off
    BY <1>0, <1>14 DEF Match, JobsHold, Sound
  <2>3. PICK id \in Hits(job[w].copy, n) : WriteTitleEnrichment(w, n, id)
    BY <1>14 DEF Match
  <2>4. n \in Namespaces /\ id \in Ids
    BY <2>2, <2>3, AskedNamespace
  <2>5. record' \in Copies /\ record'.chosen = record.chosen
    BY <1>0, <2>3, <2>4, ReplacedRecord, FilledRecord DEF WriteTitleEnrichment, EnrichmentTypes
  <2>6. job' \in [Workers -> Jobs] /\ JobsHold' /\ OneInside'
    BY <1>0, <2>1, <2>5, JobDone
  <2>7. shows' \in Records \cup {None, Hand} /\ torn' \in BOOLEAN /\ tornEdit' \in BOOLEAN
    BY <1>0, <1>a, <2>3, <2>4 DEF WriteTitleEnrichment, EnrichmentTypes, Records, Jobs
  <2>8. EnrichmentTypes'
    BY <1>0, <1>14, <2>5, <2>6, <2>7 DEF Match, Settle, memory, EnrichmentTypes
  <2> QED
    BY <2>6, <2>8 DEF JobInv
<1>15. ASSUME NEW w \in Workers, Disable(w) \/ Orphan(w) \/ NoMatch(w) \/ Postpone(w) \/ Park(w)
       PROVE  JobInv'
  <2>1. Become(w, NoJob) /\ UNCHANGED record
    BY <1>15 DEF Disable, Orphan, NoMatch, Postpone, Park, Settle
  <2>2. job' \in [Workers -> Jobs] /\ JobsHold' /\ OneInside'
    BY <1>0, <2>1, JobDone
  <2>3. EnrichmentTypes'
    BY <1>0, <1>15, <2>2 DEF Disable, Orphan, NoMatch, Postpone, Park, Settle, memory, history,
                             EnrichmentTypes
  <2> QED
    BY <2>2, <2>3 DEF JobInv
<1>16. CASE WriteTitleMetadata
  <2>1. \A w \in Workers :
            /\ job'[w] = [job[w] EXCEPT !.late = job[w].late \/ job[w].pc = "asking"]
            /\ job'[w].pc = job[w].pc /\ job'[w].mode = job[w].mode
            /\ job'[w].snap = job[w].snap /\ job'[w].copy = job[w].copy
    BY <1>16, <1>a DEF WriteTitleMetadata, Jobs
  <2>2. job' \in [Workers -> Jobs]
    BY <1>16, <1>a DEF WriteTitleMetadata, Jobs
  <2>3. EnrichmentTypes'
    <3>1. /\ shows' = Hand /\ locked' = TRUE /\ tornEdit' = FALSE /\ moves' \in 0..MaxMoves
          /\ UNCHANGED <<record, status, retry, policy, memory, picked, torn, unapplied>>
      BY <1>0, <1>16 DEF WriteTitleMetadata, Move, EnrichmentTypes
    <3> QED
      BY <1>0, <3>1, <2>2 DEF memory, EnrichmentTypes
  <2>4. JobsHold' /\ OneInside'
    <3>1. ASSUME NEW w \in Workers PROVE Sound(w, job'[w])
      <4>1. /\ job'[w].pc = job[w].pc /\ job'[w].mode = job[w].mode
            /\ job'[w].snap = job[w].snap /\ job'[w].copy = job[w].copy
        BY <2>1
      <4>2. Sound(w, job[w])
        BY <1>0 DEF JobsHold
      <4> QED
        BY <4>1, <4>2 DEF Sound
    <3>2. OneInside'
      BY <1>0, <2>1 DEF OneInside, Inside
    <3> QED
      BY <1>0, <1>16, <2>1, <3>1, <3>2 DEF WriteTitleMetadata, JobsHold, Workers
  <2> QED
    BY <2>3, <2>4 DEF JobInv
<1>17. CASE RetryComesDue \/ ReleaseFieldLock \/ Close \/ Restart
  <2>1. /\ retry' \in {"no", "later", "due"} /\ locked' \in BOOLEAN
        /\ UNCHANGED <<record, status, shows, policy, cache, saver, queue, job>>
    BY <1>0, <1>17 DEF RetryComesDue, ReleaseFieldLock, Close, Restart, rows, memory, EnrichmentTypes
  <2>2. worker' \in {"up", "closing", "down"} /\ moves' \in 0..MaxMoves
    BY <1>0, <1>17 DEF RetryComesDue, ReleaseFieldLock, Close, Restart, Move, memory, EnrichmentTypes
  <2>3. UNCHANGED <<picked, torn, tornEdit, unapplied>>
    BY <1>17 DEF RetryComesDue, ReleaseFieldLock, Close, Restart, history
  <2>4. EnrichmentTypes'
    BY <1>0, <2>1, <2>2, <2>3 DEF EnrichmentTypes
  <2> QED
    BY <1>0, <2>1, <2>4, JobsHoldStill DEF JobInv
<1>18. CASE Exit \/ Crash
  <2>1. End /\ moves' \in 0..MaxMoves
    BY <1>0, <1>18 DEF Exit, Crash, Move, EnrichmentTypes
  <2>2. EnrichmentTypes'
    BY <1>0, <2>1, NoJobType DEF End, PolicyUnderWay, rows, EnrichmentTypes, Snaps
  <2>3. JobsHold' /\ OneInside'
    BY <2>1 DEF End, JobsHold, Sound, OneInside, Inside, NoJob, Workers
  <2> QED
    BY <2>2, <2>3 DEF JobInv
<1>19. ASSUME NEW w \in Workers, JobFails(w) PROVE JobInv'
  <2>1. Become(w, NoJob) /\ UNCHANGED record
    BY <1>19 DEF JobFails, rows
  <2>2. job' \in [Workers -> Jobs] /\ JobsHold' /\ OneInside'
    BY <1>0, <2>1, JobDone
  <2>3. cache' \in Snaps /\ unapplied' \in BOOLEAN /\ moves' \in 0..MaxMoves
    BY <1>0, <1>e, <1>19 DEF JobFails, Move, EnrichmentTypes, Snaps
  <2>4. UNCHANGED <<rows, policy, saver, queue, worker, picked, torn, tornEdit>>
    BY <1>19 DEF JobFails
  <2>5. EnrichmentTypes'
    BY <1>0, <2>2, <2>3, <2>4 DEF rows, EnrichmentTypes
  <2> QED
    BY <2>2, <2>5 DEF JobInv
<1> QED
  BY <1>1, <1>2, <1>3, <1>4, <1>5, <1>6, <1>7, <1>8, <1>9, <1>10, <1>11, <1>12, <1>13, <1>14,
     <1>15, <1>16, <1>17, <1>18, <1>19 DEF EnrichmentNext, JobStep

(* Every variable keeps its type, whoever asks, picks, edits or crashes.   *)
THEOREM EnrichmentIsTyped == EnrichmentSpec => []EnrichmentTypes
<1>1. JobInv => EnrichmentTypes
  BY DEF JobInv
<1> QED
  BY <1>1, JobInvInit, JobInvStep, PTL DEF EnrichmentSpec

-----------------------------------------------------------------------------
(* What the Title tells.                                                   *)

\* A step that leaves the Title alone but for its status; what a job knows of
\* it is what it knew, or is read in this step.
LeavesTitle ==
    /\ UNCHANGED <<record, shows, locked, picked, torn, tornEdit>>
    /\ status' = status \/ status' # "matched"
    /\ \A w \in Workers :
          \/ job'[w] = job[w]
          \/ job'[w].copy \in {None, record} /\ job'[w].pc # "asking"
          \/ /\ job'[w].copy = job[w].copy /\ job'[w].old = job[w].old
             /\ job'[w].pc # "asking" \/ job'[w].locks = locked

WritesTitle ==
    \/ \E r \in Requests, n \in Namespaces, id \in Ids : Pick(r, n, id)
    \/ \E w \in Workers : Match(w)
    \/ WriteTitleMetadata \/ ReleaseFieldLock

LEMMA TheRestLeaveTheTitle == JobInv /\ [EnrichmentNext]_eVars => LeavesTitle \/ WritesTitle
<1> SUFFICES ASSUME JobInv, [EnrichmentNext]_eVars PROVE LeavesTitle \/ WritesTitle
  OBVIOUS
<1>0. /\ EnrichmentTypes /\ \A w \in Workers : job[w] \in Jobs
      /\ Pass \in Workers /\ Requests \subseteq Workers /\ Effective \in Policies
  BY DEF JobInv, EnrichmentTypes, Workers, Effective, Snaps
<1>1. ASSUME UNCHANGED <<record, status, shows, locked, picked, torn, tornEdit, job>> PROVE LeavesTitle
  BY <1>1 DEF LeavesTitle
<1>2. CASE UNCHANGED eVars
  BY <1>1, <1>2 DEF eVars, rows, history
<1>3. CASE \/ Sweep \/ (\E m \in Modes : StartEnrichPass(m)) \/ (\E p \in Policies : SavePolicy(p))
           \/ SaveFails \/ InvalidateLibrary \/ EnqueueFull
  BY <1>1, <1>3 DEF Sweep, StartEnrichPass, SavePolicy, SaveFails, InvalidateLibrary, EnqueueFull,
                    rows, history
<1>4. CASE RetryComesDue \/ Close \/ Restart
  BY <1>1, <1>4 DEF RetryComesDue, Close, Restart, rows, history
<1>5. ASSUME NEW w \in Workers, NEW j \in Jobs, Become(w, j),
             UNCHANGED <<record, shows, locked, picked, torn, tornEdit>>,
             status' = status \/ status' # "matched",
             \/ j.copy \in {None, record} /\ j.pc # "asking"
             \/ /\ j.copy = job[w].copy /\ j.old = job[w].old
                /\ j.pc # "asking" \/ j.locks = locked
      PROVE  LeavesTitle
  <2>1. job'[w] = j /\ \A v \in Workers : v # w => job'[v] = job[v]
    BY <1>0, <1>5, Becoming
  <2> QED
    BY <1>5, <2>1 DEF LeavesTitle
<1>6. ASSUME NEW w \in Workers, Become(w, NoJob),
             UNCHANGED <<record, shows, locked, picked, torn, tornEdit>>,
             status' = status \/ status' # "matched"
      PROVE  LeavesTitle
  <2>1. NoJob.copy = None /\ NoJob.pc # "asking"
    BY DEF NoJob
  <2> QED
    BY <1>5, <1>6, <2>1, NoJobType
<1>7. CASE Dequeue
  <2> DEFINE j == [NoJob EXCEPT !.pc = "waiting", !.mode = Head(queue)]
  <2>1. j \in Jobs /\ j.copy = None /\ j.pc = "waiting"
    <3>1. Head(queue) \in Modes
      BY <1>0, <1>7 DEF Dequeue, EnrichmentTypes
    <3> QED
      BY <3>1 DEF NoJob, Jobs, Snaps
  <2>2. Become(Pass, j) /\ UNCHANGED <<record, status, shows, locked, picked, torn, tornEdit>>
    BY <1>7 DEF Dequeue, rows, history
  <2> QED
    BY <1>0, <1>5, <2>1, <2>2
<1>8. CASE BeginPass
  <2>1. UNCHANGED <<record, status, shows, locked, picked, torn, tornEdit>>
    BY <1>8 DEF BeginPass, rows, history
  <2>2. CASE Selects(job[Pass].mode)
    <3> DEFINE j == [job[Pass] EXCEPT !.pc = "ready", !.snap = Effective, !.copy = record]
    <3>1. record \in Copies /\ job[Pass] \in Jobs
      BY <1>0 DEF EnrichmentTypes
    <3>2. j \in Jobs /\ j.copy = record /\ j.pc = "ready"
      BY <1>0, <3>1 DEF Jobs, Snaps
    <3>3. Become(Pass, j)
      BY <1>8, <2>2 DEF BeginPass
    <3> QED
      BY <1>0, <1>5, <2>1, <3>2, <3>3
  <2>3. CASE ~Selects(job[Pass].mode)
    BY <1>0, <1>6, <1>8, <2>1, <2>3 DEF BeginPass
  <2> QED
    BY <2>2, <2>3
<1>9. CASE PassStops \/ \E w \in Workers : JobFails(w)
  BY <1>0, <1>6, <1>9 DEF PassStops, JobFails, rows
<1>10. ASSUME NEW r \in Requests, ReadPicked(r) PROVE LeavesTitle
  <2> DEFINE j == [job[r] EXCEPT !.pc = "waiting", !.copy = record]
  <2>1. record \in Copies /\ job[r] \in Jobs /\ r \in Workers
    BY <1>0 DEF EnrichmentTypes
  <2>2. j \in Jobs /\ j.copy = record /\ j.pc = "waiting"
    BY <2>1 DEF Jobs
  <2>3. Become(r, j) /\ UNCHANGED <<record, status, shows, locked, picked, torn, tornEdit>>
    BY <1>10 DEF ReadPicked, rows, history
  <2> QED
    BY <1>5, <2>1, <2>2, <2>3
<1>11. ASSUME NEW r \in Requests, BeginRequest(r) PROVE LeavesTitle
  <2> DEFINE j == [job[r] EXCEPT !.pc = "ready", !.snap = Effective]
  <2>1. job[r] \in Jobs /\ r \in Workers
    BY <1>0
  <2>2. j \in Jobs /\ j.copy = job[r].copy /\ j.old = job[r].old /\ j.pc = "ready"
    BY <1>0, <2>1 DEF Jobs, Snaps
  <2>3. Become(r, j) /\ UNCHANGED <<record, status, shows, locked, picked, torn, tornEdit>>
    BY <1>11 DEF BeginRequest, rows, history
  <2> QED
    BY <1>5, <2>1, <2>2, <2>3
<1>12. ASSUME NEW w \in Workers, Ask(w) PROVE LeavesTitle
  <2> DEFINE j == [job[w] EXCEPT !.pc = "asking", !.locks = locked]
  <2>1. job[w] \in Jobs /\ locked \in BOOLEAN
    BY <1>0 DEF EnrichmentTypes
  <2>2. j \in Jobs /\ j.copy = job[w].copy /\ j.old = job[w].old /\ j.locks = locked
    BY <2>1 DEF Jobs
  <2>3. Become(w, j) /\ UNCHANGED <<record, status, shows, locked, picked, torn, tornEdit>>
    BY <1>12 DEF Ask, rows, history
  <2> QED
    BY <1>5, <2>2, <2>3
<1>13. ASSUME NEW w \in Workers, Disable(w) \/ Orphan(w) \/ NoMatch(w) \/ Postpone(w) \/ Park(w)
       PROVE  LeavesTitle
  <2>1. /\ Become(w, NoJob) /\ status' # "matched"
        /\ UNCHANGED <<record, shows, locked, picked, torn, tornEdit>>
    BY <1>13 DEF Disable, Orphan, NoMatch, Postpone, Park, Settle, history
  <2> QED
    BY <1>6, <2>1
<1>14. CASE Exit \/ Crash
  <2>1. /\ job' = [w \in Workers |-> NoJob]
        /\ UNCHANGED <<record, status, shows, locked, picked, torn, tornEdit>>
    BY <1>14 DEF Exit, Crash, End, rows
  <2> QED
    BY <2>1 DEF LeavesTitle, NoJob
<1> QED
  BY <1>2, <1>3, <1>4, <1>7, <1>8, <1>9, <1>10, <1>11, <1>12, <1>13, <1>14
     DEF EnrichmentNext, JobStep, WritesTitle

LEMMA RecordInvInit == EnrichmentInit => RecordInv
<1> SUFFICES ASSUME EnrichmentInit PROVE RecordInv
  OBVIOUS
<1>1. Whole(record)
  BY DEF EnrichmentInit, Whole
<1>2. CopiesAreCurrent /\ LocksAreCurrent
  BY DEF EnrichmentInit, NoJob, CopiesAreCurrent, LocksAreCurrent
<1>3. TellsItsRecord
  BY DEF EnrichmentInit, TellsItsRecord, ChosenStays, EditsStay, SaysWhatItsRecordSays
<1> QED
  BY <1>1, <1>2, <1>3, JobInvInit DEF RecordInv

\* What an answer makes of the Title, by a job that read it as it is: the record
\* says what the answer says, and one that was chosen has not changed.
LEMMA AnswerFits ==
    ASSUME JobInv, Whole(record), NEW w \in Workers, job[w].pc = "asking",
           NEW id \in Hits(job[w].copy, Asked(job[w].snap, job[w].copy)),
           WriteTitleEnrichment(w, Asked(job[w].snap, job[w].copy), id)
    PROVE  /\ record' \in Copies /\ record'.chosen = record.chosen /\ Whole(record')
           /\ job[w].copy = record =>
                 /\ RecordOf(record') = <<Asked(job[w].snap, record), id>>
                 /\ record.chosen => record' = record
<1> DEFINE c == job[w].copy
           n == Asked(job[w].snap, c)
<1>1. /\ job[w].snap \in Policies /\ c \in Copies /\ job[w].snap.lead # Off
      /\ record \in Copies
  BY DEF JobInv, JobsHold, Sound, EnrichmentTypes
<1>2. n \in Namespaces /\ id \in Ids /\ id \in Hits(c, n)
  BY <1>1, AskedNamespace
<1>3. record' = IF Replaces(c, n) THEN Replaced(record, n, id) ELSE Filled(record, n, id)
  BY DEF WriteTitleEnrichment
<1>4. record' \in Copies /\ record'.chosen = record.chosen /\ Whole(record')
  BY <1>1, <1>2, <1>3, ReplacedRecord, FilledRecord
<1>5. ASSUME c = record, record.chosen PROVE n = record.ns /\ record.ids[n] # None /\ ~Replaces(c, n)
  BY <1>1, <1>5 DEF Whole, Asked, Pinned, HasRecord, Replaces
<1>6. ASSUME c = record PROVE RecordOf(record') = <<n, id>>
  <2>1. CASE Replaces(c, n)
    BY <1>1, <1>2, <1>3, <2>1, ReplacedRecord
  <2>2. CASE ~Replaces(c, n)
    BY <1>1, <1>2, <1>3, <1>5, <1>6, <2>2, FilledRecord
  <2> QED
    BY <2>1, <2>2
<1>7. ASSUME c = record, record.chosen PROVE record' = record
  BY <1>1, <1>2, <1>3, <1>5, <1>7, FilledRecord
<1> QED
  BY <1>4, <1>6, <1>7

LEMMA RecordInvStep == RecordInv /\ [EnrichmentNext]_eVars => RecordInv'
<1> SUFFICES ASSUME RecordInv, [EnrichmentNext]_eVars PROVE RecordInv'
  OBVIOUS
<1>0. /\ JobInv /\ JobInv' /\ Whole(record) /\ CopiesAreCurrent /\ LocksAreCurrent
      /\ ChosenStays /\ EditsStay /\ SaysWhatItsRecordSays
  BY JobInvStep DEF RecordInv, TellsItsRecord
<1>a. \A w \in Workers : job[w] \in Jobs
  BY <1>0 DEF JobInv, EnrichmentTypes
<1>1. CASE LeavesTitle
  <2>1. Whole(record')
    BY <1>0, <1>1 DEF LeavesTitle
  <2>2. CopiesAreCurrent'
    BY <1>0, <1>1 DEF LeavesTitle, CopiesAreCurrent
  <2>3. LocksAreCurrent'
    BY <1>0, <1>1 DEF LeavesTitle, LocksAreCurrent, EditsStay
  <2>4. TellsItsRecord'
    BY <1>0, <1>1 DEF LeavesTitle, TellsItsRecord, ChosenStays, EditsStay, SaysWhatItsRecordSays
  <2> QED
    BY <1>0, <2>1, <2>2, <2>3, <2>4 DEF RecordInv
<1>2. ASSUME NEW r \in Requests, NEW n \in Namespaces, NEW id \in Ids, Pick(r, n, id)
      PROVE  RecordInv'
  <2>1. record \in Copies /\ n # None /\ id # None
    BY <1>0, EnrichmentConstants DEF JobInv, EnrichmentTypes
  <2>2. /\ record' = [ids |-> [record.ids EXCEPT ![n] = id], ns |-> n, chosen |-> TRUE]
        /\ status' = "pending" /\ picked' = <<n, id>> /\ torn' = FALSE
        /\ UNCHANGED <<shows, locked, tornEdit>>
    BY <1>2 DEF Pick
  <2>3. RecordOf(record') = <<n, id>> /\ HasRecord(record')
    BY <2>1, <2>2 DEF Copies, RecordOf, HasRecord
  <2>4. \A w \in Workers : job'[w] = IF w = r THEN [NoJob EXCEPT !.pc = "picked"]
                                     ELSE [job[w] EXCEPT !.old = job[w].copy # None]
    BY <1>2 DEF Pick
  <2>5. job'[r].copy = None /\ job'[r].pc = "picked" /\ r \in Workers
    BY <2>4 DEF NoJob, Workers
  <2>6. ASSUME NEW w \in Workers, w # r
        PROVE  /\ job'[w].copy = job[w].copy /\ job'[w].old = (job[w].copy # None)
               /\ job'[w].pc = job[w].pc /\ job'[w].locks = job[w].locks /\ job'[w].late = job[w].late
    <3>1. job'[w] = [job[w] EXCEPT !.old = job[w].copy # None] /\ job[w] \in Jobs
      BY <2>4, <2>6, <1>a
    <3> QED
      BY <3>1 DEF Jobs
  <2>7. CopiesAreCurrent'
    BY <2>5, <2>6 DEF CopiesAreCurrent
  <2>8. LocksAreCurrent'
    BY <1>0, <2>2, <2>5, <2>6 DEF LocksAreCurrent
  <2>9. TellsItsRecord'
    BY <1>0, <2>2, <2>3 DEF TellsItsRecord, ChosenStays, EditsStay, SaysWhatItsRecordSays
  <2> QED
    BY <1>0, <2>3, <2>7, <2>8, <2>9 DEF RecordInv, Whole
<1>3. ASSUME NEW w \in Workers, Match(w) PROVE RecordInv'
  <2> DEFINE c == job[w].copy
             n == Asked(job[w].snap, c)
  <2>1. job[w].pc = "asking" /\ Become(w, NoJob) /\ status' = "matched" /\ UNCHANGED <<locked, picked>>
    BY <1>3 DEF Match, Settle
  <2>2. PICK id \in Hits(c, n) : WriteTitleEnrichment(w, n, id)
    BY <1>3 DEF Match
  <2>3. /\ Whole(record') /\ record'.chosen = record.chosen
        /\ c = record => RecordOf(record') = <<n, id>> /\ (record.chosen => record' = record)
    BY <1>0, <2>1, <2>2, AnswerFits
  <2>4. /\ shows' = IF job[w].locks THEN shows ELSE <<n, id>>
        /\ torn' = (torn \/ job[w].old)
        /\ tornEdit' = IF job[w].locks THEN tornEdit ELSE job[w].late
    BY <2>2 DEF WriteTitleEnrichment
  <2>5. torn \in BOOLEAN /\ job[w].old \in BOOLEAN /\ c \in Copies
    BY <1>0, <1>a, <2>1 DEF JobInv, EnrichmentTypes, Jobs, JobsHold, Sound
  <2>6. ASSUME ~torn' PROVE ~torn /\ c = record
    BY <1>0, <2>1, <2>4, <2>5, <2>6, NoneIsNothing DEF CopiesAreCurrent
  <2>7. job'[w] = NoJob /\ \A v \in Workers : v # w => job'[v] = job[v]
    BY <1>0, <2>1, Becoming, NoJobType DEF JobInv
  <2>8. CopiesAreCurrent'
    <3> SUFFICES ASSUME NEW v \in Workers, job'[v].copy # None, ~job'[v].old, ~torn'
                 PROVE  job'[v].copy = record'
      BY DEF CopiesAreCurrent
    <3>1. v # w /\ job'[v] = job[v]
      BY <2>7 DEF NoJob
    <3>2. job[v].copy = record
      BY <1>0, <2>6, <3>1 DEF CopiesAreCurrent
    <3>3. v \in Requests
      <4>1. ~Inside(v)
        BY <1>0, <2>1, <3>1 DEF JobInv, OneInside, Inside
      <4>2. job[v].pc \in {"idle", "picked", "waiting"} /\ Sound(v, job[v])
        BY <1>0, <1>a, <4>1 DEF JobInv, JobsHold, Inside, Jobs
      <4> QED
        BY <3>1, <4>2 DEF Sound, Workers
    <3>4. record.chosen
      BY <1>0, <3>1, <3>3 DEF JobInv, JobsHold, Sound, Workers
    <3> QED
      BY <2>3, <2>6, <3>1, <3>2, <3>4
  <2>9. LocksAreCurrent'
    <3>1. \A v \in Workers : job'[v].pc # "asking"
      BY <1>0, <2>1, <2>7 DEF JobInv, OneInside, Inside, NoJob
    <3> QED
      BY <3>1 DEF LocksAreCurrent
  <2>10. ChosenStays'
    BY <1>0, <2>1, <2>3, <2>6 DEF ChosenStays
  <2>11. EditsStay'
    BY <1>0, <2>1, <2>4 DEF EditsStay, LocksAreCurrent
  <2>12. SaysWhatItsRecordSays'
    BY <1>0, <2>1, <2>3, <2>4, <2>6 DEF SaysWhatItsRecordSays, LocksAreCurrent
  <2> QED
    BY <1>0, <2>3, <2>8, <2>9, <2>10, <2>11, <2>12 DEF RecordInv, TellsItsRecord
<1>4. CASE WriteTitleMetadata
  <2>1. /\ shows' = Hand /\ locked' = TRUE /\ tornEdit' = FALSE
        /\ UNCHANGED <<record, status, picked, torn>>
    BY <1>4 DEF WriteTitleMetadata
  <2>2. ASSUME NEW w \in Workers
        PROVE  /\ job'[w].copy = job[w].copy /\ job'[w].old = job[w].old
               /\ job'[w].pc = job[w].pc
               /\ job'[w].pc = "asking" => job'[w].late
    <3>1. job'[w] = [job[w] EXCEPT !.late = job[w].late \/ job[w].pc = "asking"] /\ job[w] \in Jobs
      BY <1>4, <1>a DEF WriteTitleMetadata
    <3> QED
      BY <3>1 DEF Jobs
  <2>3. CopiesAreCurrent'
    BY <1>0, <2>1, <2>2 DEF CopiesAreCurrent
  <2>4. LocksAreCurrent'
    BY <2>1, <2>2 DEF LocksAreCurrent
  <2>5. TellsItsRecord'
    BY <1>0, <2>1 DEF TellsItsRecord, ChosenStays, EditsStay, SaysWhatItsRecordSays
  <2> QED
    BY <1>0, <2>1, <2>3, <2>4, <2>5 DEF RecordInv
<1>5. CASE ReleaseFieldLock
  <2>1. locked' = FALSE /\ UNCHANGED <<record, status, shows, picked, torn, tornEdit, job>>
    BY <1>5 DEF ReleaseFieldLock, history
  <2>2. CopiesAreCurrent' /\ LocksAreCurrent'
    BY <1>0, <2>1 DEF CopiesAreCurrent, LocksAreCurrent
  <2>3. TellsItsRecord'
    BY <1>0, <2>1 DEF TellsItsRecord, ChosenStays, EditsStay, SaysWhatItsRecordSays
  <2> QED
    BY <1>0, <2>1, <2>2, <2>3 DEF RecordInv
<1> QED
  BY <1>0, <1>1, <1>2, <1>3, <1>4, <1>5, TheRestLeaveTheTitle DEF WritesTitle

(* For any providers, policies, passes, requests, edits, crashes: the      *)
(* Title's record is the one last chosen, its locked text the one written  *)
(* by hand, and what it says what its record says, but for the jobs a pick *)
(* or an edit overtook.                                                    *)
THEOREM TitleTellsItsRecord == EnrichmentSpec => []TellsItsRecord
<1>1. RecordInv => TellsItsRecord
  BY DEF RecordInv
<1> QED
  BY <1>1, RecordInvInit, RecordInvStep, PTL DEF EnrichmentSpec

-----------------------------------------------------------------------------
(* What the policy has come to.                                            *)

LEMMA Enqueued ==
    ASSUME EnrichmentTypes, NEW m \in Modes, Enqueue(m)
    PROVE  /\ FullQueued => FullQueued'
           /\ m # "full" => (FullQueued' => FullQueued)
           /\ m = "full" /\ Len(queue) # MaxQueue => FullQueued'
<1>1. CASE Len(queue) < MaxQueue
  <2>1. queue' = Append(queue, m) /\ Len(queue') = Len(queue) + 1 /\ Len(queue) \in Nat
    BY <1>1 DEF Enqueue, EnrichmentTypes
  <2>2. queue'[Len(queue) + 1] = m /\ \A i \in 1..Len(queue) : queue'[i] = queue[i]
    BY <2>1 DEF EnrichmentTypes
  <2> QED
    BY <2>1, <2>2 DEF FullQueued
<1>2. CASE ~(Len(queue) < MaxQueue)
  <2>1. queue' = queue /\ Len(queue) = MaxQueue
    BY <1>2, EnrichmentConstants DEF Enqueue, EnrichmentTypes
  <2> QED
    BY <2>1 DEF FullQueued
<1> QED
  BY <1>1, <1>2

LEMMA Dequeued ==
    ASSUME EnrichmentTypes, queue # <<>>, queue' = Tail(queue), FullQueued, ~FullQueued'
    PROVE  Head(queue) = "full"
<1>1. Len(queue) \in Nat /\ Len(queue') = Len(queue) - 1 /\ Head(queue) = queue[1]
  BY DEF EnrichmentTypes
<1>2. \A i \in 1..(Len(queue) - 1) : queue'[i] = queue[i + 1]
  BY <1>1 DEF EnrichmentTypes
<1>3. PICK i \in 1..Len(queue) : queue[i] = "full"
  BY DEF FullQueued
<1>4. CASE i = 1
  BY <1>1, <1>3, <1>4
<1>5. CASE i # 1
  <2>1. i - 1 \in 1..(Len(queue) - 1) /\ queue'[i - 1] = "full"
    BY <1>1, <1>2, <1>3, <1>5
  <2> QED
    BY <1>1, <2>1 DEF FullQueued
<1> QED
  BY <1>4, <1>5

\* A step that takes nothing of a policy but what the cache has or the store.
LEMMA PolicyStill ==
    ASSUME CacheIsCurrent, SnapsAreCurrent, FitsUnlessOwed,
           UNCHANGED <<policy, record, status, shows, torn, tornEdit>>,
           cache' = None \/ (cache' \in {cache, Effective} /\ (Invalidated' => Invalidated)),
           Handed' => /\ Handed
                      /\ FullWaiting => FullWaiting'
                      /\ job[Pass].mode = "full" => job'[Pass].mode = "full",
           \A w \in Workers : job'[w].snap \in {None, job[w].snap}
    PROVE  CacheIsCurrent' /\ SnapsAreCurrent' /\ FitsUnlessOwed'
<1>1. CacheIsCurrent'
  BY DEF CacheIsCurrent, Effective
<1>2. SnapsAreCurrent'
  BY DEF SnapsAreCurrent
<1>3. FitsUnlessOwed'
  BY DEF FitsUnlessOwed, Fits
<1> QED
  BY <1>1, <1>2, <1>3

\* A job that is done under the policy in force leaves the Title as it would
\* have it, unless a pick overtook it.
LEMMA AnswerIsThePolicys ==
    ASSUME RecordInv, RecordInv', NEW w \in Workers, JobStep(w), ~Ask(w),
           job[w].snap = policy, ~torn'
    PROVE  Fits'
<1>0. policy' = policy /\ Inside(w)
  BY DEF JobStep, Disable, Orphan, Match, NoMatch, Postpone, Park, Inside
<1>1. CASE Disable(w)
  BY <1>0, <1>1 DEF Disable, Settle, Fits
<1>2. CASE Orphan(w)
  BY <1>0, <1>2 DEF Orphan, Settle, Fits
<1>3. CASE NoMatch(w) \/ Postpone(w) \/ Park(w)
  <2>1. policy.lead # Off
    BY <1>3 DEF NoMatch, Postpone, Park, RecordInv, JobInv, JobsHold, Sound
  <2>2. status' \in {"unmatched", "failed"}
    BY <1>3 DEF NoMatch, Postpone, Park, Settle
  <2> QED
    BY <1>0, <2>1, <2>2 DEF Fits
<1>4. CASE Match(w)
  <2> DEFINE c == job[w].copy
             n == Asked(job[w].snap, c)
  <2>1. /\ job[w].pc = "asking" /\ status' = "matched" /\ policy.lead # Off
        /\ c \in Copies /\ ~Orphaned(policy, c)
    BY <1>4 DEF Match, Settle, RecordInv, JobInv, JobsHold, Sound
  <2>2. PICK id \in Hits(c, n) : WriteTitleEnrichment(w, n, id)
    BY <1>4 DEF Match
  <2>3. /\ torn' = (torn \/ job[w].old) /\ torn \in BOOLEAN /\ job[w].old \in BOOLEAN
        /\ shows' = IF job[w].locks THEN shows ELSE <<n, id>>
        /\ tornEdit' = IF job[w].locks THEN tornEdit ELSE job[w].late
    BY <2>2 DEF WriteTitleEnrichment, RecordInv, JobInv, EnrichmentTypes, Jobs
  <2>4. c = record
    BY <2>1, <2>3, NoneIsNothing DEF RecordInv, CopiesAreCurrent
  <2>5. record'.chosen = record.chosen /\ (record.chosen => record' = record)
    BY <2>1, <2>2, <2>4, AnswerFits DEF RecordInv
  <2>6. Asked(policy, record') = n /\ ~Orphaned(policy, record')
    <3>1. CASE record.chosen
      BY <2>1, <2>4, <2>5, <3>1
    <3>2. CASE ~record.chosen
      <4>1. ~Pinned(c) /\ ~Pinned(record')
        BY <2>4, <2>5, <3>2 DEF Pinned
      <4> QED
        BY <4>1 DEF Asked, Orphaned
    <3> QED
      BY <3>1, <3>2
  <2>7. ASSUME shows' # Hand, ~tornEdit' PROVE shows'[1] = n
    BY <2>1, <2>3, <2>7 DEF RecordInv, LocksAreCurrent
  <2> QED
    BY <1>0, <2>1, <2>6, <2>7 DEF Fits
<1> QED
  BY <1>1, <1>2, <1>3, <1>4 DEF JobStep

LEMMA PolicyInvInit == EnrichmentInit => PolicyInv
<1> SUFFICES ASSUME EnrichmentInit PROVE PolicyInv
  OBVIOUS
<1>1. CacheIsCurrent /\ SnapsAreCurrent /\ FitsUnlessOwed
  BY DEF EnrichmentInit, NoJob, CacheIsCurrent, SnapsAreCurrent, FitsUnlessOwed, Fits
<1> QED
  BY <1>1, RecordInvInit DEF PolicyInv

LEMMA PolicyInvStep == PolicyInv /\ [EnrichmentNext]_eVars => PolicyInv'
<1> SUFFICES ASSUME PolicyInv, [EnrichmentNext]_eVars
             PROVE  CacheIsCurrent' /\ SnapsAreCurrent' /\ FitsUnlessOwed'
  BY RecordInvStep DEF PolicyInv
<1>0. /\ RecordInv /\ RecordInv' /\ JobInv /\ EnrichmentTypes
      /\ CacheIsCurrent /\ SnapsAreCurrent /\ FitsUnlessOwed
      /\ Pass \in Workers /\ Requests \subseteq Workers /\ \A w \in Workers : job[w] \in Jobs
  BY RecordInvStep DEF PolicyInv, RecordInv, JobInv, EnrichmentTypes, Workers
<1>a. unapplied \in BOOLEAN /\ policy \in Policies /\ None \notin Policies
  BY <1>0, EnrichmentConstants DEF EnrichmentTypes
<1>b. ASSUME NEW w \in Workers, ~Inside(w) PROVE job[w].snap = None
  BY <1>0, <1>b DEF JobInv, JobsHold, Sound, Inside
<1>c. ASSUME UNCHANGED <<policy, record, status, shows, torn, tornEdit, job>>,
             cache' = None \/ (cache' \in {cache, Effective} /\ (Invalidated' => Invalidated)),
             Handed' => Handed
      PROVE  CacheIsCurrent' /\ SnapsAreCurrent' /\ FitsUnlessOwed'
  BY <1>0, <1>c, PolicyStill DEF FullWaiting
<1>1. CASE UNCHANGED eVars
  BY <1>c, <1>1 DEF eVars, rows, memory, history, Handed, FullQueued, Invalidated
<1>2. CASE Sweep
  <2>1. FullQueued => FullQueued'
    BY <1>0, <1>2, Enqueued DEF Sweep, Modes, FullQueued
  <2> QED
    BY <1>c, <1>2, <2>1 DEF Sweep, rows, history, Handed, Invalidated
<1>3. ASSUME NEW m \in Modes, StartEnrichPass(m)
      PROVE  CacheIsCurrent' /\ SnapsAreCurrent' /\ FitsUnlessOwed'
  <2>1. FullQueued => FullQueued'
    BY <1>0, <1>3, Enqueued DEF StartEnrichPass
  <2> QED
    BY <1>c, <1>3, <2>1 DEF StartEnrichPass, rows, history, Handed, Invalidated
<1>4. CASE \E p \in Policies : SavePolicy(p)
  <2>1. saver' = "saved"
    BY <1>4 DEF SavePolicy
  <2> QED
    BY <2>1 DEF CacheIsCurrent, SnapsAreCurrent, FitsUnlessOwed, Handed, Invalidated
<1>5. CASE SaveFails
  BY <1>c, <1>5 DEF SaveFails, rows, history, Handed, Invalidated
<1>6. CASE InvalidateLibrary
  BY <1>c, <1>6 DEF InvalidateLibrary, rows, history, Handed
<1>7. CASE EnqueueFull
  <2>1. unapplied' \/ FullQueued'
    BY <1>0, <1>7, Enqueued DEF EnqueueFull, Modes
  <2> QED
    BY <1>c, <1>7, <2>1 DEF EnqueueFull, rows, Handed, Invalidated
<1>8. CASE Dequeue
  <2> DEFINE j == [NoJob EXCEPT !.pc = "waiting", !.mode = Head(queue)]
  <2>1. j \in Jobs /\ j.pc = "waiting" /\ j.snap = None /\ j.mode = Head(queue)
    <3>1. Head(queue) \in Modes
      BY <1>0, <1>8 DEF Dequeue, EnrichmentTypes
    <3> QED
      BY <3>1 DEF NoJob, Jobs, Snaps
  <2>2. /\ Become(Pass, j) /\ queue # <<>> /\ queue' = Tail(queue)
        /\ UNCHANGED <<policy, record, status, shows, torn, tornEdit, unapplied, cache, saver>>
    BY <1>8 DEF Dequeue, rows, history
  <2>3. job'[Pass] = j /\ \A v \in Workers : v # Pass => job'[v] = job[v]
    BY <1>0, <2>1, <2>2, Becoming
  <2>4. CASE Head(queue) = "full"
    <3>1. FullWaiting' /\ job'[Pass].mode = "full"
      BY <2>1, <2>3, <2>4 DEF FullWaiting
    <3> QED
      BY <1>0, <2>2, <3>1 DEF CacheIsCurrent, Invalidated, SnapsAreCurrent, FitsUnlessOwed
  <2>5. CASE Head(queue) # "full"
    <3>1. FullQueued => FullQueued'
      BY <1>0, <2>2, <2>5, Dequeued
    <3>2. job[Pass].pc = "idle" /\ job[Pass].mode = None
      BY <1>0, <1>8 DEF Dequeue, JobInv, JobsHold, Sound
    <3>3. ~FullWaiting /\ (job[Pass].mode = "full" => job'[Pass].mode = "full")
      BY <2>1, <2>3, <3>2, <2>5, NoneIsNothing DEF FullWaiting, Modes
    <3>4. \A w \in Workers : job'[w].snap \in {None, job[w].snap}
      BY <2>1, <2>3
    <3> QED
      BY <1>0, <2>2, <3>1, <3>3, <3>4, PolicyStill DEF Handed, Invalidated
  <2> QED
    BY <2>4, <2>5
<1>9. ASSUME NEW w \in Workers, NEW j \in Jobs, Become(w, j), ~LockHeld,
             job[w].pc = "waiting", j.snap = Effective, j.mode = job[w].mode, cache' = Effective,
             UNCHANGED <<policy, record, status, shows, torn, tornEdit, unapplied, saver, queue>>
      PROVE  CacheIsCurrent' /\ SnapsAreCurrent' /\ FitsUnlessOwed'
  <2>1. job'[w] = j /\ \A v \in Workers : v # w => job'[v] = job[v]
    BY <1>0, <1>9, Becoming
  <2>2. \A v \in Workers : job[v].snap = None
    BY <1>9, <1>b DEF LockHeld, Inside
  <2>3. CacheIsCurrent'
    BY <1>0, <1>9 DEF CacheIsCurrent, Invalidated, Effective
  <2>4. SnapsAreCurrent'
    BY <1>0, <1>9, <2>1, <2>2 DEF SnapsAreCurrent, Handed, FullQueued, CacheIsCurrent, Invalidated, Effective
  <2>5. job'[Pass].mode = job[Pass].mode
    BY <1>0, <1>9, <2>1
  <2>6. FitsUnlessOwed'
    BY <1>0, <1>9, <2>5 DEF FitsUnlessOwed, Handed, FullQueued, Fits
  <2> QED
    BY <2>3, <2>4, <2>6
<1>10. ASSUME NEW w \in Workers, NEW j \in Jobs, Become(w, j),
              j.snap \in {None, job[w].snap},
              w = Pass /\ job[w].mode = "full" =>
                  unapplied' \/ (~FullWaiting /\ j.mode = "full"),
              UNCHANGED <<policy, record, status, shows, torn, tornEdit, saver, queue>>,
              cache' \in {cache, Effective}, unapplied => unapplied'
       PROVE  CacheIsCurrent' /\ SnapsAreCurrent' /\ FitsUnlessOwed'
  <2>1. job'[w] = j /\ \A v \in Workers : v # w => job'[v] = job[v]
    BY <1>0, <1>10, Becoming
  <2>2. \A v \in Workers : job'[v].snap \in {None, job[v].snap}
    BY <1>10, <2>1
  <2>3. (Invalidated' => Invalidated) /\ (Handed' => Handed)
    BY <1>10 DEF Invalidated, Handed, FullQueued
  <2>4. Handed' => /\ FullWaiting => FullWaiting'
                   /\ job[Pass].mode = "full" => job'[Pass].mode = "full"
    BY <1>0, <1>10, <2>1 DEF Handed, FullWaiting
  <2> QED
    BY <1>0, <1>10, <2>2, <2>3, <2>4, PolicyStill
<1>11. CASE BeginPass
  <2>1. /\ job[Pass].pc = "waiting" /\ ~LockHeld /\ cache' = Effective
        /\ UNCHANGED <<policy, record, status, shows, torn, tornEdit, unapplied, saver, queue>>
    BY <1>11 DEF BeginPass, rows, history
  <2>2. CASE Selects(job[Pass].mode)
    <3> DEFINE j == [job[Pass] EXCEPT !.pc = "ready", !.snap = Effective, !.copy = record]
    <3>1. record \in Copies /\ job[Pass] \in Jobs /\ Effective \in Policies
      BY <1>0 DEF EnrichmentTypes, Effective, Snaps
    <3>2. j \in Jobs /\ j.snap = Effective /\ j.mode = job[Pass].mode
      BY <3>1 DEF Jobs, Snaps
    <3>3. Become(Pass, j)
      BY <1>11, <2>2 DEF BeginPass
    <3> QED
      BY <1>0, <1>9, <2>1, <3>2, <3>3
  <2>3. CASE ~Selects(job[Pass].mode)
    <3>1. Become(Pass, NoJob) /\ NoJob.snap = None
      BY <1>11, <2>3 DEF BeginPass, NoJob
    <3>2. job[Pass].mode # "full"
      BY <2>3 DEF Selects
    <3> QED
      BY <1>0, <1>10, <2>1, <3>1, <3>2, NoJobType
  <2> QED
    BY <2>2, <2>3
<1>12. ASSUME NEW r \in Requests, BeginRequest(r)
       PROVE  CacheIsCurrent' /\ SnapsAreCurrent' /\ FitsUnlessOwed'
  <2> DEFINE j == [job[r] EXCEPT !.pc = "ready", !.snap = Effective]
  <2>1. r \in Workers /\ job[r] \in Jobs /\ Effective \in Policies
    BY <1>0 DEF EnrichmentTypes, Effective, Snaps
  <2>2. j \in Jobs /\ j.snap = Effective /\ j.mode = job[r].mode
    BY <2>1 DEF Jobs, Snaps
  <2>3. /\ job[r].pc = "waiting" /\ ~LockHeld /\ cache' = Effective /\ Become(r, j)
        /\ UNCHANGED <<policy, record, status, shows, torn, tornEdit, unapplied, saver, queue>>
    BY <1>12 DEF BeginRequest, rows, history
  <2> QED
    BY <1>9, <2>1, <2>2, <2>3
<1>13. CASE PassStops
  <2>1. /\ Become(Pass, NoJob) /\ NoJob.snap = None
        /\ unapplied' = (unapplied \/ job[Pass].mode = "full")
        /\ UNCHANGED <<policy, record, status, shows, torn, tornEdit, saver, queue, cache>>
    BY <1>13 DEF PassStops, rows, memory, NoJob
  <2> QED
    BY <1>0, <1>10, <2>1, NoJobType
<1>21. ASSUME NEW w \in Workers, JobFails(w)
       PROVE  CacheIsCurrent' /\ SnapsAreCurrent' /\ FitsUnlessOwed'
  <2>1. /\ Become(w, NoJob) /\ NoJob.snap = None
        /\ unapplied' = (unapplied \/ job[w].mode = "full") /\ cache' \in {cache, Effective}
        /\ UNCHANGED <<policy, record, status, shows, torn, tornEdit, saver, queue>>
    BY <1>21 DEF JobFails, rows, NoJob
  <2> QED
    BY <1>0, <1>10, <2>1, NoJobType
<1>14. ASSUME NEW r \in Requests, ReadPicked(r)
       PROVE  CacheIsCurrent' /\ SnapsAreCurrent' /\ FitsUnlessOwed'
  <2> DEFINE j == [job[r] EXCEPT !.pc = "waiting", !.copy = record]
  <2>1. r \in Workers /\ r # Pass /\ job[r] \in Jobs /\ record \in Copies
    BY <1>0, EnrichmentConstants DEF EnrichmentTypes
  <2>2. j \in Jobs /\ j.snap = job[r].snap
    BY <2>1 DEF Jobs
  <2>3. /\ Become(r, j)
        /\ UNCHANGED <<policy, record, status, shows, torn, tornEdit, saver, queue, cache, unapplied>>
    BY <1>14 DEF ReadPicked, rows, memory, history
  <2> QED
    BY <1>10, <2>1, <2>2, <2>3
<1>15. ASSUME NEW w \in Workers, Ask(w)
       PROVE  CacheIsCurrent' /\ SnapsAreCurrent' /\ FitsUnlessOwed'
  <2> DEFINE j == [job[w] EXCEPT !.pc = "asking", !.locks = locked]
  <2>1. job[w] \in Jobs /\ locked \in BOOLEAN /\ job[w].pc = "ready"
    BY <1>0, <1>15 DEF EnrichmentTypes, Ask
  <2>2. j \in Jobs /\ j.snap = job[w].snap /\ j.mode = job[w].mode
    BY <2>1 DEF Jobs
  <2>3. /\ Become(w, j)
        /\ UNCHANGED <<policy, record, status, shows, torn, tornEdit, saver, queue, cache, unapplied>>
    BY <1>15 DEF Ask, rows, memory, history
  <2>4. w = Pass => ~FullWaiting
    BY <2>1 DEF FullWaiting
  <2> QED
    BY <1>10, <2>2, <2>3, <2>4
<1>16. ASSUME NEW w \in Workers, JobStep(w), ~Ask(w)
       PROVE  CacheIsCurrent' /\ SnapsAreCurrent' /\ FitsUnlessOwed'
  <2>1. /\ Become(w, NoJob) /\ Inside(w)
        /\ UNCHANGED <<policy, cache, saver, queue, unapplied>>
    BY <1>16 DEF JobStep, Disable, Orphan, Match, NoMatch, Postpone, Park, Settle, memory, history, Inside
  <2>2. job'[w] = NoJob /\ \A v \in Workers : v # w => job'[v] = job[v]
    BY <1>0, <2>1, NoJobType, Becoming
  <2>3. CacheIsCurrent'
    BY <1>0, <2>1 DEF CacheIsCurrent, Invalidated
  <2>4. w = Pass => ~FullWaiting /\ ~FullWaiting'
    BY <2>1, <2>2 DEF FullWaiting, Inside, NoJob
  <2>5. FullWaiting' <=> FullWaiting
    BY <1>0, <2>2, <2>4 DEF FullWaiting
  <2>6. SnapsAreCurrent'
    BY <1>0, <2>1, <2>2, <2>5 DEF SnapsAreCurrent, Handed, FullQueued, NoJob
  <2>7. FitsUnlessOwed'
    <3> SUFFICES ASSUME Handed', ~torn', job'[Pass].mode # "full" PROVE Fits'
      BY DEF FitsUnlessOwed
    <3>1. Handed /\ ~FullWaiting
      BY <1>0, <2>1, <2>2, <2>4 DEF Handed, FullQueued, FullWaiting
    <3>2. job[w].snap \in Policies
      BY <1>0, <2>1 DEF JobInv, JobsHold, Sound, Inside
    <3>3. job[w].snap = policy
      BY <1>0, <1>a, <3>1, <3>2 DEF SnapsAreCurrent
    <3> QED
      BY <1>0, <1>16, <3>3, AnswerIsThePolicys
  <2> QED
    BY <2>3, <2>6, <2>7
<1>17. ASSUME NEW r \in Requests, NEW n \in Namespaces, NEW id \in Ids, Pick(r, n, id)
       PROVE  CacheIsCurrent' /\ SnapsAreCurrent' /\ FitsUnlessOwed'
  <2>1. status' = "pending" /\ UNCHANGED <<policy, cache, saver, queue, unapplied>>
    BY <1>17 DEF Pick, memory
  <2>2. ASSUME NEW w \in Workers
        PROVE  IF w = r THEN job'[w].snap = None
               ELSE job'[w].snap = job[w].snap /\ job'[w].pc = job[w].pc /\ job'[w].mode = job[w].mode
    <3>1. job'[w] = IF w = r THEN [NoJob EXCEPT !.pc = "picked"]
                    ELSE [job[w] EXCEPT !.old = job[w].copy # None]
      BY <1>17 DEF Pick
    <3>2. job[w] \in Jobs
      BY <1>0
    <3> QED
      BY <3>1, <3>2 DEF Jobs, NoJob
  <2>3. FullWaiting' <=> FullWaiting
    BY <1>0, <2>2, EnrichmentConstants DEF FullWaiting
  <2>4. CacheIsCurrent' /\ SnapsAreCurrent'
    BY <1>0, <2>1, <2>2, <2>3 DEF CacheIsCurrent, Invalidated, SnapsAreCurrent, Handed, FullQueued
  <2>5. Fits'
    BY <2>1 DEF Fits
  <2> QED
    BY <2>4, <2>5 DEF FitsUnlessOwed
<1>18. CASE WriteTitleMetadata
  <2>1. /\ shows' = Hand
        /\ UNCHANGED <<record, status, torn, policy, cache, saver, queue, unapplied>>
    BY <1>18 DEF WriteTitleMetadata, memory
  <2>2. ASSUME NEW w \in Workers
        PROVE  job'[w].snap = job[w].snap /\ job'[w].pc = job[w].pc /\ job'[w].mode = job[w].mode
    <3>1. job'[w] = [job[w] EXCEPT !.late = job[w].late \/ job[w].pc = "asking"] /\ job[w] \in Jobs
      BY <1>0, <1>18 DEF WriteTitleMetadata
    <3> QED
      BY <3>1 DEF Jobs
  <2>3. FullWaiting' <=> FullWaiting
    BY <1>0, <2>2 DEF FullWaiting
  <2>4. CacheIsCurrent' /\ SnapsAreCurrent'
    BY <1>0, <2>1, <2>2, <2>3 DEF CacheIsCurrent, Invalidated, SnapsAreCurrent, Handed, FullQueued
  <2>5. FitsUnlessOwed'
    BY <1>0, <2>1, <2>2 DEF FitsUnlessOwed, Fits, Handed, FullQueued
  <2> QED
    BY <2>4, <2>5
<1>19. CASE RetryComesDue \/ ReleaseFieldLock \/ Close \/ Restart
  <2>1. UNCHANGED <<policy, record, status, shows, torn, tornEdit, job, cache, saver, queue, unapplied>>
    BY <1>19 DEF RetryComesDue, ReleaseFieldLock, Close, Restart, rows, memory, history
  <2> QED
    BY <1>c, <2>1 DEF Handed, FullQueued, Invalidated
<1>20. CASE Exit \/ Crash
  <2>1. End
    BY <1>20 DEF Exit, Crash
  <2>2. /\ UNCHANGED <<policy, record, status, shows, torn, tornEdit>> /\ cache' = None
        /\ job' = [w \in Workers |-> NoJob] /\ unapplied' = (unapplied \/ PolicyUnderWay)
    BY <2>1 DEF End, rows
  <2>3. ~unapplied' => Handed /\ job[Pass].mode # "full"
    BY <1>a, <2>2 DEF PolicyUnderWay, Handed, FullQueued
  <2>4. \A w \in Workers : job'[w].snap = None
    BY <2>2 DEF NoJob
  <2> QED
    BY <1>0, <2>2, <2>3, <2>4, PolicyStill DEF Handed, FullWaiting
<1> QED
  BY <1>1, <1>2, <1>3, <1>4, <1>5, <1>6, <1>7, <1>8, <1>11, <1>12, <1>13, <1>14, <1>15, <1>16,
     <1>17, <1>18, <1>19, <1>20, <1>21 DEF EnrichmentNext, JobStep

(* For any providers, policies and bounds: once nothing is under way, the  *)
(* Title is as the stored policy would have it, whichever of the sweep, a  *)
(* request or a pass filled the cache between the save and its full pass.  *)
THEOREM StoredPolicyTakes == EnrichmentSpec => []PolicyTakes
<1>1. PolicyInv => PolicyTakes
  <2> SUFFICES ASSUME PolicyInv, Quiet, ~unapplied, ~torn PROVE Fits
    BY DEF PolicyTakes, Fits
  <2>1. Pass \in Workers /\ job[Pass].mode = None
    BY DEF PolicyInv, RecordInv, JobInv, JobsHold, Sound, Quiet, Workers
  <2>2. Handed
    BY DEF Quiet, Handed, FullQueued
  <2> QED
    BY <2>1, <2>2, NoneIsNothing DEF PolicyInv, FitsUnlessOwed, Modes
<1> QED
  BY <1>1, PolicyInvInit, PolicyInvStep, PTL DEF EnrichmentSpec
=============================================================================
