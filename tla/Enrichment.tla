----------------------------- MODULE Enrichment -----------------------------
(***************************************************************************)
(* Enrichment of one Title: the passes over its Library that the sweep, an *)
(* Admin or a change of the Library's policy ask for, the one worker that  *)
(* runs them, the Admins who pick a record in Fix info (a request asks for *)
(* the Title alone), and the hand-edits.  A pass and a request take the    *)
(* Library's lock for the lookup; what each read of the Title it may have  *)
(* read before.  The rows persist; queue, cache and jobs die with the      *)
(* process.  A description is the record it was taken from.                *)
(***************************************************************************)
EXTENDS Naturals, Sequences

CONSTANTS
    Namespaces,     \* the Authoritative providers, each a namespace of ids
    Ids,
    Requests,       \* the Admins' Fix info requests
    Pass,           \* the worker's job
    Policies,       \* what a Library's policy resolves to
    MaxQueue,       \* enrichQueueDepth
    MaxMoves,       \* bound: what Admins do, how often the Server ends and how often a
                    \* statement of the store fails, together
    None, Off, Hand

ASSUME EnrichmentConstants ==
    /\ Pass \notin Requests /\ None \notin Namespaces \cup Ids \cup Policies
    /\ Off \notin Namespaces /\ Hand \notin Namespaces \X Ids
    /\ Policies \subseteq [lead : Namespaces \cup {Off}, reach : SUBSET Namespaces]
    /\ \A p \in Policies : p.lead = Off \/ p.lead \in p.reach
    /\ MaxQueue \in Nat /\ MaxMoves \in Nat

VARIABLES
    record,     \* titles: its ids by namespace, the one in use, whose choice it is
    status, retry, shows,
    locked,     \* title_field_locks
    policy,     \* of the Library, as stored
    cache,      \* libCache: what policy resolved to, or None
    saver,      \* where the handler of a policy change is
    queue, worker,
    job,        \* of the pass and of each request
    picked,     \* history: the record last picked
    torn,       \* history: a job wrote what it read before that pick
    tornEdit,   \* history: a job wrote over an edit later than its look at the locks
    unapplied,  \* history: the last change of policy got no full pass
    moves

rows    == <<record, status, retry, shows, locked>>
memory  == <<cache, saver, queue, worker>>
history == <<picked, torn, tornEdit, unapplied>>
eVars   == <<rows, policy, memory, job, history, moves>>

Modes   == {"new", "full", "recheck", "missing"}
Workers == Requests \cup {Pass}
Records == Namespaces \X Ids
Copies  == [ids : [Namespaces -> Ids \cup {None}], ns : Namespaces \cup {None},
            chosen : BOOLEAN]
Snaps   == Policies \cup {None}
NoJob   == [pc |-> "idle", mode |-> None, snap |-> None, copy |-> None,
            locks |-> FALSE, old |-> FALSE, late |-> FALSE]
Jobs    == [pc : {"idle", "picked", "waiting", "ready", "asking"}, mode : Modes \cup {None},
            snap : Snaps, copy : Copies \cup {None},
            locks : BOOLEAN, old : BOOLEAN, late : BOOLEAN]

ASSUME NoneIsNothing == None \notin Copies /\ None \notin Modes

EnrichmentTypes ==
    /\ record \in Copies /\ shows \in Records \cup {None, Hand}
    /\ status \in {"pending", "matched", "unmatched", "failed", "disabled"}
    /\ retry \in {"no", "later", "due"} /\ locked \in BOOLEAN
    /\ policy \in Policies /\ cache \in Snaps
    /\ saver \in {"idle", "saved", "invalidated"}
    /\ queue \in Seq(Modes) /\ Len(queue) <= MaxQueue
    /\ worker \in {"up", "closing", "down"}
    /\ job \in [Workers -> Jobs]
    /\ picked \in Records \cup {None} /\ torn \in BOOLEAN /\ tornEdit \in BOOLEAN
    /\ unapplied \in BOOLEAN /\ moves \in 0..MaxMoves

EnrichmentInit ==
    /\ record = [ids |-> [n \in Namespaces |-> None], ns |-> None, chosen |-> FALSE]
    /\ status = "pending" /\ retry = "no" /\ shows = None /\ locked = FALSE
    /\ policy \in Policies /\ cache = None /\ saver = "idle"
    /\ queue = <<>> /\ worker = "up" /\ job = [w \in Workers |-> NoJob]
    /\ picked = None /\ torn = FALSE /\ tornEdit = FALSE /\ unapplied = FALSE /\ moves = 0

-----------------------------------------------------------------------------
(* Whom to ask, and what an answer does to the record.                     *)

RecordOf(c) == <<c.ns, c.ids[c.ns]>>
HasRecord(c) == c.ns # None /\ c.ids[c.ns] # None

\* Mutant of Pinned: a choice does not outlive a change of the lead.
NeverPinned(c) == FALSE
Pinned(c) == c.chosen /\ HasRecord(c)

Asked(p, c) == IF Pinned(c) THEN c.ns ELSE p.lead
Orphaned(p, c) == Pinned(c) /\ c.ns # p.lead /\ c.ns \notin p.reach

\* Mutant of Replaces: a repointed Library fills beside the old lead's record.
NeverReplaces(c, n) == FALSE
Replaces(c, n) == ~c.chosen /\ c.ns # n /\ HasRecord(c)

Replaced(c, n, id) ==
    [c EXCEPT !.ids = [m \in Namespaces |->
                          CASE m = n -> id [] m # n /\ m = c.ns -> None [] OTHER -> c.ids[m]],
              !.ns = n]

Filled(c, n, id) ==
    IF c.ids[n] # None THEN c
    ELSE [c EXCEPT !.ids[n] = id, !.ns = IF @ # n /\ HasRecord(c) THEN @ ELSE n]

\* A lookup by an id answers with that id; a search may find any.
Hits(c, n) == IF c.ids[n] # None THEN {c.ids[n]} ELSE Ids

Effective == IF cache = None THEN policy ELSE cache
LockHeld  == \E w \in Workers : job[w].pc \in {"ready", "asking"}

\* Mutant of Selects: a pass for new Titles leaves the due retries out.
SelectsPendingOnly(m) ==
    \/ m = "full" \/ status = "pending"
    \/ m = "recheck" /\ (status = "unmatched" \/ status = "failed")
    \/ m = "missing" /\ status \in {"unmatched", "failed"}
Selects(m) ==
    \/ m = "full" \/ status = "pending"
    \/ m \in {"new", "recheck"} /\ status = "failed" /\ retry = "due"
    \/ m = "recheck" /\ (status = "unmatched" \/ (status = "failed" /\ retry = "no"))
    \/ m = "missing" /\ status \in {"unmatched", "failed"}

-----------------------------------------------------------------------------
(* Asking for a pass.                                                      *)

Move == moves < MaxMoves /\ moves' = moves + 1

Enqueue(m) == queue' = IF Len(queue) < MaxQueue THEN Append(queue, m) ELSE queue

\* The sweep, or the end of a scan.
Sweep ==
    /\ worker = "up" /\ cache' = Effective
    /\ IF Effective.lead # Off THEN Enqueue("new") ELSE UNCHANGED queue
    /\ UNCHANGED <<rows, policy, saver, worker, job, history, moves>>

\* An Admin's; refused while the Library has a pass.
StartEnrichPass(m) ==
    /\ Move /\ worker # "down" /\ queue = <<>> /\ job[Pass].pc = "idle" /\ Enqueue(m)
    /\ UNCHANGED <<rows, policy, cache, saver, worker, job, history>>

SavePolicy(p) ==
    /\ Move /\ worker = "up" /\ saver = "idle" /\ policy' = p /\ saver' = "saved"
    /\ UNCHANGED <<rows, cache, queue, worker, job, history>>

\* Each setting is a statement of its own, and one after the first fails.
SaveFails ==
    /\ saver = "saved" /\ saver' = "idle" /\ unapplied' = TRUE
    /\ UNCHANGED <<rows, policy, cache, queue, worker, job, picked, torn, tornEdit, moves>>

\* Mutant of InvalidateLibrary: the cache has been dropped before the policy was stored.
InvalidatedEarlier ==
    /\ saver = "saved" /\ saver' = "invalidated"
    /\ UNCHANGED <<rows, policy, cache, queue, worker, job, history, moves>>
InvalidateLibrary ==
    /\ saver = "saved" /\ saver' = "invalidated" /\ cache' = None
    /\ UNCHANGED <<rows, policy, queue, worker, job, history, moves>>

EnqueueFull ==
    /\ saver = "invalidated" /\ saver' = "idle" /\ Enqueue("full")
    /\ unapplied' = (Len(queue) = MaxQueue)
    /\ UNCHANGED <<rows, policy, cache, worker, job, picked, torn, tornEdit, moves>>

-----------------------------------------------------------------------------
(* A job: the pass the worker took, or a request.                          *)

Become(w, j) == job' = [job EXCEPT ![w] = j]

Dequeue ==
    /\ worker # "down" /\ job[Pass].pc = "idle" /\ queue # <<>>
    /\ Become(Pass, [NoJob EXCEPT !.pc = "waiting", !.mode = Head(queue)])
    /\ queue' = Tail(queue)
    /\ UNCHANGED <<rows, policy, cache, saver, worker, history, moves>>

\* Under the lock: the policy in force, and the Title if the mode selects it.
BeginPass ==
    /\ job[Pass].pc = "waiting" /\ ~LockHeld /\ cache' = Effective
    /\ Become(Pass, IF Selects(job[Pass].mode)
                    THEN [job[Pass] EXCEPT !.pc = "ready", !.snap = Effective, !.copy = record]
                    ELSE NoJob)
    /\ UNCHANGED <<rows, policy, saver, queue, worker, history, moves>>

\* The worker's context has ended: the pass stops before its next Title.
PassStops ==
    /\ worker = "closing" /\ job[Pass].pc = "ready" /\ Become(Pass, NoJob)
    /\ unapplied' = (unapplied \/ job[Pass].mode = "full")
    /\ UNCHANGED <<rows, policy, memory, picked, torn, tornEdit, moves>>

\* A statement of the store fails, on this Title or on one a pass comes to before
\* it: the job ends and leaves the Title as it is.  One that waits fails before it
\* has the lock, or under it with the policy just resolved.  Nobody asks for the
\* pass of a policy again.
JobFails(w) ==
    /\ Move /\ job[w].pc # "idle" /\ Become(w, NoJob)
    /\ cache' \in {cache} \cup (IF job[w].pc = "waiting" /\ ~LockHeld THEN {Effective} ELSE {})
    /\ unapplied' = (unapplied \/ job[w].mode = "full")
    /\ UNCHANGED <<rows, policy, saver, queue, worker, picked, torn, tornEdit>>

\* Fix info: the choice is stored before the lock is asked for.  Whoever has
\* read the Title by now has not read this.
Pick(r, n, id) ==
    /\ Move /\ worker = "up" /\ job[r].pc = "idle"
    /\ record' = [ids |-> [record.ids EXCEPT ![n] = id], ns |-> n, chosen |-> TRUE]
    /\ status' = "pending" /\ retry' = "no"
    /\ picked' = <<n, id>> /\ torn' = FALSE
    /\ job' = [w \in Workers |-> IF w = r THEN [NoJob EXCEPT !.pc = "picked"]
                                 ELSE [job[w] EXCEPT !.old = job[w].copy # None]]
    /\ UNCHANGED <<shows, locked, policy, memory, tornEdit, unapplied>>

ReadPicked(r) ==
    /\ job[r].pc = "picked"
    /\ Become(r, [job[r] EXCEPT !.pc = "waiting", !.copy = record])
    /\ UNCHANGED <<rows, policy, memory, history, moves>>

BeginRequest(r) ==
    /\ job[r].pc = "waiting" /\ ~LockHeld /\ cache' = Effective
    /\ Become(r, [job[r] EXCEPT !.pc = "ready", !.snap = Effective])
    /\ UNCHANGED <<rows, policy, saver, queue, worker, history, moves>>

Settle(w, s, at) == status' = s /\ retry' = at /\ Become(w, NoJob)

Disable(w) ==
    /\ job[w].pc = "ready" /\ job[w].snap.lead = Off /\ Settle(w, "disabled", "no")
    /\ UNCHANGED <<record, shows, locked, policy, memory, history, moves>>

Orphan(w) ==
    /\ job[w].pc = "ready" /\ job[w].snap.lead # Off
    /\ Orphaned(job[w].snap, job[w].copy) /\ Settle(w, "unmatched", "no")
    /\ UNCHANGED <<record, shows, locked, policy, memory, history, moves>>

\* Mutant of Ask: the locks are not read.
AskLocksUnread(w) ==
    /\ job[w].pc = "ready" /\ job[w].snap.lead # Off /\ ~Orphaned(job[w].snap, job[w].copy)
    /\ Become(w, [job[w] EXCEPT !.pc = "asking"])
    /\ UNCHANGED <<rows, policy, memory, history, moves>>
Ask(w) ==
    /\ job[w].pc = "ready" /\ job[w].snap.lead # Off /\ ~Orphaned(job[w].snap, job[w].copy)
    /\ Become(w, [job[w] EXCEPT !.pc = "asking", !.locks = locked])
    /\ UNCHANGED <<rows, policy, memory, history, moves>>

WriteTitleEnrichment(w, n, id) ==
    /\ record' = IF Replaces(job[w].copy, n) THEN Replaced(record, n, id) ELSE Filled(record, n, id)
    /\ shows' = IF job[w].locks THEN shows ELSE <<n, id>>
    /\ torn' = (torn \/ job[w].old)
    /\ tornEdit' = IF job[w].locks THEN tornEdit ELSE job[w].late

Match(w) ==
    /\ job[w].pc = "asking"
    /\ LET n == Asked(job[w].snap, job[w].copy)
       IN \E id \in Hits(job[w].copy, n) : WriteTitleEnrichment(w, n, id)
    /\ Settle(w, "matched", "no")
    /\ UNCHANGED <<locked, policy, memory, picked, unapplied, moves>>

NoMatch(w) ==
    /\ job[w].pc = "asking" /\ Settle(w, "unmatched", "no")
    /\ UNCHANGED <<record, shows, locked, policy, memory, history, moves>>

\* The provider could not answer: asked again later.
Postpone(w) ==
    /\ job[w].pc = "asking" /\ Settle(w, "failed", "later")
    /\ UNCHANGED <<record, shows, locked, policy, memory, history, moves>>

\* It refused, or the job's context ended: for an Admin to match by hand.
Park(w) ==
    /\ job[w].pc = "asking" /\ Settle(w, "failed", "no")
    /\ UNCHANGED <<record, shows, locked, policy, memory, history, moves>>

RetryComesDue ==
    /\ retry = "later" /\ retry' = "due"
    /\ UNCHANGED <<record, status, shows, locked, policy, memory, job, history, moves>>

-----------------------------------------------------------------------------
(* Hand-edits, and the end of the process.                                 *)

WriteTitleMetadata ==
    /\ Move /\ worker = "up" /\ shows' = Hand /\ locked' = TRUE /\ tornEdit' = FALSE
    /\ job' = [w \in Workers |-> [job[w] EXCEPT !.late = @ \/ job[w].pc = "asking"]]
    /\ UNCHANGED <<record, status, retry, policy, memory, picked, torn, unapplied>>

ReleaseFieldLock ==
    /\ Move /\ worker = "up" /\ locked' = FALSE
    /\ UNCHANGED <<record, status, retry, shows, policy, memory, job, history>>

Close ==
    /\ Move /\ worker = "up" /\ worker' = "closing"
    /\ UNCHANGED <<rows, policy, cache, saver, queue, job, picked, torn, tornEdit, unapplied>>

\* What is lost of a change of policy: its handler, its pass, or the rest of it.
PolicyUnderWay ==
    \/ saver # "idle" \/ job[Pass].mode = "full"
    \/ \E i \in 1..Len(queue) : queue[i] = "full"

End ==
    /\ worker' = "down" /\ cache' = None /\ saver' = "idle" /\ queue' = <<>>
    /\ job' = [w \in Workers |-> NoJob]
    /\ unapplied' = (unapplied \/ PolicyUnderWay)
    /\ UNCHANGED <<rows, policy, picked, torn, tornEdit>>

Exit  == worker = "closing" /\ job[Pass].pc = "idle" /\ End /\ UNCHANGED moves
Crash == Move /\ worker = "up" /\ End

Restart == /\ worker = "down" /\ worker' = "up"
           /\ UNCHANGED <<rows, policy, cache, saver, queue, job, history, moves>>

JobStep(w) == \/ Disable(w) \/ Orphan(w) \/ Ask(w)
              \/ Match(w) \/ NoMatch(w) \/ Postpone(w) \/ Park(w)

EnrichmentNext ==
    \/ Sweep \/ (\E m \in Modes : StartEnrichPass(m))
    \/ (\E p \in Policies : SavePolicy(p)) \/ SaveFails \/ InvalidateLibrary \/ EnqueueFull
    \/ Dequeue \/ BeginPass \/ PassStops
    \/ (\E r \in Requests : \/ (\E n \in Namespaces, id \in Ids : Pick(r, n, id))
                            \/ ReadPicked(r) \/ BeginRequest(r))
    \/ (\E w \in Workers : JobStep(w) \/ JobFails(w)) \/ RetryComesDue
    \/ WriteTitleMetadata \/ ReleaseFieldLock
    \/ Close \/ Exit \/ Crash \/ Restart

\* The sweep's ticker, the worker, a lookup's deadline and the clock; no Admin has to act.
EnrichmentSpec == EnrichmentInit /\ [][EnrichmentNext]_eVars
EnrichmentFairSpec ==
    /\ EnrichmentSpec
    /\ WF_eVars(Sweep) /\ WF_eVars(Dequeue) /\ WF_eVars(BeginPass) /\ WF_eVars(PassStops)
    /\ WF_eVars(RetryComesDue) /\ WF_eVars(Exit) /\ WF_eVars(Restart)
    /\ WF_eVars(SaveFails \/ InvalidateLibrary) /\ WF_eVars(EnqueueFull)
    /\ \A w \in Workers : WF_eVars(JobStep(w))
    /\ \A r \in Requests : WF_eVars(ReadPicked(r) \/ BeginRequest(r))

-----------------------------------------------------------------------------
(* Properties.                                                             *)

ChosenStays == record.chosen /\ ~torn => RecordOf(record) = picked

EditsStay == locked /\ ~tornEdit => shows = Hand

SaysWhatItsRecordSays ==
    status = "matched" /\ ~torn /\ ~tornEdit => shows \in {Hand, RecordOf(record)}

\* Whatever passes, repointed Libraries, retries and restarts come between, the
\* record an Admin chose last stays the Title's record, what he wrote by hand
\* stays while it is locked, and what a matched Title says is what its record
\* says (ADR-0045, ADR-0046, ADR-0060 decision 6): only a job that read the
\* Title, or the locks, before the Admin changed them can undo it.
TellsItsRecord == ChosenStays /\ EditsStay /\ SaysWhatItsRecordSays

Quiet == saver = "idle" /\ queue = <<>> /\ \A w \in Workers : job[w].pc = "idle"

\* When the jobs are done the Title is as the stored policy would have it,
\* through the cache, the passes queued or under way when it was saved and the
\* requests between (ADR-0027): disabled or never asked when off, otherwise not
\* disabled, and if matched then by the provider the policy or the choice names.
PolicyTakes ==
    Quiet /\ ~unapplied /\ ~torn =>
        IF policy.lead = Off THEN status \in {"pending", "disabled"}
        ELSE /\ status # "disabled"
             /\ status = "matched" /\ shows # Hand /\ ~tornEdit =>
                    shows[1] = Asked(policy, record) /\ ~Orphaned(policy, record)

\* A Title that is new, repicked or waiting for its retry is looked up sooner or
\* later, unless the Library is switched off (ADR-0048).
AskedAgain ==
    []<>( \/ status # "pending" /\ retry = "no"
          \/ Effective.lead = Off
          \/ \E w \in Workers : job[w].pc = "asking")
=============================================================================
