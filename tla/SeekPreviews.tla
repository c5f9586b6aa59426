---------------------------- MODULE SeekPreviews ----------------------------
(***************************************************************************)
(* internal/seekpreview: the Generator that cuts each File's tile sheets.  *)
(* One worker drains a queue, one janitor sweeps sets that no longer       *)
(* belong, and an Admin's DELETE takes a Library's sets away under both.   *)
(* A set is a directory of sheets and a record in the store; nothing but   *)
(* the order of the steps keeps the two together.                          *)
(*                                                                         *)
(* A version stands for a File's mtime and size.  Whatever happens to the  *)
(* Generator from outside, a crash and each failing call of the store or   *)
(* the file system included, spends one of MaxEvents.  A removal whose     *)
(* failure leaves only sheets that no ready record speaks of is taken to   *)
(* work.                                                                   *)
(***************************************************************************)
EXTENDS Naturals, Sequences, FiniteSets

CONSTANTS Files, Libraries, LibraryOf,
          MaxVersion,  \* bound: how often a File's bytes change
          Sheets,      \* the sheets of a set
          MaxEvents,   \* bound
          None

ASSUME PreviewConstants ==
    /\ LibraryOf \in [Files -> Libraries]
    /\ MaxVersion \in Nat /\ Sheets \in Nat \ {0} /\ MaxEvents \in Nat
    /\ None \notin Files \cup Libraries

VARIABLES
    \* what the Generator is told of
    row, version,  \* the files row: is it there, and the version it names
    bytes,         \* the version that is on disk
    toggle,        \* library_seek_previews.enabled
    busy,          \* a Transcode is running
    scanned,       \* Libraries whose scan wrote rows and has not completed
    \* what outlives a restart
    record,        \* seek_previews
    dir,           \* each File's directory: the version each sheet was cut from
    \* the Generator
    server, libs, all, wanted, deletes, deletedAt, sweepWake, cur, worker, janitor,
    deleter,       \* the DELETE request
    \* for the bound and the properties
    events,
    excused,       \* Files whose set something cut short, as the properties say
    forgotten,     \* Files a failed read made the Generator forget
    clean          \* Files that nothing has wanted since their Library's DELETE

catalog   == <<row, version, bytes, toggle, busy, scanned>>
generator == <<server, libs, all, wanted, deletes, deletedAt, sweepWake, cur, worker, janitor>>
history   == <<events, excused, forgotten, clean>>
vars      == <<catalog, record, dir, generator, deleter, history>>

Versions == 0..MaxVersion
Of(l)    == {f \in Files : LibraryOf[f] = l}
NoRecord == [status |-> "none", of |-> 0]
NoJob    == [file |-> None, force |-> FALSE, started |-> 0, of |-> 0, ok |-> TRUE]
Idle     == [at |-> "idle", lib |-> None, ids |-> {}, file |-> None]
AtRest   == [at |-> "idle", condemned |-> {}, stale |-> {}, owned |-> {}, file |-> None]
Waiting  == [at |-> "wait", libs |-> {}, files |-> {}, job |-> NoJob]

TypeOK ==
    /\ row \in [Files -> {"present", "missing", "purged"}]
    /\ version \in [Files -> Versions] /\ bytes \in [Files -> Versions]
    /\ toggle \in [Libraries -> BOOLEAN] /\ busy \in BOOLEAN
    /\ scanned \subseteq Libraries
    /\ record \in [Files -> [status : {"none", "ready", "failed"}, of : Versions]]
    /\ dir \in [Files -> {None} \cup Seq(Versions)]
    /\ server \in {"up", "closing", "down"}
    /\ libs \subseteq Libraries /\ all \in BOOLEAN /\ sweepWake \in BOOLEAN
    /\ wanted \in [Files -> {"no", "back", "front", "force"}]
    /\ deletes \in 0..MaxEvents /\ deletedAt \in [Libraries -> 0..MaxEvents]
    /\ cur \in [file : Files \cup {None}, cancelled : BOOLEAN]
    /\ events \in 0..MaxEvents
    /\ excused \subseteq Files /\ forgotten \subseteq Files /\ clean \subseteq Files

Init ==
    /\ row = [f \in Files |-> "present"]
    /\ version = [f \in Files |-> 0] /\ bytes = version
    /\ toggle = [l \in Libraries |-> TRUE] /\ busy = FALSE /\ scanned = {}
    /\ record = [f \in Files |-> NoRecord] /\ dir = [f \in Files |-> None]
    /\ server = "up" /\ libs = {} /\ all = TRUE
    /\ wanted = [f \in Files |-> "no"]
    /\ deletes = 0 /\ deletedAt = [l \in Libraries |-> 0]
    /\ sweepWake = TRUE /\ cur = [file |-> None, cancelled |-> FALSE]
    /\ worker = Waiting /\ janitor = AtRest /\ deleter = Idle
    /\ events = 0 /\ excused = {} /\ forgotten = {} /\ clean = {}

Spend == events < MaxEvents /\ events' = events + 1

\* A call of f's set fails; what it was to take or make may be there in part.
FailsFor(f) == Spend /\ excused' = excused \cup {f} /\ UNCHANGED <<forgotten, clean>>
HalfGone(f) == dir[f] # None /\ dir' \in {dir, [dir EXCEPT ![f] = <<>>]}

HasRecord(f) == record[f].status # "none"
Fresh(f)     == HasRecord(f) /\ record[f].of = version[f]
Stale(f)     == HasRecord(f) /\ record[f].of # version[f]
Whole(f)     == dir[f] # None /\ Len(dir[f]) = Sheets

-----------------------------------------------------------------------------
(* The queue.  Forced entries are in front too; which of several in front, *)
(* and which of several behind, goes first is left open.                   *)

Urgency == [no |-> 0, back |-> 1, front |-> 2, force |-> 3]

\* push for every File of F; an entry that is waiting keeps what it has more of.
Pushed(F, how) ==
    [f \in Files |-> IF f \in F /\ Urgency[wanted[f]] < Urgency[how] THEN how ELSE wanted[f]]

\* AfterScan: a Library that waits already is left alone, the janitor too.
Queue(l) ==
    IF l \in libs THEN UNCHANGED <<libs, sweepWake>>
    ELSE libs' = libs \cup {l} /\ sweepWake' = TRUE

HasWork == libs # {} \/ all \/ \E f \in Files : wanted[f] # "no"

-----------------------------------------------------------------------------
(* What comes from outside.                                                *)

Rewrite(f) ==
    /\ bytes[f] < MaxVersion /\ Spend
    /\ bytes' = [bytes EXCEPT ![f] = @ + 1]
    /\ UNCHANGED <<row, version, toggle, busy, scanned, record, dir, generator, deleter, excused, forgotten, clean>>

\* A scan's row writes, and the hook when it is done.
ScanRow(f) ==
    /\ server = "up" /\ row[f] = "present" /\ version[f] # bytes[f]
    /\ version' = [version EXCEPT ![f] = bytes[f]]
    /\ scanned' = scanned \cup {LibraryOf[f]}
    /\ UNCHANGED <<row, bytes, toggle, busy, record, dir, generator, deleter, history>>

Turns == {<<"present", "missing">>, <<"missing", "present">>, <<"missing", "purged">>}

ScanFinds(f) ==
    /\ server = "up" /\ Spend
    /\ \E t \in Turns : row[f] = t[1] /\ row' = [row EXCEPT ![f] = t[2]]
    /\ scanned' = scanned \cup {LibraryOf[f]}
    /\ clean' = clean \ {f}
    /\ UNCHANGED <<version, bytes, toggle, busy, record, dir, generator, deleter, excused, forgotten>>

ScanCompletes(l) ==
    /\ server = "up" /\ l \in scanned
    /\ scanned' = scanned \ {l}
    /\ Queue(l)
    /\ UNCHANGED <<row, version, bytes, toggle, busy, record, dir, server, all, wanted, deletes,
                   deletedAt, cur, worker, janitor, deleter, history>>

Transcode ==
    /\ busy' = ~busy
    /\ IF busy THEN UNCHANGED events ELSE Spend
    /\ UNCHANGED <<row, version, bytes, toggle, scanned, record, dir, generator, deleter, excused, forgotten, clean>>

Ask(f, how) ==
    /\ server = "up" /\ Spend
    /\ wanted' = Pushed({f}, how)
    /\ clean' = clean \ {f}
    /\ UNCHANGED <<catalog, record, dir, server, libs, all, deletes, deletedAt, sweepWake, cur,
                   worker, janitor, deleter, excused, forgotten>>

Bump(f) == Ask(f, "front")

\* Retry, GenerateTitle and GenerateShow: only an eligible File is queued.
Retry(f) == row[f] = "present" /\ Ask(f, "force")

\* The Admin's PUT.  On while a DELETE of the Library is under way: each may
\* undo the other, and no property speaks of its Files until the next set.
SetEnabled(l) ==
    /\ server = "up" /\ Spend
    /\ toggle' = [toggle EXCEPT ![l] = ~@]
    /\ IF toggle[l] THEN UNCHANGED <<libs, sweepWake, excused, clean>>
       ELSE /\ Queue(l)
            /\ excused' = IF deleter.lib = l THEN excused \cup Of(l) ELSE excused
            /\ clean' = clean \ Of(l)
    /\ UNCHANGED <<row, version, bytes, busy, scanned, record, dir, server, all, wanted, deletes,
                   deletedAt, cur, worker, janitor, deleter, forgotten>>

-----------------------------------------------------------------------------
(* The Admin's DELETE: toggle off, then DeleteLibrary.                     *)

DeleteBegins(l) ==
    /\ server = "up" /\ deleter.at = "idle" /\ Spend
    /\ toggle' = [toggle EXCEPT ![l] = FALSE]
    /\ deleter' = [Idle EXCEPT !.at = "mark", !.lib = l,
                       !.ids = {f \in Of(l) : row[f] = "present" \/ (row[f] = "missing" /\ HasRecord(f))}]
    /\ UNCHANGED <<row, version, bytes, busy, scanned, record, dir, generator, excused, forgotten, clean>>

\* What the DELETE answers for: the Files it knew of.
LeftAlone == {f \in deleter.ids : row[f] # "purged"}

\* Mutant of DeleteMarks: what was taken from the queue is forgotten.
DeleteMarksQueueOnly ==
    /\ deleter.at = "mark"
    /\ wanted' = [f \in Files |-> IF f \in deleter.ids THEN "no" ELSE wanted[f]]
    /\ libs' = libs \ {deleter.lib}
    /\ cur' = [cur EXCEPT !.cancelled = @ \/ cur.file \in Of(deleter.lib)]
    /\ deleter' = [deleter EXCEPT !.at = "wait"]
    /\ IF toggle[deleter.lib]
       THEN clean' = clean \ Of(deleter.lib) /\ excused' = excused \cup Of(deleter.lib)
       ELSE clean' = clean \cup LeftAlone /\ UNCHANGED excused
    /\ UNCHANGED <<catalog, record, dir, server, all, deletes, deletedAt, sweepWake, worker, janitor, events,
                   forgotten>>

\* The critical section, and cancel for the File being made.
DeleteMarks ==
    /\ deleter.at = "mark"
    /\ deletes' = deletes + 1
    /\ deletedAt' = [deletedAt EXCEPT ![deleter.lib] = deletes']
    /\ wanted' = [f \in Files |-> IF f \in deleter.ids THEN "no" ELSE wanted[f]]
    /\ libs' = libs \ {deleter.lib}
    /\ cur' = [cur EXCEPT !.cancelled = @ \/ cur.file \in Of(deleter.lib)]
    /\ deleter' = [deleter EXCEPT !.at = "wait"]
    /\ IF toggle[deleter.lib]
       THEN clean' = clean \ Of(deleter.lib) /\ excused' = excused \cup Of(deleter.lib)
       ELSE clean' = clean \cup LeftAlone /\ UNCHANGED excused
    /\ UNCHANGED <<catalog, record, dir, server, all, sweepWake, worker, janitor, events,
                   forgotten>>

\* <-cur.done, then RemoveLibrary reads the records.
DeleteWaited ==
    /\ deleter.at = "wait" /\ ~cur.cancelled
    /\ deleter' = [deleter EXCEPT !.at = "remove",
                       !.ids = {f \in Of(deleter.lib) : HasRecord(f) /\ row[f] # "purged"}]
    /\ UNCHANGED <<catalog, record, dir, generator, history>>

\* A File asked for again meanwhile may be in the making: its sheets go too.
DeleteDir(f) ==
    /\ deleter.at = "remove" /\ f \in deleter.ids
    /\ dir' = [dir EXCEPT ![f] = None]
    /\ deleter' = [deleter EXCEPT !.at = "forget", !.file = f]
    /\ excused' = IF cur.file = f THEN excused \cup {f} ELSE excused
    /\ UNCHANGED <<catalog, record, generator, events, forgotten, clean>>

DeleteRecord ==
    /\ deleter.at = "forget"
    /\ record' = [record EXCEPT ![deleter.file] = NoRecord]
    /\ deleter' = [deleter EXCEPT !.at = "remove", !.ids = @ \ {deleter.file}, !.file = None]
    /\ UNCHANGED <<catalog, dir, generator, history>>

\* The request ends where a call fails: the first read, RemoveLibrary's read,
\* or one of its removals.
DeleteFails ==
    /\ deleter' = Idle /\ Spend
    /\ \/ deleter.at = "mark" /\ UNCHANGED <<dir, excused, clean>>
       \/ /\ deleter.at = "wait" /\ ~cur.cancelled
          /\ clean' = clean \ Of(deleter.lib) /\ UNCHANGED <<dir, excused>>
       \/ /\ deleter.at = "remove"
          /\ \E f \in deleter.ids : HalfGone(f) /\ excused' = excused \cup {f}
          /\ clean' = clean \ Of(deleter.lib)
       \/ /\ deleter.at = "forget" /\ excused' = excused \cup {deleter.file}
          /\ clean' = clean \ Of(deleter.lib) /\ UNCHANGED dir
    /\ UNCHANGED <<catalog, record, generator, forgotten>>

DeleteReturns ==
    /\ deleter.at = "remove" /\ deleter.ids = {}
    /\ deleter' = Idle
    /\ UNCHANGED <<catalog, record, dir, generator, history>>

DeleteSteps == \/ DeleteMarks \/ DeleteWaited \/ DeleteRecord \/ DeleteReturns
               \/ \E f \in Files : DeleteDir(f)

-----------------------------------------------------------------------------
(* The worker.                                                             *)

Goes(at)     == worker' = [worker EXCEPT !.at = at]
WorkerOnly   == UNCHANGED <<catalog, record, dir, server, libs, all, wanted, deletes, deletedAt,
                            sweepWake, cur, janitor, deleter, history>>
Job          == worker.job
Stopping     == server # "up"
CutShort     == Stopping \/ cur.cancelled   \* the File's context has ended

Finished     == worker' = Waiting

\* run: it holds the lane for the step that follows, BackgroundWork says how.
Turn   == worker.at = "wait" /\ HasWork /\ ~Stopping /\ Goes("turn") /\ WorkerOnly
Leaves == worker.at = "wait" /\ Stopping /\ Goes("done") /\ WorkerOnly

\* expand: take what is queued, read its Files, push those without a set.
ExpandTakes ==
    /\ worker.at = "turn"
    /\ worker' = [worker EXCEPT !.at = IF all \/ libs # {} THEN "expand" ELSE "pick",
                                !.libs = IF all THEN Libraries ELSE libs]
    /\ libs' = {} /\ all' = FALSE
    /\ UNCHANGED <<catalog, record, dir, server, wanted, deletes, deletedAt, sweepWake, cur,
                   janitor, deleter, history>>

\* A Library whose read fails is off the queue all the same.
ExpandReads ==
    /\ worker.at = "expand"
    /\ \E lost \in SUBSET worker.libs :
          /\ worker' = [worker EXCEPT !.at = "push", !.libs = {},
                !.files = {f \in Files : /\ LibraryOf[f] \in worker.libs \ lost /\ row[f] = "present"
                                         /\ toggle[LibraryOf[f]] /\ ~Fresh(f)}]
          /\ forgotten' = {f \in Files : IF LibraryOf[f] \in worker.libs THEN LibraryOf[f] \in lost
                                         ELSE f \in forgotten}
          /\ IF lost = {} THEN UNCHANGED events ELSE Spend
    /\ UNCHANGED <<catalog, record, dir, server, libs, all, wanted, deletes, deletedAt, sweepWake,
                   cur, janitor, deleter, excused, clean>>

\* Mutant of ExpandPushes: the Libraries are taken off the queue once read.
ExpandPushesThenClears ==
    /\ worker.at = "push"
    /\ wanted' = Pushed(worker.files, "back")
    /\ worker' = [worker EXCEPT !.at = "pick", !.files = {}]
    /\ libs' = {}
    /\ UNCHANGED <<catalog, record, dir, server, all, deletes, deletedAt, sweepWake, cur,
                   janitor, deleter, history>>

ExpandPushes ==
    /\ worker.at = "push"
    /\ wanted' = Pushed(worker.files, "back")
    /\ worker' = [worker EXCEPT !.at = "pick", !.files = {}]
    /\ UNCHANGED <<catalog, record, dir, server, libs, all, deletes, deletedAt, sweepWake, cur,
                   janitor, deleter, history>>

First(f) == /\ wanted[f] # "no"
            /\ \A g \in Files : wanted[g] \in {"front", "force"} => wanted[f] \in {"front", "force"}

\* yield comes first: not while a Transcode runs.
Pick ==
    /\ worker.at = "pick"
    /\ \/ /\ Stopping \/ (~busy /\ \A f \in Files : wanted[f] = "no")
          /\ Finished /\ UNCHANGED wanted
       \/ \E f \in Files :
             /\ ~Stopping /\ ~busy /\ First(f)
             /\ worker' = [worker EXCEPT !.at = "handle",
                    !.job = [file |-> f, force |-> (wanted[f] = "force"), started |-> deletes,
                             of |-> 0, ok |-> TRUE]]
             /\ wanted' = [wanted EXCEPT ![f] = "no"]
    /\ UNCHANGED <<catalog, record, dir, server, libs, all, deletes, deletedAt, sweepWake, cur,
                   janitor, deleter, history>>

\* A stale set is made again whatever the toggle says.  Where the File cannot
\* be read it is off the queue all the same.
Handle ==
    /\ worker.at = "handle"
    /\ LET f == Job.file IN
       \/ /\ IF row[f] # "present" \/ (~Job.force /\ ~Stale(f) /\ (Fresh(f) \/ ~toggle[LibraryOf[f]]))
             THEN Finished
             ELSE worker' = [worker EXCEPT !.job.of = version[f],
                                           !.at = IF Job.force \/ Stale(f) THEN "remove" ELSE "start"]
          /\ clean' = IF Stale(f) THEN clean \ {f} ELSE clean
          /\ UNCHANGED <<events, forgotten>>
       \/ Finished /\ Spend /\ forgotten' = forgotten \cup {f} /\ UNCHANGED clean
    /\ UNCHANGED <<catalog, record, dir, server, libs, all, wanted, deletes, deletedAt, sweepWake,
                   cur, janitor, deleter, excused>>

RemoveDir ==
    /\ worker.at = "remove"
    /\ \/ dir' = [dir EXCEPT ![Job.file] = None] /\ Goes("forget") /\ UNCHANGED history
       \/ HalfGone(Job.file) /\ FailsFor(Job.file) /\ Finished
    /\ UNCHANGED <<catalog, record, server, libs, all, wanted, deletes, deletedAt, sweepWake, cur,
                   janitor, deleter>>

RemoveRecord ==
    /\ worker.at = "forget"
    /\ \/ /\ record' = [record EXCEPT ![Job.file] = NoRecord]
          /\ Goes("start") /\ UNCHANGED history
       \/ FailsFor(Job.file) /\ Finished /\ UNCHANGED record
    /\ UNCHANGED <<catalog, dir, server, libs, all, wanted, deletes, deletedAt, sweepWake, cur,
                   janitor, deleter>>

\* generate: under sweepMu, so not while the janitor sweeps.
Start ==
    /\ worker.at = "start" /\ janitor.at \notin {"sweep", "forget"}
    /\ IF deletedAt[LibraryOf[Job.file]] > Job.started
       THEN Finished /\ UNCHANGED cur
       ELSE Goes("build") /\ cur' = [file |-> Job.file, cancelled |-> FALSE]
    /\ UNCHANGED <<catalog, record, dir, server, libs, all, wanted, deletes, deletedAt, sweepWake,
                   janitor, deleter, history>>

Build ==
    /\ worker.at = "build"
    /\ dir' = [dir EXCEPT ![Job.file] = <<>>]
    /\ excused' = IF deleter.lib = LibraryOf[Job.file] THEN excused ELSE excused \ {Job.file}
    /\ Goes("cut")
    /\ UNCHANGED <<catalog, record, server, libs, all, wanted, deletes, deletedAt, sweepWake, cur,
                   janitor, deleter, events, forgotten, clean>>

\* The next sheet, after a safe point but for the first.  It cannot be written
\* where the directory is gone, and a decoder may fail.
CutSheet ==
    /\ worker.at = "cut"
    /\ LET f == Job.file IN
       \/ /\ ~CutShort /\ ~Whole(f) /\ dir[f] # None /\ (busy => dir[f] = <<>>)
          /\ dir' = [dir EXCEPT ![f] = Append(@, bytes[f])]
          /\ UNCHANGED <<worker, events>>
       \/ /\ Whole(f) \/ CutShort
          /\ worker' = [worker EXCEPT !.at = "built", !.job.ok = Whole(f)]
          /\ UNCHANGED <<dir, events>>
       \/ /\ IF dir[f] = None THEN UNCHANGED events ELSE Spend
          /\ worker' = [worker EXCEPT !.at = "built", !.job.ok = FALSE]
          /\ UNCHANGED dir
    /\ UNCHANGED <<catalog, record, server, libs, all, wanted, deletes, deletedAt, sweepWake, cur,
                   janitor, deleter, excused, forgotten, clean>>

\* changedSince and deletedSince, on a File that was built whole; one that
\* cannot be read counts as unchanged.
Changed == /\ row[Job.file] = "present" /\ version[Job.file] # Job.of
           /\ ~(deletedAt[LibraryOf[Job.file]] > Job.started)

Check ==
    /\ worker.at = "built"
    /\ IF CutShort THEN Goes("discard") /\ UNCHANGED <<dir, history>>
       ELSE IF Job.ok
       THEN /\ UNCHANGED dir
            /\ \/ Goes(IF Changed THEN "again" ELSE "save") /\ UNCHANGED history
               \/ Changed /\ Goes("save") /\ Spend /\ UNCHANGED <<excused, forgotten, clean>>
       ELSE Goes("save") /\ dir' = [dir EXCEPT ![Job.file] = None] /\ UNCHANGED history
    /\ UNCHANGED <<catalog, record, server, libs, all, wanted, deletes, deletedAt, sweepWake, cur,
                   janitor, deleter>>

Discard ==
    /\ worker.at \in {"discard", "again"}
    /\ dir' = [dir EXCEPT ![Job.file] = None]
    /\ wanted' = IF worker.at = "again" THEN Pushed({Job.file}, "back") ELSE wanted
    /\ Goes("end")
    /\ UNCHANGED <<catalog, record, server, libs, all, deletes, deletedAt, sweepWake, cur,
                   janitor, deleter, history>>

Save ==
    /\ worker.at = "save" /\ Goes("end")
    /\ \/ /\ record' = [record EXCEPT ![Job.file] =
                 [status |-> IF Job.ok THEN "ready" ELSE "failed", of |-> Job.of]]
          /\ forgotten' = forgotten \ {Job.file} /\ UNCHANGED <<events, excused, clean>>
       \/ FailsFor(Job.file) /\ UNCHANGED record
    /\ UNCHANGED <<catalog, dir, server, libs, all, wanted, deletes, deletedAt, sweepWake, cur,
                   janitor, deleter>>

End ==
    /\ worker.at = "end" /\ Finished
    /\ cur' = [file |-> None, cancelled |-> FALSE]
    /\ UNCHANGED <<catalog, record, dir, server, libs, all, wanted, deletes, deletedAt, sweepWake,
                   janitor, deleter, history>>

WorkerSteps ==
    \/ Turn \/ Leaves \/ ExpandTakes \/ ExpandReads \/ ExpandPushes \/ Pick \/ Handle
    \/ RemoveDir \/ RemoveRecord \/ Start \/ Build \/ CutSheet \/ Check \/ Discard \/ Save \/ End

-----------------------------------------------------------------------------
(* The janitor, under sweepMu from "sweep" on until the orphans are gone.  *)

JanitorOnly == UNCHANGED <<catalog, server, libs, all, deletes, deletedAt, cur, worker, deleter>>

\* Mutant of Sweep: the directory of the File being made is an orphan.
SweepUnaware ==
    /\ janitor.at = "idle" /\ sweepWake /\ sweepWake' = FALSE
    /\ LET gone   == {f \in Files : HasRecord(f) /\ row[f] = "purged"}
           stale  == {f \in Files : Stale(f) /\ row[f] # "purged"}
       IN janitor' = [AtRest EXCEPT !.at = "sweep", !.condemned = gone \cup stale, !.stale = stale,
                 !.owned = {f \in Files \ (gone \cup stale) : HasRecord(f)}]
    /\ UNCHANGED <<record, dir, wanted, history>> /\ JanitorOnly

\* Where the records cannot be read, nothing is swept.
Sweep ==
    /\ janitor.at = "idle" /\ sweepWake /\ sweepWake' = FALSE
    /\ LET others == Files \ {cur.file}
           gone   == {f \in others : HasRecord(f) /\ row[f] = "purged"}
           stale  == {f \in others : Stale(f) /\ row[f] # "purged"}
       IN \/ /\ janitor' = [AtRest EXCEPT !.at = "sweep", !.condemned = gone \cup stale, !.stale = stale,
                   !.owned = {cur.file} \cup {f \in others \ (gone \cup stale) : HasRecord(f)}]
             /\ UNCHANGED history
          \/ Spend /\ UNCHANGED <<janitor, excused, forgotten, clean>>
    /\ UNCHANGED <<record, dir, wanted>> /\ JanitorOnly

\* A removal that fails does not keep the sweep from the next one.
SweepDir(f) ==
    /\ janitor.at = "sweep" /\ f \in janitor.condemned
    /\ \/ /\ dir' = [dir EXCEPT ![f] = None] /\ UNCHANGED history
          /\ janitor' = [janitor EXCEPT !.at = "forget", !.file = f, !.condemned = @ \ {f}]
       \/ /\ HalfGone(f) /\ FailsFor(f)
          /\ janitor' = [janitor EXCEPT !.condemned = @ \ {f}]
    /\ UNCHANGED <<record, wanted, sweepWake>> /\ JanitorOnly

SweepRecord ==
    /\ janitor.at = "forget"
    /\ janitor' = [janitor EXCEPT !.at = "sweep", !.file = None]
    /\ \/ record' = [record EXCEPT ![janitor.file] = NoRecord] /\ UNCHANGED history
       \/ FailsFor(janitor.file) /\ UNCHANGED record
    /\ UNCHANGED <<dir, wanted, sweepWake>> /\ JanitorOnly

SweepOrphans ==
    /\ janitor.at = "sweep" /\ janitor.condemned = {}
    /\ dir' = [f \in Files |-> IF f \in janitor.owned THEN dir[f] ELSE None]
    /\ janitor' = [janitor EXCEPT !.at = "push", !.owned = {}]
    /\ UNCHANGED <<record, wanted, sweepWake, history>> /\ JanitorOnly

SweepPushes ==
    /\ janitor.at = "push"
    /\ wanted' = Pushed(janitor.stale, "back")
    /\ janitor' = AtRest
    /\ UNCHANGED <<record, dir, sweepWake, history>> /\ JanitorOnly

JanitorEnds ==
    /\ janitor.at = "idle" /\ Stopping
    /\ janitor' = [AtRest EXCEPT !.at = "done"]
    /\ UNCHANGED <<record, dir, wanted, sweepWake, history>> /\ JanitorOnly

JanitorSteps == \/ Sweep \/ SweepRecord \/ SweepOrphans \/ SweepPushes \/ JanitorEnds
                \/ \E f \in Files : SweepDir(f)

-----------------------------------------------------------------------------
(* Close, a crash, and the next start with its Backfill.                   *)

Close ==
    /\ server = "up" /\ Spend /\ server' = "closing"
    /\ UNCHANGED <<catalog, record, dir, libs, all, wanted, deletes, deletedAt, sweepWake, cur,
                   worker, janitor, deleter, excused, forgotten, clean>>

\* Nothing but the store and the directories is left.  A record whose set was
\* half removed stays.
Ends ==
    /\ server' = "down"
    /\ libs' = {} /\ all' = FALSE /\ wanted' = [f \in Files |-> "no"]
    /\ deletes' = 0 /\ deletedAt' = [l \in Libraries |-> 0]
    /\ sweepWake' = FALSE /\ cur' = [file |-> None, cancelled |-> FALSE]
    /\ worker' = Waiting /\ janitor' = AtRest /\ deleter' = Idle
    /\ scanned' = {}
    /\ excused' = excused \cup {f \in Files : record[f].status = "ready" /\ ~Whole(f)}
    /\ clean' = IF deleter.at = "idle" THEN clean ELSE clean \ Of(deleter.lib)
    /\ UNCHANGED <<row, version, bytes, toggle, busy, record, dir, forgotten>>

Closed == /\ server = "closing" /\ worker.at = "done" /\ janitor.at = "done"
          /\ Ends /\ UNCHANGED events

Crash == server = "up" /\ Spend /\ Ends

Boot ==
    /\ server = "down" /\ server' = "up"
    /\ all' = TRUE /\ sweepWake' = TRUE
    /\ UNCHANGED <<catalog, record, dir, libs, wanted, deletes, deletedAt, cur, worker, janitor,
                   deleter, history>>

Next ==
    \/ WorkerSteps /\ server # "down"
    \/ JanitorSteps /\ server # "down"
    \/ DeleteSteps \/ DeleteFails
    \/ \E f \in Files : Rewrite(f) \/ ScanRow(f) \/ ScanFinds(f) \/ Bump(f) \/ Retry(f)
    \/ \E l \in Libraries : ScanCompletes(l) \/ SetEnabled(l) \/ DeleteBegins(l)
    \/ Transcode \/ Close \/ Closed \/ Crash \/ Boot

Spec == Init /\ [][Next]_vars

-----------------------------------------------------------------------------
(* A ready set is all there, and one that counts as fresh shows the bytes  *)
(* of the version it names, whatever raced it; unless a crash, a failed    *)
(* call or a DELETE of a File asked for again cut its removal in two.      *)
BeingRemoved(f) ==
    \/ worker.at = "forget" /\ Job.file = f
    \/ janitor.at = "forget" /\ janitor.file = f
    \/ deleter.at = "forget" /\ deleter.file = f

SetsAreWhole ==
    \A f \in Files : record[f].status = "ready" /\ f \notin excused /\ ~BeingRemoved(f) =>
        /\ Whole(f)
        /\ record[f].of = bytes[f] => \A i \in 1..Sheets : dir[f][i] = bytes[f]

(* After a DELETE has answered, no work that was under way saves a set it  *)
(* promised away, until someone asks for the File, its Library is turned   *)
(* on or a scan finds it come or gone.  What it cannot promise is a stale  *)
(* set whose turn came meanwhile: Handle makes that again.                 *)
DeletedStaysDeleted ==
    \A f \in clean : deleter.lib # LibraryOf[f] => ~HasRecord(f)

-----------------------------------------------------------------------------
(* Goroutines run, a scan completes, a Server that went down comes back.   *)
(* Nothing says that a Transcode ends or that an Admin does anything.      *)
Fairness ==
    /\ WF_vars(WorkerSteps /\ server # "down") /\ WF_vars(JanitorSteps /\ server # "down")
    /\ WF_vars(DeleteSteps) /\ WF_vars(Closed) /\ WF_vars(Boot)
    /\ \A f \in Files : WF_vars(ScanRow(f))
    /\ \A l \in Libraries : WF_vars(ScanCompletes(l))

FairSpec == Spec /\ Fairness

(* Once Transcodes leave it alone, the Generator catches up: every File    *)
(* that is there, in a Library that is on, comes to have a record of its   *)
(* current version and keeps it, and the queue runs dry.  A File that a    *)
(* failed read made it forget waits for its Library to be read again.      *)
CatchesUp ==
    <>[]~busy => <>[](/\ ~HasWork
                      /\ \A f \in Files : row[f] = "present" /\ toggle[LibraryOf[f]]
                                            => Fresh(f) \/ f \in excused \cup forgotten)

(* A DELETE answers and a shutdown ends, even while a Transcode goes on    *)
(* for good and holds generation back.                                     *)
Returns ==
    /\ deleter.at # "idle" ~> deleter.at = "idle"
    /\ server # "up" ~> server = "up"

(* Nothing that was begun stays undone: both of the above.                 *)
Settles == CatchesUp /\ Returns
=============================================================================
