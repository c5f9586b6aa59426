---------------------------- MODULE LibraryMirror ----------------------------
(***************************************************************************)
(* One linked Library, from the sharer's Export to the home Server's       *)
(* mirror: internal/api/export_handlers.go and internal/store/export.go    *)
(* over there, internal/link/sync.go and internal/store/mirror.go here.    *)
(*                                                                         *)
(* The feed holds each entity once, at the instant it last changed, and is *)
(* read page by page with a keyset cursor; a page is put together from one *)
(* query per type, outside any transaction.  Titles (and Shows, Albums,    *)
(* ..) are never removed, only hidden; Editions and Streams, here Media,   *)
(* are replaced by rows with fresh ids and leave no tombstone.  Files,     *)
(* which keep their ids, are left out.                                     *)
(* A sweep is one pull; sweeps of one Link may overlap (Sweeps).           *)
(* Stamps are distinct per transaction of the sharer, which is true down   *)
(* to the millisecond.                                                     *)
(***************************************************************************)
EXTENDS Naturals, FiniteSets

CONSTANTS NMedia, NTitles, \* ids are numbers: the feed breaks ties by id
          Sweeps,
          PageSize,
          MaxChanges,      \* bound: transactions of the sharer
          MaxGrants,       \* bound: changes of the grant
          MaxFailures,     \* bound: failed requests and restarts
          Absent           \* no row

ASSUME MirrorConstants ==
    /\ NMedia \in Nat /\ NTitles \in Nat \ {0} /\ PageSize \in Nat \ {0}
    /\ Absent \notin [at : Nat, hidden : BOOLEAN]
    /\ MaxChanges \in Nat /\ MaxGrants \in Nat /\ MaxFailures \in Nat

Media    == 1 .. NMedia             \* "edition" sorts before "show", "title", ..
Titles   == NMedia + 1 .. NMedia + NTitles
Entities == 1 .. NMedia + NTitles

\* exportSources: the queries of a page, in order.  No two Titles here are of
\* one type, and Media come last.
Queries   == NTitles + 1
Source(q) == IF q < Queries THEN {NMedia + Queries - q} ELSE Media

\* The Titles whose queries are among the first k of a page.
Asked(k) == {e \in Titles : NMedia + NTitles < e + k}

VARIABLES
    rows,       \* the sharer's rows: when each last changed, and hidden
    clock,      \* the sharer's last stamp
    retired,    \* ids of Media removed
    torn,       \* history: those removed while a walk was under way
    late,       \* history: Titles written when a page under way had asked for them,
                \* until they are written again or mirrored
    granted,    \* the sharer grants the Library
    grants,     \* changes of the grant so far
    mirror,     \* our rows, as the feed last described them
    checkpoint, \* libraries.remote_checkpoint
    phase,      \* "idle", "granted", "ungranted", "walk", "apply", "applied"
    walk,       \* what each sweep has read
    failures

sharer == <<rows, clock, retired, torn, late, granted, grants>>
vars == <<sharer, mirror, checkpoint, phase, walk, failures>>

Row      == [at : Nat, hidden : BOOLEAN]
Rows     == [Entities -> Row \cup {Absent}]
Position == [at : Nat, id : Nat]
Start    == [at |-> 0, id |-> 0]
Nothing  == [e \in Entities |-> Absent]

Walk == [full : BOOLEAN,     \* from the beginning
         cursor : Position,  \* after the last page
         carried : Rows,     \* what the pages held
         asked : 0..NTitles, \* queries answered of the next page
         found : Rows]       \* what they returned

Begin(whole, from) ==
    [full |-> whole, cursor |-> from, carried |-> Nothing, asked |-> 0, found |-> Nothing]

TypeOK ==
    /\ rows \in Rows
    /\ \A e \in Entities : rows[e] # Absent => rows[e].at \in 1..clock
    /\ clock \in 0..MaxChanges
    /\ torn \subseteq retired /\ retired \subseteq Media /\ late \subseteq Titles
    /\ granted \in BOOLEAN /\ grants \in 0..MaxGrants
    /\ mirror \in Rows
    /\ checkpoint \in Position /\ checkpoint.at <= clock
    /\ phase \in [Sweeps -> {"idle", "granted", "ungranted", "walk", "apply", "applied"}]
    /\ walk \in [Sweeps -> Walk]
    /\ failures \in 0..MaxFailures

Init ==
    /\ rows = Nothing /\ clock = 0 /\ retired = {} /\ torn = {} /\ late = {}
    /\ granted = TRUE /\ grants = 0
    /\ mirror = Nothing /\ checkpoint = Start
    /\ phase = [s \in Sweeps |-> "idle"]
    /\ walk = [s \in Sweeps |-> Begin(FALSE, Start)]
    /\ failures = 0

-----------------------------------------------------------------------------
(* The sharer.  The touch triggers stamp what a transaction writes.        *)

Late(t) == (late \ {t}) \cup {u \in {t} : \E s \in Sweeps : u \in Asked(walk[s].asked)}

\* Metadata, a hide or an unhide; or a new Title, which is not hidden.
ChangeTitle(t) ==
    /\ clock < MaxChanges /\ clock' = clock + 1
    /\ \E h \in BOOLEAN :
          /\ h => rows[t] # Absent
          /\ rows' = [rows EXCEPT ![t] = [at |-> clock', hidden |-> h]]
    /\ late' = Late(t)
    /\ UNCHANGED <<retired, torn, granted, grants, mirror, checkpoint, phase, walk, failures>>

\* A rescan: the Title's Media are replaced, the new ones with fresh ids.
Rebuild(t, old, new) ==
    /\ clock < MaxChanges /\ clock' = clock + 1
    /\ new # {} /\ \A m \in new : m \notin retired /\ rows[m] = Absent
    /\ \A m \in old : rows[m] # Absent
    /\ rows' = [e \in Entities |-> IF e \in old THEN Absent
                                   ELSE IF e \in new \cup {t} THEN [at |-> clock', hidden |-> FALSE]
                                   ELSE rows[e]]
    /\ retired' = retired \cup old
    /\ torn' = IF \E s \in Sweeps : phase[s] = "walk" THEN torn \cup old ELSE torn
    /\ late' = Late(t)
    /\ UNCHANGED <<granted, grants, mirror, checkpoint, phase, walk, failures>>

ChangeGrant ==
    /\ grants < MaxGrants /\ grants' = grants + 1
    /\ granted' = ~granted
    /\ UNCHANGED <<rows, clock, retired, torn, late, mirror, checkpoint, phase, walk, failures>>

Before(p, q) == p.at < q.at \/ (p.at = q.at /\ p.id < q.id)

At(found, e) == [at |-> found[e].at, id |-> e]

\* queryExportSource: the rows of one type strictly after the cursor.
After(cursor, q) == {e \in Source(q) : rows[e] # Absent /\ Before(cursor, At(rows, e))}

\* What the queries of a page have returned, its next query answered.
Answered(w) ==
    [e \in Entities |-> IF e \in After(w.cursor, w.asked + 1) THEN rows[e] ELSE w.found[e]]

Held(found) == {e \in Entities : found[e] # Absent}

\* ExportLibrary: the first PageSize of what was found.
Page(found) ==
    {e \in Held(found) :
        Cardinality({d \in Held(found) : Before(At(found, d), At(found, e))}) < PageSize}

\* The position after the page's last row, or where the page started.
Checkpoint(found, cursor) ==
    IF Held(found) = {} THEN cursor
    ELSE At(found, CHOOSE e \in Page(found) :
                       \A d \in Page(found) : d = e \/ Before(At(found, d), At(found, e)))

-----------------------------------------------------------------------------
(* One sweep.                                                              *)

GoIdle(s) ==
    /\ phase' = [phase EXCEPT ![s] = "idle"]
    /\ walk' = [walk EXCEPT ![s] = Begin(FALSE, Start)]

\* reachLibraries: the granted set.
ReadGrants(s) ==
    /\ phase[s] = "idle"
    /\ phase' = [phase EXCEPT ![s] = IF granted THEN "granted" ELSE "ungranted"]
    /\ UNCHANGED <<sharer, mirror, checkpoint, walk, failures>>

\* Mutant of TombstoneMirror: the checkpoint is kept.
HideOnly(s) ==
    /\ phase[s] = "ungranted" /\ GoIdle(s)
    /\ mirror' = [e \in Entities |-> IF e \in Titles /\ mirror[e] # Absent
                                     THEN [mirror[e] EXCEPT !.hidden = TRUE] ELSE mirror[e]]
    /\ UNCHANGED <<sharer, checkpoint, failures>>

\* reconcile: a Library that is not granted is hidden whole.
TombstoneMirror(s) ==
    /\ phase[s] = "ungranted" /\ GoIdle(s)
    /\ mirror' = [e \in Entities |-> IF e \in Titles /\ mirror[e] # Absent
                                     THEN [mirror[e] EXCEPT !.hidden = TRUE] ELSE mirror[e]]
    /\ checkpoint' = Start
    /\ UNCHANGED <<sharer, failures>>

\* pullLibrary: start at the Library's checkpoint.
PullLibrary(s) ==
    /\ phase[s] = "granted"
    /\ phase' = [phase EXCEPT ![s] = "walk"]
    /\ walk' = [walk EXCEPT ![s] = Begin(checkpoint = Start, checkpoint)]
    /\ UNCHANGED <<sharer, mirror, checkpoint, failures>>

\* The sharer answers one query of the page.  Whether the Library is granted
\* is looked up before the first.
QuerySource(s) ==
    /\ phase[s] = "walk" /\ walk[s].asked < NTitles
    /\ walk[s].asked = 0 => granted
    /\ walk' = [walk EXCEPT ![s].asked = @ + 1, ![s].found = Answered(walk[s])]
    /\ UNCHANGED <<sharer, mirror, checkpoint, phase, failures>>

CarriesMedia(carried) == \E m \in Media : carried[m] # Absent

\* The last query, and what the sweep does with the page.
ReadPage(s) ==
    LET found   == Answered(walk[s])
        cursor  == Checkpoint(found, walk[s].cursor)
        carried == [e \in Entities |-> IF e \in Page(found) THEN found[e] ELSE walk[s].carried[e]]
        Goes(to, w) == phase' = [phase EXCEPT ![s] = to] /\ walk' = [walk EXCEPT ![s] = w]
        onwards == [Begin(walk[s].full, cursor) EXCEPT !.carried = carried]
    IN
    /\ phase[s] = "walk" /\ walk[s].asked = NTitles
    /\ \/ /\ Page(found) # Held(found)
          /\ Goes("walk", onwards)
       \/ /\ Page(found) = Held(found)
          /\ ~walk[s].full /\ CarriesMedia(carried)
          /\ Goes("walk", Begin(TRUE, Start))
       \/ /\ Page(found) = Held(found)
          /\ ~walk[s].full /\ carried = Nothing
          /\ GoIdle(s)
       \/ /\ Page(found) = Held(found)
          /\ IF walk[s].full THEN TRUE ELSE carried # Nothing /\ ~CarriesMedia(carried)
          /\ Goes("apply", onwards)
    /\ UNCHANGED <<sharer, mirror, checkpoint, failures>>

\* Mutant of Resync: the walk that is to be full goes on from where it was.
ResyncFromCursor(s) ==
    /\ phase[s] = "walk" /\ granted
    /\ ~walk[s].full /\ walk[s].asked = 0
    /\ walk' = [walk EXCEPT ![s].full = TRUE]
    /\ UNCHANGED <<sharer, mirror, checkpoint, phase, failures>>

\* 410 RESYNC: the checkpoint is older than the sharer keeps tombstones.
Resync(s) ==
    /\ phase[s] = "walk" /\ granted
    /\ ~walk[s].full /\ walk[s].asked = 0
    /\ walk' = [walk EXCEPT ![s] = Begin(TRUE, Start)]
    /\ UNCHANGED <<sharer, mirror, checkpoint, phase, failures>>

\* The sharer answers 404 for a Library it no longer grants.
WalkRefused(s) ==
    /\ phase[s] = "walk" /\ walk[s].asked = 0 /\ ~granted
    /\ GoIdle(s)
    /\ UNCHANGED <<sharer, mirror, checkpoint, failures>>

\* A request or a write fails; the sweep ends where it is.
SweepFails(s) ==
    /\ phase[s] # "idle" /\ failures < MaxFailures
    /\ GoIdle(s)
    /\ failures' = failures + 1
    /\ UNCHANGED <<sharer, mirror, checkpoint>>

\* Apply, once the rows are in: a feed that was empty hands back no position.
Applied(s) ==
    IF walk[s].cursor = Start THEN GoIdle(s)
    ELSE phase' = [phase EXCEPT ![s] = "applied"] /\ UNCHANGED walk

\* What is mirrored as it is by now is late no more.
CatchUp ==
    /\ late' = {t \in late : mirror'[t] # rows[t]}
    /\ UNCHANGED <<rows, clock, retired, torn, granted, grants>>

\* Mutant of ApplyMirror: no pull prunes.
ApplyUnpruned(s) ==
    /\ phase[s] = "apply" /\ Applied(s)
    /\ mirror' = [e \in Entities |-> IF walk[s].carried[e] # Absent THEN walk[s].carried[e]
                                     ELSE mirror[e]]
    /\ CatchUp /\ UNCHANGED <<checkpoint, failures>>

\* One transaction; only a full pull prunes what it did not carry.
ApplyMirror(s) ==
    /\ phase[s] = "apply" /\ Applied(s)
    /\ mirror' = [e \in Entities |-> IF walk[s].carried[e] # Absent THEN walk[s].carried[e]
                                     ELSE IF walk[s].full THEN Absent ELSE mirror[e]]
    /\ CatchUp /\ UNCHANGED <<checkpoint, failures>>

SetLibraryCheckpoint(s) ==
    /\ phase[s] = "applied" /\ GoIdle(s)
    /\ checkpoint' = walk[s].cursor
    /\ UNCHANGED <<sharer, mirror, failures>>

\* The home Server restarts: the sweeps are gone, the tables stay.
Restart ==
    /\ failures < MaxFailures /\ failures' = failures + 1
    /\ phase' = [s \in Sweeps |-> "idle"]
    /\ walk' = [s \in Sweeps |-> Begin(FALSE, Start)]
    /\ UNCHANGED <<sharer, mirror, checkpoint>>

SweepSteps(s) ==
    \/ ReadGrants(s) \/ TombstoneMirror(s) \/ PullLibrary(s)
    \/ QuerySource(s) \/ ReadPage(s) \/ WalkRefused(s)
    \/ ApplyMirror(s) \/ SetLibraryCheckpoint(s)

Next ==
    \/ \E t \in Titles : ChangeTitle(t) \/ \E old, new \in SUBSET Media : Rebuild(t, old, new)
    \/ ChangeGrant \/ Restart
    \/ \E s \in Sweeps : SweepSteps(s) \/ Resync(s) \/ SweepFails(s)

Spec == Init /\ [][Next]_vars

-----------------------------------------------------------------------------
\* e is there, at or before position p.
By(p, e) == rows[e] # Absent /\ ~Before(p, At(rows, e))

(* A page says it is what the feed holds after its start: the position it  *)
(* ends with has nothing before it that is left out, and a pull that goes  *)
(* on from there misses nothing (export.go:95, api-contract.md:510).  No   *)
(* transaction holds the queries of a page together: this is not so.       *)
CheckpointCovers == \A e \in Entities : By(checkpoint, e) => mirror[e] = rows[e]

(* What is so: whatever pages, writes, failures, restarts and grants came  *)
(* between, the mirror holds what the sharer has at or before the          *)
(* checkpoint as the sharer has it, but for what was last written when a   *)
(* page under way had asked for it.  Sweeps must not overlap.              *)
MissesNothing == \A e \in Entities : By(checkpoint, e) /\ e \notin late => mirror[e] = rows[e]

(* A mirrored Title is never removed, for Watch state hangs off its row,   *)
(* not even by a full pull that prunes while the sharer changes.           *)
TitlesStay == [][\A t \in Titles : mirror[t] # Absent => mirror'[t] # Absent]_vars

(* Once the checkpoint is at the feed's end, no Edition or Stream is       *)
(* mirrored that the sharer has removed, though nothing in the feed says   *)
(* so: a pull that carries media walks the whole Library and prunes.  What *)
(* a rescan removes between two pages of a walk may be missed.             *)
NoPhantoms ==
    (\A s \in Sweeps : phase[s] = "idle") /\ (\A q \in 1..Queries : After(checkpoint, q) = {})
        => \A m \in Media : mirror[m] # Absent => rows[m] # Absent \/ m \in torn

-----------------------------------------------------------------------------
(* The timer starts a sweep again and again, and calls end by a deadline.  *)
Fairness == \A s \in Sweeps : WF_vars(SweepSteps(s))

FairSpec == Spec /\ Fairness

(* When the sharer stops changing things and the failures stop, the mirror *)
(* shows what is granted, but for a late write a page has passed by, and   *)
(* hides all of what is not.                                               *)
Settles ==
    <>[](IF granted THEN \A e \in Entities : rows[e] # Absent =>
                            mirror[e] = rows[e] \/ (e \in late /\ By(checkpoint, e))
         ELSE \A t \in Titles : mirror[t] # Absent => mirror[t].hidden)
=============================================================================
