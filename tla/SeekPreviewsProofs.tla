------------------------- MODULE SeekPreviewsProofs -------------------------
(***************************************************************************)
(* The seek preview generator, for any Files, Libraries, versions and      *)
(* sheets.  Two invariants on top of the types.  DeletedInv says why a     *)
(* DELETE holds: whatever is under way for a clean File is caught, by the  *)
(* date of the DELETE up to Start, by the cancel while a set is made, by   *)
(* the wait once it is being saved.  SetsInv says why a ready set is all   *)
(* there and of one version: the sheets are no older than the job, and the *)
(* sweep, which holds a list it made earlier, lists every record and goes  *)
(* round the File being made.                                              *)
(***************************************************************************)
EXTENDS SeekPreviews, TLAPS

\* Where the worker is at a File's set, from Handle on and from Start on.
Handling == {"handle", "remove", "forget", "start"}
Making   == {"build", "cut", "built", "discard", "again", "save", "end"}

Jobs == [file : Files \cup {None}, force : BOOLEAN, started : Nat, of : Versions, ok : BOOLEAN]

Places == {"wait", "turn", "expand", "push", "pick", "done"} \cup Handling \cup Making

WorkerType == worker \in [at : Places, libs : SUBSET Libraries, files : SUBSET Files, job : Jobs]

\* While a set is in the making, cur is its File.
WorkerInv ==
    /\ worker.at \in Handling \cup Making => Job.file \in Files /\ Job.started <= deletes
    /\ worker.at \in Making <=> cur.file # None
    /\ worker.at \in Making => cur.file = Job.file

JanitorType ==
    /\ janitor \in [at : {"idle", "sweep", "forget", "push", "done"}, condemned : SUBSET Files,
                    stale : SUBSET Files, owned : SUBSET (Files \cup {None}), file : Files \cup {None}]
    /\ janitor.at = "forget" => janitor.file \in Files

DeleterType ==
    /\ deleter \in [at : {"idle", "mark", "wait", "remove", "forget"}, lib : Libraries \cup {None},
                    ids : SUBSET Files, file : Files \cup {None}]
    /\ deleter.at = "idle" <=> deleter.lib = None
    /\ deleter.ids \subseteq Of(deleter.lib)
    /\ deleter.at = "forget" => deleter.file \in Files

\* Each DELETE was begun, and counted then.
Counted == deletes + (IF deleter.at = "mark" THEN 1 ELSE 0) <= events

Dated   == \A l \in Libraries : deletedAt[l] <= deletes

TypesInv == TypeOK /\ WorkerType /\ JanitorType /\ DeleterType /\ Counted /\ Dated /\ WorkerInv

-----------------------------------------------------------------------------
\* Nothing of a clean File's is under way that a DELETE has not caught.
Caught(f) ==
    /\ worker.at = "handle" => ~Job.force \/ Job.started < deletedAt[LibraryOf[f]]
    /\ worker.at \in {"remove", "forget", "start"} => Job.started < deletedAt[LibraryOf[f]]
    /\ worker.at \in Making => cur.cancelled
    /\ worker.at = "save" => deleter.at = "wait" /\ deleter.lib = LibraryOf[f]

\* A record of a clean File is one that the DELETE under way still takes.
Going(f) ==
    /\ deleter.lib = LibraryOf[f]
    /\ deleter.at = "wait" \/ (deleter.at \in {"remove", "forget"} /\ f \in deleter.ids)

StaysDeleted(f) ==
    /\ row[f] # "purged" /\ ~toggle[LibraryOf[f]] /\ wanted[f] \in {"no", "back"}
    /\ HasRecord(f) => Going(f)
    /\ Job.file = f => Caught(f)

DeletedInv == \A f \in clean : StaysDeleted(f)

-----------------------------------------------------------------------------
\* The sheets of f show no version before n.
Since(f, n) == dir[f] # None => \A i \in DOMAIN dir[f] : n <= dir[f][i]

SheetsOf(f) ==
    /\ version[f] <= bytes[f]
    /\ dir[f] # None => \A i \in DOMAIN dir[f] : dir[f][i] <= bytes[f]
    /\ record[f].status = "ready" /\ Whole(f) => Since(f, record[f].of)

\* What is made is not older than the job's version, and has no record yet.
Remaking  == {"remove", "forget", "start"} \cup Making
Unwritten == {"start"} \cup (Making \ {"end"})
Sheeted   == {"cut", "built", "save"}

JobSheets ==
    /\ worker.at \in Remaking => Job.of <= bytes[Job.file]
    /\ worker.at \in Sheeted => Since(Job.file, Job.of)
    /\ worker.at \in Unwritten => ~HasRecord(Job.file)

SheetsInv == (\A f \in Files : SheetsOf(f)) /\ JobSheets

\* The sweep goes round the File being made, and knows every record.
SweepInv ==
    janitor.at \in {"sweep", "forget"} =>
        /\ cur.file \in Files => /\ cur.file \in janitor.owned /\ cur.file \notin janitor.condemned
                                 /\ janitor.at = "forget" => cur.file # janitor.file
        /\ \A f \in Files : HasRecord(f) /\ f \notin excused =>
               \/ f \in janitor.owned \/ f \in janitor.condemned
               \/ janitor.at = "forget" /\ f = janitor.file

\* The Files whose sheets are to be all there: a set is ready, a set is built.
Due(f) == record[f].status = "ready" /\ f \notin excused /\ ~BeingRemoved(f)
Built  == worker.at \in {"built", "save"} /\ Job.ok /\ Job.file \notin excused

WholeInv == (\A f \in Files : Due(f) => Whole(f)) /\ (Built => Whole(Job.file))

SetsInv == SheetsInv /\ SweepInv /\ WholeInv

-----------------------------------------------------------------------------
(* The types, a part of the state at a time.                               *)
CatalogType ==
    /\ row \in [Files -> {"present", "missing", "purged"}]
    /\ version \in [Files -> Versions] /\ bytes \in [Files -> Versions]
    /\ toggle \in [Libraries -> BOOLEAN] /\ busy \in BOOLEAN
    /\ scanned \subseteq Libraries

Records    == [status : {"none", "ready", "failed"}, of : Versions]
RecordType == record \in [Files -> Records]
DirType    == dir \in [Files -> {None} \cup Seq(Versions)]

GeneratorType ==
    /\ server \in {"up", "closing", "down"}
    /\ libs \subseteq Libraries /\ all \in BOOLEAN /\ sweepWake \in BOOLEAN
    /\ wanted \in [Files -> {"no", "back", "front", "force"}]
    /\ deletes \in 0..MaxEvents /\ deletedAt \in [Libraries -> 0..MaxEvents]
    /\ cur \in [file : Files \cup {None}, cancelled : BOOLEAN]

HistoryType ==
    /\ events \in 0..MaxEvents
    /\ excused \subseteq Files /\ forgotten \subseteq Files /\ clean \subseteq Files

LEMMA TypeParts == TypeOK <=> CatalogType /\ RecordType /\ DirType /\ GeneratorType /\ HistoryType
  BY DEF TypeOK, CatalogType, Records, RecordType, DirType, GeneratorType, HistoryType

LEMMA TypesTogether ==
    ASSUME CatalogType', RecordType', DirType', GeneratorType', HistoryType' PROVE TypeOK'
  BY DEF TypeOK, CatalogType, Records, RecordType, DirType, GeneratorType, HistoryType

LEMMA Constructed ==
    /\ NoJob \in Jobs /\ Waiting.at = "wait" /\ Waiting.job = NoJob /\ NoJob.file = None
    /\ Waiting \in [at : Places, libs : SUBSET Libraries, files : SUBSET Files, job : Jobs]
    /\ Idle.at = "idle" /\ Idle.lib = None /\ Idle.ids = {}
    /\ AtRest.at = "idle" /\ AtRest.condemned = {}
    /\ NoRecord.status = "none" /\ NoRecord.of = 0 /\ NoRecord \in Records
  BY PreviewConstants DEF NoJob, Jobs, Waiting, Places, Idle, AtRest, NoRecord, Records, Versions

LEMMA PushedType ==
    ASSUME GeneratorType, NEW F, NEW how \in {"back", "front", "force"}
    PROVE  /\ Pushed(F, how) \in [Files -> {"no", "back", "front", "force"}]
           /\ \A f \in Files : Pushed(F, how)[f] = wanted[f] \/ Pushed(F, how)[f] = how
  BY DEF GeneratorType, Pushed

LEMMA CatalogKept == ASSUME CatalogType, UNCHANGED catalog PROVE CatalogType'
  BY DEF CatalogType, catalog, Versions

LEMMA RecordKept == ASSUME RecordType, UNCHANGED record PROVE RecordType'
  BY DEF RecordType, Records, Versions

LEMMA DirKept == ASSUME DirType, UNCHANGED dir PROVE DirType'
  BY DEF DirType, Versions

LEMMA GeneratorKept ==
    ASSUME GeneratorType, UNCHANGED <<server, libs, all, wanted, deletes, deletedAt, sweepWake, cur>>
    PROVE  GeneratorType'
  BY DEF GeneratorType

LEMMA HistoryKept == ASSUME HistoryType, UNCHANGED history PROVE HistoryType'
  BY DEF HistoryType, history

LEMMA Spent == ASSUME HistoryType, Spend PROVE events' \in 0..MaxEvents /\ events' = events + 1
  BY PreviewConstants DEF HistoryType, Spend

LEMMA RecordSet ==
    ASSUME RecordType, NEW f \in Files, NEW r \in Records, record' = [record EXCEPT ![f] = r]
    PROVE  RecordType'
  BY DEF RecordType, Records, Versions

LEMMA DirSet ==
    ASSUME DirType, NEW f \in Files, NEW d \in {None} \cup Seq(Versions), dir' = [dir EXCEPT ![f] = d]
    PROVE  DirType'
  BY DEF DirType, Versions

LEMMA Failed == ASSUME HistoryType, NEW f \in Files, FailsFor(f) PROVE HistoryType'
  BY Spent DEF FailsFor, HistoryType

LEMMA Halved == ASSUME DirType, NEW f \in Files, HalfGone(f) PROVE DirType'
<1>1. CASE dir' = dir
  BY <1>1, DirKept
<1>2. CASE dir' = [dir EXCEPT ![f] = <<>>]
  <2>1. <<>> \in {None} \cup Seq(Versions)
    OBVIOUS
  <2> QED
    BY <1>2, <2>1, DirSet
<1> QED
  BY <1>1, <1>2 DEF HalfGone

LEMMA RewriteType == ASSUME TypeOK, NEW f \in Files, Rewrite(f) PROVE TypeOK'
  BY PreviewConstants DEF TypeOK, Rewrite, Spend, generator, Versions

LEMMA TranscodeType == ASSUME TypeOK, Transcode PROVE TypeOK'
  BY PreviewConstants DEF TypeOK, Transcode, Spend, generator

LEMMA CloseType == ASSUME TypeOK, Close PROVE TypeOK'
  BY PreviewConstants DEF TypeOK, Close, Spend, catalog

LEMMA BootType == ASSUME TypeOK, Boot PROVE TypeOK'
  BY PreviewConstants DEF TypeOK, Boot, catalog, history

LEMMA DeleteBeginsType == ASSUME TypeOK, NEW l \in Libraries, DeleteBegins(l) PROVE TypeOK'
  BY PreviewConstants DEF TypeOK, DeleteBegins, Spend, generator

LEMMA DeleteWaitedType == ASSUME TypeOK, DeleteWaited PROVE TypeOK'
  BY PreviewConstants DEF TypeOK, DeleteWaited, catalog, generator, history

LEMMA DeleteDirType == ASSUME TypeOK, NEW f \in Files, DeleteDir(f) PROVE TypeOK'
  BY PreviewConstants DEF TypeOK, DeleteDir, catalog, generator

LEMMA DeleteFailsType == ASSUME TypeOK, DeleterType, DeleteFails PROVE TypeOK'
<1>1. deleter.ids \subseteq Files
  BY DEF DeleterType
<1>2. DirType'
  BY <1>1, TypeParts, DirKept, Halved DEF DeleteFails
<1>3. excused' \subseteq Files /\ clean' \subseteq Files
  BY <1>1, TypeParts DEF DeleteFails, HistoryType, DeleterType
<1>4. HistoryType'
  BY <1>3, TypeParts, Spent DEF DeleteFails, HistoryType
<1> QED
  BY <1>2, <1>4, TypeParts, TypesTogether, CatalogKept, RecordKept, GeneratorKept DEF DeleteFails, generator

LEMMA DeleteReturnsType == ASSUME TypeOK, DeleteReturns PROVE TypeOK'
  BY PreviewConstants DEF TypeOK, DeleteReturns, catalog, generator, history

LEMMA TurnType == ASSUME TypeOK, Turn PROVE TypeOK'
  BY PreviewConstants DEF TypeOK, Turn, Goes, WorkerOnly, catalog, history

LEMMA LeavesType == ASSUME TypeOK, Leaves PROVE TypeOK'
  BY PreviewConstants DEF TypeOK, Leaves, Goes, WorkerOnly, catalog, history

LEMMA ExpandReadsType == ASSUME TypeOK, ExpandReads PROVE TypeOK'
<1>1. PICK lost \in SUBSET worker.libs :
        /\ forgotten' = {f \in Files : IF LibraryOf[f] \in worker.libs THEN LibraryOf[f] \in lost
                                       ELSE f \in forgotten}
        /\ IF lost = {} THEN UNCHANGED events ELSE Spend
  BY DEF ExpandReads
<1>2. forgotten' \subseteq Files
  BY <1>1
<1>3. events' \in 0..MaxEvents
  BY <1>1, TypeParts, Spent DEF HistoryType
<1>4. HistoryType'
  BY <1>2, <1>3, TypeParts DEF ExpandReads, HistoryType
<1> QED
  BY <1>4, TypeParts, TypesTogether, CatalogKept, RecordKept, DirKept, GeneratorKept DEF ExpandReads

LEMMA HandleType == ASSUME TypeOK, WorkerInv, Handle PROVE TypeOK'
<1>1. Job.file \in Files
  BY DEF Handle, WorkerInv, Handling
<1>2. forgotten' \subseteq Files /\ clean' \subseteq Files
  BY <1>1, TypeParts DEF Handle, HistoryType
<1>3. HistoryType'
  BY <1>2, TypeParts, Spent DEF Handle, HistoryType
<1> QED
  BY <1>3, TypeParts, TypesTogether, CatalogKept, RecordKept, DirKept, GeneratorKept DEF Handle

LEMMA RemoveDirType == ASSUME TypeOK, WorkerInv, RemoveDir PROVE TypeOK'
<1>1. Job.file \in Files
  BY DEF RemoveDir, WorkerInv, Handling
<1>2. DirType'
  BY <1>1, TypeParts, DirSet, Halved DEF RemoveDir
<1>3. HistoryType'
  BY <1>1, TypeParts, HistoryKept, Failed DEF RemoveDir
<1> QED
  BY <1>2, <1>3, TypeParts, TypesTogether, CatalogKept, RecordKept, GeneratorKept DEF RemoveDir

LEMMA BuildType == ASSUME TypeOK, WorkerInv, Build PROVE TypeOK'
<1>1. DirType'
  <2>1. Job.file \in Files /\ <<>> \in {None} \cup Seq(Versions)
    BY DEF Build, WorkerInv, Making
  <2> QED
    BY <2>1, TypeParts, DirSet DEF Build
<1>2. HistoryType'
  BY TypeParts DEF Build, HistoryType
<1> QED
  BY <1>1, <1>2, TypeParts, TypesTogether, CatalogKept, RecordKept, GeneratorKept DEF Build

LEMMA EndType == ASSUME TypeOK, End PROVE TypeOK'
  BY PreviewConstants DEF TypeOK, End, catalog, history, Finished

LEMMA SweepDirType == ASSUME TypeOK, NEW f \in Files, SweepDir(f) PROVE TypeOK'
<1>1. DirType'
  BY TypeParts, DirSet, Halved DEF SweepDir
<1>2. HistoryType'
  BY TypeParts, HistoryKept, Failed DEF SweepDir
<1> QED
  BY <1>1, <1>2, TypeParts, TypesTogether, CatalogKept, RecordKept, GeneratorKept DEF SweepDir, JanitorOnly

LEMMA SweepOrphansType == ASSUME TypeOK, SweepOrphans PROVE TypeOK'
  BY PreviewConstants DEF TypeOK, SweepOrphans, JanitorOnly, catalog, history

LEMMA JanitorEndsType == ASSUME TypeOK, JanitorEnds PROVE TypeOK'
  BY PreviewConstants DEF TypeOK, JanitorEnds, JanitorOnly, catalog, history

LEMMA ScanRowType == ASSUME TypeOK, NEW f \in Files, ScanRow(f) PROVE TypeOK'
<1>1. CatalogType'
  BY PreviewConstants DEF TypeOK, ScanRow, CatalogType
<1> QED
  BY <1>1, TypeParts, TypesTogether, RecordKept, DirKept, GeneratorKept, HistoryKept DEF ScanRow, generator

LEMMA ScanFindsType == ASSUME TypeOK, NEW f \in Files, ScanFinds(f) PROVE TypeOK'
<1>1. CatalogType'
  <2>1. row' \in [Files -> {"present", "missing", "purged"}] /\ scanned' \subseteq Libraries
    <3>1. PICK t \in Turns : row' = [row EXCEPT ![f] = t[2]]
      BY DEF ScanFinds
    <3>2. t[2] \in {"present", "missing", "purged"}
      BY DEF Turns
    <3>3. row \in [Files -> {"present", "missing", "purged"}]
      BY TypeParts DEF CatalogType
    <3>4. row' \in [Files -> {"present", "missing", "purged"}]
      BY <3>1, <3>2, <3>3
    <3>5. LibraryOf[f] \in Libraries
      BY PreviewConstants
    <3>6. scanned' \subseteq Libraries
      BY <3>5, TypeParts DEF CatalogType, ScanFinds
    <3> QED
      BY <3>4, <3>6
  <2> QED
    BY <2>1, TypeParts DEF ScanFinds, CatalogType, Versions
<1>2. HistoryType'
  BY TypeParts, Spent DEF HistoryType, ScanFinds
<1> QED
  BY <1>1, <1>2, TypeParts, TypesTogether, RecordKept, DirKept, GeneratorKept DEF ScanFinds, generator

LEMMA AskType ==
    ASSUME TypeOK, NEW f \in Files, NEW how \in {"front", "force"}, Ask(f, how) PROVE TypeOK'
<1>1. wanted' \in [Files -> {"no", "back", "front", "force"}]
  BY TypeParts, PushedType DEF Ask
<1>2. GeneratorType'
  BY <1>1, TypeParts DEF Ask, GeneratorType
<1>3. HistoryType'
  BY TypeParts, Spent DEF HistoryType, Ask
<1> QED
  BY <1>2, <1>3, TypeParts, TypesTogether, CatalogKept, RecordKept, DirKept DEF Ask

LEMMA ScanCompletesType == ASSUME TypeOK, NEW l \in Libraries, ScanCompletes(l) PROVE TypeOK'
<1>1. CatalogType'
  BY TypeParts DEF ScanCompletes, CatalogType, Versions
<1>2. GeneratorType'
  BY TypeParts DEF ScanCompletes, GeneratorType, Queue
<1> QED
  BY <1>1, <1>2, TypeParts, TypesTogether, RecordKept, DirKept, HistoryKept DEF ScanCompletes

LEMMA SetEnabledType == ASSUME TypeOK, NEW l \in Libraries, SetEnabled(l) PROVE TypeOK'
<1>1. CatalogType'
  BY TypeParts DEF SetEnabled, CatalogType, Versions
<1>2. GeneratorType'
  BY TypeParts DEF SetEnabled, GeneratorType, Queue
<1>3. HistoryType'
  BY TypeParts, Spent DEF SetEnabled, HistoryType, Of
<1> QED
  BY <1>1, <1>2, <1>3, TypeParts, TypesTogether, RecordKept, DirKept DEF SetEnabled

LEMMA DeleteMarksType == ASSUME TypeOK, DeleterType, Counted, DeleteMarks PROVE TypeOK'
<1>1. deletes' \in 0..MaxEvents /\ deleter.lib \in Libraries
  BY PreviewConstants DEF TypeOK, DeleteMarks, Counted, DeleterType
<1>2. deletedAt' \in [Libraries -> 0..MaxEvents]
  BY <1>1 DEF TypeOK, DeleteMarks
<1>3. cur' \in [file : Files \cup {None}, cancelled : BOOLEAN]
  BY DEF TypeOK, DeleteMarks
<1>4. wanted' \in [Files -> {"no", "back", "front", "force"}] /\ libs' \subseteq Libraries
  BY DEF TypeOK, DeleteMarks
<1>5. GeneratorType'
  BY <1>1, <1>2, <1>3, <1>4, TypeParts DEF DeleteMarks, GeneratorType
<1>6. HistoryType'
  <2>1. LeftAlone \subseteq Files /\ Of(deleter.lib) \subseteq Files
    BY DEF DeleterType, LeftAlone, Of
  <2>2. excused' \subseteq Files /\ clean' \subseteq Files /\ UNCHANGED <<events, forgotten>>
    BY <2>1, TypeParts DEF DeleteMarks, HistoryType
  <2> QED
    BY <2>2, TypeParts DEF HistoryType
<1> QED
  BY <1>5, <1>6, TypeParts, TypesTogether, CatalogKept, RecordKept, DirKept DEF DeleteMarks

LEMMA DeleteRecordType == ASSUME TypeOK, DeleterType, DeleteRecord PROVE TypeOK'
<1>1. RecordType'
  BY TypeParts, Constructed, RecordSet DEF DeleteRecord, DeleterType
<1> QED
  BY <1>1, TypeParts, TypesTogether, CatalogKept, DirKept, GeneratorKept, HistoryKept DEF DeleteRecord, generator

LEMMA ExpandTakesType == ASSUME TypeOK, ExpandTakes PROVE TypeOK'
<1>1. GeneratorType'
  BY TypeParts DEF ExpandTakes, GeneratorType
<1> QED
  BY <1>1, TypeParts, TypesTogether, CatalogKept, RecordKept, DirKept, HistoryKept DEF ExpandTakes

LEMMA ExpandPushesType == ASSUME TypeOK, ExpandPushes PROVE TypeOK'
<1>1. wanted' \in [Files -> {"no", "back", "front", "force"}]
  BY TypeParts, PushedType DEF ExpandPushes
<1>2. GeneratorType'
  BY <1>1, TypeParts DEF ExpandPushes, GeneratorType
<1> QED
  BY <1>2, TypeParts, TypesTogether, CatalogKept, RecordKept, DirKept, HistoryKept DEF ExpandPushes

LEMMA PickType == ASSUME TypeOK, Pick PROVE TypeOK'
<1>1. wanted' \in [Files -> {"no", "back", "front", "force"}]
  BY DEF TypeOK, Pick
<1>2. GeneratorType'
  BY <1>1, TypeParts DEF Pick, GeneratorType
<1> QED
  BY <1>2, TypeParts, TypesTogether, CatalogKept, RecordKept, DirKept, HistoryKept DEF Pick

LEMMA StartType == ASSUME TypeOK, WorkerInv, Start PROVE TypeOK'
<1>1. cur' \in [file : Files \cup {None}, cancelled : BOOLEAN]
  <2>1. Job.file \in Files
    BY DEF Start, WorkerInv, Handling
  <2> QED
    <3>1. cur' = cur \/ cur' = [file |-> Job.file, cancelled |-> FALSE]
      BY DEF Start
    <3> QED
      <4>1. cur \in [file : Files \cup {None}, cancelled : BOOLEAN]
        BY DEF TypeOK
      <4>2. CASE cur' = cur
        BY <4>1, <4>2
      <4>3. CASE cur' = [file |-> Job.file, cancelled |-> FALSE]
        BY <2>1, <4>3
      <4> QED
        BY <3>1, <4>2, <4>3
<1>2. GeneratorType'
  BY <1>1, TypeParts DEF Start, GeneratorType
<1> QED
  BY <1>2, TypeParts, TypesTogether, CatalogKept, RecordKept, DirKept, HistoryKept DEF Start

LEMMA RemoveRecordType == ASSUME TypeOK, WorkerInv, RemoveRecord PROVE TypeOK'
<1>0. Job.file \in Files
  BY DEF WorkerInv, RemoveRecord, Handling
<1>1. RecordType'
  BY <1>0, TypeParts, Constructed, RecordSet, RecordKept DEF RemoveRecord
<1>2. HistoryType'
  BY <1>0, TypeParts, Failed, HistoryKept DEF RemoveRecord
<1> QED
  BY <1>1, <1>2, TypeParts, TypesTogether, CatalogKept, DirKept, GeneratorKept DEF RemoveRecord

LEMMA CutSheetType == ASSUME TypeOK, WorkerInv, CutSheet PROVE TypeOK'
<1>0. Job.file \in Files
  BY DEF WorkerInv, CutSheet, Making
<1>1. DirType'
  <2>1. ASSUME dir[Job.file] # None PROVE Append(dir[Job.file], bytes[Job.file]) \in Seq(Versions)
    BY <1>0, <2>1 DEF TypeOK
  <2> QED
    BY <1>0, <2>1, TypeParts, DirSet, DirKept DEF CutSheet
<1>2. HistoryType'
  BY TypeParts, Spent, HistoryKept DEF CutSheet, HistoryType
<1> QED
  BY <1>1, <1>2, TypeParts, TypesTogether, CatalogKept, RecordKept, GeneratorKept DEF CutSheet

LEMMA CheckType == ASSUME TypeOK, WorkerInv, Check PROVE TypeOK'
<1>1. DirType'
  BY TypeParts, DirSet, DirKept DEF Check, WorkerInv, Making
<1>2. HistoryType'
  BY TypeParts, Spent, HistoryKept DEF Check, HistoryType
<1> QED
  BY <1>1, <1>2, TypeParts, TypesTogether, CatalogKept, RecordKept, GeneratorKept DEF Check

LEMMA DiscardType == ASSUME TypeOK, WorkerInv, Discard PROVE TypeOK'
<1>1. wanted' \in [Files -> {"no", "back", "front", "force"}]
  BY TypeParts, PushedType DEF Discard, GeneratorType
<1>2. GeneratorType'
  BY <1>1, TypeParts DEF Discard, GeneratorType
<1>3. DirType'
  BY TypeParts, DirSet DEF Discard, WorkerInv, Making
<1> QED
  BY <1>2, <1>3, TypeParts, TypesTogether, CatalogKept, RecordKept, HistoryKept DEF Discard

LEMMA SaveType == ASSUME TypeOK, WorkerType, WorkerInv, Save PROVE TypeOK'
<1>0. Job.file \in Files /\ Job.of \in Versions
  BY DEF WorkerInv, Save, Making, WorkerType, Jobs, Job
<1>1. RecordType'
  <2>1. [status |-> IF Job.ok THEN "ready" ELSE "failed", of |-> Job.of] \in Records
    BY <1>0 DEF Records
  <2> QED
    BY <1>0, <2>1, TypeParts, RecordSet, RecordKept DEF Save
<1>2. HistoryType'
  <2>1. CASE FailsFor(Job.file)
    BY <1>0, <2>1, TypeParts, Failed
  <2>2. CASE ~FailsFor(Job.file)
    BY <2>2, TypeParts DEF Save, HistoryType
  <2> QED
    BY <2>1, <2>2
<1> QED
  BY <1>1, <1>2, TypeParts, TypesTogether, CatalogKept, DirKept, GeneratorKept DEF Save

LEMMA SweepType == ASSUME TypeOK, Sweep PROVE TypeOK'
<1>1. GeneratorType'
  BY TypeParts DEF Sweep, JanitorOnly, GeneratorType
<1>2. HistoryType'
  BY TypeParts, Spent, HistoryKept DEF Sweep, HistoryType
<1> QED
  BY <1>1, <1>2, TypeParts, TypesTogether, CatalogKept, RecordKept, DirKept DEF Sweep, JanitorOnly

LEMMA SweepRecordType == ASSUME TypeOK, JanitorType, SweepRecord PROVE TypeOK'
<1>1. RecordType'
  BY TypeParts, Constructed, RecordSet, RecordKept DEF SweepRecord, JanitorType
<1>2. HistoryType'
  BY TypeParts, Failed, HistoryKept DEF SweepRecord, JanitorType
<1> QED
  BY <1>1, <1>2, TypeParts, TypesTogether, CatalogKept, DirKept, GeneratorKept DEF SweepRecord, JanitorOnly

LEMMA SweepPushesType == ASSUME TypeOK, SweepPushes PROVE TypeOK'
<1>1. wanted' \in [Files -> {"no", "back", "front", "force"}]
  BY TypeParts, PushedType DEF SweepPushes
<1>2. GeneratorType'
  BY <1>1, TypeParts DEF SweepPushes, JanitorOnly, GeneratorType
<1> QED
  BY <1>2, TypeParts, TypesTogether, CatalogKept, RecordKept, DirKept, HistoryKept DEF SweepPushes, JanitorOnly

LEMMA EndsType == ASSUME TypeOK, Ends, events' \in 0..MaxEvents PROVE TypeOK'
<1>1. CatalogType'
  BY TypeParts DEF Ends, CatalogType, Versions
<1>2. GeneratorType'
  <2>1. 0 \in 0..MaxEvents
    BY PreviewConstants
  <2>2. deletes' \in 0..MaxEvents /\ deletedAt' \in [Libraries -> 0..MaxEvents]
    BY <2>1 DEF Ends
  <2> QED
    BY <2>2 DEF Ends, GeneratorType
<1>3. HistoryType'
  BY TypeParts DEF Ends, HistoryType, Of
<1> QED
  BY <1>1, <1>2, <1>3, TypeParts, TypesTogether, RecordKept, DirKept DEF Ends
-----------------------------------------------------------------------------
LEMMA TypesInit == Init => TypesInv
<1> SUFFICES ASSUME Init PROVE TypesInv
  OBVIOUS
<1>0. 0 \in Versions /\ 0 \in 0..MaxEvents
  BY PreviewConstants DEF Versions
<1>1. TypeOK
  <2>1. CatalogType /\ DirType /\ GeneratorType /\ HistoryType
    BY <1>0 DEF Init, CatalogType, DirType, GeneratorType, HistoryType
  <2>2. RecordType
    BY Constructed DEF Init, RecordType
  <2> QED
    BY <2>1, <2>2, TypeParts
<1>2. WorkerType /\ WorkerInv
  BY Constructed DEF Init, WorkerType, WorkerInv, Handling, Making
<1>3. JanitorType /\ DeleterType
  BY PreviewConstants DEF Init, JanitorType, DeleterType, AtRest, Idle, Of
<1>4. Counted /\ Dated
  BY DEF Init, Counted, Dated, Idle
<1> QED
  BY <1>1, <1>2, <1>3, <1>4 DEF TypesInv

\* What a step leaves alone that is neither the worker's, the janitor's nor the DELETE's.
Apart == events' >= events /\ UNCHANGED <<deletes, deletedAt, deleter>>

LEMMA EventsGrow == ASSUME TypeOK, Spend \/ UNCHANGED events PROVE events' >= events /\ events \in Nat
  BY PreviewConstants DEF TypeOK, Spend

LEMMA CountedApart == ASSUME TypesInv, TypeOK', Apart PROVE Counted' /\ Dated' /\ DeleterType'
<1>1. deletes \in Nat /\ events \in Nat /\ events' \in Nat
  BY PreviewConstants DEF TypesInv, TypeOK
<1>2. Counted'
  <2>1. CASE deleter.at = "mark"
    BY <1>1, <2>1 DEF TypesInv, Counted, Apart
  <2>2. CASE deleter.at # "mark"
    BY <1>1, <2>2 DEF TypesInv, Counted, Apart
  <2> QED
    BY <2>1, <2>2
<1> QED
  BY <1>2 DEF TypesInv, Dated, DeleterType, Apart, Of

LEMMA OutsideTypes ==
    ASSUME TypesInv, TypeOK', Apart, UNCHANGED <<cur, worker, janitor>> PROVE TypesInv'
<1>1. WorkerType' /\ JanitorType' /\ WorkerInv'
  BY DEF TypesInv, WorkerType, JanitorType, WorkerInv, Job, Apart
<1> QED
  BY <1>1, CountedApart DEF TypesInv

LEMMA JanitorTypes ==
    ASSUME TypesInv, TypeOK', JanitorType', Apart, UNCHANGED <<cur, worker>> PROVE TypesInv'
<1>1. WorkerType' /\ WorkerInv'
  BY DEF TypesInv, WorkerType, WorkerInv, Job, Apart
<1> QED
  BY <1>1, CountedApart DEF TypesInv

LEMMA WorkerTypes ==
    ASSUME TypesInv, TypeOK', WorkerType', WorkerInv', Apart, UNCHANGED janitor PROVE TypesInv'
<1>1. JanitorType'
  BY DEF TypesInv, JanitorType
<1> QED
  BY <1>1, CountedApart DEF TypesInv

\* The worker goes on with what it has.
LEMMA GoesOn ==
    ASSUME TypesInv, NEW at \in Places, Goes(at), UNCHANGED <<cur, deletes>>,
           at \in Handling => worker.at \in Handling, at \in Making <=> worker.at \in Making
    PROVE  WorkerType' /\ WorkerInv' /\ worker'.at = at /\ worker'.job = Job
<1>1. worker'.at = at /\ worker'.job = Job
  BY DEF TypesInv, WorkerType, Goes, Job
<1>2. WorkerType'
  BY DEF TypesInv, WorkerType, Goes
<1>3. WorkerInv'
  BY <1>1 DEF TypesInv, WorkerInv, Job
<1> QED
  BY <1>1, <1>2, <1>3

LEMMA Finishes ==
    ASSUME TypesInv, worker.at \notin Making, Finished, UNCHANGED cur
    PROVE  WorkerType' /\ WorkerInv' /\ worker'.at = "wait" /\ worker'.job = NoJob
<1>1. worker'.at = "wait" /\ worker'.job = NoJob /\ WorkerType'
  BY Constructed DEF Finished, WorkerType
<1>2. WorkerInv'
  BY <1>1 DEF TypesInv, WorkerInv, Handling, Making
<1> QED
  BY <1>1, <1>2

\* What Pick, Handle, Start and CutSheet make of the worker.
LEMMA JobTaken ==
    ASSUME NEW f \in Files, NEW force \in BOOLEAN, NEW started \in Nat,
           NEW job, job = [file |-> f, force |-> force, started |-> started, of |-> 0, ok |-> TRUE]
    PROVE  job \in Jobs /\ job.file = f /\ job.force = force /\ job.started = started
  BY PreviewConstants DEF Jobs, Versions

LEMMA PickTakes ==
    ASSUME TypesInv, Pick
    PROVE  /\ WorkerType' /\ WorkerInv'
           /\ \/ worker' = Waiting /\ wanted' = wanted
              \/ \E f \in Files :
                    /\ wanted[f] # "no" /\ wanted' = [wanted EXCEPT ![f] = "no"]
                    /\ worker'.at = "handle" /\ worker'.job.file = f /\ worker'.job.started = deletes
                    /\ worker'.job.force = (wanted[f] = "force")
<1>1. CASE worker' = Waiting /\ wanted' = wanted
  BY <1>1, Finishes DEF Pick, Finished, Making
<1>2. ASSUME NEW f \in Files, wanted[f] # "no", wanted' = [wanted EXCEPT ![f] = "no"],
             worker' = [worker EXCEPT !.at = "handle",
                    !.job = [file |-> f, force |-> (wanted[f] = "force"), started |-> deletes,
                             of |-> 0, ok |-> TRUE]]
      PROVE  /\ WorkerType' /\ WorkerInv'
             /\ worker'.at = "handle" /\ worker'.job.file = f /\ worker'.job.started = deletes
             /\ worker'.job.force = (wanted[f] = "force")
  <2> DEFINE job == [file |-> f, force |-> (wanted[f] = "force"), started |-> deletes, of |-> 0, ok |-> TRUE]
  <2>0. deletes \in Nat
    BY PreviewConstants DEF TypesInv, TypeOK
  <2>1. job \in Jobs /\ job.file = f /\ job.started = deletes /\ job.force = (wanted[f] = "force")
    <3>1. (wanted[f] = "force") \in BOOLEAN
      OBVIOUS
    <3> QED
      BY <2>0, <3>1, JobTaken, Zenon DEF job
  <2> HIDE DEF job
  <2>2. worker' = [worker EXCEPT !.at = "handle", !.job = job]
    BY <1>2 DEF job
  <2>3. worker'.at = "handle" /\ worker'.job = job /\ WorkerType'
    BY <2>1, <2>2 DEF TypesInv, WorkerType, Places, Handling
  <2>4. cur' = cur /\ deletes' = deletes /\ worker.at = "pick"
    BY DEF Pick
  <2>5. WorkerInv'
    BY <2>0, <2>1, <2>3, <2>4 DEF TypesInv, WorkerInv, Handling, Making, Job
  <2> QED
    BY <2>1, <2>3, <2>5
<1> QED
  BY <1>1, <1>2 DEF Pick, Finished, First

LEMMA HandleTakes ==
    ASSUME TypesInv, Handle
    PROVE  /\ WorkerType' /\ WorkerInv' /\ Job.file \in Files /\ worker.at = "handle"
           /\ \/ worker' = Waiting
              \/ /\ row[Job.file] = "present" /\ worker'.job = [Job EXCEPT !.of = version[Job.file]]
                 /\ worker'.at = IF Job.force \/ Stale(Job.file) THEN "remove" ELSE "start"
                 /\ Job.force \/ Stale(Job.file) \/ (~Fresh(Job.file) /\ toggle[LibraryOf[Job.file]])
<1>1. Job.file \in Files /\ worker.at = "handle"
  BY DEF Handle, TypesInv, WorkerInv, Handling
<1>2. CASE worker' = Waiting
  BY <1>1, <1>2, Finishes DEF Handle, Finished, Making
<1>3. CASE worker' # Waiting
  <2>1. /\ row[Job.file] = "present"
        /\ Job.force \/ Stale(Job.file) \/ (~Fresh(Job.file) /\ toggle[LibraryOf[Job.file]])
        /\ worker' = [worker EXCEPT !.job.of = version[Job.file],
                                    !.at = IF Job.force \/ Stale(Job.file) THEN "remove" ELSE "start"]
    BY <1>3 DEF Handle, Finished
  <2>2. version[Job.file] \in Versions
    BY <1>1 DEF TypesInv, TypeOK
  <2>3. /\ worker'.job = [Job EXCEPT !.of = version[Job.file]] /\ worker'.job \in Jobs
        /\ worker'.at = IF Job.force \/ Stale(Job.file) THEN "remove" ELSE "start"
        /\ worker'.libs = worker.libs /\ worker'.files = worker.files
    BY <2>1, <2>2 DEF TypesInv, WorkerType, Jobs, Job
  <2>4. WorkerType'
    BY <2>1, <2>2 DEF TypesInv, WorkerType, Places, Handling, Jobs, Job
  <2>5. worker'.job.file = Job.file /\ worker'.job.started = Job.started /\ worker'.at \in {"remove", "start"}
    BY <2>3 DEF TypesInv, WorkerType, Jobs, Job
  <2>6. cur' = cur /\ deletes' = deletes
    BY DEF Handle
  <2>7. WorkerInv'
    BY <1>1, <2>5, <2>6 DEF TypesInv, WorkerInv, Handling, Making, Job
  <2> QED
    BY <1>1, <2>1, <2>3, <2>4, <2>7
<1> QED
  BY <1>2, <1>3

LEMMA StartTakes ==
    ASSUME TypesInv, Start
    PROVE  /\ WorkerType' /\ WorkerInv' /\ Job.file \in Files /\ worker.at = "start"
           /\ \/ worker' = Waiting /\ UNCHANGED cur
              \/ /\ ~(deletedAt[LibraryOf[Job.file]] > Job.started)
                 /\ worker'.at = "build" /\ worker'.job = Job
                 /\ cur' = [file |-> Job.file, cancelled |-> FALSE]
<1>1. Job.file \in Files /\ worker.at = "start" /\ deletes' = deletes
  BY DEF Start, TypesInv, WorkerInv, Handling
<1>2. CASE worker' = Waiting /\ UNCHANGED cur
  BY <1>1, <1>2, Finishes DEF Finished, Making
<1>3. CASE Goes("build") /\ cur' = [file |-> Job.file, cancelled |-> FALSE]
           /\ ~(deletedAt[LibraryOf[Job.file]] > Job.started)
  <2>1. worker'.at = "build" /\ worker'.job = Job /\ WorkerType'
    BY <1>3 DEF TypesInv, WorkerType, Goes, Job, Places, Making
  <2>2. cur'.file = Job.file /\ Job.file # None
    BY <1>1, <1>3, PreviewConstants
  <2>3. WorkerInv'
    BY <1>1, <2>1, <2>2 DEF TypesInv, WorkerInv, Handling, Making, Job
  <2> QED
    BY <1>1, <1>3, <2>1, <2>3
<1> QED
  BY <1>2, <1>3 DEF Start, Finished

LEMMA CutTakes ==
    ASSUME TypesInv, CutSheet
    PROVE  /\ WorkerType' /\ WorkerInv' /\ Job.file \in Files /\ worker.at = "cut"
           /\ \/ worker' = worker
              \/ /\ worker'.at = "built" /\ UNCHANGED dir
                 /\ worker'.job.ok => Whole(Job.file)
                 /\ \E ok \in BOOLEAN : worker'.job = [Job EXCEPT !.ok = ok]
<1>1. Job.file \in Files /\ worker.at = "cut" /\ cur' = cur /\ deletes' = deletes
  BY DEF CutSheet, TypesInv, WorkerInv, Making
<1>2. CASE worker' = worker
  BY <1>1, <1>2 DEF TypesInv, WorkerType, WorkerInv, Job
<1>3. ASSUME NEW ok \in BOOLEAN, worker' = [worker EXCEPT !.at = "built", !.job.ok = ok]
      PROVE  /\ WorkerType' /\ WorkerInv' /\ worker'.at = "built" /\ worker'.job = [Job EXCEPT !.ok = ok]
             /\ worker'.job.ok = ok
  <2>1. worker'.at = "built" /\ worker'.job = [Job EXCEPT !.ok = ok] /\ worker'.job.ok = ok
        /\ worker'.job.file = Job.file /\ worker'.job.started = Job.started
    BY <1>3 DEF TypesInv, WorkerType, Jobs, Job
  <2>2. WorkerType'
    BY <1>3 DEF TypesInv, WorkerType, Places, Making, Jobs
  <2>3. WorkerInv'
    BY <1>1, <2>1 DEF TypesInv, WorkerInv, Handling, Making, Job
  <2> QED
    BY <2>1, <2>2, <2>3
<1>4. CASE UNCHANGED dir /\ \E ok \in BOOLEAN : /\ ok => Whole(Job.file)
                                                /\ worker' = [worker EXCEPT !.at = "built", !.job.ok = ok]
  BY <1>1, <1>3, <1>4
<1>5. Whole(Job.file) \in BOOLEAN
  BY DEF Whole
<1> QED
  BY <1>2, <1>4, <1>5 DEF CutSheet

-----------------------------------------------------------------------------
LEMMA WorkerStepTypes == ASSUME TypesInv, WorkerSteps PROVE TypesInv'
<1> USE DEF TypesInv
<1>t. events \in Nat
  BY PreviewConstants DEF TypeOK
<1>1. CASE Turn
  <2>1. WorkerType' /\ WorkerInv'
    BY <1>1, GoesOn DEF Turn, WorkerOnly, Places, Handling, Making
  <2> QED
    BY <1>1, <1>t, <2>1, TurnType, WorkerTypes DEF Turn, WorkerOnly, history, Apart
<1>2. CASE Leaves
  <2>1. WorkerType' /\ WorkerInv'
    BY <1>2, GoesOn DEF Leaves, WorkerOnly, Places, Handling, Making
  <2> QED
    BY <1>2, <1>t, <2>1, LeavesType, WorkerTypes DEF Leaves, WorkerOnly, history, Apart
<1>3. CASE ExpandTakes
  <2>1. WorkerType' /\ worker'.at \in {"expand", "pick"} /\ worker.at = "turn"
    BY <1>3 DEF ExpandTakes, TypeOK, WorkerType, Places
  <2>2. WorkerInv'
    BY <1>3, <2>1 DEF ExpandTakes, WorkerInv, Handling, Making
  <2> QED
    <3>1. Apart /\ UNCHANGED janitor
      BY <1>3, <1>t DEF ExpandTakes, history, Apart
    <3>2. TypeOK'
      BY <1>3, ExpandTakesType
    <3> QED
      BY <2>1, <2>2, <3>1, <3>2, WorkerTypes
<1>4. CASE ExpandReads
  <2>1. WorkerType' /\ worker'.at = "push" /\ worker.at = "expand"
    BY <1>4 DEF ExpandReads, WorkerType, Places
  <2>2. WorkerInv'
    BY <1>4, <2>1 DEF ExpandReads, WorkerOnly, WorkerInv, Handling, Making
  <2> QED
    <3>1. events' >= events
      <4>1. Spend \/ UNCHANGED events
        BY <1>4, Zenon DEF ExpandReads
      <4> QED
        BY <4>1, EventsGrow
    <3>2. Apart /\ UNCHANGED janitor
      <4>1. UNCHANGED <<deletes, deletedAt, deleter, janitor>>
        BY <1>4, Zenon DEF ExpandReads
      <4> QED
        BY <3>1, <4>1 DEF Apart
    <3>3. TypeOK'
      BY <1>4, ExpandReadsType
    <3> QED
      BY <2>1, <2>2, <3>2, <3>3, WorkerTypes
<1>5. CASE ExpandPushes
  <2>1. WorkerType' /\ worker'.at = "pick" /\ worker.at = "push"
    BY <1>5 DEF ExpandPushes, WorkerType, Places
  <2>2. WorkerInv'
    BY <1>5, <2>1 DEF ExpandPushes, WorkerInv, Handling, Making
  <2> QED
    BY <1>5, <1>t, <2>1, <2>2, ExpandPushesType, WorkerTypes DEF ExpandPushes, history, Apart
<1>6. CASE Pick
  <2>1. WorkerType' /\ WorkerInv'
    BY <1>6, PickTakes
  <2> QED
    <3>1. Apart /\ UNCHANGED janitor
      <4>1. UNCHANGED <<deletes, deletedAt, deleter, janitor, events>>
        BY <1>6, Zenon DEF Pick, history
      <4> QED
        BY <1>t, <4>1 DEF Apart
    <3>2. TypeOK'
      BY <1>6, PickType
    <3> QED
      BY <2>1, <3>1, <3>2, WorkerTypes
<1>7. CASE Handle
  <2>1. WorkerType' /\ WorkerInv'
    BY <1>7, HandleTakes
  <2> QED
    <3>1. events' >= events
      BY <1>7, EventsGrow DEF Handle
    <3>2. Apart /\ UNCHANGED janitor
      BY <1>7, <3>1 DEF Handle, Apart
    <3>3. TypeOK'
      BY <1>7, HandleType
    <3> QED
      BY <2>1, <3>2, <3>3, WorkerTypes
<1>8. CASE RemoveDir
  <2>1. WorkerType' /\ WorkerInv'
    BY <1>8, GoesOn, Finishes DEF RemoveDir, Places, Handling, Making
  <2>2. events' >= events
    BY <1>8, EventsGrow DEF RemoveDir, FailsFor, history
  <2> QED
    BY <1>8, <2>1, <2>2, RemoveDirType, WorkerTypes DEF RemoveDir, Apart
<1>9. CASE RemoveRecord
  <2>1. WorkerType' /\ WorkerInv'
    BY <1>9, GoesOn, Finishes DEF RemoveRecord, Places, Handling, Making
  <2>2. events' >= events
    BY <1>9, EventsGrow DEF RemoveRecord, FailsFor, history
  <2> QED
    BY <1>9, <2>1, <2>2, RemoveRecordType, WorkerTypes DEF RemoveRecord, Apart
<1>10. CASE Start
  <2>1. WorkerType' /\ WorkerInv'
    BY <1>10, StartTakes
  <2> QED
    BY <1>10, <1>t, <2>1, StartType, WorkerTypes DEF Start, history, Apart
<1>11. CASE Build
  <2>1. WorkerType' /\ WorkerInv'
    BY <1>11, GoesOn DEF Build, Places, Handling, Making
  <2> QED
    BY <1>11, <1>t, <2>1, BuildType, WorkerTypes DEF Build, Apart
<1>12. CASE CutSheet
  <2>1. WorkerType' /\ WorkerInv'
    BY <1>12, CutTakes
  <2>2. events' >= events
    BY <1>12, EventsGrow DEF CutSheet
  <2> QED
    BY <1>12, <2>1, <2>2, CutSheetType, WorkerTypes DEF CutSheet, Apart
<1>13. CASE Check
  <2>1. WorkerType' /\ WorkerInv'
    <3>1. Goes("discard") \/ Goes("again") \/ Goes("save")
      BY <1>13 DEF Check
    <3> QED
      BY <1>13, <3>1, GoesOn DEF Check, Places, Handling, Making
  <2> QED
    <3>1. events' >= events
      BY <1>13, EventsGrow DEF Check, history
    <3> QED
      BY <1>13, <2>1, <3>1, CheckType, WorkerTypes DEF Check, Apart
<1>14. CASE Discard
  <2>1. WorkerType' /\ WorkerInv'
    BY <1>14, GoesOn DEF Discard, Places, Handling, Making
  <2> QED
    BY <1>14, <1>t, <2>1, DiscardType, WorkerTypes DEF Discard, history, Apart
<1>15. CASE Save
  <2>1. WorkerType' /\ WorkerInv'
    BY <1>15, GoesOn DEF Save, Places, Handling, Making
  <2>2. events' >= events
    BY <1>15, EventsGrow DEF Save, FailsFor
  <2> QED
    BY <1>15, <2>1, <2>2, SaveType, WorkerTypes DEF Save, Apart
<1>16. CASE End
  <2>1. WorkerType' /\ WorkerInv'
    <3>1. worker'.at = "wait" /\ WorkerType' /\ cur'.file = None
      BY <1>16, Constructed DEF End, Finished, WorkerType
    <3> QED
      BY <3>1 DEF WorkerInv, Handling, Making
  <2> QED
    BY <1>16, <1>t, <2>1, EndType, WorkerTypes DEF End, history, Apart
<1> QED
  BY <1>1, <1>2, <1>3, <1>4, <1>5, <1>6, <1>7, <1>8, <1>9, <1>10, <1>11, <1>12, <1>13, <1>14, <1>15, <1>16
     DEF WorkerSteps

LEMMA JanitorStepTypes == ASSUME TypesInv, JanitorSteps PROVE TypesInv'
<1>t. events \in Nat /\ TypeOK /\ JanitorType
  BY PreviewConstants DEF TypesInv, TypeOK
<1>1. CASE Sweep
  <2>1. JanitorType'
    <3>1. cur.file \in Files \cup {None}
      BY <1>t DEF TypeOK
    <3>2. CASE UNCHANGED janitor
      BY <1>t, <3>2 DEF JanitorType
    <3>3. CASE ~UNCHANGED janitor
      BY <1>1, <3>1, <3>3 DEF Sweep, JanitorType, AtRest
    <3> QED
      BY <3>2, <3>3
  <2> QED
    <3>0. events' >= events
      BY <1>1, <1>t, EventsGrow DEF Sweep, history
    <3>1. Apart /\ UNCHANGED <<cur, worker>>
      BY <1>1, <3>0 DEF Sweep, JanitorOnly, Apart
    <3>2. TypeOK'
      BY <1>1, <1>t, SweepType
    <3> QED
      BY <2>1, <3>1, <3>2, JanitorTypes
<1>2. CASE SweepRecord
  <2>1. JanitorType'
    BY <1>2, <1>t DEF SweepRecord, JanitorType
  <2>2. events' >= events
    BY <1>2, <1>t, EventsGrow DEF SweepRecord, FailsFor, history
  <2> QED
    BY <1>2, <1>t, <2>1, <2>2, SweepRecordType, JanitorTypes DEF SweepRecord, JanitorOnly, Apart
<1>3. CASE SweepOrphans
  <2>1. JanitorType'
    BY <1>3, <1>t DEF SweepOrphans, JanitorType
  <2> QED
    BY <1>3, <1>t, <2>1, SweepOrphansType, JanitorTypes DEF SweepOrphans, JanitorOnly, history, Apart
<1>4. CASE SweepPushes
  <2>1. JanitorType'
    BY <1>4 DEF SweepPushes, JanitorType, AtRest
  <2> QED
    BY <1>4, <1>t, <2>1, SweepPushesType, JanitorTypes DEF SweepPushes, JanitorOnly, history, Apart
<1>5. CASE JanitorEnds
  <2>1. JanitorType'
    BY <1>5 DEF JanitorEnds, JanitorType, AtRest
  <2> QED
    BY <1>5, <1>t, <2>1, JanitorEndsType, JanitorTypes DEF JanitorEnds, JanitorOnly, history, Apart
<1>6. ASSUME NEW f \in Files, SweepDir(f) PROVE TypesInv'
  <2>1. JanitorType'
    BY <1>6, <1>t DEF SweepDir, JanitorType
  <2>2. TypeOK'
    BY <1>6, <1>t, SweepDirType
  <2>3. Apart /\ UNCHANGED <<cur, worker>>
    <3>1. events' >= events
      BY <1>6, <1>t, EventsGrow DEF SweepDir, FailsFor, history
    <3> QED
      BY <1>6, <3>1 DEF SweepDir, JanitorOnly, Apart
  <2> QED
    BY <2>1, <2>2, <2>3, JanitorTypes
<1> QED
  BY <1>1, <1>2, <1>3, <1>4, <1>5, <1>6 DEF JanitorSteps

LEMMA DeleterTypes ==
    ASSUME TypesInv, TypeOK', DeleterType', UNCHANGED <<deletes, deletedAt, worker, janitor>>,
           cur'.file = cur.file, events' >= events, deleter'.at = "mark" => events' = events + 1
    PROVE  TypesInv'
<1>1. deletes \in Nat /\ events \in Nat /\ events' \in Nat
  BY PreviewConstants DEF TypesInv, TypeOK
<1>2. Counted'
  <2>1. CASE deleter'.at = "mark"
    BY <1>1, <2>1 DEF TypesInv, Counted
  <2>2. CASE deleter'.at # "mark"
    BY <1>1, <2>2 DEF TypesInv, Counted
  <2> QED
    BY <2>1, <2>2
<1>3. WorkerType' /\ JanitorType' /\ WorkerInv' /\ Dated'
  BY DEF TypesInv, WorkerType, JanitorType, WorkerInv, Job, Dated
<1> QED
  BY <1>2, <1>3 DEF TypesInv

LEMMA DeleteMarksTypes == ASSUME TypesInv, DeleteMarks PROVE TypesInv'
<1>1. DeleterType' /\ deleter'.at = "wait" /\ deleter.at = "mark" /\ deleter.lib \in Libraries
  BY DEF TypesInv, DeleteMarks, DeleterType, Of
<1>2. deletes' = deletes + 1 /\ deletes' <= events /\ events' = events /\ deletes \in Nat /\ events \in Nat
  BY <1>1, PreviewConstants DEF TypesInv, DeleteMarks, Counted, TypeOK
<1>3. deletedAt' = [deletedAt EXCEPT ![deleter.lib] = deletes'] /\ deletedAt \in [Libraries -> 0..MaxEvents]
  BY DEF TypesInv, TypeOK, DeleteMarks
<1>4. Dated'
  BY <1>1, <1>2, <1>3, PreviewConstants DEF TypesInv, Dated
<1>5. Counted'
  BY <1>1, <1>2 DEF Counted
<1>6. cur'.file = cur.file /\ worker' = worker /\ janitor' = janitor
  BY DEF TypesInv, TypeOK, DeleteMarks
<1>7. WorkerType' /\ JanitorType'
  BY <1>6 DEF TypesInv, WorkerType, JanitorType
<1>8. WorkerInv'
  <2>1. worker.at \in Handling \cup Making => Job.started \in Nat /\ Job.started <= deletes
    BY DEF TypesInv, WorkerInv, WorkerType, Jobs, Job
  <2> QED
    BY <1>2, <1>6, <2>1 DEF TypesInv, WorkerInv, Job
<1>9. TypeOK'
  BY DeleteMarksType DEF TypesInv
<1> QED
  BY <1>1, <1>4, <1>5, <1>7, <1>8, <1>9 DEF TypesInv

LEMMA EndsTypes == ASSUME TypesInv, Ends, events' >= events, events' \in 0..MaxEvents PROVE TypesInv'
<1>1. TypeOK'
  BY EndsType DEF TypesInv
<1>2. WorkerType' /\ JanitorType' /\ DeleterType'
  BY PreviewConstants, Constructed DEF Ends, WorkerType, JanitorType, DeleterType, AtRest, Idle, Of
<1>3. WorkerInv'
  BY Constructed DEF Ends, WorkerInv, Handling, Making
<1>4. Counted' /\ Dated'
  BY <1>1, Constructed, PreviewConstants DEF Ends, Counted, Dated, TypeOK
<1> QED
  BY <1>1, <1>2, <1>3, <1>4 DEF TypesInv

LEMMA TypesKept == ASSUME TypesInv, [Next]_vars PROVE TypesInv'
<1>t. events \in Nat /\ TypeOK /\ DeleterType /\ WorkerInv
  BY PreviewConstants DEF TypesInv, TypeOK
<1>a. ASSUME TypeOK', DeleterType', UNCHANGED generator, events' >= events, deleter'.at # "mark"
      PROVE  TypesInv'
  BY <1>a, DeleterTypes DEF generator
<1>b. ASSUME TypeOK', Spend \/ UNCHANGED events, UNCHANGED <<deletes, deletedAt, deleter, cur, worker, janitor>>
      PROVE  TypesInv'
  BY <1>b, <1>t, EventsGrow, OutsideTypes DEF Apart
<1>1. CASE DeleteWaited
  <2>1. DeleterType' /\ deleter'.at = "remove"
    BY <1>1, <1>t DEF DeleteWaited, DeleterType, Of
  <2> QED
    BY <1>1, <1>a, <1>t, <2>1, DeleteWaitedType DEF DeleteWaited, history
<1>2. ASSUME NEW f \in Files, DeleteDir(f) PROVE TypesInv'
  <2>1. DeleterType' /\ deleter'.at = "forget"
    BY <1>2, <1>t DEF DeleteDir, DeleterType, Of
  <2>2. TypeOK'
    BY <1>2, <1>t, DeleteDirType
  <2>3. UNCHANGED generator /\ events' >= events
    BY <1>2, <1>t DEF DeleteDir
  <2> QED
    BY <1>a, <2>1, <2>2, <2>3
<1>3. CASE DeleteRecord
  <2>1. DeleterType' /\ deleter'.at = "remove"
    BY <1>3, <1>t DEF DeleteRecord, DeleterType, Of
  <2> QED
    BY <1>3, <1>a, <1>t, <2>1, DeleteRecordType DEF DeleteRecord, history
<1>4. CASE DeleteReturns
  <2>1. DeleterType' /\ deleter'.at = "idle"
    BY <1>4, PreviewConstants DEF DeleteReturns, DeleterType, Idle, Of
  <2> QED
    BY <1>4, <1>a, <1>t, <2>1, DeleteReturnsType DEF DeleteReturns, history
<1>5. CASE DeleteFails
  <2>1. DeleterType' /\ deleter'.at = "idle"
    BY <1>5, PreviewConstants DEF DeleteFails, DeleterType, Idle, Of
  <2> QED
    BY <1>5, <1>a, <1>t, <2>1, DeleteFailsType, EventsGrow DEF DeleteFails
<1>6. ASSUME NEW l \in Libraries, DeleteBegins(l) PROVE TypesInv'
  <2>1. DeleterType'
    BY <1>6, PreviewConstants DEF DeleteBegins, DeleterType, Idle, Of
  <2>2. TypeOK'
    BY <1>6, <1>t, DeleteBeginsType
  <2>3. UNCHANGED generator /\ events' = events + 1
    BY <1>6 DEF DeleteBegins, Spend
  <2> QED
    BY <1>t, <2>1, <2>2, <2>3, DeleterTypes DEF generator
<1>7. ASSUME NEW f \in Files, Rewrite(f) PROVE TypesInv'
  BY <1>b, <1>7, <1>t, RewriteType DEF Rewrite, generator
<1>8. ASSUME NEW f \in Files, ScanRow(f) PROVE TypesInv'
  BY <1>b, <1>8, <1>t, ScanRowType DEF ScanRow, generator, history
<1>9. ASSUME NEW f \in Files, ScanFinds(f) PROVE TypesInv'
  BY <1>b, <1>9, <1>t, ScanFindsType DEF ScanFinds, generator
<1>10. ASSUME NEW f \in Files, NEW how \in {"front", "force"}, Ask(f, how) PROVE TypesInv'
  BY <1>b, <1>10, <1>t, AskType DEF Ask
<1>11. ASSUME NEW l \in Libraries, ScanCompletes(l) PROVE TypesInv'
  BY <1>b, <1>11, <1>t, ScanCompletesType DEF ScanCompletes, history
<1>12. ASSUME NEW l \in Libraries, SetEnabled(l) PROVE TypesInv'
  BY <1>b, <1>12, <1>t, SetEnabledType DEF SetEnabled
<1>13. CASE Transcode
  BY <1>b, <1>13, <1>t, TranscodeType DEF Transcode, generator
<1>14. CASE Close
  BY <1>b, <1>14, <1>t, CloseType DEF Close
<1>15. CASE Boot
  BY <1>b, <1>15, <1>t, BootType DEF Boot, history
<1>16. CASE Closed
  BY <1>16, <1>t, EndsTypes DEF Closed, TypeOK
<1>17. CASE Crash
  <2>1. events' \in 0..MaxEvents /\ events' >= events
    BY <1>17, <1>t, TypeParts, Spent DEF Crash
  <2> QED
    BY <1>17, <2>1, EndsTypes DEF Crash
<1>18. CASE UNCHANGED vars
  <2>1. TypeOK'
    BY <1>18, <1>t, TypeParts, TypesTogether, CatalogKept, RecordKept, DirKept, GeneratorKept, HistoryKept
       DEF vars, generator
  <2> QED
    BY <1>b, <1>18, <2>1 DEF vars, generator, history
<1>19. CASE \E f \in Files : Rewrite(f) \/ ScanRow(f) \/ ScanFinds(f) \/ Bump(f) \/ Retry(f)
  <2>1. ASSUME NEW f \in Files, Bump(f) \/ Retry(f) PROVE TypesInv'
    BY <1>10, <2>1, Zenon DEF Bump, Retry
  <2> QED
    BY <1>7, <1>8, <1>9, <1>19, <2>1, Zenon
<1>20. CASE \E l \in Libraries : ScanCompletes(l) \/ SetEnabled(l) \/ DeleteBegins(l)
  BY <1>6, <1>11, <1>12, <1>20, Zenon
<1>21. CASE DeleteSteps
  BY <1>1, <1>2, <1>3, <1>4, <1>21, DeleteMarksTypes, Zenon DEF DeleteSteps
<1>22. CASE WorkerSteps
  BY <1>22, WorkerStepTypes
<1>23. CASE JanitorSteps
  BY <1>23, JanitorStepTypes
<1> QED
  BY <1>5, <1>13, <1>14, <1>15, <1>16, <1>17, <1>18, <1>19, <1>20, <1>21, <1>22, <1>23, Zenon DEF Next

(* The Generator's variables keep their types: that no counter passes its  *)
(* bound rests on every DELETE having been begun, and paid for, once.      *)
THEOREM PreviewTypes == Spec => []TypeOK
<1>1. Spec => []TypesInv
  BY TypesInit, TypesKept, PTL DEF Spec
<1> QED
  BY <1>1, PTL DEF TypesInv

-----------------------------------------------------------------------------
(* Clean Files.  A step that leaves alone what StaysDeleted speaks of, but *)
(* may turn a Library off, queue a File behind or take a record away.      *)
LEMMA StaysApart ==
    ASSUME NEW f \in Files, StaysDeleted(f), row'[f] = row[f],
           ~toggle'[LibraryOf[f]], wanted'[f] \in {"no", "back"},
           record'[f] = record[f] \/ record'[f] = NoRecord,
           UNCHANGED <<deletedAt, deleter, cur, worker>>
    PROVE  StaysDeleted(f)'
<1>1. HasRecord(f)' => HasRecord(f)
  BY Constructed DEF HasRecord
<1>2. Going(f) => Going(f)'
  BY DEF Going
<1>3. Job' = Job /\ (Caught(f) => Caught(f)')
  BY DEF Caught, Job
<1> QED
  BY <1>1, <1>2, <1>3 DEF StaysDeleted

\* A step of the worker's that takes no record of the File's up.
LEMMA StaysWorked ==
    ASSUME NEW f \in Files, StaysDeleted(f), UNCHANGED <<row, toggle, deleter>>,
           wanted'[f] \in {"no", "back"}, HasRecord(f)' => Going(f),
           Job'.file = f => Caught(f)'
    PROVE  StaysDeleted(f)'
<1>1. Going(f) => Going(f)'
  BY DEF Going
<1> QED
  BY <1>1 DEF StaysDeleted

LEMMA WorkerStays ==
    ASSUME TypesInv, DeletedInv, WorkerSteps, NEW f \in clean' PROVE f \in clean /\ f \in Files /\ StaysDeleted(f)'
<1>0. f \in clean /\ f \in Files /\ StaysDeleted(f)
  BY DEF WorkerSteps, Turn, Leaves, ExpandTakes, ExpandReads, ExpandPushes, Pick, Handle, RemoveDir, RemoveRecord,
         Start, Build, CutSheet, Check, Discard, Save, End, WorkerOnly, FailsFor, history, TypesInv, TypeOK,
         DeletedInv
<1>a. wanted[f] \in {"no", "back"} /\ (HasRecord(f) => Going(f)) /\ (Job.file = f => Caught(f))
  BY <1>0 DEF StaysDeleted
<1>b. \A F : Pushed(F, "back")[f] \in {"no", "back"}
  BY <1>0, <1>a, PushedType, TypeParts DEF TypesInv
<1>c. ASSUME UNCHANGED record PROVE HasRecord(f)' => Going(f)
  BY <1>a, <1>c DEF HasRecord
<1>d. ASSUME worker' = Waiting PROVE Job'.file # f
  BY <1>0, <1>d, Constructed, PreviewConstants DEF Job
<1>e. ASSUME NEW at \in Places, Goes(at) PROVE worker'.at = at /\ Job' = Job
  BY <1>e DEF TypesInv, WorkerType, Goes, Job
<1>1. CASE Turn \/ Leaves
  <2>1. worker'.at \in {"turn", "done"} /\ Job' = Job
    BY <1>1, <1>e DEF Turn, Leaves, Places
  <2>2. Caught(f)'
    BY <2>1 DEF Caught, Making
  <2> QED
    BY <1>1, <1>0, <1>a, <1>c, <2>2, StaysWorked DEF Turn, Leaves, WorkerOnly, catalog
<1>2. CASE ExpandTakes
  <2>1. worker'.at \in {"expand", "pick"}
    BY <1>2 DEF ExpandTakes, TypesInv, WorkerType
  <2>2. Caught(f)'
    BY <2>1 DEF Caught, Making
  <2> QED
    BY <1>2, <1>0, <1>a, <1>c, <2>2, StaysWorked DEF ExpandTakes, catalog
<1>3. CASE ExpandReads
  <2>1. worker'.at = "push"
    BY <1>3 DEF ExpandReads, TypesInv, WorkerType
  <2>2. Caught(f)'
    BY <2>1 DEF Caught, Making
  <2> QED
    BY <1>3, <1>0, <1>a, <1>c, <2>2, StaysWorked DEF ExpandReads, WorkerOnly, catalog
<1>4. CASE ExpandPushes
  <2>1. worker'.at = "pick"
    BY <1>4 DEF ExpandPushes, TypesInv, WorkerType
  <2>2. Caught(f)'
    BY <2>1 DEF Caught, Making
  <2> QED
    BY <1>4, <1>0, <1>b, <1>c, <2>2, StaysWorked DEF ExpandPushes, catalog
<1>5. CASE Pick
  <2>1. CASE worker' = Waiting /\ wanted' = wanted
    BY <1>5, <1>0, <1>a, <1>c, <1>d, <2>1, StaysWorked DEF Pick, catalog
  <2>2. ASSUME NEW g \in Files, wanted[g] # "no", wanted' = [wanted EXCEPT ![g] = "no"],
               worker'.at = "handle", worker'.job.file = g, worker'.job.force = (wanted[g] = "force")
        PROVE  StaysDeleted(f)'
    <3>1. wanted'[f] \in {"no", "back"}
      BY <1>0, <1>a, <2>2 DEF TypesInv, TypeOK
    <3>2. ASSUME Job'.file = f PROVE Caught(f)'
      <4>1. g = f /\ wanted[g] # "force"
        BY <1>a, <2>2, <3>2 DEF Job
      <4>2. ~(Job.force)'
        BY <2>2, <4>1, Zenon DEF Job
      <4> QED
        BY <2>2, <4>2 DEF Caught, Making
    <3> QED
      BY <1>5, <1>0, <1>c, <3>1, <3>2, StaysWorked DEF Pick, catalog
  <2> QED
    BY <1>0, <1>5, <2>1, <2>2, PickTakes
<1>6. CASE Handle
  <2>0. /\ UNCHANGED <<row, toggle, deleter, wanted, record, deletedAt>>
        /\ worker' = Waiting \/ (f = Job.file => ~Stale(f))
    BY <1>6, Zenon DEF Handle, Finished, catalog
  <2>1. CASE worker' = Waiting
    BY <1>0, <1>a, <1>c, <1>d, <2>0, <2>1, StaysWorked
  <2>2. CASE worker' # Waiting
    <3>1. /\ worker'.job = [Job EXCEPT !.of = version[Job.file]] /\ worker.at = "handle"
          /\ worker'.at = IF Job.force \/ Stale(Job.file) THEN "remove" ELSE "start"
          /\ Job.force \/ Stale(Job.file) \/ (~Fresh(Job.file) /\ toggle[LibraryOf[Job.file]])
      BY <1>6, <2>2, HandleTakes
    <3>2. Job'.file = Job.file /\ Job'.started = Job.started
      BY <3>1 DEF TypesInv, WorkerType, Jobs, Job
    <3>3. ASSUME Job'.file = f PROVE Caught(f)'
      <4>1. Job.force /\ worker'.at = "remove" /\ Job.started < deletedAt[LibraryOf[f]]
        BY <1>0, <1>a, <2>0, <2>2, <3>1, <3>2, <3>3 DEF StaysDeleted, Caught
      <4> QED
        BY <2>0, <3>2, <4>1 DEF Caught, Making
    <3> QED
      BY <1>0, <1>a, <1>c, <2>0, <3>3, StaysWorked
  <2> QED
    BY <1>0, <2>1, <2>2
<1>7. CASE RemoveDir
  <2>1. CASE Goes("forget")
    <3>1. worker'.at = "forget" /\ Job' = Job
      BY <1>e, <2>1 DEF Places, Handling
    <3>2. Caught(f) => Caught(f)'
      BY <1>7, <3>1 DEF Caught, Making, RemoveDir
    <3> QED
      BY <1>7, <1>0, <1>a, <1>c, <3>1, <3>2, StaysWorked DEF RemoveDir, catalog
  <2>2. CASE worker' = Waiting
    BY <1>7, <1>0, <1>a, <1>c, <1>d, <2>2, StaysWorked DEF RemoveDir, catalog
  <2> QED
    BY <1>7, <2>1, <2>2 DEF RemoveDir, Finished
<1>8. CASE RemoveRecord
  <2>1. HasRecord(f)' => Going(f)
    <3>1. Job.file \in Files
      BY <1>8 DEF RemoveRecord, TypesInv, WorkerInv, Handling
    <3>2. record'[f] = record[f] \/ record'[f] = NoRecord
      BY <1>0, <1>8, <3>1 DEF RemoveRecord, TypesInv, TypeOK
    <3> QED
      BY <1>a, <3>2, Constructed DEF HasRecord
  <2>2. CASE Goes("start")
    <3>1. worker'.at = "start" /\ Job' = Job
      BY <1>e, <2>2 DEF Places, Handling
    <3>2. Caught(f) => Caught(f)'
      BY <1>8, <3>1 DEF Caught, Making, RemoveRecord
    <3> QED
      BY <1>8, <1>0, <1>a, <2>1, <3>1, <3>2, StaysWorked DEF RemoveRecord, catalog
  <2>3. CASE worker' = Waiting
    BY <1>8, <1>0, <1>a, <1>d, <2>1, <2>3, StaysWorked DEF RemoveRecord, catalog
  <2> QED
    BY <1>0, <1>8, <2>2, <2>3 DEF RemoveRecord, Finished
<1>9. CASE Start
  <2>1. CASE worker' = Waiting
    BY <1>9, <1>0, <1>a, <1>c, <1>d, <2>1, StaysWorked DEF Start, catalog
  <2>2. CASE worker' # Waiting
    <3>1. worker.at = "start" /\ worker'.job = Job /\ ~(deletedAt[LibraryOf[Job.file]] > Job.started)
      BY <1>9, <2>2, StartTakes
    <3>2. deletedAt[LibraryOf[f]] \in Nat /\ Job.started \in Nat
      BY <1>0, PreviewConstants DEF TypesInv, TypeOK, WorkerType, Jobs, Job
    <3>3. Job'.file # f
      BY <1>a, <3>1, <3>2 DEF Caught, Job
    <3> QED
      BY <1>9, <1>0, <1>a, <1>c, <3>3, StaysWorked DEF Start, catalog
  <2> QED
    BY <1>0, <2>1, <2>2
<1>10. CASE Build
  <2>1. worker'.at = "cut" /\ Job' = Job /\ (Caught(f) => Caught(f)')
    <3>1. worker'.at = "cut" /\ Job' = Job
      BY <1>10, <1>e DEF Build, Places, Making
    <3> QED
      BY <1>10, <3>1 DEF Build, Caught, Making
  <2> QED
    BY <1>10, <1>0, <1>a, <1>c, <2>1, StaysWorked DEF Build, catalog
<1>11. CASE CutSheet
  <2>0. UNCHANGED <<row, toggle, deleter, wanted, record, deletedAt, cur>>
    BY <1>11 DEF CutSheet, catalog
  <2>1. worker.at = "cut" /\ (worker' = worker \/ (worker'.at = "built" /\ Job'.file = Job.file))
    <3>1. \A ok : [Job EXCEPT !.ok = ok].file = Job.file
      BY DEF TypesInv, WorkerType, Jobs, Job
    <3> QED
      BY <1>11, <3>1, CutTakes DEF Job
  <2>2. Job'.file = Job.file /\ (Caught(f) => Caught(f)')
    BY <2>0, <2>1 DEF Caught, Making, Job
  <2> QED
    BY <1>0, <1>a, <1>c, <2>0, <2>2, StaysWorked
<1>12. CASE Check
  <2>1. worker'.at \in {"discard", "again", "save"} /\ Job' = Job
    <3>1. Goes("discard") \/ Goes("again") \/ Goes("save")
      BY <1>12 DEF Check
    <3> QED
      BY <1>e, <3>1 DEF Places, Making
  <2>2. cur.cancelled => worker'.at = "discard"
    BY <1>12, <1>e DEF Check, CutShort, Places, Making
  <2>3. Caught(f) => Caught(f)'
    BY <1>12, <2>1, <2>2 DEF Caught, Making, Check
  <2> QED
    BY <1>12, <1>0, <1>a, <1>c, <2>1, <2>3, StaysWorked DEF Check, catalog
<1>13. CASE Discard
  <2>1. worker'.at = "end" /\ Job' = Job
    BY <1>13, <1>e DEF Discard, Places, Making
  <2>2. Caught(f) => Caught(f)'
    BY <1>13, <2>1 DEF Caught, Making, Discard
  <2>3. wanted'[f] \in {"no", "back"}
    BY <1>13, <1>a, <1>b DEF Discard
  <2> QED
    BY <1>13, <1>0, <1>a, <1>c, <2>1, <2>2, <2>3, StaysWorked DEF Discard, catalog
<1>14. CASE Save
  <2>1. worker'.at = "end" /\ Job' = Job
    BY <1>14, <1>e DEF Save, Places, Making
  <2>2. Caught(f) => Caught(f)'
    BY <1>14, <2>1 DEF Caught, Making, Save
  <2>3. HasRecord(f)' => Going(f)
    <3>1. CASE Job.file = f
      BY <1>14, <1>a, <3>1 DEF Caught, Save, Making, Going
    <3>2. CASE Job.file # f
      <4>1. record'[f] = record[f]
        BY <1>0, <1>14, <3>2 DEF Save, TypesInv, TypeOK
      <4> QED
        BY <1>a, <4>1 DEF HasRecord
    <3> QED
      BY <3>1, <3>2
  <2> QED
    BY <1>14, <1>0, <1>a, <2>1, <2>2, <2>3, StaysWorked DEF Save, catalog
<1>15. CASE End
  BY <1>15, <1>0, <1>a, <1>c, <1>d, StaysWorked DEF End, Finished, catalog
<1> QED
  BY <1>0, <1>1, <1>2, <1>3, <1>4, <1>5, <1>6, <1>7, <1>8, <1>9, <1>10, <1>11, <1>12, <1>13, <1>14, <1>15
     DEF WorkerSteps

LEMMA JanitorStays ==
    ASSUME TypesInv, DeletedInv, JanitorSteps, NEW f \in clean' PROVE StaysDeleted(f)'
<1>0. f \in clean /\ f \in Files /\ StaysDeleted(f)
  BY DEF JanitorSteps, Sweep, SweepRecord, SweepOrphans, SweepPushes, JanitorEnds, SweepDir, FailsFor, history,
         TypesInv, TypeOK, DeletedInv
<1>1. UNCHANGED <<row, toggle, deletedAt, deleter, cur, worker>>
  BY DEF JanitorSteps, Sweep, SweepRecord, SweepOrphans, SweepPushes, JanitorEnds, SweepDir, JanitorOnly, catalog
<1>2. wanted' = wanted \/ \E F : wanted' = Pushed(F, "back")
  BY DEF JanitorSteps, Sweep, SweepRecord, SweepOrphans, SweepPushes, JanitorEnds, SweepDir
<1>3. wanted'[f] \in {"no", "back"}
  BY <1>0, <1>2, PushedType, TypeParts DEF StaysDeleted, TypesInv
<1>4. record'[f] = record[f] \/ record'[f] = NoRecord
  <2>1. record' = record \/ record' = [record EXCEPT ![janitor.file] = NoRecord]
    BY DEF JanitorSteps, Sweep, SweepRecord, SweepOrphans, SweepPushes, JanitorEnds, SweepDir
  <2> QED
    BY <1>0, <2>1 DEF TypesInv, TypeOK
<1> QED
  BY <1>0, <1>1, <1>3, <1>4, StaysApart DEF StaysDeleted

\* The DELETE goes on, and what it has marked it takes.
LEMMA DeleterStays ==
    ASSUME NEW f \in Files, StaysDeleted(f), UNCHANGED <<row, toggle, wanted, worker, cur, deletedAt>>,
           worker.at = "save" /\ Job.file = f => FALSE,
           HasRecord(f)' => Going(f)'
    PROVE  StaysDeleted(f)'
<1>1. Job' = Job /\ (Job.file = f => Caught(f)')
  BY DEF Caught, Job, StaysDeleted
<1> QED
  BY <1>1 DEF StaysDeleted

LEMMA DeleteMarksStays ==
    ASSUME TypesInv, DeletedInv, DeleteMarks, NEW f \in clean' PROVE StaysDeleted(f)'
<1>t. TypeOK /\ DeleterType /\ Dated /\ WorkerInv /\ WorkerType /\ Counted
  BY DEF TypesInv
<1>0. f \in Files /\ deleter.lib \in Libraries /\ deleter.at = "mark"
  BY <1>t DEF DeleteMarks, DeleterType, TypeOK, LeftAlone, Of
<1>1. /\ UNCHANGED <<row, toggle, record, worker>>
      /\ deleter'.at = "wait" /\ deleter'.lib = deleter.lib
      /\ wanted' = [g \in Files |-> IF g \in deleter.ids THEN "no" ELSE wanted[g]]
      /\ cur'.cancelled = (cur.cancelled \/ cur.file \in Of(deleter.lib))
      /\ deletedAt' = [deletedAt EXCEPT ![deleter.lib] = deletes + 1]
  BY <1>t DEF DeleteMarks, DeleterType, TypeOK, catalog
<1>2. \/ f \in clean
      \/ f \in deleter.ids /\ row[f] # "purged" /\ ~toggle[deleter.lib] /\ LibraryOf[f] = deleter.lib
  BY <1>t DEF DeleteMarks, LeftAlone, DeleterType, Of
<1>n. deletes \in Nat /\ Job.started \in Nat /\ \A l \in Libraries : deletedAt[l] \in Nat /\ deletedAt[l] <= deletes
  BY <1>t, PreviewConstants DEF TypeOK, Dated, WorkerType, Jobs, Job
<1>l. LibraryOf[f] \in Libraries
  BY <1>0, PreviewConstants
<1>3. deletedAt'[LibraryOf[f]] >= deletedAt[LibraryOf[f]]
      /\ deletedAt'[LibraryOf[f]] \in Nat
      /\ (LibraryOf[f] = deleter.lib => deletedAt'[LibraryOf[f]] = deletes + 1)
  BY <1>t, <1>0, <1>1, <1>n, <1>l DEF TypeOK
<1>4. CASE f \in clean
  <2>1. StaysDeleted(f)
    BY <1>4 DEF DeletedInv
  <2>2. row[f] # "purged" /\ ~toggle[LibraryOf[f]] /\ wanted[f] \in {"no", "back"} /\ ~HasRecord(f)
        /\ (Job.file = f => Caught(f))
    BY <1>0, <2>1 DEF StaysDeleted, Going
  <2>3. wanted'[f] \in {"no", "back"}
    BY <1>0, <1>1, <2>2
  <2>4. ~HasRecord(f)'
    BY <1>1, <2>2 DEF HasRecord
  <2>5. Job.file = f => Caught(f)'
    <3> SUFFICES ASSUME Job.file = f PROVE Caught(f)'
      OBVIOUS
    <3>0. Caught(f)
      BY <2>2
    <3>1. worker.at # "save"
      BY <1>0, <3>0 DEF Caught
    <3>2. Job.started < deletedAt[LibraryOf[f]] => Job.started < deletedAt'[LibraryOf[f]]
      BY <1>3, <1>n, <1>l
    <3>3. cur.cancelled => cur'.cancelled
      BY <1>1, Zenon
    <3> QED
      BY <1>1, <3>0, <3>1, <3>2, <3>3 DEF Caught, Job
  <2> QED
    BY <1>1, <2>2, <2>3, <2>4, <2>5 DEF StaysDeleted, Job
<1>5. CASE f \in deleter.ids /\ row[f] # "purged" /\ ~toggle[deleter.lib] /\ LibraryOf[f] = deleter.lib
  <2>1. wanted'[f] = "no"
    BY <1>0, <1>1, <1>5
  <2>2. Going(f)'
    BY <1>1, <1>5 DEF Going
  <2>3. Job.file = f => Caught(f)'
    <3> SUFFICES ASSUME Job.file = f PROVE Caught(f)'
      OBVIOUS
    <3>1. worker.at \in Handling => Job.started < deletedAt'[LibraryOf[f]]
      <4>1. worker.at \in Handling => Job.started <= deletes
        BY <1>t DEF WorkerInv
      <4> QED
        BY <1>3, <1>n, <1>5, <4>1
    <3>2. worker.at \in Making => cur'.cancelled
      <4>1. worker.at \in Making => cur.file = f
        BY <1>t DEF WorkerInv
      <4>2. f \in Of(deleter.lib)
        BY <1>0, <1>5 DEF Of
      <4> QED
        BY <1>1, <4>1, <4>2, Zenon
    <3> QED
      BY <1>1, <1>5, <3>1, <3>2 DEF Caught, Job, Handling
  <2> QED
    BY <1>1, <1>5, <2>1, <2>2, <2>3 DEF StaysDeleted, Job
<1> QED
  BY <1>2, <1>4, <1>5

LEMMA DeleteStays ==
    ASSUME TypesInv, DeletedInv, DeleteSteps \/ DeleteFails, NEW f \in clean' PROVE StaysDeleted(f)'
<1>1. CASE DeleteMarks
  BY <1>1, DeleteMarksStays
<1>t. DeleterType /\ TypeOK
  BY DEF TypesInv
<1>a. ASSUME NEW g \in Files, g \in clean
      PROVE  /\ StaysDeleted(g) /\ (HasRecord(g) => Going(g)) /\ row[g] # "purged"
             /\ (Job.file = g /\ worker.at \in Making => cur.cancelled)
             /\ (Job.file = g /\ worker.at = "save" => deleter.at = "wait")
  BY <1>a DEF DeletedInv, StaysDeleted, Caught
<1>2. CASE DeleteWaited
  <2>1. /\ UNCHANGED <<row, toggle, wanted, worker, cur, deletedAt, record>> /\ f \in clean /\ f \in Files
        /\ deleter'.at = "remove" /\ deleter'.lib = deleter.lib /\ ~cur.cancelled
        /\ deleter'.ids = {g \in Of(deleter.lib) : HasRecord(g) /\ row[g] # "purged"}
    BY <1>2, <1>t DEF DeleteWaited, DeleterType, catalog, generator, history, TypeOK
  <2>2. HasRecord(f)' => Going(f)'
    BY <1>a, <2>1 DEF Going, HasRecord, Of
  <2>3. ~(worker.at = "save" /\ Job.file = f)
    BY <1>a, <2>1 DEF Making
  <2> QED
    BY <1>a, <2>1, <2>2, <2>3, DeleterStays
<1>3. ASSUME NEW g \in Files, DeleteDir(g) PROVE StaysDeleted(f)'
  <2>1. /\ UNCHANGED <<row, toggle, wanted, worker, cur, deletedAt, record>> /\ f \in clean /\ f \in Files
        /\ deleter'.at = "forget" /\ deleter'.lib = deleter.lib /\ deleter'.ids = deleter.ids
        /\ deleter.at = "remove"
    BY <1>3, <1>t DEF DeleteDir, DeleterType, catalog, generator, TypeOK
  <2>2. HasRecord(f)' => Going(f)'
    BY <1>a, <2>1 DEF Going, HasRecord
  <2>3. ~(worker.at = "save" /\ Job.file = f)
    BY <1>a, <2>1
  <2> QED
    BY <1>a, <2>1, <2>2, <2>3, DeleterStays
<1>4. CASE DeleteRecord
  <2>1. /\ UNCHANGED <<row, toggle, wanted, worker, cur, deletedAt>> /\ f \in clean /\ f \in Files
        /\ deleter'.at = "remove" /\ deleter'.lib = deleter.lib /\ deleter'.ids = deleter.ids \ {deleter.file}
        /\ deleter.at = "forget" /\ record' = [record EXCEPT ![deleter.file] = NoRecord]
        /\ deleter.file \in Files
    BY <1>4, <1>t DEF DeleteRecord, DeleterType, catalog, generator, history, TypeOK
  <2>2. HasRecord(f)' => HasRecord(f) /\ f # deleter.file
    BY <1>t, <2>1, Constructed DEF HasRecord, TypeOK
  <2>3. HasRecord(f)' => Going(f)'
    BY <1>a, <2>1, <2>2 DEF Going
  <2>4. ~(worker.at = "save" /\ Job.file = f)
    BY <1>a, <2>1
  <2> QED
    BY <1>a, <2>1, <2>3, <2>4, DeleterStays
<1>5. CASE DeleteReturns
  <2>1. /\ UNCHANGED <<row, toggle, wanted, worker, cur, deletedAt, record>> /\ f \in clean /\ f \in Files
        /\ deleter.at = "remove" /\ deleter.ids = {}
    BY <1>5, <1>t DEF DeleteReturns, DeleterType, catalog, generator, history, TypeOK
  <2>2. ~HasRecord(f)'
    BY <1>a, <2>1 DEF Going, HasRecord
  <2>3. ~(worker.at = "save" /\ Job.file = f)
    BY <1>a, <2>1
  <2> QED
    BY <1>a, <2>1, <2>2, <2>3, DeleterStays
<1>6. CASE DeleteFails
  <2>1. /\ UNCHANGED <<row, toggle, wanted, worker, cur, deletedAt, record>> /\ f \in clean /\ f \in Files
        /\ deleter.at # "wait" \/ ~cur.cancelled
        /\ deleter.at = "mark" \/ f \notin Of(deleter.lib)
    BY <1>6, <1>t, Zenon DEF DeleteFails, catalog, generator, TypeOK
  <2>2. ~HasRecord(f)'
    BY <1>a, <2>1 DEF Going, HasRecord, Of
  <2>3. ~(worker.at = "save" /\ Job.file = f)
    BY <1>a, <2>1 DEF Making
  <2> QED
    BY <1>a, <2>1, <2>2, <2>3, DeleterStays
<1> QED
  BY <1>1, <1>2, <1>3, <1>4, <1>5, <1>6 DEF DeleteSteps

LEMMA EndsStays == ASSUME TypesInv, DeletedInv, Ends, NEW f \in clean' PROVE StaysDeleted(f)'
<1>t. DeleterType /\ TypeOK
  BY DEF TypesInv
<1>1. /\ UNCHANGED <<row, toggle, record>> /\ f \in clean /\ f \in Files /\ wanted'[f] = "no" /\ worker' = Waiting
      /\ deleter.at = "idle" \/ f \notin Of(deleter.lib)
  BY <1>t DEF Ends, TypeOK
<1>2. StaysDeleted(f)
  BY <1>1 DEF DeletedInv
<1>3. ~HasRecord(f)'
  BY <1>1, <1>2 DEF StaysDeleted, Going, HasRecord, Of
<1>4. Job'.file # f
  BY <1>1, Constructed, PreviewConstants DEF Job
<1> QED
  BY <1>1, <1>2, <1>3, <1>4 DEF StaysDeleted

LEMMA DeletedKept == ASSUME TypesInv, DeletedInv, [Next]_vars PROVE DeletedInv'
<1> SUFFICES ASSUME NEW f \in clean' PROVE StaysDeleted(f)'
  BY DEF DeletedInv
<1>t. TypeOK /\ DeleterType
  BY DEF TypesInv
<1>a. ASSUME NEW g \in Files, g \in clean
      PROVE  StaysDeleted(g) /\ row[g] # "purged" /\ ~toggle[LibraryOf[g]] /\ wanted[g] \in {"no", "back"}
  BY <1>a DEF DeletedInv, StaysDeleted
<1>b. ASSUME f \in clean, f \in Files, UNCHANGED <<record, deletedAt, deleter, cur, worker>>, row'[f] = row[f],
             ~toggle'[LibraryOf[f]], wanted'[f] \in {"no", "back"}
      PROVE  StaysDeleted(f)'
  BY <1>a, <1>b, StaysApart
<1>c. ASSUME UNCHANGED <<row, toggle, wanted, record, deletedAt, deleter, cur, worker, clean>>
      PROVE  StaysDeleted(f)'
  BY <1>a, <1>b, <1>c, <1>t DEF TypeOK
<1>1. ASSUME NEW g \in Files, Rewrite(g) PROVE StaysDeleted(f)'
  BY <1>1, <1>c DEF Rewrite, generator
<1>2. ASSUME NEW g \in Files, ScanRow(g) PROVE StaysDeleted(f)'
  BY <1>2, <1>c DEF ScanRow, generator, history
<1>3. ASSUME NEW g \in Files, ScanFinds(g) PROVE StaysDeleted(f)'
  <2>1. f \in clean /\ f \in Files /\ f # g /\ UNCHANGED <<record, toggle, generator, deleter>>
    BY <1>3, <1>t DEF ScanFinds, TypeOK
  <2>2. row'[f] = row[f]
    BY <1>3, <1>t, <2>1 DEF ScanFinds, TypeOK
  <2> QED
    BY <1>a, <1>b, <2>1, <2>2 DEF generator
<1>4. ASSUME NEW g \in Files, NEW how \in {"front", "force"}, Ask(g, how) PROVE StaysDeleted(f)'
  <2>1. f \in clean /\ f \in Files /\ f # g /\ UNCHANGED <<record, catalog, deletedAt, deleter, cur, worker>>
    BY <1>4, <1>t DEF Ask, TypeOK
  <2>2. wanted'[f] = wanted[f]
    BY <1>4, <2>1 DEF Ask, Pushed
  <2> QED
    BY <1>a, <1>b, <2>1, <2>2 DEF catalog
<1>5. ASSUME NEW l \in Libraries, ScanCompletes(l) PROVE StaysDeleted(f)'
  BY <1>5, <1>c DEF ScanCompletes, history
<1>6. ASSUME NEW l \in Libraries, SetEnabled(l) PROVE StaysDeleted(f)'
  <2>1. /\ f \in clean /\ f \in Files /\ UNCHANGED <<record, row, wanted, deletedAt, deleter, cur, worker>>
        /\ LibraryOf[f] = l => toggle[l]
    BY <1>6, <1>t DEF SetEnabled, TypeOK, Of
  <2>2. ~toggle'[LibraryOf[f]]
    BY <1>6, <1>a, <1>t, <2>1, PreviewConstants DEF SetEnabled, TypeOK
  <2> QED
    BY <1>a, <1>b, <2>1, <2>2
<1>7. ASSUME NEW l \in Libraries, DeleteBegins(l) PROVE StaysDeleted(f)'
  <2>1. /\ f \in clean /\ f \in Files /\ UNCHANGED <<record, row, wanted, deletedAt, cur, worker>>
        /\ deleter.at = "idle" /\ toggle' = [toggle EXCEPT ![l] = FALSE]
    BY <1>7, <1>t DEF DeleteBegins, generator, TypeOK
  <2>2. ~toggle'[LibraryOf[f]]
    BY <1>a, <1>t, <2>1, PreviewConstants DEF TypeOK
  <2>3. ~HasRecord(f)' /\ Job' = Job
    BY <1>a, <2>1 DEF StaysDeleted, Going, HasRecord, Job
  <2>4. Job.file = f => Caught(f)'
    <3>1. Job.file = f => Caught(f)
      BY <1>a, <2>1 DEF StaysDeleted
    <3>2. Caught(f) => Caught(f)'
      BY <2>1, <2>3 DEF Caught
    <3> QED
      BY <3>1, <3>2
  <2> QED
    BY <1>a, <2>1, <2>2, <2>3, <2>4 DEF StaysDeleted
<1>8. CASE Transcode
  BY <1>8, <1>c DEF Transcode, generator
<1>9. CASE Close
  BY <1>9, <1>c DEF Close, catalog
<1>10. CASE Boot
  BY <1>10, <1>c DEF Boot, catalog, history
<1>11. CASE Closed \/ Crash
  BY <1>11, EndsStays DEF Closed, Crash
<1>12. CASE UNCHANGED vars
  BY <1>12, <1>c DEF vars, catalog, generator, history
<1>13. CASE \E g \in Files : Rewrite(g) \/ ScanRow(g) \/ ScanFinds(g) \/ Bump(g) \/ Retry(g)
  <2>1. ASSUME NEW g \in Files, Bump(g) \/ Retry(g) PROVE StaysDeleted(f)'
    BY <1>4, <2>1, Zenon DEF Bump, Retry
  <2> QED
    BY <1>1, <1>2, <1>3, <1>13, <2>1, Zenon
<1>14. CASE \E l \in Libraries : ScanCompletes(l) \/ SetEnabled(l) \/ DeleteBegins(l)
  BY <1>5, <1>6, <1>7, <1>14, Zenon
<1>15. CASE WorkerSteps
  BY <1>15, WorkerStays
<1>16. CASE JanitorSteps
  BY <1>16, JanitorStays
<1>17. CASE DeleteSteps \/ DeleteFails
  BY <1>17, DeleteStays
<1> QED
  BY <1>8, <1>9, <1>10, <1>11, <1>12, <1>13, <1>14, <1>15, <1>16, <1>17, Zenon DEF Next

(* No work that was under way when a DELETE answered saves a set that the  *)
(* DELETE promised away: a job that is older is refused at Start, one      *)
(* being made is cut short, and of one being saved the DELETE waits for    *)
(* the end and takes the record.                                           *)
THEOREM DeletedForGood == Spec => []DeletedStaysDeleted
<1>1. Init => DeletedInv
  BY DEF Init, DeletedInv
<1>2. Spec => [](TypesInv /\ DeletedInv)
  BY <1>1, TypesInit, TypesKept, DeletedKept, PTL DEF Spec
<1>3. DeletedInv => DeletedStaysDeleted
  BY DEF DeletedInv, DeletedStaysDeleted, StaysDeleted, Going
<1> QED
  BY <1>2, <1>3, PTL

-----------------------------------------------------------------------------
(* Sheets.  Most steps take sheets and records away at most, and versions  *)
(* and bytes only grow.                                                    *)
Loses(f) ==
    /\ dir'[f] \in {dir[f], None, <<>>}
    /\ record'[f] = record[f] \/ record'[f] = NoRecord
    /\ version'[f] <= bytes'[f] /\ bytes[f] <= bytes'[f]

LEMMA Elements == ASSUME NEW S, NEW s \in Seq(S) PROVE \A i \in DOMAIN s : s[i] \in S
OBVIOUS

LEMMA LosesNumbers ==
    ASSUME TypeOK, TypeOK', NEW f \in Files
    PROVE  /\ version[f] \in Nat /\ bytes[f] \in Nat /\ record[f].of \in Nat
           /\ version'[f] \in Nat /\ bytes'[f] \in Nat
           /\ dir[f] # None => \A i \in DOMAIN dir[f] : dir[f][i] \in Nat
<1>1. dir[f] # None => dir[f] \in Seq(Versions)
  BY DEF TypeOK
<1>3. dir[f] # None => \A i \in DOMAIN dir[f] : dir[f][i] \in Versions
  BY <1>1, Elements
<1>4. Versions \subseteq Nat
  BY PreviewConstants DEF Versions
<1>5. version[f] \in Versions /\ bytes[f] \in Versions /\ version'[f] \in Versions /\ bytes'[f] \in Versions
  BY DEF TypeOK
<1>6. record[f].of \in Versions
  BY DEF TypeOK
<1> QED
  BY <1>3, <1>4, <1>5, <1>6

LEMMA LosesSheets ==
    ASSUME TypeOK, TypeOK', NEW f \in Files, SheetsOf(f), Loses(f)
    PROVE  SheetsOf(f)'
<1>n. /\ version[f] \in Nat /\ bytes[f] \in Nat /\ version'[f] \in Nat /\ bytes'[f] \in Nat
      /\ dir[f] # None => \A i \in DOMAIN dir[f] : dir[f][i] \in Nat
  BY LosesNumbers
<1>0. DOMAIN <<>> = {} /\ Len(<<>>) # Sheets
  BY PreviewConstants
<1>1. dir'[f] # None => \A i \in DOMAIN dir'[f] : dir'[f][i] <= bytes'[f]
  BY <1>n, <1>0 DEF Loses, SheetsOf
<1>2. ASSUME record'[f].status = "ready", Whole(f)' PROVE Since(f, record[f].of)' /\ record'[f] = record[f]
  <2>1. record'[f] = record[f]
    BY <1>2, Constructed DEF Loses
  <2>2. dir'[f] = dir[f] /\ Whole(f)
    BY <1>0, <1>2 DEF Loses, Whole
  <2>3. Since(f, record[f].of)
    BY <1>2, <2>1, <2>2 DEF SheetsOf
  <2> QED
    BY <2>1, <2>2, <2>3 DEF Since
<1>3. record'[f].status = "ready" /\ Whole(f)' => Since(f, record[f].of)'
  BY <1>2 DEF Since
<1> QED
  BY <1>1, <1>3 DEF Loses, SheetsOf

\* The same of the File in the worker's hands; the worker may have gone on.
LEMMA LosesJob ==
    ASSUME TypesInv, TypeOK', JobSheets, worker.at \in Remaking => Loses(Job.file),
           Job'.file = Job.file, Job'.of = Job.of,
           worker'.at \in Remaking => worker.at \in Remaking,
           worker'.at \in Sheeted => worker.at \in Sheeted,
           worker'.at \in Unwritten => worker.at \in Unwritten
    PROVE  JobSheets'
<1>1. CASE worker.at \notin Remaking
  BY <1>1 DEF JobSheets, Sheeted, Unwritten, Remaking, Making
<1>2. CASE worker.at \in Remaking
  <2>0. Job.file \in Files /\ Loses(Job.file) /\ Job.of \in Nat
    BY <1>2, PreviewConstants DEF TypesInv, WorkerInv, Remaking, Handling, WorkerType, Jobs, Versions, Job
  <2>1. bytes[Job.file] \in Nat /\ bytes'[Job.file] \in Nat
    BY <2>0, LosesNumbers DEF TypesInv
  <2>2. worker'.at \in Remaking => Job'.of <= bytes'[Job'.file]
    BY <1>2, <2>0, <2>1 DEF JobSheets, Loses
  <2>3. ASSUME worker'.at \in Sheeted PROVE Since(Job.file, Job.of)'
    <3>1. DOMAIN <<>> = {}
      OBVIOUS
    <3>2. dir'[Job.file] \in {dir[Job.file], None, <<>>} /\ Since(Job.file, Job.of)
      BY <2>0, <2>3 DEF JobSheets, Loses
    <3> QED
      BY <3>1, <3>2 DEF Since
  <2>4. ASSUME worker'.at \in Unwritten PROVE ~HasRecord(Job.file)'
    BY <2>0, <2>4, Constructed DEF JobSheets, Loses, HasRecord
  <2> QED
    BY <2>2, <2>3, <2>4 DEF JobSheets
<1> QED
  BY <1>1, <1>2

LEMMA SheetsQuiet ==
    ASSUME TypesInv, TypeOK', SheetsInv, \A f \in Files : Loses(f), worker' = worker \/ worker' = Waiting
    PROVE  SheetsInv'
<1>1. \A f \in Files : SheetsOf(f)'
  BY LosesSheets DEF SheetsInv, TypesInv
<1>2. CASE worker' = worker
  <2>1. worker.at \in Remaking => Job.file \in Files
    BY DEF TypesInv, WorkerInv, Remaking, Handling
  <2>2. JobSheets'
    BY <1>2, <2>1, LosesJob DEF SheetsInv, Job
  <2> QED
    BY <1>1, <2>2 DEF SheetsInv
<1>3. CASE worker' = Waiting
  <2>1. JobSheets'
    BY <1>3, Constructed DEF JobSheets, Remaking, Sheeted, Unwritten, Making
  <2> QED
    BY <1>1, <2>1 DEF SheetsInv
<1> QED
  BY <1>2, <1>3

\* Nothing lost: what stays as it is loses nothing.
LEMMA LosesNothing ==
    ASSUME SheetsInv, TypesInv, NEW f \in Files, UNCHANGED <<version, bytes>>,
           dir'[f] \in {dir[f], None, <<>>}, record'[f] = record[f] \/ record'[f] = NoRecord
    PROVE  Loses(f)
<1>1. version[f] <= bytes[f] /\ bytes[f] \in Nat
  BY PreviewConstants DEF SheetsInv, SheetsOf, TypesInv, TypeOK, Versions
<1> QED
  BY <1>1 DEF Loses

LEMMA Appended ==
    ASSUME NEW S, NEW s \in Seq(S), NEW x \in S, NEW i \in DOMAIN Append(s, x)
    PROVE  (i \in DOMAIN s /\ Append(s, x)[i] = s[i]) \/ Append(s, x)[i] = x
OBVIOUS

LEMMA WorkerSheets == ASSUME TypesInv, SheetsInv, WorkerSteps, TypeOK' PROVE SheetsInv'
<1>t. TypeOK /\ WorkerType /\ WorkerInv
  BY DEF TypesInv
<1>0. UNCHANGED <<version, bytes>>
  BY DEF WorkerSteps, Turn, Leaves, ExpandTakes, ExpandReads, ExpandPushes, Pick, Handle, RemoveDir, RemoveRecord,
         Start, Build, CutSheet, Check, Discard, Save, End, WorkerOnly, catalog
<1>a. ASSUME \A f \in Files : dir'[f] \in {dir[f], None, <<>>},
             \A f \in Files : record'[f] = record[f] \/ record'[f] = NoRecord
      PROVE  \A f \in Files : Loses(f) /\ SheetsOf(f)'
  BY <1>0, <1>a, <1>t, LosesNothing, LosesSheets DEF SheetsInv
<1>b. ASSUME \A f \in Files : dir'[f] \in {dir[f], None, <<>>},
             \A f \in Files : record'[f] = record[f] \/ record'[f] = NoRecord,
             JobSheets'
      PROVE  SheetsInv'
  BY <1>a, <1>b DEF SheetsInv
<1>c. ASSUME worker'.at \notin Remaking PROVE JobSheets'
  BY <1>c DEF JobSheets, Remaking, Sheeted, Unwritten, Making
<1>d. ASSUME \A f \in Files : dir'[f] \in {dir[f], None, <<>>},
             \A f \in Files : record'[f] = record[f] \/ record'[f] = NoRecord,
             NEW at \in Places, Goes(at),
             at \in Remaking => worker.at \in Remaking,
             at \in Sheeted => worker.at \in Sheeted,
             at \in Unwritten => worker.at \in Unwritten
      PROVE  SheetsInv'
  <2>1. worker'.at = at /\ Job' = Job
    BY <1>d, <1>t DEF WorkerType, Goes, Job
  <2>2. worker.at \in Remaking => Loses(Job.file)
    BY <1>a, <1>d, <1>t DEF WorkerInv, Remaking, Handling
  <2>3. JobSheets'
    BY <1>d, <2>1, <2>2, LosesJob DEF SheetsInv
  <2> QED
    BY <1>b, <1>d, <2>3
<1>e. Remaking = {"remove", "forget", "start", "build", "cut", "built", "discard", "again", "save", "end"}
      /\ Unwritten = {"start", "build", "cut", "built", "discard", "again", "save"}
      /\ Sheeted = {"cut", "built", "save"} /\ Remaking \subseteq Places
  BY DEF Remaking, Unwritten, Sheeted, Making, Places, Handling
<1>1. CASE Turn \/ Leaves \/ ExpandTakes \/ ExpandReads \/ ExpandPushes \/ Pick \/ End
  <2>1. worker'.at \in {"turn", "done", "expand", "pick", "push", "wait", "handle"}
    BY <1>1, <1>t, PickTakes, Constructed
       DEF Turn, Leaves, ExpandTakes, ExpandReads, ExpandPushes, End, Finished, Goes, WorkerType
  <2>2. UNCHANGED <<dir, record>>
    BY <1>1 DEF Turn, Leaves, ExpandTakes, ExpandReads, ExpandPushes, Pick, End, WorkerOnly
  <2> QED
    BY <1>b, <1>c, <1>e, <2>1, <2>2
<1>2. CASE Handle
  <2>0. UNCHANGED <<dir, record, version, bytes>>
    BY <1>2 DEF Handle, catalog
  <2>1. JobSheets'
    <3>1. CASE worker' = Waiting
      BY <1>c, <1>e, <3>1, Constructed
    <3>2. CASE worker' # Waiting
      <4>1. /\ Job.file \in Files /\ worker'.job = [Job EXCEPT !.of = version[Job.file]]
            /\ worker'.at = IF Job.force \/ Stale(Job.file) THEN "remove" ELSE "start"
            /\ Job.force \/ Stale(Job.file) \/ (~Fresh(Job.file) /\ toggle[LibraryOf[Job.file]])
        BY <1>2, <3>2, HandleTakes
      <4>2. Job'.file = Job.file /\ Job'.of = version[Job.file]
        BY <1>t, <4>1 DEF WorkerType, Jobs, Job
      <4>3. Job'.of <= bytes'[Job'.file]
        BY <2>0, <4>1, <4>2 DEF SheetsInv, SheetsOf
      <4>4. worker'.at \in {"remove", "start"}
        BY <4>1
      <4>5. worker'.at = "start" => ~HasRecord(Job.file)
        BY <4>1 DEF Stale, Fresh
      <4>6. worker'.at = "start" => ~HasRecord(Job.file)'
        BY <2>0, <4>2, <4>5 DEF HasRecord
      <4> QED
        BY <1>e, <4>3, <4>4, <4>6 DEF JobSheets
    <3> QED
      BY <3>1, <3>2
  <2> QED
    BY <1>b, <2>0, <2>1
<1>3. CASE RemoveDir
  <2>1. worker.at = "remove" /\ UNCHANGED record /\ (Goes("forget") \/ worker' = Waiting)
    BY <1>3 DEF RemoveDir, Finished
  <2>2. \A f \in Files : dir'[f] \in {dir[f], None, <<>>}
    BY <1>3, <1>t DEF RemoveDir, HalfGone, TypeOK
  <2>3. CASE Goes("forget")
    BY <1>d, <1>e, <2>1, <2>2, <2>3
  <2>4. CASE worker' = Waiting
    BY <1>b, <1>c, <1>e, <2>1, <2>2, <2>4, Constructed
  <2> QED
    BY <2>1, <2>3, <2>4
<1>4. CASE RemoveRecord
  <2>0. Job.file \in Files /\ worker.at = "forget" /\ UNCHANGED dir
    BY <1>4, <1>t DEF RemoveRecord, WorkerInv, Handling
  <2>1. \A f \in Files : record'[f] = record[f] \/ record'[f] = NoRecord
    BY <1>4, <1>t, <2>0 DEF RemoveRecord, TypeOK
  <2>2. CASE worker' = Waiting
    BY <1>b, <1>c, <1>e, <2>0, <2>1, <2>2, Constructed
  <2>3. CASE record' = [record EXCEPT ![Job.file] = NoRecord] /\ Goes("start")
    <3>1. worker'.at = "start" /\ Job' = Job
      BY <1>t, <2>3 DEF WorkerType, Goes, Job
    <3>2. ~HasRecord(Job.file)'
      BY <1>t, <2>0, <2>3, <3>1, Constructed DEF HasRecord, TypeOK
    <3>3. Job'.of <= bytes'[Job'.file]
      BY <1>0, <1>e, <2>0, <3>1 DEF SheetsInv, JobSheets
    <3>4. JobSheets'
      BY <1>e, <3>1, <3>2, <3>3 DEF JobSheets
    <3> QED
      BY <1>b, <2>0, <2>1, <3>4
  <2> QED
    BY <1>4, <2>2, <2>3 DEF RemoveRecord, Finished
<1>5. CASE Start
  <2>0. UNCHANGED <<dir, record>> /\ worker.at = "start"
    BY <1>5 DEF Start
  <2>1. worker' = Waiting \/ Goes("build")
    BY <1>5 DEF Start, Finished
  <2> QED
    BY <1>b, <1>c, <1>d, <1>e, <2>0, <2>1, Constructed
<1>6. CASE Build
  <2>0. /\ Job.file \in Files /\ worker.at = "build" /\ UNCHANGED record /\ dir' = [dir EXCEPT ![Job.file] = <<>>]
        /\ worker'.at = "cut" /\ Job' = Job
    BY <1>6, <1>t DEF Build, WorkerInv, Making, WorkerType, Goes, Job
  <2>1. dir'[Job.file] = <<>> /\ \A f \in Files : f # Job.file => dir'[f] = dir[f]
    BY <1>t, <2>0 DEF TypeOK
  <2>2. ASSUME NEW f \in Files PROVE SheetsOf(f)'
    <3>1. CASE f # Job.file
      BY <1>0, <1>t, <2>0, <2>1, <3>1, LosesNothing, LosesSheets DEF SheetsInv
    <3>2. CASE f = Job.file
      <4>1. ~Whole(f)' /\ \A i \in DOMAIN dir'[f] : FALSE
        BY <2>1, <3>2, PreviewConstants DEF Whole
      <4>2. version'[f] <= bytes'[f]
        BY <1>0 DEF SheetsInv, SheetsOf
      <4> QED
        BY <4>1, <4>2 DEF SheetsOf
    <3> QED
      BY <3>1, <3>2
  <2>3. JobSheets'
    <3>1. Since(Job.file, Job.of)'
      BY <2>0, <2>1 DEF Since
    <3>2. ~HasRecord(Job.file)' /\ Job'.of <= bytes'[Job'.file]
      BY <1>0, <1>e, <2>0 DEF SheetsInv, JobSheets, HasRecord
    <3> QED
      BY <3>1, <3>2 DEF JobSheets
  <2> QED
    BY <2>2, <2>3 DEF SheetsInv
<1>7. CASE CutSheet
  <2>0. Job.file \in Files /\ worker.at = "cut" /\ UNCHANGED record
    BY <1>7, CutTakes DEF CutSheet
  <2>r. /\ ~HasRecord(Job.file) /\ Since(Job.file, Job.of) /\ Job.of <= bytes[Job.file]
    BY <1>e, <2>0 DEF SheetsInv, JobSheets
  <2>1. CASE UNCHANGED dir /\ worker' # worker
    <3>1. worker'.at = "built" /\ \E ok \in BOOLEAN : worker'.job = [Job EXCEPT !.ok = ok]
      BY <1>7, <2>1, CutTakes
    <3>2. Job'.file = Job.file /\ Job'.of = Job.of
      BY <1>t, <3>1 DEF WorkerType, Jobs, Job
    <3>3. Loses(Job.file)
      BY <1>0, <2>0, <2>1, LosesNothing
    <3>4. JobSheets'
      BY <1>e, <2>0, <3>1, <3>2, <3>3, LosesJob DEF SheetsInv
    <3> QED
      BY <1>b, <2>0, <2>1, <3>4
  <2>2. CASE worker' = worker
    <3>1. UNCHANGED dir \/ (dir[Job.file] # None /\ dir' = [dir EXCEPT ![Job.file] = Append(@, bytes[Job.file])])
      BY <1>7, <2>2 DEF CutSheet
    <3>2. CASE UNCHANGED dir
      BY <1>0, <2>0, <2>2, <3>2, LosesNothing, SheetsQuiet
    <3>3. CASE dir[Job.file] # None /\ dir' = [dir EXCEPT ![Job.file] = Append(@, bytes[Job.file])]
      <4>1. dir[Job.file] \in Seq(Versions) /\ bytes[Job.file] \in Versions
        BY <1>t, <2>0, <3>3 DEF TypeOK
      <4>2. \A f \in Files : dir'[f] = IF f = Job.file THEN Append(dir[Job.file], bytes[Job.file]) ELSE dir[f]
        BY <1>t, <2>0, <3>3 DEF TypeOK
      <4>3. ASSUME NEW i \in DOMAIN dir'[Job.file]
            PROVE  \/ i \in DOMAIN dir[Job.file] /\ dir'[Job.file][i] = dir[Job.file][i]
                   \/ dir'[Job.file][i] = bytes[Job.file]
        <5>1. dir'[Job.file] = Append(dir[Job.file], bytes[Job.file])
          BY <2>0, <4>2
        <5>2. i \in DOMAIN Append(dir[Job.file], bytes[Job.file])
          BY <4>3, <5>1
        <5>3. \/ i \in DOMAIN dir[Job.file]
                 /\ Append(dir[Job.file], bytes[Job.file])[i] = dir[Job.file][i]
              \/ Append(dir[Job.file], bytes[Job.file])[i] = bytes[Job.file]
          BY <4>1, <5>2, Appended
        <5> QED
          BY <5>1, <5>3
      <4>4. bytes[Job.file] \in Nat
        BY <1>t, <2>0, LosesNumbers
      <4>5. ASSUME NEW f \in Files PROVE SheetsOf(f)'
        <5>1. CASE f # Job.file
          BY <1>0, <1>t, <2>0, <4>2, <5>1, LosesNothing, LosesSheets DEF SheetsInv
        <5>2. CASE f = Job.file
          <6>1. version'[f] <= bytes'[f]
            BY <1>0 DEF SheetsInv, SheetsOf
          <6>2. \A i \in DOMAIN dir[f] : dir[f][i] <= bytes[f]
            BY <3>3, <5>2 DEF SheetsInv, SheetsOf
          <6>3. \A i \in DOMAIN dir'[f] : dir'[f][i] <= bytes'[f]
            BY <1>0, <4>3, <4>4, <5>2, <6>2
          <6>4. record'[f].status = "none"
            BY <2>0, <2>r, <5>2 DEF HasRecord
          <6> QED
            BY <6>1, <6>3, <6>4 DEF SheetsOf
        <5> QED
          BY <5>1, <5>2
      <4>6. Since(Job.file, Job.of)'
        BY <2>2, <2>r, <3>3, <4>3 DEF Since, Job
      <4>7. JobSheets'
        BY <1>0, <2>0, <2>2, <2>r, <4>6 DEF JobSheets, HasRecord, Job
      <4> QED
        BY <4>5, <4>7 DEF SheetsInv
    <3> QED
      BY <3>1, <3>2, <3>3
  <2> QED
    BY <1>7, <2>1, <2>2, CutTakes
<1>8. CASE Check
  <2>0. Job.file \in Files /\ worker.at = "built" /\ UNCHANGED record
    BY <1>8, <1>t DEF Check, WorkerInv, Making
  <2>1. Goes("discard") \/ Goes("again") \/ Goes("save")
    BY <1>8 DEF Check
  <2>2. \A f \in Files : dir'[f] \in {dir[f], None, <<>>}
    BY <1>8, <1>t, <2>0 DEF Check, TypeOK
  <2> QED
    BY <1>d, <1>e, <2>0, <2>1, <2>2
<1>9. CASE Discard
  <2>0. worker.at \in {"discard", "again"} /\ UNCHANGED record /\ Goes("end")
    BY <1>9 DEF Discard
  <2>1. \A f \in Files : dir'[f] \in {dir[f], None, <<>>}
    BY <1>9, <1>t DEF Discard, TypeOK
  <2> QED
    BY <1>d, <1>e, <2>0, <2>1
<1>10. CASE Save
  <2>0. Job.file \in Files /\ worker.at = "save" /\ UNCHANGED dir /\ worker'.at = "end" /\ Job' = Job
    BY <1>10, <1>t DEF Save, WorkerInv, Making, WorkerType, Goes, Job
  <2>1. Since(Job.file, Job.of) /\ Job.of <= bytes[Job.file]
    BY <1>e, <2>0 DEF SheetsInv, JobSheets
  <2>2. \/ record' = record
        \/ record' = [record EXCEPT ![Job.file] = [status |-> IF Job.ok THEN "ready" ELSE "failed", of |-> Job.of]]
    BY <1>10 DEF Save
  <2>3. ASSUME NEW f \in Files PROVE SheetsOf(f)'
    <3>1. CASE record'[f] = record[f]
      BY <1>0, <1>t, <2>0, <3>1, LosesNothing, LosesSheets DEF SheetsInv
    <3>2. CASE record'[f] # record[f]
      <4>1. f = Job.file /\ record'[f].of = Job.of
        BY <1>t, <2>0, <2>2, <3>2 DEF TypeOK
      <4>2. Since(f, record[f].of)'
        BY <2>0, <2>1, <4>1 DEF Since
      <4> QED
        BY <1>0, <2>0, <4>2 DEF SheetsInv, SheetsOf
    <3> QED
      BY <3>1, <3>2
  <2>4. JobSheets'
    BY <1>0, <1>e, <2>0, <2>1 DEF JobSheets
  <2> QED
    BY <2>3, <2>4 DEF SheetsInv
<1> QED
  BY <1>1, <1>2, <1>3, <1>4, <1>5, <1>6, <1>7, <1>8, <1>9, <1>10 DEF WorkerSteps

LEMMA SheetsKept == ASSUME TypesInv, SheetsInv, [Next]_vars PROVE SheetsInv'
<1>t. TypesInv' /\ TypeOK' /\ TypeOK /\ DeleterType /\ JanitorType
  BY TypesKept DEF TypesInv
<1>n. \A f \in Files : version[f] \in Nat /\ bytes[f] \in Nat /\ version[f] <= bytes[f]
  BY <1>t, LosesNumbers DEF SheetsInv, SheetsOf
<1>a. ASSUME UNCHANGED <<version, bytes>>, worker' = worker \/ worker' = Waiting,
             \A f \in Files : dir'[f] \in {dir[f], None, <<>>},
             \A f \in Files : record'[f] = record[f] \/ record'[f] = NoRecord
      PROVE  SheetsInv'
  BY <1>a, <1>t, LosesNothing, SheetsQuiet
<1>b. ASSUME UNCHANGED <<dir, record>>, worker' = worker \/ worker' = Waiting, UNCHANGED <<version, bytes>>
      PROVE  SheetsInv'
  BY <1>a, <1>b
<1>1. ASSUME NEW g \in Files, Rewrite(g) PROVE SheetsInv'
  <2>1. UNCHANGED <<version, dir, record, worker>> /\ bytes' = [bytes EXCEPT ![g] = @ + 1]
    BY <1>1 DEF Rewrite, generator
  <2>2. \A f \in Files : bytes[f] <= bytes'[f] /\ version[f] <= bytes'[f]
    BY <1>n, <1>t, <2>1 DEF TypeOK
  <2> QED
    BY <1>t, <2>1, <2>2, SheetsQuiet DEF Loses
<1>2. ASSUME NEW g \in Files, ScanRow(g) PROVE SheetsInv'
  <2>1. UNCHANGED <<bytes, dir, record, worker>> /\ version' = [version EXCEPT ![g] = bytes[g]]
    BY <1>2 DEF ScanRow, generator
  <2>2. \A f \in Files : bytes[f] <= bytes[f] /\ version'[f] <= bytes[f]
    BY <1>n, <1>t, <2>1 DEF TypeOK
  <2> QED
    BY <1>t, <2>1, <2>2, SheetsQuiet DEF Loses
<1>3. ASSUME NEW g \in Files, ScanFinds(g) PROVE SheetsInv'
  BY <1>3, <1>b DEF ScanFinds, generator
<1>4. ASSUME NEW g \in Files, NEW how \in {"front", "force"}, Ask(g, how) PROVE SheetsInv'
  BY <1>4, <1>b DEF Ask, catalog
<1>5. ASSUME NEW l \in Libraries, ScanCompletes(l) PROVE SheetsInv'
  BY <1>5, <1>b DEF ScanCompletes
<1>6. ASSUME NEW l \in Libraries, SetEnabled(l) PROVE SheetsInv'
  BY <1>6, <1>b DEF SetEnabled
<1>7. ASSUME NEW l \in Libraries, DeleteBegins(l) PROVE SheetsInv'
  BY <1>7, <1>b DEF DeleteBegins, generator
<1>8. CASE Transcode \/ Close \/ Boot
  BY <1>8, <1>b DEF Transcode, Close, Boot, catalog, generator
<1>9. CASE Closed \/ Crash
  BY <1>9, <1>b DEF Closed, Crash, Ends
<1>10. CASE UNCHANGED vars
  BY <1>10, <1>b DEF vars, catalog, generator
<1>11. ASSUME NEW g \in Files, DeleteDir(g) PROVE SheetsInv'
  <2>1. UNCHANGED <<version, bytes, record, worker>> /\ dir' = [dir EXCEPT ![g] = None]
    BY <1>11 DEF DeleteDir, catalog, generator
  <2>2. \A f \in Files : dir'[f] \in {dir[f], None, <<>>}
    BY <1>t, <2>1 DEF TypeOK
  <2> QED
    BY <1>a, <2>1, <2>2
<1>12. CASE DeleteRecord
  <2>1. UNCHANGED <<version, bytes, dir, worker>> /\ record' = [record EXCEPT ![deleter.file] = NoRecord]
    BY <1>12 DEF DeleteRecord, catalog, generator
  <2>2. \A f \in Files : record'[f] = record[f] \/ record'[f] = NoRecord
    BY <1>t, <2>1 DEF TypeOK
  <2> QED
    BY <1>a, <2>1, <2>2
<1>13. CASE DeleteMarks \/ DeleteWaited \/ DeleteReturns
  BY <1>13, <1>b DEF DeleteMarks, DeleteWaited, DeleteReturns, catalog, generator
<1>19. CASE DeleteFails
  <2>1. UNCHANGED <<version, bytes, record, worker>>
    BY <1>19 DEF DeleteFails, catalog, generator
  <2>2. \A f \in Files : dir'[f] \in {dir[f], None, <<>>}
    BY <1>19, <1>t DEF DeleteFails, HalfGone, TypeOK
  <2> QED
    BY <1>a, <2>1, <2>2
<1>14. CASE JanitorSteps
  <2>1. UNCHANGED <<version, bytes, worker>>
    BY <1>14 DEF JanitorSteps, Sweep, SweepRecord, SweepOrphans, SweepPushes, JanitorEnds, SweepDir,
                 JanitorOnly, catalog
  <2>2. \/ dir' = dir \/ (\E g \in Files : dir' = [dir EXCEPT ![g] = None] \/ dir' = [dir EXCEPT ![g] = <<>>])
        \/ dir' = [f \in Files |-> IF f \in janitor.owned THEN dir[f] ELSE None]
    BY <1>14 DEF JanitorSteps, Sweep, SweepRecord, SweepOrphans, SweepPushes, JanitorEnds, SweepDir, HalfGone
  <2>3. \A f \in Files : dir'[f] \in {dir[f], None, <<>>}
    BY <1>t, <2>2 DEF TypeOK
  <2>4. record' = record \/ record' = [record EXCEPT ![janitor.file] = NoRecord]
    BY <1>14 DEF JanitorSteps, Sweep, SweepRecord, SweepOrphans, SweepPushes, JanitorEnds, SweepDir
  <2>5. \A f \in Files : record'[f] = record[f] \/ record'[f] = NoRecord
    BY <1>t, <2>4 DEF TypeOK
  <2> QED
    BY <1>a, <2>1, <2>3, <2>5
<1>15. CASE \E g \in Files : Rewrite(g) \/ ScanRow(g) \/ ScanFinds(g) \/ Bump(g) \/ Retry(g)
  <2>1. ASSUME NEW g \in Files, Bump(g) \/ Retry(g) PROVE SheetsInv'
    BY <1>4, <2>1, Zenon DEF Bump, Retry
  <2> QED
    BY <1>1, <1>2, <1>3, <1>15, <2>1, Zenon
<1>16. CASE \E l \in Libraries : ScanCompletes(l) \/ SetEnabled(l) \/ DeleteBegins(l)
  BY <1>5, <1>6, <1>7, <1>16, Zenon
<1>17. CASE DeleteSteps \/ DeleteFails
  BY <1>11, <1>12, <1>13, <1>17, <1>19, Zenon DEF DeleteSteps
<1>18. CASE WorkerSteps
  BY <1>18, <1>t, WorkerSheets
<1> QED
  BY <1>8, <1>9, <1>10, <1>14, <1>15, <1>16, <1>17, <1>18, Zenon DEF Next

-----------------------------------------------------------------------------
(* The sweep.  A record can appear, or stop being excused, only of the     *)
(* File being made.                                                        *)
LEMMA SweepApart ==
    ASSUME SweepInv, UNCHANGED janitor, cur'.file = cur.file \/ cur'.file = None, None \notin Files,
           \A f \in Files : HasRecord(f)' => HasRecord(f) \/ f = cur.file,
           \A f \in Files : f \in excused => f \in excused' \/ f = cur.file
    PROVE  SweepInv'
  BY DEF SweepInv

LEMMA SweepKept == ASSUME TypesInv, SweepInv, [Next]_vars PROVE SweepInv'
<1>t. TypeOK /\ DeleterType /\ JanitorType /\ WorkerInv /\ WorkerType
  BY DEF TypesInv
<1>n. None \notin Files
  BY PreviewConstants
<1>a. ASSUME UNCHANGED janitor, cur'.file = cur.file \/ cur'.file = None,
             \A f \in Files : record'[f] = record[f] \/ record'[f] = NoRecord,
             excused \subseteq excused'
      PROVE  SweepInv'
  <2>1. \A f \in Files : HasRecord(f)' => HasRecord(f)
    BY <1>a, Constructed DEF HasRecord
  <2> QED
    BY <1>a, <1>n, <2>1, SweepApart
<1>b. ASSUME UNCHANGED <<janitor, cur, record>>, excused \subseteq excused'
      PROVE  SweepInv'
  BY <1>a, <1>b
<1>c. ASSUME janitor'.at \notin {"sweep", "forget"} PROVE SweepInv'
  BY <1>c DEF SweepInv
<1>1. CASE \E g \in Files : Rewrite(g) \/ ScanRow(g) \/ ScanFinds(g) \/ Bump(g) \/ Retry(g)
  <2>1. ASSUME NEW g \in Files, Rewrite(g) PROVE SweepInv'
    BY <2>1, <1>b DEF Rewrite, generator
  <2>2. ASSUME NEW g \in Files, ScanRow(g) PROVE SweepInv'
    BY <2>2, <1>b DEF ScanRow, generator, history
  <2>3. ASSUME NEW g \in Files, ScanFinds(g) PROVE SweepInv'
    BY <2>3, <1>b DEF ScanFinds, generator
  <2>4. ASSUME NEW g \in Files, NEW how \in {"front", "force"}, Ask(g, how) PROVE SweepInv'
    BY <2>4, <1>b DEF Ask
  <2>5. ASSUME NEW g \in Files, Bump(g) \/ Retry(g) PROVE SweepInv'
    BY <2>4, <2>5, Zenon DEF Bump, Retry
  <2> QED
    BY <1>1, <2>1, <2>2, <2>3, <2>5, Zenon
<1>2. CASE \E l \in Libraries : ScanCompletes(l) \/ SetEnabled(l) \/ DeleteBegins(l)
  <2>1. ASSUME NEW l \in Libraries, ScanCompletes(l) PROVE SweepInv'
    BY <2>1, <1>b DEF ScanCompletes, history
  <2>2. ASSUME NEW l \in Libraries, SetEnabled(l) PROVE SweepInv'
    BY <2>2, <1>b DEF SetEnabled
  <2>3. ASSUME NEW l \in Libraries, DeleteBegins(l) PROVE SweepInv'
    BY <2>3, <1>b DEF DeleteBegins, generator
  <2> QED
    BY <1>2, <2>1, <2>2, <2>3, Zenon
<1>3. CASE Transcode \/ Close \/ Boot \/ UNCHANGED vars
  BY <1>3, <1>b DEF Transcode, Close, Boot, vars, catalog, generator, history
<1>4. CASE Closed \/ Crash
  BY <1>4, <1>c, Constructed DEF Closed, Crash, Ends
<1>5. CASE DeleteSteps \/ DeleteFails
  <2>1. CASE DeleteMarks
    <3>1. cur'.file = cur.file /\ UNCHANGED <<janitor, record>> /\ excused \subseteq excused'
      BY <1>t, <2>1 DEF DeleteMarks, TypeOK
    <3> QED
      BY <1>a, <3>1
  <2>2. CASE DeleteRecord
    <3>1. UNCHANGED <<janitor, cur, excused>> /\ record' = [record EXCEPT ![deleter.file] = NoRecord]
      BY <2>2 DEF DeleteRecord, generator, history
    <3>2. \A f \in Files : record'[f] = record[f] \/ record'[f] = NoRecord
      BY <1>t, <3>1 DEF TypeOK
    <3> QED
      BY <1>a, <3>1, <3>2
  <2>3. ASSUME NEW f \in Files, DeleteDir(f) PROVE SweepInv'
    BY <1>b, <2>3 DEF DeleteDir, generator
  <2>4. CASE DeleteWaited \/ DeleteReturns \/ DeleteFails
    BY <1>b, <2>4 DEF DeleteWaited, DeleteReturns, DeleteFails, generator, history
  <2> QED
    BY <1>5, <2>1, <2>2, <2>3, <2>4, Zenon DEF DeleteSteps
<1>6. CASE WorkerSteps
  <2>1. CASE Turn \/ Leaves \/ ExpandTakes \/ ExpandReads \/ ExpandPushes \/ Pick \/ Handle \/ RemoveDir
             \/ CutSheet \/ Check \/ Discard
    BY <2>1, <1>b DEF Turn, Leaves, ExpandTakes, ExpandReads, ExpandPushes, Pick, Handle, RemoveDir, FailsFor,
                      CutSheet, Check, Discard, WorkerOnly, history
  <2>2. CASE RemoveRecord
    <3>1. /\ UNCHANGED <<janitor, cur>> /\ excused \subseteq excused'
          /\ UNCHANGED record \/ record' = [record EXCEPT ![Job.file] = NoRecord]
      BY <2>2 DEF RemoveRecord, FailsFor, history
    <3>2. \A f \in Files : record'[f] = record[f] \/ record'[f] = NoRecord
      BY <1>t, <3>1 DEF TypeOK
    <3> QED
      BY <1>a, <3>1, <3>2
  <2>3. CASE Start
    <3>1. janitor.at \notin {"sweep", "forget"} /\ UNCHANGED janitor
      BY <2>3 DEF Start
    <3> QED
      BY <1>c, <3>1
  <2>4. CASE Build
    <3>1. UNCHANGED <<janitor, cur, record>> /\ cur.file = Job.file /\ excused \ {Job.file} \subseteq excused'
      BY <1>t, <2>4 DEF Build, WorkerInv, Making
    <3> QED
      BY <1>n, <3>1, SweepApart DEF HasRecord
  <2>5. CASE Save
    <3>1. UNCHANGED <<janitor, cur>> /\ excused \subseteq excused' /\ cur.file = Job.file
      BY <1>t, <2>5 DEF Save, FailsFor, WorkerInv, Making
    <3>2. \A f \in Files : f # Job.file => record'[f] = record[f]
      BY <1>t, <2>5 DEF Save, TypeOK
    <3> QED
      BY <1>n, <3>1, <3>2, SweepApart DEF HasRecord
  <2>6. CASE End
    <3>1. UNCHANGED <<janitor, record, excused>> /\ cur'.file = None
      BY <2>6 DEF End, history
    <3> QED
      BY <1>a, <3>1
  <2> QED
    BY <1>6, <2>1, <2>2, <2>3, <2>4, <2>5, <2>6 DEF WorkerSteps
<1>7. CASE JanitorSteps
  <2>5. CASE Sweep /\ UNCHANGED janitor
    BY <1>c, <2>5 DEF Sweep
  <2>1. CASE Sweep /\ ~UNCHANGED janitor
    <3> DEFINE others == Files \ {cur.file}
               gone   == {f \in others : HasRecord(f) /\ row[f] = "purged"}
               stale  == {f \in others : Stale(f) /\ row[f] # "purged"}
    <3>1. /\ janitor'.at = "sweep" /\ janitor'.condemned = gone \cup stale
          /\ janitor'.owned = {cur.file} \cup {f \in others \ (gone \cup stale) : HasRecord(f)}
          /\ UNCHANGED <<cur, record, excused>>
      BY <2>1 DEF Sweep, JanitorOnly, history, AtRest
    <3>2. cur.file \in Files => cur.file \in janitor'.owned /\ cur.file \notin janitor'.condemned
      BY <3>1
    <3>3. \A f \in Files : HasRecord(f) => f \in janitor'.owned \/ f \in janitor'.condemned
      BY <3>1
    <3> QED
      BY <3>1, <3>2, <3>3 DEF SweepInv, HasRecord
  <2>2. ASSUME NEW f \in Files, SweepDir(f), janitor'.at = "forget" PROVE SweepInv'
    <3>1. /\ janitor.at = "sweep" /\ f \in janitor.condemned /\ janitor'.at = "forget" /\ janitor'.file = f
          /\ janitor'.condemned = janitor.condemned \ {f} /\ janitor'.owned = janitor.owned
          /\ UNCHANGED <<cur, record, excused>>
      BY <1>t, <2>2 DEF SweepDir, JanitorOnly, history, JanitorType
    <3> QED
      BY <3>1 DEF SweepInv, HasRecord
  <2>7. ASSUME NEW f \in Files, SweepDir(f), janitor'.at = "sweep" PROVE SweepInv'
    <3>1. /\ janitor.at = "sweep" /\ UNCHANGED <<cur, record>> /\ excused' = excused \cup {f}
          /\ janitor'.condemned = janitor.condemned \ {f} /\ janitor'.owned = janitor.owned
      BY <1>t, <2>7 DEF SweepDir, FailsFor, JanitorOnly, JanitorType
    <3>2. cur.file \in Files => cur.file \in janitor'.owned /\ cur.file \notin janitor'.condemned
      BY <3>1 DEF SweepInv
    <3>3. \A g \in Files : HasRecord(g) /\ g \notin excused' => g \in janitor'.owned \/ g \in janitor'.condemned
      BY <3>1 DEF SweepInv
    <3> QED
      BY <2>7, <3>1, <3>2, <3>3 DEF SweepInv, HasRecord
  <2>8. ASSUME NEW f \in Files, SweepDir(f) PROVE SweepInv'
    <3>1. janitor'.at = "forget" \/ janitor'.at = "sweep"
      BY <1>t, <2>8 DEF SweepDir, JanitorType
    <3> QED
      BY <2>2, <2>7, <2>8, <3>1
  <2>3. CASE SweepRecord
    <3>1. /\ janitor.at = "forget" /\ janitor'.at = "sweep" /\ janitor.file \in Files /\ UNCHANGED cur
          /\ janitor'.condemned = janitor.condemned /\ janitor'.owned = janitor.owned
          /\ \/ record' = [record EXCEPT ![janitor.file] = NoRecord] /\ UNCHANGED excused
             \/ UNCHANGED record /\ excused' = excused \cup {janitor.file}
      BY <1>t, <2>3 DEF SweepRecord, FailsFor, JanitorOnly, history, JanitorType
    <3>2. ASSUME NEW f \in Files, HasRecord(f)', f \notin excused'
          PROVE HasRecord(f) /\ f \notin excused /\ f # janitor.file
      BY <1>t, <3>1, <3>2, Constructed DEF HasRecord, TypeOK
    <3>3. cur.file \in Files => cur.file \in janitor'.owned /\ cur.file \notin janitor'.condemned
      BY <3>1 DEF SweepInv
    <3> QED
      BY <3>1, <3>2, <3>3 DEF SweepInv
  <2>4. CASE SweepOrphans \/ SweepPushes \/ JanitorEnds
    <3>1. janitor'.at \in {"push", "idle", "done"}
      <4>1. CASE SweepOrphans
        BY <1>t, <4>1 DEF SweepOrphans, JanitorType
      <4>2. CASE SweepPushes \/ JanitorEnds
        BY <4>2 DEF SweepPushes, JanitorEnds, AtRest
      <4> QED
        BY <2>4, <4>1, <4>2
    <3> QED
      BY <1>c, <3>1
  <2> QED
    BY <1>7, <2>1, <2>3, <2>4, <2>5, <2>8, Zenon DEF JanitorSteps
<1> QED
  BY <1>1, <1>2, <1>3, <1>4, <1>5, <1>6, <1>7, Zenon DEF Next

-----------------------------------------------------------------------------
(* Whole sets.  A step keeps them that makes no File due, and takes no     *)
(* sheets of a due one's, nor of a built one's.                            *)
LEMMA WholeApart ==
    ASSUME WholeInv,
           \A f \in Files : Due(f)' => Due(f) /\ dir'[f] = dir[f],
           Built' => Built /\ Job'.file = Job.file /\ dir'[Job.file] = dir[Job.file]
    PROVE  WholeInv'
  BY DEF WholeInv, Whole

LEMMA WorkerWhole == ASSUME TypesInv, SheetsInv, WholeInv, WorkerSteps PROVE WholeInv'
<1>t. TypeOK /\ WorkerInv /\ WorkerType
  BY DEF TypesInv
<1>u. /\ Unwritten = {"start", "build", "cut", "built", "discard", "again", "save"}
      /\ \A f \in Files : record[f].status = "ready" => HasRecord(f)
      /\ worker.at \in Unwritten => ~HasRecord(Job.file)
  BY DEF Unwritten, Making, HasRecord, SheetsInv, JobSheets
<1>0. UNCHANGED <<janitor, deleter>>
  BY DEF WorkerSteps, Turn, Leaves, ExpandTakes, ExpandReads, ExpandPushes, Pick, Handle, RemoveDir, RemoveRecord,
         Start, Build, CutSheet, Check, Discard, Save, End, WorkerOnly
\* What the worker removes of no other File stays removed.
<1>r. ASSUME NEW f \in Files, BeingRemoved(f)
      PROVE  BeingRemoved(f)' \/ (worker.at = "forget" /\ Job.file = f)
  BY <1>0, <1>r DEF BeingRemoved
<1>a. ASSUME UNCHANGED <<record, dir, excused>>, worker.at # "forget", worker'.at \notin {"built", "save"}
      PROVE  WholeInv'
  <2>1. \A f \in Files : Due(f)' => Due(f)
    BY <1>a, <1>r DEF Due
  <2> QED
    BY <1>a, <2>1, WholeApart DEF Built
<1>1. CASE Turn \/ Leaves \/ ExpandTakes \/ ExpandReads \/ ExpandPushes \/ Pick \/ End
  <2>1. worker'.at \in {"turn", "done", "expand", "pick", "push", "wait", "handle"}
    BY <1>1, <1>t, PickTakes, Constructed
       DEF Turn, Leaves, ExpandTakes, ExpandReads, ExpandPushes, End, Finished, Goes, WorkerType
  <2>2. UNCHANGED <<dir, record, excused>> /\ worker.at # "forget"
    BY <1>1 DEF Turn, Leaves, ExpandTakes, ExpandReads, ExpandPushes, Pick, End, WorkerOnly, history
  <2> QED
    BY <1>a, <2>1, <2>2
<1>2. CASE Handle
  <2>1. UNCHANGED <<dir, record, excused>> /\ worker.at # "forget"
    BY <1>2 DEF Handle
  <2>2. worker'.at \in {"wait", "remove", "start"}
    BY <1>2, HandleTakes, Constructed
  <2> QED
    BY <1>a, <2>1, <2>2
<1>3. CASE RemoveDir
  <2>0. /\ UNCHANGED record /\ Job.file \in Files /\ worker.at = "remove" /\ excused \subseteq excused'
        /\ worker'.at \in {"forget", "wait"}
        /\ (worker'.at = "forget" /\ Job' = Job) \/ Job.file \in excused'
    BY <1>3, <1>t, Constructed
       DEF RemoveDir, FailsFor, history, Goes, Finished, WorkerType, Job, WorkerInv, Handling
  <2>1. \A f \in Files : f # Job.file => dir'[f] = dir[f]
    BY <1>3, <1>t DEF RemoveDir, HalfGone, TypeOK
  <2>2. ASSUME NEW f \in Files, Due(f)' PROVE Due(f) /\ dir'[f] = dir[f]
    <3>1. f # Job.file
      BY <2>0, <2>2 DEF Due, BeingRemoved
    <3> QED
      BY <1>r, <2>0, <2>1, <2>2, <3>1 DEF Due
  <2> QED
    BY <2>0, <2>2, WholeApart DEF Built
<1>4. CASE RemoveRecord
  <2>1. /\ UNCHANGED dir /\ worker.at = "forget" /\ Job.file \in Files /\ worker'.at \in {"start", "wait"}
        /\ \/ record' = [record EXCEPT ![Job.file] = NoRecord] /\ UNCHANGED excused
           \/ UNCHANGED record /\ excused' = excused \cup {Job.file}
    BY <1>4, <1>t, Constructed DEF RemoveRecord, FailsFor, history, Goes, Finished, WorkerType, WorkerInv, Handling
  <2>2. ASSUME NEW f \in Files, Due(f)' PROVE Due(f)
    <3>1. f # Job.file /\ record'[f] = record[f] /\ f \notin excused
      BY <1>t, <2>1, <2>2, Constructed DEF Due, TypeOK
    <3> QED
      BY <1>r, <2>2, <3>1 DEF Due
  <2> QED
    BY <2>1, <2>2, WholeApart DEF Built
<1>5. CASE Start
  <2>1. UNCHANGED <<dir, record, excused>> /\ worker.at # "forget"
    BY <1>5 DEF Start, history
  <2>2. worker'.at \in {"wait", "build"}
    BY <1>5, StartTakes, Constructed
  <2> QED
    BY <1>a, <2>1, <2>2
<1>6. ASSUME worker.at \in Unwritten, UNCHANGED record, Job.file \in Files,
             \A f \in Files : f # Job.file => dir'[f] = dir[f] /\ (f \in excused => f \in excused')
      PROVE  \A f \in Files : Due(f)' => Due(f) /\ dir'[f] = dir[f]
  <2> SUFFICES ASSUME NEW f \in Files, Due(f)' PROVE Due(f) /\ dir'[f] = dir[f]
    OBVIOUS
  <2>1. f # Job.file
    BY <1>6, <1>u DEF Due
  <2>2. worker.at # "forget"
    BY <1>6, <1>u
  <2> QED
    BY <1>6, <1>r, <2>1, <2>2 DEF Due
<1>7. CASE Build
  <2>1. /\ UNCHANGED record /\ worker.at = "build" /\ Job.file \in Files /\ worker'.at = "cut"
        /\ dir' = [dir EXCEPT ![Job.file] = <<>>] /\ excused \ {Job.file} \subseteq excused'
    BY <1>7, <1>t DEF Build, Goes, WorkerType, WorkerInv, Making
  <2>2. \A f \in Files : f # Job.file => dir'[f] = dir[f] /\ (f \in excused => f \in excused')
    BY <1>t, <2>1 DEF TypeOK
  <2>3. \A f \in Files : Due(f)' => Due(f) /\ dir'[f] = dir[f]
    BY <1>6, <1>u, <2>1, <2>2
  <2> QED
    BY <2>1, <2>3, WholeApart DEF Built
<1>8. CASE CutSheet
  <2>1. UNCHANGED <<record, excused>> /\ worker.at = "cut" /\ Job.file \in Files
    BY <1>8, CutTakes DEF CutSheet
  <2>2. \A f \in Files : f # Job.file => dir'[f] = dir[f]
    BY <1>8, <1>t DEF CutSheet, TypeOK
  <2>3. \A f \in Files : Due(f)' => Due(f) /\ dir'[f] = dir[f]
    BY <1>6, <1>u, <2>1, <2>2
  <2>4. \A f \in Files : Due(f)' => Whole(f)'
    BY <2>3 DEF WholeInv, Whole
  <2>5. Built' => Whole(Job.file)'
    <3> SUFFICES ASSUME Built' PROVE Whole(Job.file)'
      OBVIOUS
    <3>1. worker' # worker
      BY <2>1 DEF Built
    <3>2. UNCHANGED dir /\ Whole(Job.file) /\ \E ok \in BOOLEAN : worker'.job = [Job EXCEPT !.ok = ok]
      BY <1>8, <3>1, CutTakes DEF Built, Job
    <3>3. Job'.file = Job.file
      BY <1>t, <3>2 DEF WorkerType, Jobs, Job
    <3> QED
      BY <3>2, <3>3 DEF Whole
  <2> QED
    BY <2>4, <2>5 DEF WholeInv
<1>9. CASE Check
  <2>1. UNCHANGED <<record, excused>> /\ worker.at = "built" /\ Job.file \in Files
    BY <1>9, <1>t DEF Check, history, WorkerInv, Making
  <2>2. \A f \in Files : f # Job.file => dir'[f] = dir[f]
    BY <1>9, <1>t DEF Check, TypeOK
  <2>3. \A f \in Files : Due(f)' => Due(f) /\ dir'[f] = dir[f]
    BY <1>6, <1>u, <2>1, <2>2
  <2>4. worker'.job = worker.job
    BY <1>9, <1>t DEF Check, Goes, WorkerType
  <2>5. UNCHANGED dir \/ ~Job.ok
    BY <1>9 DEF Check
  <2>6. Built' => Built /\ Job' = Job /\ UNCHANGED dir
    BY <2>1, <2>4, <2>5 DEF Built, Job
  <2> QED
    BY <2>3, <2>6, WholeApart
<1>10. CASE Discard
  <2>1. UNCHANGED <<record, excused>> /\ worker.at \in {"discard", "again"} /\ Job.file \in Files /\ worker'.at = "end"
    BY <1>10, <1>t DEF Discard, history, Goes, WorkerType, WorkerInv, Making
  <2>2. \A f \in Files : f # Job.file => dir'[f] = dir[f]
    BY <1>10, <1>t DEF Discard, TypeOK
  <2>3. \A f \in Files : Due(f)' => Due(f) /\ dir'[f] = dir[f]
    BY <1>6, <1>u, <2>1, <2>2
  <2> QED
    BY <2>1, <2>3, WholeApart DEF Built
<1>11. CASE Save
  <2>1. UNCHANGED dir /\ worker.at = "save" /\ Job.file \in Files /\ worker'.at = "end" /\ excused \subseteq excused'
    BY <1>11, <1>t DEF Save, FailsFor, Goes, WorkerType, WorkerInv, Making
  <2>2. ~Built'
    BY <2>1 DEF Built
  <2>3. ASSUME NEW f \in Files, Due(f)' PROVE Whole(f)'
    <3>1. CASE record'[f] = record[f]
      <4>1. Due(f)
        BY <1>r, <2>1, <2>3, <3>1 DEF Due
      <4> QED
        BY <2>1, <4>1 DEF WholeInv, Whole
    <3>2. CASE record'[f] # record[f]
      <4>1. f = Job.file /\ record'[f].status = IF Job.ok THEN "ready" ELSE "failed"
        BY <1>11, <1>t, <2>1, <3>2 DEF Save, TypeOK
      <4>2. Built
        BY <2>1, <2>3, <4>1 DEF Due, Built
      <4> QED
        BY <2>1, <4>1, <4>2 DEF WholeInv, Whole
    <3> QED
      BY <3>1, <3>2
  <2> QED
    BY <2>2, <2>3 DEF WholeInv
<1> QED
  BY <1>1, <1>2, <1>3, <1>4, <1>5, <1>7, <1>8, <1>9, <1>10, <1>11 DEF WorkerSteps

LEMMA WholeKept == ASSUME TypesInv, SheetsInv, SweepInv, WholeInv, [Next]_vars PROVE WholeInv'
<1>t. TypeOK /\ DeleterType /\ JanitorType /\ WorkerInv /\ WorkerType
  BY DEF TypesInv
<1>n. None \notin Files /\ NoRecord.status = "none"
  BY PreviewConstants, Constructed
<1>u. /\ Unwritten = {"start", "build", "cut", "built", "discard", "again", "save"}
      /\ \A f \in Files : record[f].status = "ready" => HasRecord(f)
      /\ worker.at \in Unwritten => ~HasRecord(Job.file)
  BY DEF Unwritten, Making, HasRecord, SheetsInv, JobSheets
<1>b. Built => Job.file \in Files /\ cur.file = Job.file /\ worker.at \in {"built", "save"}
  BY <1>t DEF Built, WorkerInv, Making
\* Where nothing is being removed by the step.
<1>a. ASSUME UNCHANGED <<record, dir>>, excused \subseteq excused', worker' = worker,
             \A f \in Files : BeingRemoved(f) => BeingRemoved(f)' \/ f \in excused'
      PROVE  WholeInv'
  BY <1>a, WholeApart DEF Due, Built, Job
<1>c. ASSUME UNCHANGED <<record, dir, worker, janitor, deleter>>, excused \subseteq excused' PROVE WholeInv'
  <2>1. \A f \in Files : BeingRemoved(f) => BeingRemoved(f)'
    BY <1>c DEF BeingRemoved, Job
  <2> QED
    BY <1>a, <1>c, <2>1
<1>1. CASE \E g \in Files : Rewrite(g) \/ ScanRow(g) \/ ScanFinds(g) \/ Bump(g) \/ Retry(g)
  <2>1. ASSUME NEW g \in Files, Rewrite(g) PROVE WholeInv'
    BY <2>1, <1>c DEF Rewrite, generator
  <2>2. ASSUME NEW g \in Files, ScanRow(g) PROVE WholeInv'
    BY <2>2, <1>c DEF ScanRow, generator, history
  <2>3. ASSUME NEW g \in Files, ScanFinds(g) PROVE WholeInv'
    BY <2>3, <1>c DEF ScanFinds, generator
  <2>4. ASSUME NEW g \in Files, NEW how \in {"front", "force"}, Ask(g, how) PROVE WholeInv'
    BY <2>4, <1>c DEF Ask
  <2>5. ASSUME NEW g \in Files, Bump(g) \/ Retry(g) PROVE WholeInv'
    BY <2>4, <2>5, Zenon DEF Bump, Retry
  <2> QED
    BY <1>1, <2>1, <2>2, <2>3, <2>5, Zenon
<1>2. CASE \E l \in Libraries : ScanCompletes(l) \/ SetEnabled(l) \/ DeleteBegins(l)
  <2>1. ASSUME NEW l \in Libraries, ScanCompletes(l) PROVE WholeInv'
    BY <2>1, <1>c DEF ScanCompletes, history
  <2>2. ASSUME NEW l \in Libraries, SetEnabled(l) PROVE WholeInv'
    BY <2>2, <1>c DEF SetEnabled
  <2>3. ASSUME NEW l \in Libraries, DeleteBegins(l) PROVE WholeInv'
    <3>1. UNCHANGED <<record, dir, worker, janitor, excused>> /\ deleter.at = "idle"
      BY <2>3 DEF DeleteBegins, generator
    <3>2. \A f \in Files : BeingRemoved(f) => BeingRemoved(f)'
      BY <3>1 DEF BeingRemoved, Job
    <3> QED
      BY <1>a, <3>1, <3>2
  <2> QED
    BY <1>2, <2>1, <2>2, <2>3, Zenon
<1>3. CASE Transcode \/ Close \/ Boot \/ UNCHANGED vars
  BY <1>3, <1>c DEF Transcode, Close, Boot, vars, catalog, generator, history
<1>4. CASE Closed \/ Crash
  <2>1. UNCHANGED <<record, dir>> /\ worker' = Waiting
        /\ excused' = excused \cup {f \in Files : record[f].status = "ready" /\ ~Whole(f)}
    BY <1>4 DEF Closed, Crash, Ends
  <2>2. ~Built'
    BY <2>1, Constructed DEF Built
  <2>3. \A f \in Files : Due(f)' => Whole(f)'
    BY <2>1 DEF Due, Whole
  <2> QED
    BY <2>2, <2>3 DEF WholeInv
<1>5. CASE DeleteMarks
  <2>1. UNCHANGED <<record, dir, worker, janitor>> /\ excused \subseteq excused' /\ deleter.at # "forget"
    BY <1>5 DEF DeleteMarks
  <2>2. \A f \in Files : BeingRemoved(f) => BeingRemoved(f)'
    BY <2>1 DEF BeingRemoved, Job
  <2> QED
    BY <1>a, <2>1, <2>2
<1>6. CASE DeleteWaited \/ DeleteReturns
  <2>1. UNCHANGED <<record, dir, worker, janitor, excused>> /\ deleter.at # "forget"
    BY <1>6 DEF DeleteWaited, DeleteReturns, generator, history
  <2>2. \A f \in Files : BeingRemoved(f) => BeingRemoved(f)'
    BY <2>1 DEF BeingRemoved, Job
  <2> QED
    BY <1>a, <2>1, <2>2
<1>7. ASSUME NEW g \in Files, DeleteDir(g) PROVE WholeInv'
  <2>1. /\ UNCHANGED <<record, worker, janitor, cur>> /\ dir' = [dir EXCEPT ![g] = None] /\ deleter.at = "remove"
        /\ deleter'.at = "forget" /\ deleter'.file = g
        /\ excused' = IF cur.file = g THEN excused \cup {g} ELSE excused
    BY <1>7, <1>t DEF DeleteDir, generator, DeleterType
  <2>2. \A f \in Files : f # g => dir'[f] = dir[f]
    BY <1>t, <2>1 DEF TypeOK
  <2>3. ASSUME NEW f \in Files, Due(f)' PROVE Due(f) /\ dir'[f] = dir[f]
    <3>1. f # g
      BY <2>1, <2>3 DEF Due, BeingRemoved
    <3>2. BeingRemoved(f) => BeingRemoved(f)'
      BY <2>1 DEF BeingRemoved, Job
    <3> QED
      BY <2>1, <2>2, <2>3, <3>1, <3>2 DEF Due
  <2>4. ASSUME Built' PROVE Built /\ Job'.file = Job.file /\ dir'[Job.file] = dir[Job.file]
    <3>1. Built /\ Job' = Job
      BY <2>1, <2>4 DEF Built, Job
    <3>2. Job.file # g
      BY <1>b, <2>1, <2>4, <3>1 DEF Built
    <3> QED
      BY <1>b, <2>2, <3>1, <3>2
  <2> QED
    BY <2>3, <2>4, WholeApart
<1>8. CASE DeleteRecord
  <2>1. /\ UNCHANGED <<dir, worker, janitor, excused>> /\ record' = [record EXCEPT ![deleter.file] = NoRecord]
        /\ deleter.at = "forget" /\ deleter.file \in Files
    BY <1>8, <1>t DEF DeleteRecord, generator, history, DeleterType
  <2>2. ASSUME NEW f \in Files, Due(f)' PROVE Due(f)
    <3>1. f # deleter.file /\ record'[f] = record[f]
      BY <1>n, <1>t, <2>1, <2>2 DEF Due, TypeOK
    <3>2. BeingRemoved(f) => BeingRemoved(f)'
      BY <2>1, <3>1 DEF BeingRemoved, Job
    <3> QED
      BY <2>1, <2>2, <3>1, <3>2 DEF Due
  <2> QED
    BY <2>1, <2>2, WholeApart DEF Built, Job
<1>9. CASE DeleteFails
  <2>1. UNCHANGED <<record, worker, janitor>> /\ excused \subseteq excused'
    BY <1>9 DEF DeleteFails, generator
  <2>2. deleter.at = "forget" => deleter.file \in excused'
    BY <1>9 DEF DeleteFails
  <2>3. \A f \in Files : BeingRemoved(f) => BeingRemoved(f)' \/ f \in excused'
    BY <2>1, <2>2 DEF BeingRemoved, Job
  <2>4. \A f \in Files : f \notin excused' => dir'[f] = dir[f]
    BY <1>9, <1>t DEF DeleteFails, HalfGone, TypeOK
  <2>5. \A f \in Files : Due(f)' => Due(f) /\ dir'[f] = dir[f]
    BY <2>1, <2>3, <2>4 DEF Due
  <2>6. ASSUME Built' PROVE Built /\ Job'.file = Job.file /\ dir'[Job.file] = dir[Job.file]
    <3>1. Built /\ Job' = Job /\ Job.file \notin excused'
      BY <2>1, <2>6 DEF Built, Job
    <3> QED
      BY <1>b, <2>4, <3>1
  <2> QED
    BY <2>5, <2>6, WholeApart
<1>10. CASE JanitorSteps
  <2>0. UNCHANGED <<worker, cur, deleter>>
    BY <1>10 DEF JanitorSteps, Sweep, SweepRecord, SweepOrphans, SweepPushes, JanitorEnds, SweepDir, JanitorOnly
  <2>1. CASE Sweep \/ SweepPushes \/ JanitorEnds
    <3>1. UNCHANGED <<record, dir, excused>> /\ janitor.at # "forget"
      BY <2>1 DEF Sweep, SweepPushes, JanitorEnds, history
    <3>2. \A f \in Files : BeingRemoved(f) => BeingRemoved(f)'
      BY <2>0, <3>1 DEF BeingRemoved, Job
    <3> QED
      BY <1>a, <2>0, <3>1, <3>2
  <2>2. ASSUME NEW g \in Files, SweepDir(g) PROVE WholeInv'
    <3>1. /\ UNCHANGED record /\ excused \subseteq excused' /\ janitor.at = "sweep" /\ g \in janitor.condemned
          /\ (janitor'.at = "forget" /\ janitor'.file = g) \/ g \in excused'
      BY <1>t, <2>2 DEF SweepDir, FailsFor, history, JanitorType
    <3>2. \A f \in Files : f # g => dir'[f] = dir[f]
      BY <1>t, <2>2 DEF SweepDir, HalfGone, TypeOK
    <3>3. ASSUME NEW f \in Files, Due(f)' PROVE Due(f) /\ dir'[f] = dir[f]
      <4>1. f # g
        BY <3>1, <3>3 DEF Due, BeingRemoved
      <4>2. BeingRemoved(f) => BeingRemoved(f)'
        BY <2>0, <3>1 DEF BeingRemoved, Job
      <4> QED
        BY <3>1, <3>2, <3>3, <4>1, <4>2 DEF Due
    <3>4. ASSUME Built' PROVE Built /\ Job'.file = Job.file /\ dir'[Job.file] = dir[Job.file]
      <4>1. Built /\ Job' = Job
        BY <2>0, <3>1, <3>4 DEF Built, Job
      <4>2. Job.file # g
        BY <1>b, <3>1, <4>1 DEF SweepInv
      <4> QED
        BY <1>b, <3>2, <4>1, <4>2
    <3> QED
      BY <3>3, <3>4, WholeApart
  <2>3. CASE SweepRecord
    <3>1. /\ UNCHANGED dir /\ janitor.at = "forget" /\ janitor.file \in Files
          /\ \/ record' = [record EXCEPT ![janitor.file] = NoRecord] /\ UNCHANGED excused
             \/ UNCHANGED record /\ excused' = excused \cup {janitor.file}
      BY <1>t, <2>3 DEF SweepRecord, FailsFor, history, JanitorType
    <3>2. ASSUME NEW f \in Files, Due(f)' PROVE Due(f)
      <4>1. f # janitor.file /\ record'[f] = record[f] /\ f \notin excused
        BY <1>n, <1>t, <3>1, <3>2 DEF Due, TypeOK
      <4>2. BeingRemoved(f) => BeingRemoved(f)'
        BY <2>0, <3>1, <4>1 DEF BeingRemoved, Job
      <4> QED
        BY <3>2, <4>1, <4>2 DEF Due
    <3>3. Built' => Built /\ Job' = Job
      BY <2>0, <3>1 DEF Built, Job
    <3> QED
      BY <3>1, <3>2, <3>3, WholeApart
  <2>4. CASE SweepOrphans
    <3>1. /\ UNCHANGED <<record, excused>> /\ janitor.at = "sweep" /\ janitor.condemned = {}
          /\ dir' = [f \in Files |-> IF f \in janitor.owned THEN dir[f] ELSE None]
      BY <2>4 DEF SweepOrphans, history
    <3>2. ASSUME NEW f \in Files, Due(f)' PROVE Due(f) /\ dir'[f] = dir[f]
      <4>1. BeingRemoved(f) => BeingRemoved(f)'
        BY <2>0, <3>1 DEF BeingRemoved, Job
      <4>2. Due(f)
        BY <3>1, <3>2, <4>1 DEF Due
      <4>3. f \in janitor.owned
        BY <1>u, <3>1, <4>2 DEF Due, SweepInv
      <4> QED
        BY <3>1, <4>2, <4>3
    <3>3. ASSUME Built' PROVE Built /\ Job'.file = Job.file /\ dir'[Job.file] = dir[Job.file]
      <4>1. Built /\ Job' = Job
        BY <2>0, <3>1, <3>3 DEF Built, Job
      <4>2. Job.file \in janitor.owned
        BY <1>b, <3>1, <4>1 DEF SweepInv
      <4> QED
        BY <1>b, <3>1, <4>1, <4>2
    <3> QED
      BY <3>2, <3>3, WholeApart
  <2> QED
    BY <1>10, <2>1, <2>2, <2>3, <2>4, Zenon DEF JanitorSteps
<1>11. CASE WorkerSteps
  BY <1>11, WorkerWhole
<1>12. CASE DeleteSteps \/ DeleteFails
  BY <1>5, <1>6, <1>7, <1>8, <1>9, <1>12, Zenon DEF DeleteSteps
<1> QED
  BY <1>1, <1>2, <1>3, <1>4, <1>10, <1>11, <1>12, Zenon DEF Next

(* A ready set is all there, and one that counts as fresh shows the bytes  *)
(* of the version it names: Start keeps out of a sweep's way, the sweep    *)
(* goes round the File being made, no record stands while its sheets are   *)
(* cut, and a record is written of the version the job began with.         *)
THEOREM ReadySetsAreWhole == Spec => []SetsAreWhole
<1>1. Init => SetsInv
  <2> SUFFICES ASSUME Init PROVE SetsInv
    OBVIOUS
  <2>1. \A f \in Files : ~HasRecord(f) /\ dir[f] = None /\ version[f] = 0 /\ bytes[f] = 0 /\ record[f].status = "none"
    BY Constructed DEF Init, HasRecord
  <2>2. worker.at = "wait" /\ janitor.at = "idle"
    BY Constructed DEF Init
  <2>3. SheetsInv
    BY <2>1, <2>2 DEF SheetsInv, SheetsOf, JobSheets, Remaking, Sheeted, Unwritten, Making
  <2> QED
    BY <2>1, <2>2, <2>3 DEF SetsInv, SweepInv, WholeInv, Due, Built
<1>2. TypesInv /\ SetsInv /\ [Next]_vars => TypesInv' /\ SetsInv'
  BY TypesKept, SheetsKept, SweepKept, WholeKept DEF SetsInv
<1>3. Spec => [](TypesInv /\ SetsInv)
  BY <1>1, <1>2, TypesInit, PTL DEF Spec
<1>4. TypesInv /\ SetsInv => SetsAreWhole
  <2> SUFFICES ASSUME TypesInv, SetsInv, NEW f \in Files, record[f].status = "ready", f \notin excused,
                      ~BeingRemoved(f)
               PROVE  Whole(f) /\ (record[f].of = bytes[f] => \A i \in 1..Sheets : dir[f][i] = bytes[f])
    BY DEF SetsAreWhole
  <2>1. Whole(f)
    BY DEF SetsInv, WholeInv, Due
  <2>2. dir[f] \in Seq(Versions) /\ DOMAIN dir[f] = 1..Sheets
    BY <2>1 DEF Whole, TypesInv, TypeOK
  <2>3. bytes[f] \in Nat /\ \A i \in 1..Sheets : dir[f][i] \in Nat
    <3>1. \A i \in 1..Sheets : dir[f][i] \in Versions
      BY <2>2, Elements
    <3> QED
      BY <3>1, PreviewConstants DEF TypesInv, TypeOK, Versions
  <2>4. \A i \in 1..Sheets : record[f].of <= dir[f][i] /\ dir[f][i] <= bytes[f]
    BY <2>1, <2>2 DEF SetsInv, SheetsInv, SheetsOf, Since, Whole
  <2>5. ASSUME record[f].of = bytes[f], NEW i \in 1..Sheets PROVE dir[f][i] = bytes[f]
    BY <2>3, <2>4, <2>5
  <2> QED
    BY <2>1, <2>5
<1> QED
  BY <1>3, <1>4, PTL
=============================================================================
