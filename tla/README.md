# Obelo server: TLA+ models and proofs

Obelo is a self-hosted media server: one Go process that scans folders into a
catalog, enriches it from metadata Plugins, plays it to browsers and Apple
clients (direct play, remux, transcode), and links to the servers of other
households. These modules model its concurrent core: what a component promises,
the code's own steps, model-checking runs over small instances, and
machine-checked proofs for every instance.

Contents: [The modules](#the-modules) · [Inventory](#inventory) ·
[Conventions](#conventions) · [Module by module](#module-by-module) ·
[Runs](#runs) · [Fairness](#fairness) · [Proofs](#proofs) ·
[Findings](#findings) · [Not modelled](#not-modelled) · [Plan](#plan)

## The modules

| Module | Models | Checked by | Proved in |
|---|---|---|---|
| `PriorityLane` | what the background lane promises | refined by `BackgroundLane` and `BackgroundWork` | |
| `BackgroundLane` | `internal/bglane/lane.go` | through `BackgroundWork` | `BackgroundWorkProofs` |
| `MarkerDetection` | `internal/markerdetect` | through `BackgroundWork` | `BackgroundWorkProofs` |
| `BackgroundWork` | the lane, Marker detection and the generator's loop composed | `MCBackgroundWork` | `BackgroundWorkProofs` |
| `SeekPreviews` | `internal/seekpreview` | `MCSeekPreviews` | `SeekPreviewsProofs` |
| `TranscodeCap` | what the session Manager's counter promises | refined by `PlaybackSessions` | |
| `PlaybackSessions` | `internal/playback/session.go` | through `Relay` | `RelayProofs` |
| `Relay` | `relay.go` in `internal/playback` and `internal/link`, on top of `PlaybackSessions` | `MCPlaybackSessions` | `RelayProofs` |
| `EncoderSlot` | what a session's ffmpeg is to the Manager | refined by `HlsRuntime` | |
| `HlsRuntime` | `internal/playback/remux.go`, the job | `MCHlsRuntime` | `PlaybackProofs` |
| `SegmentGate` | `internal/playback/remux.go`, the directory | `MCSegmentGate` | |
| `SessionObserver` | `internal/app` observer, stream tokens | `MCSessionObserver` | `PlaybackProofs` |
| `EventSinks` | `internal/eventsink`: Dispatcher, workers, Manager, the translator's Publish | through `EventBroker` | `PlaybackProofs` |
| `EventBroker` | `internal/events/broker.go` and the translator's two goroutines, in front of `EventSinks` | `MCEventSinks` | `PlaybackProofs` |
| `LibraryMirror` | the Export and `internal/link/sync.go` | `MCLibraryMirror` | `LibraryMirrorProofs` |
| `Enrichment` | one Title in `internal/enrich`: passes, requests, edits, the Library's policy | `MCEnrichment` | `EnrichmentProofs` |
| `LinkSync` | `internal/link/watch.go`, `service.go` | `MCLinkSync` | `LinkSyncProofs` |
| `Accounts` | Users, logins, one Sign-in provider: `internal/auth`, `internal/signin`, their rows | through `DeviceGrant` | `DeviceGrantProofs` |
| `DeviceGrant` | `internal/auth/device_auth.go` and its rows, on top of `Accounts` | `MCDeviceGrant` | `DeviceGrantProofs` |

How they fit together:

    client -> PlaybackSessions -- one EncoderSlot per session, implemented by --> HlsRuntime
                    |                                          its disk, seen closely: SegmentGate
                    | start, progress, end of a session
                    v
              SessionObserver ---- events ---> EventBroker ---> EventSinks
              (stream tokens)

    client -> Relay -- the same sessions, some of which wrap one of --> the sharer (another Server)
    Admin ---> LinkSync -- each sweep of a Link, Library by Library --> LibraryMirror
    SeekPreviews, MarkerDetection -- BackgroundWork puts both on --> BackgroundLane
    sweep, Admin ---> Enrichment (the queue, the worker, the Library's lock, one Title)
    phone, TV, browser ---> DeviceGrant -- codes, over the same Users and sessions --> Accounts

The parts are composed by contract. `PlaybackSessions` knows a session's
ffmpeg only as one of four values of `runtime`, with the steps of
`EncoderSlot`; `HlsRuntime` has the requests, the processes and the directory, and
is proved to take only those steps. `SegmentGate` opens up what `HlsRuntime` leaves
open, whether the directory says a segment is near. `SessionObserver` starts
where `PlaybackSessions` announces an end (once, after the removal:
`EndAnnouncedOnce`). `BackgroundWork` is a composition by conjunction: each of its steps is a
step of `MarkerDetection`, of the generator's loop, of the lane, or of a client
and the lane at once, and a theorem says that it uses the lane as the lane allows
(`WorkUsesTheLane`). `Relay` is one too: a step of the Manager is a step of it, alone or
with a call to the sharer, and the Manager does not notice (`RelayKeepsTheManager`). `BackgroundWork` keeps of the generator only how many Files wait;
`SeekPreviews` has what is done with each. `DeviceGrant` extends `Accounts`: a step of the accounts is
taken together with `Cascade`, the foreign key that takes codes along with a User, and the grant's own steps leave
the accounts alone except for the request that makes the session. `LibraryMirror` is the content of one Library through the
sweeps that `LinkSync` starts and cancels.

## Inventory

Everything is one process around one SQLite database (`internal/store`), which
serialises writers: a store call is one atomic step everywhere below. What is
concurrent is goroutines: HTTP requests, background workers, timers, and child
ffmpeg processes. What survives a crash is the database and files.

### Playback

**Session Manager** (`internal/playback/session.go`). State, all in memory: the
map of sessions, `activeTranscodes`, each session's `replaced`, `slotFreed`,
`runtime`, grace timer. Operations: `CreateGoverned`, `Touch`/`TouchProgress`,
`End`, `Reap`, `EndAll`, `ReserveTranscode`, the runtimes it hands to media
requests. Hard: the checks and the insertion are one critical section, but
killing ffmpeg and telling the observer come after it; a replacement releases a
slot early and a timer ends the old session later, racing DELETE, the reaper and
shutdown; media requests hold on to a runtime whose session is gone. Correct when
the limits hold, the counter is exact, an end is announced exactly once and no
encoder runs unaccounted.

**HLS runtime** (`remux.go`, `hlsRuntime`). State: the job, its start segment,
`jobExited`, `reencoding`, the fallback, the burst window, the scratch
directory. Operations: launch on the first request, hardware-to-CPU fallback,
realignment on a seek, teardown; an exit watcher per process. Hard: two mutexes,
snapshots read under one and acted on later, processes that die late, requests
that wait on each other. Correct when at most the current job lives, flags speak
of it, seeks do not thrash, and teardown is for good.

**Segment gate** (`gatedSegment`). State: files that ffmpeg writes in place or
renames. Operation: decide, from the directory, whether to restart ffmpeg and
when a segment is whole. Correct when no half-written segment is served.

**Relay** (`relay.go` here and in `internal/link`). State: `RemoteSessionID` of the
sessions here that wrap one at the other household's Server, the sharer; negotiations and end
calls under way; the sharer's own sessions. Operations: negotiate over the Link's origins, ask again when a
hidden track would play, wrap, carry fetches through, end there what ended here. Hard: the
limit is looked at before and after the sharer was asked, answers and ends get lost, and
to the sharer all viewers of a household are one User on one Device. Correct when no stream is left
running at the sharer, nobody's stream is taken by somebody else's play, and one that
is watched stays. **Negotiation**
(`negotiate.go`, `service.go`): a pure decision per request. **Online items**
(`internal/onlinesource`): sessions on a stream a Plugin resolves, a claim on the
transcode cap, re-resolution when the stream expires. **Transcode arguments**
(`internal/transcode`, `internal/gpu`, `internal/audio`): command lines and
detection, data.

**Stream tokens and the session observer** (`internal/app`, `internal/auth`,
`internal/store`). State: rows on disk, sessions in memory. Operations: mint,
revoke with the session, expire, sweep, delete with the User. Hard: a mint is a
lookup and an INSERT; revocation may fail and is only logged; a crash takes the
sessions and leaves the rows. Correct when an end is a revocation and every
row goes some day.

### Background work

**Lane** (`internal/bglane`): one token for heavy work, handed to the best waiter
by priority then age, with claims that keep lower priorities out. Hard: a grant
and a cancelled context in the same instant. Correct when it has one owner, no
grant is lost, order is kept and everybody is served.

**Seek preview generator** (`internal/seekpreview`). State: per File a directory of
tile sheets and a row; two queues (everything, and what a player asked for); the
Libraries a DELETE has taken. Operations: one worker that cuts sheets under
safe points, a janitor that removes sets without an owner, scans that queue
and poke, deletion. Hard: the record and the directory change in two steps, under a
deletion, a crash, a full disk, a File replaced while it is read, and a Transcode that
interrupts. Correct when a record that says "ready" has its sheets, a deleted
set stays deleted until somebody wants it again, and the worker comes to rest with
everything built.

**Marker detection** (`internal/markerdetect`). State: the mtime each File was
last heard at, failures in a row, the Markers; a queue of Libraries and Shows.
Operations: listen to the Files of a Season that are new, compare, save per Season, give up
on a File after three failures. Hard: it yields to a Transcode or to Seek
previews between Files and starts the Season over; Files change while it listens.
Correct when what is saved was heard at the version it is saved under, and every File is heard or given up.

**Enrichment** (`internal/enrich`, its dispatch in `internal/app/enrich_pass.go`, its rows in `internal/store`).
State: per Title its record ids, whose choice the one in use is, what it shows, the locks on its fields, its status and retry; per
Library the policy, and in memory a cached resolution of it, a lock, a bounded queue and the one worker. Operations: passes in four
modes from the sweep, scans, Admins and changes of policy; an Admin's choice in Fix info; hand-edits; settings. Hard: a
lookup goes on for minutes with a Title, locks and a policy read before it; a policy is stored, dropped from the cache and applied
in three steps; what fails must be asked again and what was refused must not. Correct when what an Admin chose or wrote stays, a Title says what
its record says, a stored policy comes into force, and what waits is looked up. **Scanner**
(`internal/scanner`): folders into the catalog, soft delete. Correct when
a scan that fails half way deletes nothing.

### Events

**Broker** (`internal/events`): subscriptions with a bounded buffer that drops
the newest. **Event sinks** (`internal/eventsink`): a translator (a reader, a backlog and a
goroutine that publishes), a
Dispatcher, a worker and a queue per sink, swapped on each settings save. Hard:
swaps, shutdown and publishing at once, full queues, targets that never
answer. Correct when nothing is lost uncounted, order is kept, a sink switched off is
silent, and nobody waits for a stranger's server.

### Links

**Export** (`internal/api`, `internal/store/export.go`): a Library as a feed
ordered by change, paged by cursor. **Mirror** (`internal/link/sync.go`,
`internal/store/mirror.go`): pulls it, applies it, keeps a checkpoint. Hard: the
feed changes under the walk; two transactions; un-granting; a checkpoint too old.
Correct when what the checkpoint says is here is here.

**Link worker and requests** (`watch.go`, `service.go`): one goroutine per Link
that sweeps on a timer and on nudges, an event subscription, and Admins who
re-key, unlink and force a sweep. Hard: workers replaced under way, sweeps
that outlive a re-key, requests that wait for a worker. Correct when there is
one worker, no Library without a Link, every request returns, and a Link recovers.

**Discovery, invitations, peers** (`internal/discovery`, `internal/link`), the
**tailnet** node (`internal/tailnet`) and **key rotation** (`internal/rotation`)
reach or vouch for other Servers: settings and caches with one goroutine each.

### Access, catalog, the rest

**Users, logins, Sessions** (`internal/auth`). State: rows of users, Devices, tokens. Operations:
login, set a password, delete a User, apply the Group mapping. Hard: a login is four store
calls, a deletion counts Admins first and deletes later, a mapping looks for a password before it writes a role. Correct when
an Admin with a Local password always remains.

**Sign-in providers** (`internal/signin`, `internal/plugins/sign_in_uninstall.go`). State: External identities with
the groups and failures last heard, the rule of the mapping, the plugin's row and files, the flags of the re-check. Operations:
sign in, attach, create a member, a periodic pass that asks the directory about everybody, and an uninstall that deletes those with no other way in, after
an Admin has confirmed a list. Hard: what the provider said is written several steps later; uninstall and sign-in race;
ending somebody's sessions is three statements. Correct when nobody is left without a way in and
what the directory says comes true.

**Device grant** (`device_auth.go`). State: codes, pending, approved or redeemed. Operations: start, approve on a
phone, poll and collect, expire. Hard: two phones, two polls, a User deleted or locked out between approval and collection. Correct
when a code gives one session, to whoever approved it.

**Catalog reads**, **watch state, playlists,
collections**: single transactions. **Plugins** (`internal/plugins`): install and
upgrade over files and rows. **Subtitles, lyrics, Markers**: fetch and convert.
**HTTP API**, **wiring**, **configuration**, **tools**, the **web client** and the
Plugin SDK complete the list in `PROJECT.json`, which names the sources and the
reason for each part that is left out.

## Conventions

- An action is a critical section, a transaction, or a step that another
  goroutine can see. What runs after an unlock is an action of its own.
- A refused request that changes nothing is no step.
- A process counter `pc` (`stage`, `phase`, `request`) says where a goroutine
  is; its values are named for the code's next step.
- History variables are marked `history` where they are declared. No guard of the code's
  steps reads one.
- Every bound is a CONSTANT whose comment says `bound`, or a finite set of
  ids. Assumptions on constants are named (`LaneConstants`, `SessionConstants`,
  `RuntimeConstants`, ...) and no stronger than the code.
- A definition headed "Mutant of X" is a plausible bug in X. It is not
  part of any specification. Put in X's place, it must break the property
  that `PROJECT.json` pairs it with: every property has one.
- Deadlock is checked for `Relay`, with `PlaybackSessions` in it, which can always go on. Elsewhere ids, budgets or requests run out, so the runs say `CHECK_DEADLOCK
  FALSE` and state what must not hang as a liveness property.

## Module by module

**BackgroundLane.** `held`, `waiting` and `claiming` are the Lane's fields; `pc`
tells where each caller is in `Acquire`'s select. The step that matters: a release
closes a waiter's channel while the waiter's context ends. `ContextEnds` is the select
choosing `ctx.Done`; `LeaveQueue` is the second look under the mutex, which either
finds the waiter still queued or hands the lane on. `PriorityLane` says what that is
for: an owner, a set of clients who want it, the next owner the best of them.

**MarkerDetection.** A File's version stands for its mtime and for the sound it has: the
row's `version` follows the disk's `bytes` at the next scan. `detector` is the worker's
program counter with the locals of `processSeason` (`unheard`, `given`, `todo`, `heard`).
`SaveDetectedMarkers` and `RecordDecode` are one transaction each, and both stamp the File
row's mtime at that moment, whatever was listened to; `overtaken` (history) remembers
the Files for which the two differ. What a comparison finds is data: kept
is only whose sound a File's Markers come from.

**BackgroundWork.** The lane has exactly two clients, the generator at priority 0 and the
detector at 1, as `app.go` builds them. A safe point of the detector is one action: still
wanted, no Transcode, no claim above it. Closing the Server ends the detector's
context and waits for it, then the generator's.

**SeekPreviews.** `row`, `version`, `bytes` are what the scanner and the disk say; `record` and
`dir` are what the generator left, and outlive a crash. `worker` and `janitor`
are program counters with their locals; `deleter` is the DELETE request. Each sheet is a step
that can fail, be interrupted at a safe point, or read a File that was replaced. Every call of the store and the file system
may fail too, each at the price of one event, but for removals whose failure leaves only sheets no ready record
speaks of (`Discard`, `Check`, `Build`, `SweepOrphans`), which are taken to work. `expand` clears the queue before it reads and `handle` works
on a File already popped, so a failing read makes the Generator forget a Library (`ExpandReads`) or a File (`Handle`);
`sweep` returns with nothing done and its wake-up spent (`Sweep`). A removal that fails may have taken the sheets or not (`HalfGone`) and leaves the
record. `clean` (history) is the set of Files nothing has wanted since their Library's DELETE, `excused` those
whose set something cut short in a way the code accepts, `forgotten` those a failed read lost, until their Library is read again or their set is
saved: all three are in the properties, not in guards.

**PlaybackSessions.** Each variable is a field of Manager or Session, except `tearing`,
`announcing` (what a removal still has to do after unlocking) and `announced`
(history). `Decisions` are what negotiation may decide; the arithmetic of limits
and the cap is the code's, including the floor of `releaseTranscodeSlot`. `Launch`
may come from a request that found the runtime before the session left the
map. The idle clock is a flag that time may set, that a touch clears, and that the reaper
reads. `TranscodeCap` is a bounded set whose members may be
replaced in one step.

**Relay.** `asking` is each negotiation in the order of `negotiateRelay`: a look at the limit, the POST, the look
at a hidden track and perhaps an end and a second POST, then `CreateGoverned` or a refusal, which ends what the sharer opened. It is
known by the id it will mint. The sharer runs this same program; of its Manager only what a
relay meets is kept: the limit of its `remote` User, the swap and the grace period, and the reaper with the clock that
only a fetched playlist or segment sets back (`unfetched`). `there` tells how a session left: ended by a request or after its grace period,
`gone` because nobody fetched or the sharer restarted, `cutOff` while it was being fetched from.
A POST or DELETE may arrive or not, and its answer may be lost; `excused` are the sharer's sessions this happened to, which only its reaper
ends. `swapped` (history) is whose negotiation replaced a session. A crash here is
a loss of every end call: it is not an action.

**HlsRuntime.** Requests are goroutines between critical sections of `startMu`
and `mu`. A process is born alive, may exit by itself, is `dying` once signalled, then
gone, and its watcher reports at any time after: `Kill` does not wait. The
decision to realign is read in one action and acted on in a later one; `RealignIf`
asks again, as the code does. Window membership (`windowOf`) is a copy of the burst
a request joined. `EncoderSlot` has three states: `stopped`, `running`, `torn`.

**SegmentGate.** One job writes segments in order, either in place or under a
temporary name. A file is `none`, `partial` or `whole`. A request opens a file when it passes the gate and
reads what is there.

**SessionObserver.** `calls` is the set of observer calls that have left the
Manager and not published; they finish in any order. `revoked` says how far the
call of an end has come. `unrevoked` and `late` are history: whose revocation
failed or was lost, and which rows were inserted after their session's revocation.
`Crash` forgets sessions, requests and calls and keeps rows. `ObserverInit`, `ObserverNext` and the
like are named so that `PlaybackProofs` can extend this module beside `HlsRuntime`; so are `SinksInit` and `PublishBegins` below.

**EventSinks.** `publishing` is who `Publish` has still to enqueue to, under a
read lock, so a swap's critical section waits. `enqueue` is the code's two selects: the
queue may be drained between them. `starting` and `stopping` are what swap does
after it lets go. Events are numbers, `latest` the one the translator has in hand; `accepted` is history. `InHand` is the set of
places where an event given to a sink can be.

**EventBroker.** In front of them: `inbox` is the translator's channel at the Broker, `backlog` its
deeper queue, and both lose the newest event when full; ticks (`nowPlaying`) take room in
the first only. `Unsubscribe` is the Broker's Close or the translator's Stop, whichever
comes first; the reader still empties a closed channel, and the Dispatcher is closed once the translator has `Drained`. `Line`
is everything on its way to one target, from what its worker has in hand back to the Broker.

**LibraryMirror.** A row is its stamp and whether it is hidden. Ids sort by type as
in the feed: Media (Editions, Files, Streams, which have no tombstone and get fresh
ids at every rescan), then Titles. A page is one query per type, then a merge
and a cut, and the sharer may write between any two of these queries, as nothing in `ExportLibrary` prevents it. `late` (history) is what was
last written when the page under way had asked for its type, until it is written again at another moment or mirrored as it is. Editions, Files and Streams, three queries in the code, are one here, so what a
write between those three does is outside the model. A
sweep is the walk, then `ApplyMirror`, then `SetLibraryCheckpoint`, in three
transactions, with failures and restarts between any two.

**Enrichment.** One Title; several would share the queue and the lock, and a pass takes them one after another. `record` is its ids by
namespace, the namespace in use, and whether an Admin chose it; a description is the record it came from, so `shows` is a record or
`Hand`. `job` is the pass and each Fix info request: where it is, the policy (`snap`), the Title (`copy`) and the locks it has read. A pass reads the
Title under the Library's lock, a request before it, which is why a choice may overtake either. `WriteTitleEnrichment` is one
transaction, but it replaces or fills in by what the job's copy says, as the code does. The policy's handler is three actions (`SavePolicy`,
`InvalidateLibrary`, `EnqueueFull`), `Effective` is the cache or what fills it. `retry` says whether a failure is
parked (`no`), waits or is due. `old`, `late`, `torn`, `tornEdit` (history) say that a choice overtook a job's copy, an edit its look at the locks,
and that such a job then wrote; `unapplied` that a change of policy got no full pass, or one that did not end. `JobFails` is a store error, which ends any job where
it is: for a pass that is `LibraryByID` before the lock, `snapshotFor` and `TitlesForEnrichment` under it, or the write of an earlier Title.

**LinkSync.** Workers, Admin requests and inline sweeps are callers of the same sweep:
read the Link, reach, pull, record. A worker is known to the Syncer or was
taken out of its map and told to end. Tokens the sharer accepts are `live`. The sharer may revoke,
refuse or be away. A crash or shutdown keeps the database; `Boot` is `Start`. `DeleteLink` may
fail like any write: the Link then stands without a worker until the next boot. One budget,
`MaxTroubles`, is spent by requests, failures, crashes and revocations alike. `crossed` (history)
says that two requests that may start a worker were under way at once; `NoOrphans` is about
the runs where they were not, see the divergences below.

**Accounts.** `users`, `role`, `password`, `named`, `identity`, `device`, `session` are rows; `role` stands for the role and
the granted Libraries, written together. `call` says what each request, and the re-check, is about to do, and what it has read:
`user`, `subject`, the `groups` the provider told, the list an Admin has `seen`. A request makes one session, named after it. `Begin` is what arrives; the other steps are store
calls in the order of the code. `SyncGroupMapping` reads, `GroupMapping` reads the rule, `ApplyMappedAccess` writes where no password stands: three steps, as in the code. `MayGo` is evaluated twice, by `DeleteUser` and again in the
statement that deletes. `directory` is what the provider would answer, and may change at any time; `files` is the plugin's directory, on which the registry stands,
and is put aside before the transaction of the uninstall and put back if that refuses.

**DeviceGrant.** A code's row is its `state` and who approved it. `ApproveDeviceCode` and `RedeemDeviceCode` are the
reads, `ApproveDeviceAuth` and `RedeemDeviceAuth` the conditional UPDATEs that follow. A redeemed code sends its request through `UserByID`, `UpsertDevice` and `InsertToken` like
any login. `told` (history) is whom the phone was told. `RevokePairings` is the last statement of ending somebody's sessions.

## Runs

Each runs to completion in at most two and a half minutes with two workers.

| Run | Instance | Distinct states | It shows |
|---|---|---|---|
| `background_work` | generator and detector, a Season of 2 Episodes, 1 preview, 2 disturbances | 458 k | Markers from the version they are saved under; previews first; every File is heard or given up; it shuts down; the lane, grants and cancellations included, refines `PriorityLane` |
| `seek_previews` | 2 Files of a Library, sets of 2 sheets, 2 disturbances or failing calls | 369 k | Ready sets are whole; deleted stays deleted; everything wanted and not forgotten is built; the worker comes back |
| `playback_governance` | 2 sessions here and 2 at the sharer, 2 Users, cap 1, 1 reservation, an encode or a relayed one | 270 k | Limits held, encoders accounted, one announcement per end; no stream left at the sharer, nobody's taken; replaced and silent sessions end; refines `TranscodeCap` |
| `hls_runtime` | 2 requests, 2 processes, segments 0 and 4, 3 modes | 96 k | No orphan ffmpeg, honest flags, no thrash; every request returns and teardown completes; refines `EncoderSlot` |
| `segment_gate_half_written` | 2 requests, 4 segments, symmetric | violated | A segment can be served half written: first finding |
| `session_observer` | 2 sessions, 2 Users, 1 row | 162 k | An end revokes; rows go |
| `event_sinks` | 1 sink, queue 2, Broker's buffer and backlog 1, 3 events and ticks, 2 saves | 139 k | What delivers is what was saved; what a sink is given is handed on or counted, once and in order; nobody held up, shutting down neither |
| `library_mirror` | 2 Titles, 2 Media ids, page of 1, 2 changes between any two queries, 2 grant changes, 2 failures | 138 k | Nothing at or before the checkpoint is missing but what was written late; no phantoms; Titles stay; it settles |
| `export_page_torn` | 2 Titles, one page | violated | Writes inside a page lose a row: second finding |
| `enrichment` | 1 Title, 2 providers with an id each, 3 policies, 1 request beside the pass, queue of 1, 3 moves or failures | 393 k | The Title tells its record; a stored policy takes; what waits is asked again |
| `link_sync` | a re-key, an unlink, a "sync now", any 2 troubles | 173 k | One worker; `connected` only after a call that worked; no orphan Libraries; requests return; the Link recovers |
| `sign_in` | an Admin, one person of the directory, 1 code, any 2 requests, 3 events | 417 k | Everyone keeps a way in; a code is one session, its approver's; what the directory says comes true |

Why these bounds are enough to be of use:

- *Background work*: the lane's two clients are all there are; the proofs cover
  the lane for any number at any priorities. Two Episodes are the
  smallest Season that can be compared; two disturbances are, say, a File replaced and a
  Transcode, or two crashed decodes of the one that gives up.
- *Previews*: one File under the worker and one waiting or under the janitor, a set that
  can be half there, and two of: replaced, removed, asked for, toggled, deleted,
  crashed, failed call.
- *Sessions and relay*: the races are between one session and its one replacement, or
  between two viewers, against a cap of one that a reservation competes for and a sharer that counts one stream. One User is limited to one stream
  and one is uncapped, on one Device: the swap asks that User and Device be the same, and two Users
  tell apart what two Devices would. Two sessions there are a first try and its re-ask, one and its replacement, or one each.
  Ids are used once, so histories are short; the proofs cover longer ones.
- *Runtime*: two processes are an original and its fallback or realignment. Segments
  0 and 4 with `Near` 1 are far from each other, and join the same burst
  window or not; what a realignment of a realignment does is covered by the proofs.
- *Gate*: four segments leave room for one that is past the window of 1.
- *Observer*: one row is enough, because tokens do not interact; two sessions and
  two Users are what a wrong owner or a wrong cascade would need.
- *Sinks*: with three events, a queue of two overflows while its worker is not there yet, and a buffer and
  a backlog of one each while a fast publisher or a slow translator is; two saves give a worker a successor.
- *Mirror*: two Media ids are an old one and its replacement, two Titles the one a page holds and the one that was written late for it; a page
  of one row makes every walk several pages. Two changes are one before a query and one after it; two grant changes are
  away and back; two failures are one of a walk and one between the two transactions. With three changes and one failure (1.2 M states) the
  run ends without error too, in more time than a run should take.
- *Enrichment*: a policy led by each provider, one of which the other policy cannot reach (the orphaned pin), and one that is off.
  A move is something an Admin does, an end of the process, or a pass or request that ends on a store error; three are a choice, a change of policy and a second
  one of either, an edit, a failure or a crash in any order. A queue of one is full behind a pass that waits. The safety properties are proved
  for any number of ids and moves.
- *Links*: each Admin request once, since a second of a kind repeats what the
  first can meet; any two of: a request, a failure at every possible place, a crash, a
  shutdown, a token killed. The safety properties are proved for every number of each.
- *Sign-in*: an event is a request's arrival or one thing from outside (a changed directory, a password set, a crash, a reinstall,
  a failed statement, a code started or expired), so a run has two requests and one such thing, or one request and two. Two requests
  are two deletes, a sign-in under an uninstall, an approval and a collection; the code may be approved from the start, so that two polls can race.
  Two failures in a row revoke. The safety properties are proved for any number.

`ContextEnds`, failures, crashes, revocations and changes have no fairness: runs
with none, and with all their bound allows, are both explored.

## Fairness

Weak fairness is given to goroutines that can run, signals that kill, and timers
that come round, never to a client, an Admin, a player or another household.

- `BackgroundWork`: both workers' loops, a wake-up in `Acquire`, scans (each row of a changed
  File and their end come round), a shutdown that began, and the next boot. A Transcode
  is not fair: `HearingEnds` assumes that they leave the detector alone from some
  point on (one that is running when the bound is spent would stay for good), and `ShutsDown` does not.
- `SeekPreviews`: the worker, the janitor (its ticker), a DELETE under way, scans, shutdown and
  boot. `Settles` is two things: `CatchesUp` assumes an end of Transcodes, `Returns` does not.
- `Relay`, for `PlaybackSessions` in it: a call that started runs to its end; a grace timer fires; the
  reaper's ticker (`runSessionReaper`) does not stop. One weak fairness over all of these is enough, since each such step brings
  some session nearer to its end and none is undone. Nothing is assumed of calls to the sharer, of the sharer or of viewers. Touches are free, so `SessionsEnd`
  says of a silent session "ends or is touched again"; a replaced one ends in any case.
- `HlsRuntime`: a request runs on, a signalled process dies, its watcher runs. Strong
  fairness only for `EnsureStarted`: Go's mutex hands over to a waiter
  that starves for a millisecond.
- `SessionObserver`: started calls go on, time passes, and `sweepEvery` comes round.
- `EventBroker` and `EventSinks`: weak fairness of the Manager's, the publisher's, the closer's, the reader's, the translator's (the
  database answers it in the end) and each worker's goroutine as a whole. Shutdown need not come. A delivery returns for sure only once it is stopped: a
  target may hang for good.
- `LibraryMirror`: a sweep's own steps. A full re-pull on RESYNC is not fair.
- `Enrichment`: the sweep (its interval defaults to more than 0, and a scan asks as it does), the worker, each job's next step (a lookup has a deadline), the
  clock that makes a retry due, the handler of a change that was begun, and the next boot. No Admin has to act. `AskedAgain`
  leaves out Titles of a Library that is switched off.
- `LinkSync`: a sweep's calls have deadlines and the timer comes round. Strong fairness
  only for a forced sweep a worker may pick: Go's `select` picks at random
  among ready cases. A Server that is down boots.
- `DeviceGrant`: a request that has been made goes on, and the re-check's ticker comes round. Nobody has to sign in, poll
  or approve. `DirectoryRules` speaks of Servers whose plugin's files stay in place: without them there is nobody to ask.

## Proofs

Every theorem holds for all values of the constants that satisfy the module's
named assumption: any number of clients, sessions, Users, requests, processes,
segments, tokens, people, codes, providers, policies, any limits and priorities. Some 14 900 obligations, all checked. TLC evaluates the assumptions on the
runs of the same modules.

**Lane** (the first half of `BackgroundWorkProofs`). `LaneInv` is `TypeOK`, `OneOwner`, `NoLostGrant` and
`QueueIsBlockedOnce`: nobody is in the queue twice or while it runs its own code. The
last is the strengthening. Without it, a client that leaves the queue could leave a
second entry behind and be granted the lane in its sleep. The lemmas on `Without`
say that taking out one place keeps the others. From `LaneInv`:
`LaneTypes`, `LaneMutualExclusion`, `LaneNoLostGrant`, and `LaneRefinesPriorityLane`,
where a release that grants is one abstract step and a context that ends is a stutter.
`LaneBestFirst` follows from the refinement for priorities (the abstract owner is the best
of those that want it: `NewOwnerIsNext`) and from `Grant` for ages (`NewOwnerIsOldest`).

**Work** (the second half). `LaneStep`: every step of the composition is a step of the
lane or leaves it alone, by cases on both loops. Hence `WorkUsesTheLane` (`WorkSpec =>
Spec`), and everything proved of the lane holds of the composition: `WorkKeepsThePromise` is the
refinement, `OneHeavyJob` needs in addition that each worker's counter agrees with
its place in the lane (`AtWorkHolding`), and `PreviewsAreFirst` that a claim stands while the
generator drains (`ClaimInv`). `HeardTruly` is `HeardAtItsVersion` of the detector alone, carried by `HeardInv`:
whatever a Season's job has listened to or read, it did at the version it holds or at one the disk has since left
behind, and a row that names a version was written by such a job or by the scanner.

**Sessions** (the first half of `RelayProofs`). `GovernanceInv` is types, the exact counter, the
cap and the stream limit. They need each other: the cap follows from the check
against `activeTranscodes` only because the counter is exact, and the counter
stays exact over the floor at zero only because it counts real holders. Its
lemmas are about cardinalities of sets that lose some elements and win one. From it:
`ManagerTypes`, `SlotsAreCounted`, `CapIsRespected`, `StreamLimitIsHeld` and
`RefinesTranscodeCap`. `EndingInv` is about ends: per session, `DyingOnce` says that a session is in
at most one of live, being torn down and being announced, that none of the three has been announced, and that
an ffmpeg needs one of the first two. A replaced session always has its timer or its End pending. From it:
`EndsAreAnnouncedOnce`, `ReplacedAreDoomed`, `EncodersAreAccounted`.

**Relay** (the second half). `RelayIsManager`: every step is a step of the Manager or leaves it alone; so
`RelayKeepsTheManager` (`RelaySpec => Spec`), and everything above holds with a relay. The two properties rest on who has a *claim* to a session at
the sharer, the negotiation that was answered it or the session here that wraps it: `Apart`, no session there has two claims; `Sent`, one whose
end call is under way has none but of a session that left; and `Shape`, a negotiation never holds a session that was
replaced or ended there, and whatever it asks the sharer to replace is or was its own viewer's (`SameViewer`, from `TheirsOf`). A
step opens one session there for one claimant, or leaves claims as they are or gives them up (`ClaimStep`), so claims
cannot cross. From it: `RelayTypes`, `NobodyIsLeftBehind`, `EachHisOwnStream`.

**Runtime** (the first part of `PlaybackProofs`). `RuntimeInv` adds to the properties `Launching` (one
request at a time is starting the runtime, and while nothing is started there is
no job) and `Jobs` (the watched process is the job, a torn-down runtime has none).
Without `Launching` a launch could overwrite a job that runs, which is exactly an orphan.
`NoJobIsThrashed` says that a job is given up for a seek only by a request that it
would not serve soon: realignments that saw the same old job do not each restart the new one.
From it: `RuntimeTypes`, `NoOrphans`, `FlagsAreTheJobs`, `FallbackIsForGood`,
`JoinersAreCovered`, `NoJobIsThrashed`, `ScratchIsGoneForGood`, `RefinesEncoderSlot`. The last one
makes `PlaybackSessions`' view of ffmpeg a proved abstraction.

**Observer** (the second part of `PlaybackProofs`). `EndOrder` (an end is announced after its
revocation ran) and `Leftovers` (after a revocation a usable row is a failed
one's or a late one's) carry `EndIsRevocation`; `Held` carries `TokensSpeakForOwners`. Also
`Typing` and `NoTokenOutlivesItsUser`.

**Events** (the third part of `PlaybackProofs`). `SinksInv` adds to the types what `swap`, `Close` and `Publish` know in each of their
phases (`Phases`) and `Enough`, that no save makes more workers than there are sinks: the model has a fixed set of workers, and `swap` never finds
it used up, because the assumption on their number is one worker per sink and save. `EventTypes` is its first part. For `SinksAsSaved`,
`ReadIsSaved` says that what a `Reload` read is what was saved last, or another is to come; and a worker that runs is live, or somebody is still
going to stop it. `EveryEventOnce` has two halves. *Counting*: a step adds one place to `InHand`, takes one away into a tally, or trades one
place for another (`Hands`, `Trades`), so accepted is always the sum of the tallies and what is in hand. *Order*: `OrderInv` compares each
two of the places an event passes, from the Broker's buffer to what the worker has in hand: whatever is further from the target is later, and the event being published is
not in the queue of a worker that is still to get it. `SinksInv`, `ReadIsSaved` and `OrderInv` were
checked by TLC on the run's instance, and on two sinks with four workers, before they were proved.

**Previews** (`SeekPreviewsProofs`). Two invariants on top of the types. `DeletedInv` says of every `clean` File, one whose DELETE
answers for it, that its Library is off, nobody asked for it, a record of it stands only while the DELETE under way is
still to take it (`Going`; one that fails answers for nothing), and a job of it is `Caught`: by the date of the DELETE until `generate` compares it, by the cancel while sheets
are cut, by the DELETE's wait once it is being saved. `SetsInv` has three parts. `SheetsInv`: no sheet is older than the version the
job took, so a set whose record is of the bytes there shows those bytes. `SweepInv`: a janitor in its sweep works from a list it made earlier, and yet
each record is on one of its lists and the File being made is not condemned. `WholeInv`: a set that is due
or built is all there, unless a call that failed half-way excused its File (`Failed`, `Halved`). From them `PreviewTypes`, `DeletedForGood` and `ReadySetsAreWhole`. Both invariants were checked by TLC on
the run's instance first.

**Enrichment** (`EnrichmentProofs`). Three layers. `JobInv`: what a job holds follows from where it is (`Sound`), and one at a time is inside the
Library's lock. `RecordInv`: a job's copy of the Title is the Title, and the locks it saw are the locks, unless a choice or an edit has overtaken
it (`CopiesAreCurrent`, `LocksAreCurrent`); ids and a choice never stand without a record in use (`Whole`). The lemma that carries it is `AnswerFits`: an
answer to the Title as it is makes a record that says what the answer says, and leaves a chosen one unchanged. From it `TitleTellsItsRecord`.
`PolicyInv`: once a change is `Invalidated` the cache holds nothing older, and once its pass has left the queue and begun (`Handed`, and
not `FullWaiting`) no job does, because whoever had it had the lock, and a full pass that fails counts as `unapplied`; so whoever answers then leaves what the policy in force would (`AnswerIsThePolicys`). From it
`StoredPolicyTakes`. `PolicyInv` was checked by TLC on the run's instance, and with two requests and ids, before it was proved.

**Mirror** (`LibraryMirrorProofs`). The page is cut by counting the rows before each, so the first lemmas are about
cardinalities: a finite set of rows has a first and a last in the feed's order (`Extremes`), hence a page is
exactly what was found up to its own checkpoint (`PageCut`). `Writes` is what any transaction of the sharer does to the
rows, and `WritesComeAfter` that what it stamps lies after every position there is. `FeedInv`, for any number of sweeps: what a walk holds of
a row is the row, or an older version of it (`ReadOf`), and nothing found lies behind the cursor. On it rest three invariants, each saying what a sweep knows
in each of its phases. `TitleInv`: a full walk has every mirrored Title, or it is still ahead, so the prune spares it (`TitlesAreKept`).
`PhantomInv`: while a removed Edition is mirrored there is news of another after the checkpoint and after the cursor, or the walk has
it, so the pull cannot end without becoming a full one (`PhantomsArePruned`). `MissesInv`: a walk carries all that is at or before its
cursor, from the checkpoint on or from the start (`NothingIsMissed`), but for the late rows. Since the sharer writes between the queries of a page, its proof
follows each write: one of a row whose type the page has still to ask for will be found, one of a row already
asked for makes it late (`LateWrites`). So a page has `found` what it should by its queries so far (`FoundWhole`) and, at its last, by all of them
(`WholePage`), but for the late rows. Nothing is assumed of how a page is read; that late rows are lost is the second of the [findings](#findings). Assumed is `OneSweep`, which is the links worker alone and not a
*sync now* beside it. It cannot be spared: with two sweeps TLC
finds each of the three broken. All four invariants were checked by TLC on the run's instance first.

**Links** (`LinkSyncProofs`). `LinkTypes` carries what each stage of a sweep or a request
knows. `OneWorkerRuns`: a worker that is not the current one was cancelled.
`ConnectedOnlyIfHeard` strengthens to every sweep in flight (`Earning`): a result of
`connected` is only ever carried by a caller whose call worked. `NoOrphansRemain` has
the strengthening `Orderly`: while Starters do not cross, at most one is under way, and a
worker that has not ended is the known one or the one being waited for (`Alone`), so when an unlink
deletes the Link no worker's Libraries are left and none can come (`Cleared`). An inline
sweep may still make Libraries; the property excuses those.

**Accounts and codes** (`DeviceGrantProofs`). `GrantTypes` adds to the types that a call about an identity knows which one, without
which a look-up could meet `None`, and that a request with a code approves it, collects it or has. `EveryoneKeepsAWayIn` is inductive
once the types are known, and the proof shows where it would not be: the deletion is safe because its own statement counts again, a set of two or more
minus one member not being empty, and the uninstall because the list it compares with again is then everybody without a password.
`PasswordsKeepTheirRole` goes by finding the one step that writes a role. `OneCodeOneSession` needs `CodeKept`: a code that
has not been redeemed has no bearer, a redeemed one at most one, who acts for whoever was told. It rests on `Moved`, what a step of the accounts may do to a request:
it never turns one towards a code, and never changes for whom a session is made.

Proved but in no run, being implied by what the runs check or too narrow for a run of
their own: `OneAtWork`, `SlotsCounted`, `CapRespected`, `ReplacedIsDoomed`, `FallbackSticks`, `JoinersCovered`,
`ScratchStaysRemoved`, `TokensAreTheOwners`, `DeletedUsersHoldNothing`, `MappingSparesPasswords`, and the
type invariants of the modules they are in.

Only model-checked: every liveness property (`SessionsEnd`,
`EverythingEnds`, `RowsGo`, `NobodyIsHeldUp`, `Settles`, `HearingEnds`, `ShutsDown`,
`RequestsReturn`, `Recovers`, `DirectoryRules`), since fairness and ENABLED are outside the prover; and everything about `SegmentGate`.
The type invariants of `SegmentGate`, `EventSinks`, `LibraryMirror`, `LinkSync`, `Relay` and `SeekPreviews` are in no run. That of the first
was checked once and stays in its module as a declaration of the state; the others are proved.

## Findings

Two runs state what a comment says and show that the code does otherwise.

1. *A segment can be served half written* (`segment_gate_half_written`,
   `remux.go:784`). The gate takes any successor file, or the end of any job,
   as proof. A job killed by a seek leaves its last segment half written; once a later job
   has ended, or a file from an earlier job follows it, the gate opens. A backward
   seek over old ground also truncates files whose successors exist. The comment at
   `remux.go:97` says that a read can never return a half-written file.
2. *A page of the Export is not a prefix of the feed* (`export_page_torn`,
   `store/export.go:108`). Its ten queries are not in one transaction. A Show that changes after
   the shows were read and an Episode that changes before the episodes are: the page has
   the Episode, its cursor is past the Show, and the Show's change is never sent. `CheckpointCovers` is the claim; what holds in its place, for all but the
rows written late for their page, is `MissesNothing`.

Other things seen while modelling, which the modules allow and no run singles out:

| Where | What happens |
|---|---|
| `remux.go:452` | A restart spawns the next ffmpeg while the killed one is still dying: two processes, briefly, in one directory |
| `playback_handlers.go:1141` | A mint past its session lookup inserts a row after the session ended; it lives until it expires (`late`) |
| `session.go:902` | `nowPlaying` can be published after `sessionEnded`: calls leave the lock in order and publish in any |
| `cmd/obelo/main.go:183` | On a signal the servers' hooks close the Broker before `App.Close` ends the sessions and stops Links and Tailnet: the `sessionEnded` and "last transitions" of a shutdown (comment at `app.go:2045`) reach nobody, and a publish into a closed Broker finds no subscriber rather than panic (`app.go:2039`) |
| `eventsink.go:320` | Across a swap, the new worker may send an event before the old one sends an earlier one |
| `link/sync.go:261` | A full walk of several pages during a rescan may apply a Media row that was already replaced (`torn`); the next full pull prunes it |
| `link/sync.go:470` | An inline sweep beside the worker's: the older walk may be applied last, under the newer one's checkpoint |
| `link/sync.go:124` | A sweep with the old token records `revoked` on the Link that was re-keyed meanwhile |
| `link/watch.go:223` | An inline sweep during an unlink makes Libraries of a Link that is gone; the next boot reaps them |
| `link/sync.go:437` | A cancelled call is reported with `%v`, so the caller cannot tell it from a Link that is unreachable, and records it |
| `link/watch.go:303` | Stopping a worker does not wait for its subscription goroutine |
| `link/watch.go:410` | The subscription ends for good on a `revoked` that a sweep is about to replace; the timer alone remains |
| `playback/relay.go:209` | The sharer replaces its own session before the local checks may still refuse: the refused viewer's old session here lives on and its stream there ends when the grace period does |
| `playback/relay.go:153` | A viewer who pauses and only reports progress keeps the session here and loses the sharer's, which no fetch touches (`gone`) |
| `playback_handlers.go:1164` | On a sharer nothing touches the session of a relayed direct play after it opened (`handleSessionStream` does not, and the household that relays reports no progress): its reaper ends it one idle timeout later, whoever fetches (`SharerReaps`, `cutOff`), and the next Range request is answered 404. `relay_handlers.go:162` calls the fetch the keepalive, and touches only the session on this side |
| `enrich/service.go:618` | A pass or a request that read the Title before an Admin's choice writes after it: it may drop the chosen record, or leave its own description beside it (`torn`); the choice's own lookup comes after and repairs it, unless the process ends first |
| `enrich/service.go:1657` | An edit committed while a lookup is out is overwritten by its answer, and its lock row stays (`tornEdit`) |
| `enrich/service.go:617` | Two choices in a row: the first one's lookup may be the last to write its description |
| `enrich/service.go:2490` | "A cancelled context is transient" (`docs/adr/0048:116`), but a guest's call under a context that ended returns an unmarked error (`plugins.go:911`), and the Title is parked without a retry (`Park`) |
| `enrichment_policy_handlers.go:293` | A change of policy whose full pass is refused for a full queue, lost at a shutdown or ended by a store error (`enrich/service.go:478`, 498, 537, 557), or one setting of which fails to save after another was stored, is not applied to Titles already matched until the next change (`unapplied`) |
| `link/relay.go:539` | An end call is tried once: if no origin takes it, the sharer's reaper has to end the session (`excused`) |
| `store/markerdetection.go:161` | Markers and the "heard" mark carry the row's mtime at the moment of the save, not of the listening: a File replaced between the two counts as heard (`overtaken`) |
| `seekpreview/generator.go:582` | A set that went stale is cut again although the Library's toggle is off (the comment at 218 says dropped); its save may fall after a DELETE has returned (266) |
| `seekpreview/generator.go:561` | `removeSet` takes the directory before the record, so a crash or an error in between leaves a record that is not of a whole set (609) |
| `seekpreview/generator.go:463` | A read that fails takes what was to be read along: `expand` has cleared its Libraries (475 only logs), `handle` has popped its File (569), the janitor has spent its wake-up (505). Such a File stays without a current set until its Library is scanned again or the next boot (`forgotten`) |
| `seekpreview/generator.go:203` | `AfterScan` returns early, without waking the janitor, when the Library already waits: its stale sets stay until the next sweep |
| `link/service.go:318` | `Unlink` starts the worker again when dropping the mirror fails, but not when deleting the Link fails: it stays without one until the next boot |
| `link/service.go:300` | Two unlinks at once, or a re-key beside an unlink: the second finds no worker to wait for, and Libraries outlive the Link (`crossed`) |
| `auth/device_auth.go:398` | A code whose redemption succeeded but a later step of which failed is spent: the TV has to start over |
| `auth/device_auth.go:256` | Two starts at once count the live codes before either inserts: the cap may be exceeded by one |
| `store/group_mappings.go:294` | A sign-in or a collection under way while sessions are ended makes one afterwards; it lives until the next pass of the re-check |
| `auth/group_mapping.go:54` | Of two syncs at once the one with the older groups may write last; the next pass rights it |
| `plugins/sign_in_uninstall.go:112` | A crash between putting the files aside and the transaction leaves a plugin with a row and no files |

## Not modelled

`PROJECT.json` lists each part with its reason. In short: data (negotiation, ffmpeg arguments,
formats, provider answers), code that one request runs in one transaction
(catalog reads, watch state, corrections), what runs outside the server (the
web client, Plugins), and parts with concurrency of their own that the plan below has
not reached. Inside the modelled parts these are abstracted:

- *time*: a timer may fire when it is set, a deadline may pass while a call is out;
- *clock*: stamps in the Export are distinct and grow. Two transactions in one
  millisecond, or a clock set back, are outside the model;
- *one of each*: one Library per mirror, one Link per worker, one sink per
  run, one ffmpeg directory per gate. They share no state with their neighbours but the
  database, which serialises them;
- *relay*: a crash here, the transcode cap of the sharer, artwork and Markers, the rewriting of
  playlists, the outcome a relayed call records on the Link. The idle timeout is the same on both sides, being a constant of the code;
- *enrichment*: browse parents (Shows, Seasons, Artists) and their Cascade, the album tier, ids read from folder names, namespaces no
  provider leads in, artwork, the global settings and consent;
- *accounts*: one provider; each request comes from a Device of its own; Setup, CreateUser, Logout and sign-ins of one Device again,
  login limits, quotas, slow-down and the cap on codes, refresh tokens and intervals are left out. A code that expired, was swept or
  was deleted is one state. `Install` is one step, as the row is its last;
- *event types*: every sink wants every event. `Wants` is asked and its answer may be
  stale when `Publish` comes.

## Plan

In order of what could go wrong most.

1. *Enrichment*, what is left: the passes over browse parents and their Cascade.
2. *Plugin install and upgrade*: files and rows across crashes.
3. *Tailnet node*: a settings save against a start under way. *Shutdown order* of `App.Close`.
4. *Users*, what is left: login limiter windows, Setup against itself, several providers, the redirect flow's tokens.
5. *Operators*: resume and watched thresholds; keyframe segment tables against
   a reference definition.

Proofs to come: of `SegmentGate`, that a directory whose files are renamed into place (`gateSequential` false) never serves one
half written, and when one that is written in place cannot either.
