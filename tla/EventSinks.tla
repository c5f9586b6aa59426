----------------------------- MODULE EventSinks -----------------------------
(***************************************************************************)
(* internal/eventsink: the Dispatcher, its workers, the Manager that swaps *)
(* them on a settings save, and the translator goroutine that publishes.   *)
(* EventBroker puts the Broker in front and has the specification.         *)
(*                                                                         *)
(* A sink is a slug; each swap gives it a new worker with a new queue.     *)
(* Events are numbered in the order the Broker was given them.  Publish    *)
(* holds Dispatcher.mu for reading from its first enqueue to its last;     *)
(* swap and Close hold it for writing, but start and stop workers after    *)
(* they let go, so both go on while events are published and while another *)
(* of them runs.  All sinks want every event.                              *)
(***************************************************************************)
EXTENDS Naturals, Sequences, FiniteSets, Functions

CONSTANTS Slugs, Workers,
          QueueCapacity,
          MaxEvents,    \* bound: events published
          MaxSaves,     \* bound: settings saves
          Nil          \* no worker

ASSUME SinkConstants ==
    /\ QueueCapacity \in Nat \ {0} /\ MaxEvents \in Nat /\ MaxSaves \in Nat
    /\ Nil \notin Workers /\ IsFiniteSet(Slugs) /\ IsFiniteSet(Workers)
    /\ Cardinality(Workers) >= MaxSaves * Cardinality(Slugs)

VARIABLES
    settings,   \* slugs whose row makes a sink (Manager.build)
    saves,      \* saves so far
    owed,       \* handlers that saved and have not entered Reload
    unapplied,  \* history: rows were saved and no Reload has read them
    swapping,   \* Manager.mu: "no", "read" (rows read), "swapped"
    next,       \* the slugs a Reload under way has read
    starting,   \* new workers whose goroutine swap has not started
    stopping,   \* previous workers swap has not seen done
    closing,    \* the same for Close
    live,       \* Dispatcher.workers
    closed,     \* Dispatcher.closed
    slug,       \* each worker's sink
    stage,      \* "unused", "made", "top", "select", "deliver", "done"
    quit,       \* workers whose quit is closed
    queue,      \* each worker's channel
    event,      \* the last event each worker took, 0 for none
    publishing, \* workers Publish has still to enqueue to
    full,       \* the worker enqueue has just failed to send to
    translator, \* "wait", "wanted" (past Wants), "publish"
    latest,    \* the number of the last event
    accepted, counts \* history and Counters, by slug

manager    == <<settings, saves, owed, unapplied, swapping, next>>
swaps      == <<starting, stopping, closing>>
dispatcher == <<live, closed, slug>>
running    == <<stage, quit, event>>
publisher  == <<publishing, full, translator, latest>>
tallies    == <<accepted, counts>>
sinkVars == <<manager, swaps, dispatcher, running, queue, publisher, tallies>>

Stages == {"unused", "made", "top", "select", "deliver", "done"}
Tallies == [delivered : Nat, failed : Nat, dropped : Nat, discarded : Nat]

SinksTypeOK ==
    /\ settings \subseteq Slugs /\ next \subseteq Slugs
    /\ saves \in 0..MaxSaves /\ owed \in 0..saves
    /\ unapplied \in BOOLEAN /\ closed \in BOOLEAN
    /\ swapping \in {"no", "read", "swapped"}
    /\ starting \subseteq {w \in Workers : stage[w] = "made"}
    /\ stopping \cup closing \cup live \subseteq {w \in Workers : stage[w] # "unused"}
    /\ slug \in [Workers -> Slugs \cup {Nil}]
    /\ stage \in [Workers -> Stages]
    /\ quit \subseteq stopping \cup closing \cup {w \in Workers : stage[w] = "done"}
    /\ queue \in [Workers -> Seq(1..MaxEvents)]
    /\ \A w \in Workers : Len(queue[w]) <= QueueCapacity
    /\ event \in [Workers -> 0..MaxEvents]
    /\ publishing \subseteq live
    /\ full \in publishing \cup {Nil}
    /\ translator \in {"wait", "wanted", "publish"}
    /\ latest \in 0..MaxEvents
    /\ accepted \in [Slugs -> Nat] /\ counts \in [Slugs -> Tallies]

SinksInit ==
    /\ settings = {} /\ saves = 0 /\ owed = 0 /\ unapplied = FALSE
    /\ swapping = "no" /\ next = {}
    /\ starting = {} /\ stopping = {} /\ closing = {}
    /\ live = {} /\ closed = FALSE
    /\ slug = [w \in Workers |-> Nil]
    /\ stage = [w \in Workers |-> "unused"]
    /\ quit = {}
    /\ queue = [w \in Workers |-> <<>>]
    /\ event = [w \in Workers |-> 0]
    /\ publishing = {} /\ full = Nil /\ translator = "wait" /\ latest = 0
    /\ accepted = [s \in Slugs |-> 0]
    /\ counts = [s \in Slugs |-> [delivered |-> 0, failed |-> 0, dropped |-> 0, discarded |-> 0]]

\* One more of field f in w's tally.
Count(w, f) == counts' = [counts EXCEPT ![slug[w]][f] = @ + 1]

-----------------------------------------------------------------------------
(* The settings handler and Manager.Reload.                                *)

\* The rows are upserted one by one; when one fails, the handler gives up.
Save(S) ==
    /\ saves < MaxSaves
    /\ settings' = S /\ saves' = saves + 1
    /\ \/ owed' = owed + 1 /\ UNCHANGED unapplied
       \/ unapplied' = TRUE /\ UNCHANGED owed
    /\ UNCHANGED <<swapping, next, swaps, dispatcher, running, queue, publisher, tallies>>

\* Mutant of Reload: the rows are read before Manager.mu is taken, or so late.
ReloadStale ==
    /\ owed > 0 /\ swapping = "no"
    /\ owed' = owed - 1
    /\ swapping' = "read" /\ unapplied' = FALSE
    /\ \E S \in {settings, next} : next' = S
    /\ UNCHANGED <<settings, saves, swaps, dispatcher, running, queue, publisher, tallies>>

\* Reload takes Manager.mu and reads the rows, or fails to.
Reload ==
    /\ owed > 0 /\ swapping = "no"
    /\ owed' = owed - 1
    /\ \/ swapping' = "read" /\ next' = settings /\ unapplied' = FALSE
       \/ unapplied' = TRUE /\ UNCHANGED <<swapping, next>>
    /\ UNCHANGED <<settings, saves, swaps, dispatcher, running, queue, publisher, tallies>>

\* Nobody holds Dispatcher.mu for reading.
MuFree == translator # "publish"

\* A new worker for each slug that was read; which of the unused ones is no matter.
MakeWorkers ==
    LET new == CHOOSE f \in Injection(next, {w \in Workers : stage[w] = "unused"}) : TRUE
    IN  /\ live' = Range(new) /\ starting' = Range(new)
        /\ stage' = [w \in Workers |-> IF w \in Range(new) THEN "made" ELSE stage[w]]
        /\ slug' = [w \in Workers |-> IF w \in Range(new) THEN CHOOSE s \in next : new[s] = w
                                      ELSE slug[w]]

\* Mutant of Swap: the previous workers are not taken over.
SwapForgetting ==
    /\ swapping = "read" /\ MuFree /\ ~closed
    /\ MakeWorkers
    /\ swapping' = "swapped"
    /\ UNCHANGED <<settings, saves, owed, unapplied, next, stopping, closing, closed, quit,
                   event, queue, publisher, tallies>>

\* swap's critical section; the previous workers are to be stopped.
Swap ==
    /\ swapping = "read" /\ MuFree /\ ~closed
    /\ MakeWorkers /\ stopping' = live
    /\ swapping' = "swapped"
    /\ UNCHANGED <<settings, saves, owed, unapplied, next, closing, closed, quit,
                   event, queue, publisher, tallies>>

\* A closed Dispatcher is left alone.
SwapClosed ==
    /\ swapping = "read" /\ closed /\ MuFree
    /\ swapping' = "no"
    /\ UNCHANGED <<settings, saves, owed, unapplied, next, swaps, dispatcher, running, queue,
                   publisher, tallies>>

\* Mutant of StartWorker: a Dispatcher closed meanwhile starts no more workers.
StartUnlessClosed(w) ==
    /\ w \in starting
    /\ starting' = starting \ {w}
    /\ stage' = IF closed THEN stage ELSE [stage EXCEPT ![w] = "top"]
    /\ UNCHANGED <<manager, stopping, closing, dispatcher, quit, event, queue, publisher, tallies>>

StartWorker(w) ==
    /\ w \in starting
    /\ starting' = starting \ {w}
    /\ stage' = [stage EXCEPT ![w] = "top"]
    /\ UNCHANGED <<manager, stopping, closing, dispatcher, quit, event, queue, publisher, tallies>>

\* stop: close quit, then wait for done, one worker after the other.
StopWorker(w) ==
    /\ starting = {} /\ w \in stopping /\ stopping \cap quit = {}
    /\ quit' = quit \cup {w}
    /\ UNCHANGED <<manager, swaps, dispatcher, stage, event, queue, publisher, tallies>>

WorkerStopped(w) ==
    /\ w \in stopping \cap quit /\ stage[w] = "done"
    /\ stopping' = stopping \ {w}
    /\ UNCHANGED <<manager, starting, closing, dispatcher, running, queue, publisher, tallies>>

\* swap returns, and with it Reload.
SwapDone ==
    /\ swapping = "swapped" /\ starting = {} /\ stopping = {}
    /\ swapping' = "no"
    /\ UNCHANGED <<settings, saves, owed, unapplied, next, swaps, dispatcher, running, queue,
                   publisher, tallies>>

Close ==
    /\ ~closed /\ MuFree
    /\ closed' = TRUE
    /\ closing' = live /\ live' = {}
    /\ UNCHANGED <<manager, starting, stopping, slug, running, queue, publisher, tallies>>

CloseStops(w) ==
    /\ w \in closing /\ closing \cap quit = {}
    /\ quit' = quit \cup {w}
    /\ UNCHANGED <<manager, swaps, dispatcher, stage, event, queue, publisher, tallies>>

CloseStopped(w) ==
    /\ w \in closing \cap quit /\ stage[w] = "done"
    /\ closing' = closing \ {w}
    /\ UNCHANGED <<manager, starting, stopping, dispatcher, running, queue, publisher, tallies>>

-----------------------------------------------------------------------------
(* The translator: ask Wants, build the event, publish it.                 *)

\* Nobody may want e, or it is a snapshot that is no event.
Translate(e) ==
    /\ translator = "wait"
    /\ latest' = e
    /\ translator' = "wait" \/ (live # {} /\ translator' = "wanted")
    /\ UNCHANGED <<manager, swaps, dispatcher, running, queue, publishing, full, tallies>>

\* The set that is live now, which need not be the one Wants was asked of.
PublishBegins ==
    /\ translator = "wanted"
    /\ translator' = "publish" /\ publishing' = live
    /\ UNCHANGED <<manager, swaps, dispatcher, running, queue, full, latest, tallies>>

\* enqueue's send.
Enqueue(w) ==
    /\ w \in publishing /\ full \in {Nil, w} /\ Len(queue[w]) < QueueCapacity
    /\ queue' = [queue EXCEPT ![w] = Append(@, latest)]
    /\ accepted' = [accepted EXCEPT ![slug[w]] = @ + 1]
    /\ publishing' = publishing \ {w} /\ full' = Nil
    /\ UNCHANGED <<manager, swaps, dispatcher, running, translator, latest, counts>>

\* The send found the queue full.
EnqueueFull(w) ==
    /\ w \in publishing /\ full = Nil /\ Len(queue[w]) = QueueCapacity
    /\ full' = w
    /\ UNCHANGED <<manager, swaps, dispatcher, running, queue, publishing, translator, latest, tallies>>

\* Mutant of DropOldest: the drop is not counted.
DropUncounted(w) ==
    /\ full = w /\ queue[w] # <<>>
    /\ full' = Nil
    /\ queue' = [queue EXCEPT ![w] = Tail(@)]
    /\ UNCHANGED <<manager, swaps, dispatcher, running, publishing, translator, latest, tallies>>

\* The second select: the oldest goes, if the worker has not drained the queue.
DropOldest(w) ==
    /\ full = w /\ queue[w] # <<>>
    /\ full' = Nil
    /\ queue' = [queue EXCEPT ![w] = Tail(@)]
    /\ Count(w, "dropped")
    /\ UNCHANGED <<manager, swaps, dispatcher, running, publishing, translator, latest, accepted>>

PublishReturns ==
    /\ translator = "publish" /\ publishing = {}
    /\ translator' = "wait"
    /\ UNCHANGED <<manager, swaps, dispatcher, running, queue, publishing, full, latest, tallies>>

-----------------------------------------------------------------------------
(* worker.run                                                              *)

\* The worker returns; what is still queued is discarded.
Exit(w) ==
    /\ stage' = [stage EXCEPT ![w] = "done"]
    /\ queue' = [queue EXCEPT ![w] = <<>>]
    /\ counts' = [counts EXCEPT ![slug[w]].discarded = @ + Len(queue[w])]
    /\ UNCHANGED <<manager, swaps, dispatcher, quit, event, publisher, accepted>>

\* The first select: quit, alone.
LoopTop(w) ==
    /\ stage[w] = "top"
    /\ \/ w \in quit /\ Exit(w)
       \/ /\ w \notin quit
          /\ stage' = [stage EXCEPT ![w] = "select"]
          /\ UNCHANGED <<manager, swaps, dispatcher, quit, event, queue, publisher, tallies>>

\* The second select: either ready case.
SelectQuit(w) == stage[w] = "select" /\ w \in quit /\ Exit(w)

SelectEvent(w) ==
    /\ stage[w] = "select" /\ queue[w] # <<>>
    /\ stage' = [stage EXCEPT ![w] = "deliver"]
    /\ event' = [event EXCEPT ![w] = Head(queue[w])]
    /\ queue' = [queue EXCEPT ![w] = Tail(@)]
    /\ UNCHANGED <<manager, swaps, dispatcher, quit, publisher, tallies>>

\* The Plugin answers, or its deadline or a stop cancels the call.
DeliverReturns(w) ==
    /\ stage[w] = "deliver"
    /\ stage' = [stage EXCEPT ![w] = "top"]
    /\ \E f \in {"delivered", "failed"} : Count(w, f)
    /\ UNCHANGED <<manager, swaps, dispatcher, quit, event, queue, publisher, accepted>>

WorkerSteps(w) == LoopTop(w) \/ SelectQuit(w) \/ SelectEvent(w) \/ DeliverReturns(w)

\* All but the coming of an event and the end of the Dispatcher.
SinkSteps ==
    \/ \E S \in SUBSET Slugs : Save(S)
    \/ Reload \/ Swap \/ SwapClosed \/ SwapDone
    \/ PublishBegins \/ PublishReturns
    \/ \E w \in Workers :
          \/ StartWorker(w) \/ StopWorker(w) \/ WorkerStopped(w)
          \/ CloseStops(w) \/ CloseStopped(w)
          \/ Enqueue(w) \/ EnqueueFull(w) \/ DropOldest(w)
          \/ WorkerSteps(w)

-----------------------------------------------------------------------------
Running(w) == stage[w] \notin {"unused", "done"}

\* Every worker that runs is live, or a swap or Close under way will stop it.
NoStrayWorker == \A w \in Workers : Running(w) => w \in live \cup stopping \cup closing

\* What s was given and nothing has become of yet: a place in the queue of
\* one of its workers, or the event, 0, that one delivers.
InHand(s) ==
    {p \in Workers \X (0..QueueCapacity) :
        /\ slug[p[1]] = s
        /\ IF p[2] = 0 THEN stage[p[1]] = "deliver" ELSE p[2] <= Len(queue[p[1]])}

\* A sink's tally, which outlives its workers, says what became of every
\* event it was given: nothing is lost uncounted, or counted twice.
TallyAddsUp ==
    \A s \in Slugs :
        accepted[s] = counts[s].delivered + counts[s].failed + counts[s].dropped
            + counts[s].discarded + Cardinality(InHand(s))

\* Once the saves have been applied, the live sinks are those the last left enabled.
SettledIsSaved ==
    owed = 0 /\ swapping = "no" /\ ~unapplied /\ ~closed
        => {slug[w] : w \in live} = settings

(* In whatever order the handlers of several saves get there, and whatever *)
(* Close finds half done, what delivers is what was saved: a sink switched *)
(* off falls silent once the swap has returned, a sink switched on is live *)
(* once the saves have been applied.                                       *)
SinksAsSaved == NoStrayWorker /\ SettledIsSaved

-----------------------------------------------------------------------------
(* Goroutines go on; a target need not ever answer, but a stop cancels the *)
(* call that waits for it.                                                 *)
ManagerSteps ==
    \/ Reload \/ Swap \/ SwapClosed \/ SwapDone
    \/ \E w \in Workers : StartWorker(w) \/ StopWorker(w) \/ WorkerStopped(w)

PublisherSteps ==
    \/ PublishBegins \/ PublishReturns
    \/ \E w \in Workers : Enqueue(w) \/ EnqueueFull(w) \/ DropOldest(w)

SinksFairness ==
    /\ WF_sinkVars(ManagerSteps) /\ WF_sinkVars(PublisherSteps)
    /\ WF_sinkVars(\E w \in Workers : CloseStops(w) \/ CloseStopped(w))
    /\ \A w \in Workers :
          WF_sinkVars(LoopTop(w) \/ SelectQuit(w) \/ SelectEvent(w) \/ (w \in quit /\ DeliverReturns(w)))
=============================================================================
