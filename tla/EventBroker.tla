---------------------------- MODULE EventBroker ----------------------------
(***************************************************************************)
(* internal/events/broker.go and the two goroutines of                     *)
(* internal/eventsink/translator.go: how what happens reaches EventSinks.  *)
(*                                                                         *)
(* A publisher never waits: a subscriber whose buffer is full loses the    *)
(* newest event.  The translator's reader empties its buffer into a deep   *)
(* backlog, and loses the newest too if that is full; its worker           *)
(* translates and publishes to the sinks.  Subscribers share nothing, so   *)
(* one, the translator, stands for each.  Shutdown closes the Broker       *)
(* first, through the HTTP servers' hooks, or stops the translator first;  *)
(* the Dispatcher is closed after the translator.                          *)
(***************************************************************************)
EXTENDS EventSinks

CONSTANTS BrokerBuffer,  \* the buffer of Subscribe's channel
          Depth          \* translatorQueueDepth

ASSUME BrokerConstants == BrokerBuffer \in Nat \ {0} /\ Depth \in Nat \ {0}

VARIABLES
    subscribed,  \* the translator's channel is in Broker.subs, and open
    inbox,       \* that channel
    reading,     \* Translator.run has not closed work
    backlog,     \* work
    published    \* the number of the last event the Broker was given

broker == <<subscribed, inbox, reading, backlog, published>>
brokerVars == <<sinkVars, broker>>

Tick == 0  \* a nowPlaying

BrokerTypeOK ==
    /\ subscribed \in BOOLEAN /\ reading \in BOOLEAN
    /\ inbox \in Seq(0..MaxEvents) /\ Len(inbox) <= BrokerBuffer
    /\ backlog \in Seq(1..MaxEvents) /\ Len(backlog) <= Depth
    /\ published \in 0..MaxEvents

\* Start subscribes before it returns.
BrokerInit ==
    /\ SinksInit
    /\ subscribed = TRUE /\ inbox = <<>>
    /\ reading = TRUE /\ backlog = <<>>
    /\ published = 0

\* Broker.Publish's send, to one subscriber.
Send(e) ==
    inbox' = IF subscribed /\ Len(inbox) < BrokerBuffer THEN Append(inbox, e) ELSE inbox

BrokerPublish ==
    /\ published < MaxEvents
    /\ published' = published + 1
    /\ Send(published')
    /\ UNCHANGED <<sinkVars, subscribed, reading, backlog>>

NowPlaying ==
    /\ Send(Tick)
    /\ UNCHANGED <<sinkVars, subscribed, reading, backlog, published>>

\* The reader takes what there is, closed channel or not, and never waits.
Read ==
    /\ inbox # <<>>
    /\ inbox' = Tail(inbox)
    /\ backlog' = IF Head(inbox) # Tick /\ Len(backlog) < Depth
                  THEN Append(backlog, Head(inbox)) ELSE backlog
    /\ UNCHANGED <<sinkVars, subscribed, reading, published>>

\* The channel is closed and empty.
ReadEnds ==
    /\ reading /\ ~subscribed /\ inbox = <<>>
    /\ reading' = FALSE
    /\ UNCHANGED <<sinkVars, subscribed, inbox, backlog, published>>

TranslateNext ==
    /\ backlog # <<>>
    /\ Translate(Head(backlog))
    /\ backlog' = Tail(backlog)
    /\ UNCHANGED <<subscribed, inbox, reading, published>>

\* Broker.Close, or the cancel of Translator.Stop; the second finds nothing.
Unsubscribe ==
    /\ subscribed
    /\ subscribed' = FALSE
    /\ UNCHANGED <<sinkVars, inbox, reading, backlog, published>>

\* What Translator.Stop waits for.
Drained == ~reading /\ backlog = <<>> /\ translator = "wait"

CloseDispatcher == Drained /\ Close /\ UNCHANGED broker

BrokerNext ==
    \/ BrokerPublish \/ NowPlaying \/ Read \/ ReadEnds \/ TranslateNext
    \/ Unsubscribe \/ CloseDispatcher
    \/ SinkSteps /\ UNCHANGED broker

BrokerSpec == BrokerInit /\ [][BrokerNext]_brokerVars

-----------------------------------------------------------------------------
\* What is on its way to w's target, the next to arrive first.
Line(w) ==
    <<event[w]>> \o queue[w]
        \o (IF translator = "wanted" \/ w \in publishing THEN <<latest>> ELSE <<>>)
        \o backlog \o inbox

Rises(s) == \A i, j \in DOMAIN s : i < j => s[i] < s[j] \/ s[j] = Tick

\* A worker is sent events in the order they happened, each once at most.
InOrder == \A w \in Workers : Rises(Line(w))

(* From the Broker to a sink's target an event passes two goroutines,      *)
(* three buffers that overflow, and a worker that a save may replace: none *)
(* is sent twice or out of order, and once a sink was given it, it is      *)
(* counted exactly once, however enqueue's two selects race the worker's.  *)
EveryEventOnce == TallyAddsUp /\ InOrder

(* With targets that never answer: the Broker's buffer is emptied, every   *)
(* Publish returns, so does every save that swaps the workers, and         *)
(* shutting down, the translator first and then the workers.               *)
NobodyIsHeldUp ==
    /\ Len(inbox) = BrokerBuffer ~> Len(inbox) < BrokerBuffer
    /\ translator = "publish" ~> translator = "wait"
    /\ swapping = "swapped" ~> swapping = "no"
    /\ ~subscribed ~> Drained
    /\ closed ~> closing = {}

(* Besides the goroutines of EventSinks, the reader goes on, and the       *)
(* database answers the translator in the end.                             *)
BrokerFairSpec ==
    /\ BrokerSpec /\ SinksFairness
    /\ WF_brokerVars(Read \/ ReadEnds) /\ WF_brokerVars(TranslateNext)
=============================================================================
