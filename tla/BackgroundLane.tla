--------------------------- MODULE BackgroundLane ---------------------------
(***************************************************************************)
(* internal/bglane: the one lane Seek preview generation and Marker        *)
(* detection take their turns on.  Every critical section of Lane.mu is    *)
(* one action.  A client is one goroutine; while it is blocked in Acquire  *)
(* it does nothing else.  Its context may end at any moment, also in the   *)
(* instant the lane is granted to it.                                      *)
(***************************************************************************)
EXTENDS Naturals, Sequences, FiniteSets

CONSTANTS Clients,    \* the goroutines that use the lane
          NoClient,   \* nobody
          Prio        \* the priority each asks and claims with

ASSUME LaneConstants == /\ NoClient \notin Clients
                        /\ Prio \in [Clients -> Nat]

VARIABLES held,       \* Lane.held
          waiting,    \* Lane.waiting, oldest first
          claiming,   \* the claims in Lane.claims, by the client that made each
          pc          \* where each client is in Acquire / release

vars == <<held, waiting, claiming, pc>>

(***************************************************************************)
(* pc: "idle" outside the lane; "blocked" in Acquire's select; "leaving"   *)
(* chose ctx.Done and has not locked mu yet; "handing" found itself        *)
(* granted after all and is about to call release; "holding" has the lane. *)
(***************************************************************************)
PCs == {"idle", "blocked", "leaving", "handing", "holding"}

Queued == {waiting[i] : i \in DOMAIN waiting}

\* The client the lane is with: it holds it, or its ready channel is closed.
Owns(c) == \/ pc[c] \in {"holding", "handing"}
           \/ pc[c] \in {"blocked", "leaving"} /\ c \notin Queued

TypeOK == /\ held \in BOOLEAN
          /\ waiting \in Seq(Clients)
          /\ claiming \subseteq Clients
          /\ pc \in [Clients -> PCs]

Init == /\ held = FALSE
        /\ waiting = <<>>
        /\ claiming = {}
        /\ pc = [c \in Clients |-> "idle"]

\* A client's goroutine runs its own code, it is not inside Acquire.
Running(c) == pc[c] \in {"idle", "holding"}

\* Mutant of Eligible: claims are counted but never looked at.
EligibleIgnoringClaims(p, K) == TRUE

\* No claim in K has a better priority than p.
Eligible(p, K) == \A d \in K : ~(Prio[d] < p)

\* The place in queue q of the waiter grant would choose, or no place.
Best(q, K) ==
    {i \in DOMAIN q :
        /\ Eligible(Prio[q[i]], K)
        /\ \A j \in DOMAIN q :
              Eligible(Prio[q[j]], K) =>
                \/ Prio[q[i]] < Prio[q[j]]
                \/ Prio[q[i]] = Prio[q[j]] /\ i <= j}

Without(q, i) == [j \in 1..(Len(q) - 1) |-> IF j < i THEN q[j] ELSE q[j + 1]]

\* The lane is free: hand it to the best eligible waiter, if there is one.
GrantFree(q, K) ==
    \/ /\ \A i \in DOMAIN q : ~Eligible(Prio[q[i]], K)
       /\ held' = FALSE /\ waiting' = q
    \/ \E i \in Best(q, K) : held' = TRUE /\ waiting' = Without(q, i)

Claim(c) ==
    /\ Running(c) /\ c \notin claiming
    /\ claiming' = claiming \cup {c}
    /\ UNCHANGED <<held, waiting, pc>>

Unclaim(c) ==
    /\ Running(c) /\ c \in claiming
    /\ claiming' = claiming \ {c}
    /\ IF held THEN UNCHANGED <<held, waiting>>
               ELSE GrantFree(waiting, claiming')
    /\ UNCHANGED pc

\* Mutant of Acquire: the fast path takes any free lane.
AcquireBarging(c) ==
    /\ pc[c] = "idle"
    /\ held' = TRUE
    /\ IF held THEN /\ waiting' = Append(waiting, c)
                    /\ pc' = [pc EXCEPT ![c] = "blocked"]
               ELSE /\ UNCHANGED waiting
                    /\ pc' = [pc EXCEPT ![c] = "holding"]
    /\ UNCHANGED claiming

\* Acquire's first critical section: the lane at once, or a place in the queue.
Acquire(c) ==
    /\ pc[c] = "idle"
    /\ UNCHANGED claiming
    /\ \/ /\ ~held /\ Eligible(Prio[c], claiming)
          /\ held' = TRUE
          /\ pc' = [pc EXCEPT ![c] = "holding"]
          /\ UNCHANGED waiting
       \/ /\ held \/ ~Eligible(Prio[c], claiming)
          /\ waiting' = Append(waiting, c)
          /\ pc' = [pc EXCEPT ![c] = "blocked"]
          /\ UNCHANGED held

\* Acquire's select takes the closed ready channel.
Wake(c) ==
    /\ pc[c] = "blocked" /\ c \notin Queued
    /\ pc' = [pc EXCEPT ![c] = "holding"]
    /\ UNCHANGED <<held, waiting, claiming>>

\* Acquire's select takes ctx.Done, granted or not.
ContextEnds(c) ==
    /\ pc[c] = "blocked"
    /\ pc' = [pc EXCEPT ![c] = "leaving"]
    /\ UNCHANGED <<held, waiting, claiming>>

\* Mutant of LeaveQueue: a grant that raced the end of the context is dropped.
LeaveQueueDroppingGrant(c) ==
    /\ pc[c] = "leaving"
    /\ waiting' = SelectSeq(waiting, LAMBDA d : d # c)
    /\ pc' = [pc EXCEPT ![c] = "idle"]
    /\ UNCHANGED <<held, claiming>>

\* It looks for itself in the queue; not there, it was granted meanwhile.
LeaveQueue(c) ==
    /\ pc[c] = "leaving"
    /\ \/ \E i \in DOMAIN waiting :
             /\ waiting[i] = c
             /\ waiting' = Without(waiting, i)
             /\ pc' = [pc EXCEPT ![c] = "idle"]
       \/ /\ c \notin Queued
          /\ pc' = [pc EXCEPT ![c] = "handing"]
          /\ UNCHANGED waiting
    /\ UNCHANGED <<held, claiming>>

\* release: by the holder after its turn, or by one granted as its ctx ended.
Release(c) ==
    /\ pc[c] \in {"holding", "handing"}
    /\ GrantFree(waiting, claiming)
    /\ pc' = [pc EXCEPT ![c] = "idle"]
    /\ UNCHANGED claiming

Next == \E c \in Clients :
            \/ Claim(c) \/ Unclaim(c) \/ Acquire(c) \/ Wake(c)
            \/ ContextEnds(c) \/ LeaveQueue(c) \/ Release(c)

Spec == Init /\ [][Next]_vars

-----------------------------------------------------------------------------
(* Mutual exclusion across a grant: held is true exactly while one client  *)
(* has the lane, counting the one whose ready channel is closed but which  *)
(* has not run yet, or whose context ended in that instant.                *)
OneOwner ==
    /\ held <=> \E c \in Clients : Owns(c)
    /\ \A c, d \in Clients : Owns(c) /\ Owns(d) => c = d

(* No wakeup is lost: a free lane never has a waiter that may take it,     *)
(* whichever of release, unclaim and a cancelled Acquire freed it.         *)
NoLostGrant ==
    ~held => \A c \in Queued : ~Eligible(Prio[c], claiming)

(* Nobody is in the queue twice or while running its own code: what        *)
(* Acquire removes when its context ends is its only entry.                *)
QueueIsBlockedOnce ==
    /\ \A i, j \in DOMAIN waiting : waiting[i] = waiting[j] => i = j
    /\ \A c \in Queued : pc[c] \in {"blocked", "leaving"}

(* Whoever gets the lane had nobody better waiting and no better claim     *)
(* standing, and was the longest waiting of its priority - also on         *)
(* Acquire's fast path, which never looks at the queue.                    *)
BestFirst ==
    [][\A c \in Clients : ~Owns(c) /\ Owns(c)' =>
          /\ \A d \in Queued \cup claiming' : d # c => Prio[c] <= Prio[d]
          /\ \A i, j \in DOMAIN waiting :
                (waiting[j] = c /\ i < j) => Prio[waiting[i]] # Prio[c]]_vars

Owner == IF \E c \in Clients : Owns(c)
         THEN CHOOSE c \in Clients : Owns(c) ELSE NoClient

Abstract == INSTANCE PriorityLane WITH owner <- Owner, wanting <- Queued

\* The queue, the channels and the cancellations implement PriorityLane.
ImplementsPriorityLane == Abstract!Spec
=============================================================================
