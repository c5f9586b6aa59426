---------------------------- MODULE PriorityLane ----------------------------
(***************************************************************************)
(* What package bglane promises its callers, with no queue, no mutex and   *)
(* no goroutine: one lane, owned by at most one client, which is only ever *)
(* taken by a client with nothing better before it.  BackgroundLane is the *)
(* code, and implements this.                                              *)
(***************************************************************************)
EXTENDS Naturals

CONSTANTS Clients,    \* the goroutines that call Acquire
          NoClient,   \* nobody owns the lane
          Prio        \* the priority a client asks with, the lowest first

VARIABLES owner,      \* the client the lane belongs to
          wanting,    \* the clients blocked in Acquire
          claiming    \* the clients with a claim on the lane

vars == <<owner, wanting, claiming>>

TypeOK == /\ owner \in Clients \cup {NoClient}
          /\ wanting \subseteq Clients
          /\ claiming \subseteq Clients

\* Nobody with a better priority waits for the lane or has claimed it.
IsNext(c, W, K) == \A d \in W \cup K : Prio[c] <= Prio[d]

Init == owner = NoClient /\ wanting = {} /\ claiming = {}

Claim(c) == /\ c \notin claiming
            /\ claiming' = claiming \cup {c}
            /\ UNCHANGED <<owner, wanting>>

\* Ending a claim may be what lets a waiter onto a free lane, in that step.
Unclaim(c) ==
    /\ c \in claiming
    /\ claiming' = claiming \ {c}
    /\ \/ UNCHANGED <<owner, wanting>>
       \/ /\ owner = NoClient
          /\ \E d \in wanting : /\ IsNext(d, wanting, claiming')
                                /\ owner' = d
                                /\ wanting' = wanting \ {d}

Take(c) == /\ owner = NoClient
           /\ c \notin wanting
           /\ IsNext(c, wanting, claiming)
           /\ owner' = c
           /\ UNCHANGED <<wanting, claiming>>

Ask(c) == /\ c # owner /\ c \notin wanting
          /\ wanting' = wanting \cup {c}
          /\ UNCHANGED <<owner, claiming>>

GiveUp(c) == /\ c \in wanting
             /\ wanting' = wanting \ {c}
             /\ UNCHANGED <<owner, claiming>>

\* The lane goes back, or straight on to the best waiter.
Release(c) ==
    /\ owner = c
    /\ UNCHANGED claiming
    /\ \/ owner' = NoClient /\ UNCHANGED wanting
       \/ \E d \in wanting : /\ IsNext(d, wanting, claiming)
                             /\ owner' = d
                             /\ wanting' = wanting \ {d}

Next == \E c \in Clients : Claim(c) \/ Unclaim(c) \/ Take(c) \/ Ask(c)
                             \/ GiveUp(c) \/ Release(c)

Spec == Init /\ [][Next]_vars
=============================================================================
