------------------------ MODULE BackgroundWorkProofs ------------------------
(***************************************************************************)
(* The two workers use the lane as its clients may: every step of theirs   *)
(* is a step of BackgroundLane or leaves the lane alone.  What is proved   *)
(* of the lane for any clients then holds of these two, and the workers'   *)
(* places in their loops follow from WorkInv.                              *)
(*                                                                         *)
(* First the lane, for any set of clients and any priorities.  LaneInv is  *)
(* inductive: that nobody is queued twice is what makes the entry Acquire  *)
(* removes its only one, so that a client found missing from the queue is  *)
(* the one client the lane was granted to.                                 *)
(***************************************************************************)
EXTENDS BackgroundWork, TLAPS

LaneInv == TypeOK /\ QueueIsBlockedOnce /\ OneOwner /\ NoLostGrant

Elems(q) == {q[i] : i \in DOMAIN q}
Injective(q) == \A i, j \in DOMAIN q : q[i] = q[j] => i = j

(* Without takes out one place and keeps the others, in their order.       *)
LEMMA WithoutType ==
    ASSUME NEW S, NEW q \in Seq(S), NEW i \in DOMAIN q
    PROVE  /\ Without(q, i) \in Seq(S)
           /\ Len(Without(q, i)) = Len(q) - 1
           /\ DOMAIN Without(q, i) = 1..(Len(q) - 1)
<1>1. Len(q) \in Nat /\ Len(q) - 1 \in Nat /\ i \in 1..Len(q)
  OBVIOUS
<1>2. \A j \in 1..(Len(q) - 1) : (IF j < i THEN q[j] ELSE q[j + 1]) \in S
  BY <1>1
<1>3. Without(q, i) \in [1..(Len(q) - 1) -> S]
  BY <1>2 DEF Without
<1> QED
  BY <1>1, <1>3

(* Out of a queue without duplicates, Without takes exactly one client.    *)
LEMMA WithoutElems ==
    ASSUME NEW S, NEW q \in Seq(S), NEW i \in DOMAIN q, Injective(q)
    PROVE  /\ Elems(Without(q, i)) = Elems(q) \ {q[i]}
           /\ Injective(Without(q, i))
<1> DEFINE w == Without(q, i)
<1>0. Len(q) \in Nat /\ Len(q) - 1 \in Nat /\ i \in 1..Len(q) /\ DOMAIN q = 1..Len(q)
  OBVIOUS
<1>1. DOMAIN w = 1..(Len(q) - 1)
  BY WithoutType
<1>2. \A j \in DOMAIN w : w[j] = IF j < i THEN q[j] ELSE q[j + 1]
  BY <1>1 DEF Without
<1>3. Elems(w) \subseteq Elems(q) \ {q[i]}
  BY <1>0, <1>1, <1>2 DEF Elems, Injective
<1>4. ASSUME NEW k \in DOMAIN q, k # i PROVE q[k] \in Elems(w)
  <2>1. CASE k < i
    BY <1>0, <1>1, <1>2, <2>1 DEF Elems
  <2>2. CASE k > i
    <3>1. k - 1 \in DOMAIN w /\ w[k - 1] = q[k]
      BY <1>0, <1>1, <1>2, <2>2
    <3> QED BY <3>1 DEF Elems
  <2> QED BY <1>0, <1>4, <2>1, <2>2
<1>5. Injective(w)
  BY <1>0, <1>1, <1>2 DEF Injective
<1> QED
  BY <1>3, <1>4, <1>5 DEF Elems

(* A grant on a free lane: nothing moved and nobody may take it, or the    *)
(* queue lost exactly the client the lane went to.                         *)
LEMMA GrantEffect ==
    ASSUME NEW K, waiting \in Seq(Clients), Injective(waiting),
           GrantFree(waiting, K)
    PROVE  \/ /\ held' = FALSE /\ waiting' = waiting
              /\ \A c \in Queued : ~Eligible(Prio[c], K)
           \/ \E i \in Best(waiting, K) :
                 /\ i \in DOMAIN waiting
                 /\ held' = TRUE
                 /\ waiting' = Without(waiting, i)
                 /\ waiting' \in Seq(Clients)
                 /\ Injective(waiting')
                 /\ Queued' = Queued \ {waiting[i]}
<1>1. CASE /\ \A i \in DOMAIN waiting : ~Eligible(Prio[waiting[i]], K)
           /\ held' = FALSE /\ waiting' = waiting
  BY <1>1 DEF Queued
<1>2. ASSUME NEW i \in Best(waiting, K),
             held' = TRUE, waiting' = Without(waiting, i)
      PROVE  /\ i \in DOMAIN waiting
             /\ waiting' \in Seq(Clients)
             /\ Injective(waiting')
             /\ Queued' = Queued \ {waiting[i]}
  <2>1. i \in DOMAIN waiting
    BY DEF Best
  <2> QED
    <3>1. Queued = Elems(waiting) /\ Queued' = Elems(waiting')
      BY DEF Queued, Elems
    <3>2. waiting' \in Seq(Clients)
      BY <1>2, <2>1, WithoutType
    <3>3. Injective(waiting') /\ Elems(waiting') = Elems(waiting) \ {waiting[i]}
      BY <1>2, <2>1, WithoutElems
    <3> QED
      BY <2>1, <3>1, <3>2, <3>3
<1> QED
  BY <1>1, <1>2 DEF GrantFree

LEMMA LaneInvInit == Init => LaneInv
<1> SUFFICES ASSUME Init PROVE LaneInv
  OBVIOUS
<1>1. Queued = {}
  BY DEF Init, Queued
<1>2. TypeOK
  <2>1. pc \in [Clients -> PCs]
    BY DEF Init, PCs
  <2>2. waiting \in Seq(Clients)
    BY DEF Init
  <2> QED
    BY <2>1, <2>2 DEF Init, TypeOK
<1>3. QueueIsBlockedOnce /\ NoLostGrant
  BY <1>1 DEF Init, QueueIsBlockedOnce, NoLostGrant
<1>4. OneOwner
  BY DEF Init, OneOwner, Owns
<1> QED
  BY <1>2, <1>3, <1>4 DEF LaneInv

(* Every step of every client keeps the invariant: one step of the proof   *)
(* per action.                                                             *)
LEMMA LaneInvStep == LaneInv /\ [Next]_vars => LaneInv'
<1> SUFFICES ASSUME LaneInv, [Next]_vars PROVE LaneInv'
  OBVIOUS
<1> USE LaneConstants DEF LaneInv, TypeOK, QueueIsBlockedOnce, PCs
<1>0. CASE UNCHANGED vars
  BY <1>0 DEF vars, OneOwner, NoLostGrant, Queued, Owns, Eligible
<1>1. ASSUME NEW c \in Clients, Claim(c) PROVE LaneInv'
  BY <1>1 DEF Claim, OneOwner, NoLostGrant, Queued, Owns, Eligible
<1>2. ASSUME NEW c \in Clients, Unclaim(c) PROVE LaneInv'
  <2>1. CASE held
    BY <1>2, <2>1 DEF Unclaim, OneOwner, NoLostGrant, Queued, Owns
  <2>2. CASE ~held /\ held' = FALSE /\ waiting' = waiting
                   /\ \A d \in Queued : ~Eligible(Prio[d], claiming')
    <3>1. Queued' = Queued /\ \A d \in Clients : Owns(d)' <=> Owns(d)
      BY <1>2, <2>2 DEF Unclaim, Queued, Owns
    <3> QED
      BY <1>2, <2>2, <3>1 DEF Unclaim, OneOwner, NoLostGrant
  <2>3. ASSUME ~held, NEW i \in DOMAIN waiting, held' = TRUE,
               waiting' \in Seq(Clients), Injective(waiting'),
               Queued' = Queued \ {waiting[i]}
        PROVE  LaneInv'
    <3>1. waiting[i] \in Queued /\ waiting[i] \in Clients
      BY DEF Queued
    <3>2. \A d \in Clients : Owns(d)' <=> (Owns(d) \/ d = waiting[i])
      BY <1>2, <2>3, <3>1 DEF Unclaim, Owns
    <3> QED
      BY <1>2, <2>3, <3>1, <3>2
         DEF Unclaim, OneOwner, NoLostGrant, Injective
  <2> QED
    BY <1>2, <2>1, <2>2, <2>3, GrantEffect DEF Unclaim, Injective
<1>3. ASSUME NEW c \in Clients, Acquire(c) PROVE LaneInv'
  <2>1. CASE ~held /\ held' = TRUE /\ pc' = [pc EXCEPT ![c] = "holding"]
                   /\ UNCHANGED waiting
    BY <1>3, <2>1 DEF Acquire, OneOwner, NoLostGrant, Queued, Owns
  <2>2. CASE /\ held \/ ~Eligible(Prio[c], claiming)
             /\ waiting' = Append(waiting, c)
             /\ pc' = [pc EXCEPT ![c] = "blocked"]
             /\ UNCHANGED held
    <3>1. c \notin Queued
      BY <1>3 DEF Acquire
    <3>2. /\ waiting' \in Seq(Clients)
          /\ Queued' = Queued \cup {c}
          /\ Injective(waiting')
      <4>1. /\ waiting' \in Seq(Clients)
            /\ DOMAIN waiting' = DOMAIN waiting \cup {Len(waiting) + 1}
            /\ Len(waiting) + 1 \notin DOMAIN waiting
            /\ \A i \in DOMAIN waiting : waiting'[i] = waiting[i]
            /\ waiting'[Len(waiting) + 1] = c
        BY <2>2
      <4>2. Queued' = Queued \cup {c}
        BY <4>1 DEF Queued
      <4>3. \A i \in DOMAIN waiting : waiting[i] # c
        BY <3>1 DEF Queued
      <4>4. Injective(waiting')
        BY <4>1, <4>3 DEF Injective, QueueIsBlockedOnce
      <4> QED BY <4>1, <4>2, <4>4
    <3>3. \A d \in Clients : Owns(d)' <=> Owns(d)
      BY <1>3, <2>2, <3>1, <3>2 DEF Acquire, Owns
    <3> QED
      BY <1>3, <2>2, <3>2, <3>3
         DEF Acquire, OneOwner, NoLostGrant, Injective, Eligible
  <2> QED BY <1>3, <2>1, <2>2 DEF Acquire
<1>4. ASSUME NEW c \in Clients, Wake(c) PROVE LaneInv'
  BY <1>4 DEF Wake, OneOwner, NoLostGrant, Queued, Owns, Eligible
<1>5. ASSUME NEW c \in Clients, ContextEnds(c) PROVE LaneInv'
  <2>1. Queued' = Queued /\ \A d \in Clients : Owns(d)' <=> Owns(d)
    BY <1>5 DEF ContextEnds, Queued, Owns
  <2> QED
    BY <1>5, <2>1 DEF ContextEnds, OneOwner, NoLostGrant
<1>6. ASSUME NEW c \in Clients, LeaveQueue(c) PROVE LaneInv'
  <2>1. ASSUME NEW i \in DOMAIN waiting, waiting[i] = c,
               waiting' = Without(waiting, i), pc' = [pc EXCEPT ![c] = "idle"]
        PROVE  LaneInv'
    <3>1. /\ waiting' \in Seq(Clients)
          /\ Injective(waiting')
          /\ Queued' = Queued \ {c}
      <4>1. Queued = Elems(waiting) /\ Queued' = Elems(waiting')
        BY DEF Queued, Elems
      <4>2. Injective(waiting)
        BY DEF Injective
      <4> QED
        BY <2>1, <4>1, <4>2, WithoutType, WithoutElems
    <3>2. \A d \in Clients : Owns(d)' <=> Owns(d)
      BY <1>6, <2>1, <3>1 DEF LeaveQueue, Owns, Queued
    <3> QED
      BY <1>6, <2>1, <3>1, <3>2
         DEF LeaveQueue, OneOwner, NoLostGrant, Injective, Eligible
  <2>2. CASE c \notin Queued /\ pc' = [pc EXCEPT ![c] = "handing"]
                             /\ UNCHANGED waiting
    BY <1>6, <2>2 DEF LeaveQueue, OneOwner, NoLostGrant, Queued, Owns, Eligible
  <2> QED BY <1>6, <2>1, <2>2 DEF LeaveQueue
<1>7. ASSUME NEW c \in Clients, Release(c) PROVE LaneInv'
  <2>0. c \notin Queued /\ Owns(c)
    BY <1>7 DEF Release, Owns
  <2>1. CASE held' = FALSE /\ waiting' = waiting
             /\ \A d \in Queued : ~Eligible(Prio[d], claiming)
    <3>1. \A d \in Clients : ~Owns(d)'
      BY <1>7, <2>0, <2>1 DEF Release, Owns, Queued, OneOwner
    <3> QED
      <4>1. Queued' = Queued
        BY <2>1 DEF Queued
      <4>0. \A d \in Queued : d \in Clients /\ d # c
        BY <2>0 DEF Queued
      <4>a. TypeOK'
        BY <1>7, <2>1 DEF Release
      <4>b. \A d \in Queued' : pc'[d] \in {"blocked", "leaving"}
        BY <1>7, <4>0, <4>1 DEF Release
      <4>2. TypeOK' /\ QueueIsBlockedOnce'
        BY <2>1, <4>a, <4>b DEF QueueIsBlockedOnce
      <4>3. OneOwner'
        BY <2>1, <3>1 DEF OneOwner
      <4>4. NoLostGrant'
        BY <1>7, <2>1, <4>1 DEF Release, NoLostGrant
      <4> QED
        BY <4>2, <4>3, <4>4
  <2>2. ASSUME NEW i \in DOMAIN waiting, held' = TRUE,
               waiting' \in Seq(Clients), Injective(waiting'),
               Queued' = Queued \ {waiting[i]}
        PROVE  LaneInv'
    <3>1. waiting[i] \in Queued /\ waiting[i] \in Clients
      BY DEF Queued
    <3>2. \A d \in Clients : Owns(d)' <=> d = waiting[i]
      BY <1>7, <2>0, <2>2, <3>1 DEF Release, Owns, OneOwner
    <3> QED
      BY <1>7, <2>0, <2>2, <3>1, <3>2
         DEF Release, OneOwner, NoLostGrant, Injective
  <2> QED
    BY <1>7, <2>1, <2>2, GrantEffect DEF Release, Injective
<1> QED
  BY <1>0, <1>1, <1>2, <1>3, <1>4, <1>5, <1>6, <1>7 DEF Next

(* The queue is a sequence of clients, and every client is where the code  *)
(* can be.                                                                 *)
THEOREM LaneTypes == Spec => []TypeOK
<1>1. Spec => []LaneInv
  BY LaneInvInit, LaneInvStep, PTL DEF Spec
<1> QED
  BY <1>1, PTL DEF LaneInv

(* The lane has one owner in every reachable state, for any number of      *)
(* clients: no two of Seek previews and Markers are ever at work at once.  *)
THEOREM LaneMutualExclusion == Spec => []OneOwner
<1>1. Spec => []LaneInv
  BY LaneInvInit, LaneInvStep, PTL DEF Spec
<1> QED
  BY <1>1, PTL DEF LaneInv

(* No grant is lost: whenever the lane is free, nobody in the queue may    *)
(* take it.                                                                *)
THEOREM LaneNoLostGrant == Spec => []NoLostGrant
<1>1. Spec => []LaneInv
  BY LaneInvInit, LaneInvStep, PTL DEF Spec
<1> QED
  BY <1>1, PTL DEF LaneInv

-----------------------------------------------------------------------------
(* The client grant chooses has nobody better waiting and no better claim. *)
LEMMA BestIsNext ==
    ASSUME NEW K \in SUBSET Clients, waiting \in Seq(Clients),
           NEW i \in Best(waiting, K)
    PROVE  /\ Abstract!IsNext(waiting[i], Queued, K)
           /\ \A j \in DOMAIN waiting :
                 j < i => Prio[waiting[j]] # Prio[waiting[i]]
<1> USE LaneConstants
<1>0. /\ i \in DOMAIN waiting /\ i \in Nat
      /\ \A j \in DOMAIN waiting : j \in Nat /\ waiting[j] \in Clients
      /\ Eligible(Prio[waiting[i]], K)
  BY DEF Best
<1>1. \A d \in K : Prio[waiting[i]] <= Prio[d]
  BY <1>0 DEF Eligible
<1>2. ASSUME NEW j \in DOMAIN waiting
      PROVE  /\ Prio[waiting[i]] <= Prio[waiting[j]]
             /\ j < i => Prio[waiting[j]] # Prio[waiting[i]]
  <2>1. CASE Eligible(Prio[waiting[j]], K)
    BY <1>0, <2>1 DEF Best
  <2>2. CASE ~Eligible(Prio[waiting[j]], K)
    <3>1. PICK d \in K : Prio[d] < Prio[waiting[j]]
      BY <2>2 DEF Eligible
    <3> QED
      BY <1>0, <1>1, <3>1
  <2> QED BY <2>1, <2>2
<1> QED
  BY <1>1, <1>2 DEF Abstract!IsNext, Queued

(* Acquire's fast path: a client that may take the free lane has nobody    *)
(* better in the queue, because nobody in the queue may take it.           *)
LEMMA FastPathIsNext ==
    ASSUME LaneInv, ~held, NEW c \in Clients, Eligible(Prio[c], claiming)
    PROVE  /\ Abstract!IsNext(c, Queued, claiming)
           /\ \A d \in Queued : Prio[d] # Prio[c]
<1> USE LaneConstants DEF LaneInv, TypeOK
<1>1. \A d \in claiming : Prio[c] <= Prio[d]
  BY DEF Eligible
<1>2. ASSUME NEW d \in Queued PROVE Prio[c] < Prio[d]
  <2>1. d \in Clients /\ ~Eligible(Prio[d], claiming)
    BY DEF Queued, NoLostGrant
  <2>2. PICK e \in claiming : Prio[e] < Prio[d]
    BY <2>1 DEF Eligible
  <2> QED
    BY <1>1, <2>1, <2>2
<1>3. \A d \in Queued : d \in Clients
  BY DEF Queued
<1> QED
  BY <1>1, <1>2, <1>3 DEF Abstract!IsNext

(* Owner names the one client that has the lane, before and after a step.  *)
LEMMA OwnerIs ==
    LaneInv => /\ \A c \in Clients : Owns(c) <=> Owner = c
               /\ ~held <=> Owner = NoClient
               /\ Owner \in Clients \cup {NoClient}
BY LaneConstants DEF LaneInv, OneOwner, Owner

LEMMA OwnerIsNext ==
    LaneInv' => /\ \A c \in Clients : Owns(c)' <=> Owner' = c
                /\ ~held' <=> Owner' = NoClient
                /\ Owner' \in Clients \cup {NoClient}
BY LaneConstants DEF LaneInv, OneOwner, Owner

(* Who has the lane after a step, in the terms of the step.                *)
LEMMA SameOwner ==
    ASSUME LaneInv, LaneInv', held' = held,
           \A d \in Clients : Owns(d)' <=> Owns(d)
    PROVE  Owner' = Owner
BY OwnerIs, OwnerIsNext

LEMMA RefinementStep ==
    LaneInv /\ LaneInv' /\ [Next]_vars => [Abstract!Next]_(Abstract!vars)
<1> SUFFICES ASSUME LaneInv, LaneInv', [Next]_vars
             PROVE  [Abstract!Next]_(Abstract!vars)
  OBVIOUS
<1> USE LaneConstants
<1>0. CASE UNCHANGED vars
  BY <1>0 DEF vars, Abstract!vars, Owner, Owns, Queued
<1>q. Queued \subseteq Clients /\ Injective(waiting) /\ waiting \in Seq(Clients)
      /\ claiming \subseteq Clients
  BY DEF LaneInv, TypeOK, Queued, QueueIsBlockedOnce, Injective
<1>1. ASSUME NEW c \in Clients, Claim(c) PROVE Abstract!Claim(c)
  <2>1. Queued' = Queued /\ \A d \in Clients : Owns(d)' <=> Owns(d)
    BY <1>1 DEF Claim, Queued, Owns
  <2>2. Owner' = Owner
    BY <1>1, <2>1, SameOwner DEF Claim
  <2> QED
    BY <1>1, <2>1, <2>2 DEF Claim, Abstract!Claim
<1>g. ASSUME NEW K \in SUBSET Clients, NEW i \in Best(waiting, K),
             i \in DOMAIN waiting, waiting' = Without(waiting, i),
             Queued' = Queued \ {waiting[i]}, NEW c \in Clients,
             pc' = pc \/ pc' = [pc EXCEPT ![c] = "idle"],
             c \notin Queued
      PROVE  \E d \in Queued : /\ Abstract!IsNext(d, Queued, K)
                               /\ Owner' = d
                               /\ Queued' = Queued \ {d}
  <2>1. PICK d \in Queued : /\ Abstract!IsNext(d, Queued, K)
                           /\ Queued' = Queued \ {d}
    BY <1>g, <1>q, BestIsNext DEF Queued
  <2>2. pc'[d] \in {"blocked", "leaving"}
    BY <1>g, <1>q, <2>1 DEF LaneInv, QueueIsBlockedOnce, TypeOK
  <2>3. Owns(d)'
    BY <2>1, <2>2 DEF Owns
  <2>4. Owner' = d
    BY <1>q, <2>1, <2>3, OwnerIsNext
  <2> QED
    BY <2>1, <2>4
<1>2. ASSUME NEW c \in Clients, Unclaim(c) PROVE Abstract!Unclaim(c)
  <2>0. c \in claiming /\ claiming' = claiming \ {c} /\ pc' = pc
        /\ c \notin Queued
    BY <1>2 DEF Unclaim, LaneInv, QueueIsBlockedOnce, Running
  <2>1. CASE UNCHANGED <<held, waiting>>
    <3>1. Queued' = Queued /\ \A d \in Clients : Owns(d)' <=> Owns(d)
      BY <2>0, <2>1 DEF Queued, Owns
    <3>2. Owner' = Owner
      BY <2>1, <3>1, SameOwner
    <3> QED BY <2>0, <3>1, <3>2 DEF Abstract!Unclaim
  <2>2. CASE ~held /\ GrantFree(waiting, claiming')
    <3>1. CASE held' = FALSE /\ waiting' = waiting
      BY <2>1, <2>2, <3>1 DEF LaneInv, TypeOK
    <3>2. ASSUME NEW i \in Best(waiting, claiming'), i \in DOMAIN waiting,
                 waiting' = Without(waiting, i),
                 Queued' = Queued \ {waiting[i]}
          PROVE  Abstract!Unclaim(c)
      <4>1. claiming' \in SUBSET Clients
        BY <1>q, <2>0
      <4>2. \E d \in Queued : /\ Abstract!IsNext(d, Queued, claiming')
                              /\ Owner' = d /\ Queued' = Queued \ {d}
        BY <1>g, <2>0, <3>2, <4>1
      <4>3. Owner = NoClient
        BY <2>2, OwnerIs
      <4> QED BY <2>0, <4>2, <4>3 DEF Abstract!Unclaim
    <3> QED BY <1>q, <2>2, <3>1, <3>2, GrantEffect
  <2> QED BY <1>2, <2>1, <2>2 DEF Unclaim
<1>3. ASSUME NEW c \in Clients, Acquire(c)
      PROVE  Abstract!Take(c) \/ Abstract!Ask(c)
  <2>0. pc[c] = "idle" /\ claiming' = claiming /\ c \notin Queued /\ ~Owns(c)
    BY <1>3 DEF Acquire, LaneInv, QueueIsBlockedOnce, Owns
  <2>1. CASE /\ ~held /\ Eligible(Prio[c], claiming)
             /\ held' = TRUE /\ pc' = [pc EXCEPT ![c] = "holding"]
             /\ UNCHANGED waiting
    <3>1. Owner' = c
      <4>1. pc'[c] = "holding"
        BY <2>1 DEF LaneInv, TypeOK
      <4> QED BY <4>1, OwnerIsNext DEF Owns
    <3>2. Owner = NoClient /\ Queued' = Queued
      BY <2>1, OwnerIs DEF Queued
    <3> QED
      BY <2>0, <2>1, <3>1, <3>2, FastPathIsNext DEF Abstract!Take
  <2>2. CASE /\ waiting' = Append(waiting, c)
             /\ pc' = [pc EXCEPT ![c] = "blocked"]
             /\ UNCHANGED held
    <3>1. Queued' = Queued \cup {c}
      <4>1. /\ DOMAIN waiting' = DOMAIN waiting \cup {Len(waiting) + 1}
            /\ Len(waiting) + 1 \notin DOMAIN waiting
            /\ \A i \in DOMAIN waiting : waiting'[i] = waiting[i]
            /\ waiting'[Len(waiting) + 1] = c
        BY <1>q, <2>2
      <4> QED BY <4>1 DEF Queued
    <3>2. \A d \in Clients : Owns(d)' <=> Owns(d)
      BY <2>0, <2>2, <3>1 DEF Owns, LaneInv, TypeOK
    <3>3. Owner' = Owner /\ Owner # c
      BY <2>0, <2>2, <3>2, SameOwner, OwnerIs
    <3> QED
      BY <2>0, <3>1, <3>3 DEF Abstract!Ask
  <2> QED BY <1>3, <2>1, <2>2 DEF Acquire
<1>4. ASSUME NEW c \in Clients, Wake(c) \/ ContextEnds(c)
      PROVE  UNCHANGED Abstract!vars
  <2>1. Queued' = Queued /\ held' = held /\ claiming' = claiming
    BY <1>4 DEF Wake, ContextEnds, Queued
  <2>2. \A d \in Clients : Owns(d)' <=> Owns(d)
    BY <1>4, <2>1 DEF Wake, ContextEnds, Owns, LaneInv, TypeOK
  <2>3. Owner' = Owner
    BY <2>1, <2>2, SameOwner
  <2> QED BY <2>1, <2>3 DEF Abstract!vars
<1>5. ASSUME NEW c \in Clients, LeaveQueue(c)
      PROVE  Abstract!GiveUp(c) \/ UNCHANGED Abstract!vars
  <2>0. held' = held /\ claiming' = claiming /\ pc[c] = "leaving"
    BY <1>5 DEF LeaveQueue
  <2>1. ASSUME NEW i \in DOMAIN waiting, waiting[i] = c,
               waiting' = Without(waiting, i), pc' = [pc EXCEPT ![c] = "idle"]
        PROVE  Abstract!GiveUp(c)
    <3>1. c \in Queued /\ Queued' = Queued \ {c}
      <4>1. Queued = Elems(waiting) /\ Queued' = Elems(waiting')
        BY DEF Queued, Elems
      <4> QED BY <1>q, <2>1, <4>1, WithoutElems DEF Queued
    <3>2. \A d \in Clients : Owns(d)' <=> Owns(d)
      BY <2>0, <2>1, <3>1 DEF Owns, LaneInv, TypeOK
    <3>3. Owner' = Owner
      BY <2>0, <3>2, SameOwner
    <3> QED BY <2>0, <3>1, <3>3 DEF Abstract!GiveUp
  <2>2. CASE /\ c \notin Queued /\ pc' = [pc EXCEPT ![c] = "handing"]
             /\ UNCHANGED waiting
    <3>1. Queued' = Queued
      BY <2>2 DEF Queued
    <3>2. \A d \in Clients : Owns(d)' <=> Owns(d)
      BY <2>0, <2>2, <3>1 DEF Owns, LaneInv, TypeOK
    <3>3. Owner' = Owner
      BY <2>0, <3>2, SameOwner
    <3> QED BY <2>0, <3>1, <3>3 DEF Abstract!vars
  <2> QED BY <1>5, <2>1, <2>2 DEF LeaveQueue
<1>6. ASSUME NEW c \in Clients, Release(c) PROVE Abstract!Release(c)
  <2>0. /\ pc' = [pc EXCEPT ![c] = "idle"] /\ claiming' = claiming
        /\ c \notin Queued /\ Owner = c /\ GrantFree(waiting, claiming)
    BY <1>6, OwnerIs DEF Release, LaneInv, QueueIsBlockedOnce, Owns
  <2>1. CASE held' = FALSE /\ waiting' = waiting
    <3>1. Owner' = NoClient /\ Queued' = Queued
      BY <2>1, OwnerIsNext DEF Queued
    <3> QED BY <2>0, <3>1 DEF Abstract!Release
  <2>2. ASSUME NEW i \in Best(waiting, claiming), i \in DOMAIN waiting,
               waiting' = Without(waiting, i),
               Queued' = Queued \ {waiting[i]}
        PROVE  Abstract!Release(c)
    <3>1. \E d \in Queued : /\ Abstract!IsNext(d, Queued, claiming)
                            /\ Owner' = d /\ Queued' = Queued \ {d}
      BY <1>g, <1>q, <2>0, <2>2
    <3> QED BY <2>0, <3>1 DEF Abstract!Release
  <2> QED BY <1>q, <2>0, <2>1, <2>2, GrantEffect
<1> QED
  BY <1>0, <1>1, <1>2, <1>3, <1>4, <1>5, <1>6 DEF Next, Abstract!Next

(* The code of bglane implements the lane package bglane promises.         *)
THEOREM LaneRefinesPriorityLane == Spec => ImplementsPriorityLane
<1>1. Init => Abstract!Init
  <2> SUFFICES ASSUME Init PROVE Abstract!Init
    OBVIOUS
  <2>1. Queued = {}
    BY DEF Init, Queued
  <2>2. Owner = NoClient
    BY LaneInvInit, OwnerIs DEF Init
  <2> QED BY <2>1, <2>2 DEF Init, Abstract!Init
<1>2. Spec => []LaneInv
  BY LaneInvInit, LaneInvStep, PTL DEF Spec
<1> QED
  BY <1>1, <1>2, RefinementStep, PTL DEF Spec, ImplementsPriorityLane, Abstract!Spec

-----------------------------------------------------------------------------
(* Whoever comes to own the lane has nobody better waiting and no better   *)
(* claim before it.                                                        *)
LEMMA NewOwnerIsNext ==
    ASSUME LaneInv, LaneInv', [Next]_vars, NEW c \in Clients, ~Owns(c), Owns(c)'
    PROVE  \A d \in Queued \cup claiming' : Prio[c] <= Prio[d]
<1>1. Owner # c /\ Owner' = c /\ c # NoClient
  BY OwnerIs, OwnerIsNext, LaneConstants
<1>2. Abstract!Next
  BY <1>1, RefinementStep DEF Abstract!vars
<1>3. PICK d \in Clients : \/ Abstract!Claim(d) \/ Abstract!Unclaim(d) \/ Abstract!Take(d)
                           \/ Abstract!Ask(d) \/ Abstract!GiveUp(d) \/ Abstract!Release(d)
  BY <1>2 DEF Abstract!Next
<1>4. CASE Abstract!Claim(d) \/ Abstract!Ask(d) \/ Abstract!GiveUp(d)
  BY <1>1, <1>4 DEF Abstract!Claim, Abstract!Ask, Abstract!GiveUp
<1>5. CASE Abstract!Take(d)
  BY <1>1, <1>5 DEF Abstract!Take, Abstract!IsNext
<1>6. CASE Abstract!Unclaim(d)
  BY <1>1, <1>6 DEF Abstract!Unclaim, Abstract!IsNext
<1>7. CASE Abstract!Release(d)
  BY <1>1, <1>7 DEF Abstract!Release, Abstract!IsNext
<1> QED
  BY <1>3, <1>4, <1>5, <1>6, <1>7

(* A waiter that is granted the lane was the oldest of its priority.       *)
LEMMA NewOwnerIsOldest ==
    ASSUME LaneInv, LaneInv', [Next]_vars,
           NEW c \in Clients, ~Owns(c), Owns(c)',
           NEW i \in DOMAIN waiting, NEW j \in DOMAIN waiting, waiting[j] = c, i < j
    PROVE  Prio[waiting[i]] # Prio[c]
<1>0. /\ waiting \in Seq(Clients) /\ Injective(waiting) /\ claiming \in SUBSET Clients
      /\ c \in Queued /\ pc[c] \in {"blocked", "leaving"}
      /\ \A k \in DOMAIN waiting : k \in Nat
  BY DEF LaneInv, TypeOK, QueueIsBlockedOnce, Injective, Queued
<1>1. ASSUME NEW K \in SUBSET Clients, GrantFree(waiting, K), c \notin Queued'
      PROVE  Prio[waiting[i]] # Prio[c]
  <2>1. PICK k \in Best(waiting, K) : k \in DOMAIN waiting /\ Queued' = Queued \ {waiting[k]}
    BY <1>0, <1>1, GrantEffect DEF Queued
  <2>2. k = j
    BY <1>0, <1>1, <2>1 DEF Injective
  <2> QED
    BY <1>0, <2>1, <2>2, BestIsNext
<1>2. ASSUME NEW d \in Clients, Claim(d) \/ Wake(d) \/ ContextEnds(d) PROVE FALSE
  BY <1>0, <1>2 DEF Claim, Wake, ContextEnds, Owns, Queued, LaneInv, TypeOK
<1>3. ASSUME NEW d \in Clients, Unclaim(d) PROVE Prio[waiting[i]] # Prio[c]
  <2>1. c \notin Queued' /\ claiming' \in SUBSET Clients
    BY <1>0, <1>3 DEF Unclaim, Owns
  <2>2. CASE UNCHANGED waiting
    BY <1>0, <2>1, <2>2 DEF Queued
  <2> QED
    BY <1>1, <1>3, <2>1, <2>2 DEF Unclaim
<1>4. ASSUME NEW d \in Clients, Acquire(d) PROVE FALSE
  <2>1. d # c /\ pc'[c] = pc[c]
    BY <1>0, <1>4 DEF Acquire, LaneInv, TypeOK
  <2>2. c \in Queued'
    <3>1. CASE UNCHANGED waiting
      BY <1>0, <3>1 DEF Queued
    <3>2. CASE waiting' = Append(waiting, d)
      <4>1. j \in DOMAIN waiting' /\ waiting'[j] = c
        BY <1>0, <3>2
      <4> QED BY <4>1 DEF Queued
    <3> QED BY <1>4, <3>1, <3>2 DEF Acquire
  <2> QED
    BY <1>0, <2>1, <2>2 DEF Owns
<1>5. ASSUME NEW d \in Clients, LeaveQueue(d) PROVE FALSE
  <2>1. CASE d = c
    BY <1>0, <1>5, <2>1 DEF LeaveQueue, Owns, LaneInv, TypeOK
  <2>2. CASE d # c
    <3>1. pc'[c] = pc[c]
      BY <1>0, <1>5, <2>2 DEF LeaveQueue, LaneInv, TypeOK
    <3>2. c \in Queued'
      <4>1. CASE UNCHANGED waiting
        BY <1>0, <4>1 DEF Queued
      <4>2. ASSUME NEW k \in DOMAIN waiting, waiting[k] = d, waiting' = Without(waiting, k)
            PROVE  c \in Queued'
        <5>1. Queued = Elems(waiting) /\ Queued' = Elems(waiting')
          BY DEF Queued, Elems
        <5> QED BY <1>0, <2>2, <4>2, <5>1, WithoutElems
      <4> QED BY <1>5, <4>1, <4>2 DEF LeaveQueue
    <3> QED
      BY <1>0, <3>1, <3>2 DEF Owns
  <2> QED BY <2>1, <2>2
<1>6. ASSUME NEW d \in Clients, Release(d) PROVE Prio[waiting[i]] # Prio[c]
  <2>1. d # c /\ pc'[c] = pc[c]
    BY <1>0, <1>6 DEF Release, LaneInv, TypeOK
  <2>2. c \notin Queued'
    BY <1>0, <2>1 DEF Owns
  <2> QED
    BY <1>0, <1>1, <1>6, <2>2 DEF Release
<1>7. CASE UNCHANGED vars
  BY <1>7 DEF vars, Owns, Queued
<1> QED
  BY <1>2, <1>3, <1>4, <1>5, <1>6, <1>7 DEF Next

(* Whoever gets the lane was the next in line, by priority and then by     *)
(* arrival, also on Acquire's fast path, which never looks at the queue.   *)
THEOREM LaneBestFirst == Spec => BestFirst
<1>1. Spec => []LaneInv
  BY LaneInvInit, LaneInvStep, PTL DEF Spec
<1>2. ASSUME LaneInv, LaneInv', [Next]_vars, NEW c \in Clients, ~Owns(c), Owns(c)'
      PROVE  /\ \A d \in Queued \cup claiming' : d # c => Prio[c] <= Prio[d]
             /\ \A i, j \in DOMAIN waiting :
                   (waiting[j] = c /\ i < j) => Prio[waiting[i]] # Prio[c]
  BY <1>2, NewOwnerIsNext, NewOwnerIsOldest
<1>3. LaneInv /\ LaneInv' /\ [Next]_vars =>
        \A c \in Clients : ~Owns(c) /\ Owns(c)' =>
          /\ \A d \in Queued \cup claiming' : d # c => Prio[c] <= Prio[d]
          /\ \A i, j \in DOMAIN waiting :
                (waiting[j] = c /\ i < j) => Prio[waiting[i]] # Prio[c]
  BY <1>2
<1> QED
  BY <1>1, <1>3, PTL DEF Spec, BestFirst

-----------------------------------------------------------------------------
(* The two workers.                                                        *)

\* A worker is at its work only in the turn it was given.
AtWorkHolding ==
    /\ generator = "step" => pc[Generator] = "holding"
    /\ Listening => pc[Detector] = "holding"

WorkInv == TypeOK /\ "at" \in DOMAIN detector /\ AtWorkHolding

LEMMA TheTwoClients == Generator \in Clients /\ Detector \in Clients /\ Generator # Detector
BY WorkConstants

(* A step of either worker is a step of the lane, or none.                 *)
LEMMA LaneStep == [WorkNext]_workVars => [Next]_vars
<1> SUFFICES ASSUME [WorkNext]_workVars PROVE [Next]_vars
  OBVIOUS
<1> USE TheTwoClients
<1>1. CASE GeneratorLoop
  BY <1>1 DEF GeneratorLoop, GeneratorClaims, GeneratorAsks, GeneratorSteps, GeneratorReleases,
              GeneratorGivesUp, GeneratorUnclaims, GeneratorLeaves, Next
<1>2. CASE DetectorLoop
  BY <1>2 DEF DetectorLoop, DetectorTakes, DetectorAsks, DetectorBegins, DetectorWorks,
              DetectorReleases, DetectorCutShort, DetectorGivesUp, DetectorLeaves, Next
<1>3. ASSUME NEW c \in Clients, InAcquire(c) PROVE [Next]_vars
  BY <1>3 DEF InAcquire, Next
<1>4. CASE Queue \/ Outside \/ Close \/ DetectorClosed \/ Closed \/ Boot
  BY <1>4 DEF Queue, Outside, FromOutside, Close, DetectorClosed, Closed, Boot
<1>5. CASE UNCHANGED workVars
  BY <1>5 DEF workVars
<1> QED
  BY <1>1, <1>2, <1>3, <1>4, <1>5 DEF WorkNext

(* The Server's use of the lane is a use BackgroundLane allows.            *)
THEOREM WorkUsesTheLane == WorkSpec => Spec
<1>1. WorkInit => Init
  BY DEF WorkInit
<1> QED
  BY <1>1, LaneStep, PTL DEF WorkSpec, Spec

(* What the workers and their shutdowns make of the lane is what package   *)
(* bglane promises: PriorityLane's lane.                                   *)
THEOREM WorkKeepsThePromise == WorkSpec => ImplementsPriorityLane
BY WorkUsesTheLane, LaneRefinesPriorityLane, PTL

-----------------------------------------------------------------------------
LEMMA WorkInvInit == WorkInit => WorkInv
<1> SUFFICES ASSUME WorkInit PROVE WorkInv
  OBVIOUS
<1>1. TypeOK
  BY LaneInvInit DEF WorkInit, LaneInv
<1>2. "at" \in DOMAIN detector /\ ~Listening /\ generator # "step"
  BY DEF WorkInit, DetectionInit, Idle, Listening
<1> QED
  BY <1>1, <1>2 DEF WorkInv, AtWorkHolding

(* Each of the detector's steps leads where it says.                       *)
LEMMA DetectorShape ==
    ASSUME "at" \in DOMAIN detector
    PROVE  /\ \A a : Detecting(a) => detector'.at = a /\ "at" \in DOMAIN detector'
           /\ Leave => ~Listening' /\ "at" \in DOMAIN detector'
           /\ NextJob \/ Resolve \/ JobDone => ~Listening' /\ "at" \in DOMAIN detector'
           /\ \A s : AskLane(s) => ~Listening' /\ "at" \in DOMAIN detector'
           /\ SeasonDone => ~Listening' /\ "at" \in DOMAIN detector'
           /\ Begin => "at" \in DOMAIN detector'
           /\ DetectSeason => Listening /\ "at" \in DOMAIN detector'
<1>1. \A a : Detecting(a) => detector'.at = a /\ "at" \in DOMAIN detector'
  BY DEF Detecting
<1>2. Leave => ~Listening' /\ "at" \in DOMAIN detector'
  BY DEF Leave, Idle, Listening
<1>3. NextJob \/ Resolve \/ JobDone => ~Listening' /\ "at" \in DOMAIN detector'
  <2>0. Idle.at = "wait" /\ "at" \in DOMAIN Idle
    BY DEF Idle
  <2>1. NextJob => detector'.at = "resolve" /\ "at" \in DOMAIN detector'
    BY <2>0 DEF NextJob
  <2>2. CASE Resolve
    <3>1. \/ detector' = Idle
          \/ detector'.at = "season" /\ "at" \in DOMAIN detector'
      BY <2>2 DEF Resolve
    <3> QED BY <2>0, <3>1 DEF Listening
  <2>3. JobDone => detector' = Idle
    BY DEF JobDone
  <2> QED
    BY <2>0, <2>1, <2>2, <2>3 DEF Listening
<1>4. \A s : AskLane(s) => ~Listening' /\ "at" \in DOMAIN detector'
  BY DEF AskLane, Listening
<1>5. SeasonDone => ~Listening' /\ "at" \in DOMAIN detector'
  BY DEF SeasonDone, Listening
<1>6. Begin => "at" \in DOMAIN detector'
  BY <1>1 DEF Begin
<1>7. DetectSeason => Listening /\ "at" \in DOMAIN detector'
  <2>1. RecordDecode => Listening /\ "at" \in DOMAIN detector'
    BY <1>1 DEF RecordDecode, Listening
  <2>2. Compare \/ SavesDone => Listening /\ "at" \in DOMAIN detector'
    BY <1>1 DEF Compare, SavesDone, Listening
  <2>3. ASSUME NEW f \in Files, Listen(f) \/ Save(f) PROVE Listening /\ "at" \in DOMAIN detector'
    BY <1>1, <2>3 DEF Listen, Save, Listening
  <2> QED
    BY <2>1, <2>2, <2>3 DEF DetectSeason
<1> QED
  BY <1>1, <1>2, <1>3, <1>4, <1>5, <1>6, <1>7

LEMMA WorkInvStep == WorkInv /\ TypeOK' /\ [WorkNext]_workVars => WorkInv'
<1> SUFFICES ASSUME WorkInv, TypeOK', [WorkNext]_workVars PROVE WorkInv'
  OBVIOUS
<1> USE TheTwoClients DEF WorkInv, AtWorkHolding
<1>1. CASE GeneratorLoop
  <2>0. detector' = detector /\ Listening' = Listening
    BY <1>1 DEF GeneratorLoop, GeneratorClaims, GeneratorAsks, GeneratorSteps, GeneratorReleases,
                GeneratorGivesUp, GeneratorUnclaims, GeneratorLeaves, detection, Listening
  <2>1. pc'[Detector] = pc[Detector]
    BY <1>1 DEF GeneratorLoop, GeneratorClaims, GeneratorAsks, GeneratorSteps, GeneratorReleases,
                GeneratorGivesUp, GeneratorUnclaims, GeneratorLeaves, vars, TypeOK,
                Claim, Acquire, Release, Unclaim
  <2>2. generator' = "step" => pc'[Generator] = "holding"
    BY <1>1 DEF GeneratorLoop, GeneratorClaims, GeneratorAsks, GeneratorSteps, GeneratorReleases,
                GeneratorGivesUp, GeneratorUnclaims, GeneratorLeaves, vars
  <2> QED
    BY <2>0, <2>1, <2>2
<1>2. CASE DetectorLoop
  <2>0. generator' = generator
    BY <1>2 DEF DetectorLoop, DetectorTakes, DetectorAsks, DetectorBegins, DetectorWorks,
                DetectorReleases, DetectorCutShort, DetectorGivesUp, DetectorLeaves
  <2>1. pc'[Generator] = pc[Generator]
    BY <1>2 DEF DetectorLoop, DetectorTakes, DetectorAsks, DetectorBegins, DetectorWorks,
                DetectorReleases, DetectorCutShort, DetectorGivesUp, DetectorLeaves, vars, TypeOK,
                Acquire, Release
  <2>2. "at" \in DOMAIN detector' /\ (Listening' => pc'[Detector] = "holding")
    <3>1. CASE DetectorTakes \/ DetectorAsks \/ DetectorReleases
      BY <3>1, DetectorShape DEF DetectorTakes, DetectorAsks, DetectorReleases
    <3>2. CASE DetectorCutShort \/ DetectorGivesUp \/ DetectorLeaves
      BY <3>2, DetectorShape DEF DetectorCutShort, DetectorGivesUp, DetectorLeaves
    <3>3. CASE DetectorBegins
      BY <3>3, DetectorShape DEF DetectorBegins, vars
    <3>4. CASE DetectorWorks
      BY <3>4, DetectorShape DEF DetectorWorks, vars
    <3> QED
      BY <1>2, <3>1, <3>2, <3>3, <3>4 DEF DetectorLoop
  <2> QED
    BY <2>0, <2>1, <2>2
<1>3. ASSUME NEW c \in Clients, InAcquire(c) PROVE WorkInv'
  <2>1. \A d \in Clients : pc[d] = "holding" => pc'[d] = "holding"
    BY <1>3 DEF InAcquire, Wake, ContextEnds, LeaveQueue, Release, TypeOK
  <2>2. generator' = generator /\ detector' = detector
    BY <1>3 DEF InAcquire, detection
  <2> QED
    BY <2>1, <2>2 DEF Listening
<1>4. CASE Queue \/ Outside \/ Close \/ DetectorClosed \/ Boot \/ UNCHANGED workVars
  <2>1. pc' = pc /\ generator' = generator
    BY <1>4 DEF Queue, Outside, FromOutside, Close, DetectorClosed, Boot, workVars, vars
  <2>2. detector' = detector
    BY <1>4 DEF Queue, Outside, FromOutside, Close, DetectorClosed, Boot, workVars, detection,
                Rewrite, ScanRow, Toggle, Transcode, AfterScan, DetectShow
  <2> QED
    BY <2>1, <2>2 DEF Listening
<1>5. CASE Closed
  BY <1>5 DEF Closed, Idle, Listening
<1> QED
  BY <1>1, <1>2, <1>3, <1>4, <1>5 DEF WorkNext

(* One heavy job at a time, in its own turn: neither a grant that races a  *)
(* shutdown nor a store that fails lets the other in.                      *)
THEOREM OneHeavyJob == WorkSpec => []OneAtWork
<1>1. WorkSpec => []TypeOK
  BY WorkUsesTheLane, LaneTypes, PTL
<1>2. WorkSpec => []WorkInv
  BY <1>1, WorkInvInit, WorkInvStep, PTL DEF WorkSpec
<1>3. WorkSpec => []OneOwner
  BY WorkUsesTheLane, LaneMutualExclusion, PTL
<1>4. WorkInv /\ OneOwner => OneAtWork
  BY TheTwoClients DEF WorkInv, AtWorkHolding, OneAtWork, Owns
<1> QED
  BY <1>2, <1>3, <1>4, PTL

-----------------------------------------------------------------------------
Draining == generator \in {"drain", "ask", "step"}

\* The claim stands from the first File of a drain to its last.
ClaimInv == /\ generator \in {"wait", "drain", "ask", "step", "done"}
            /\ Draining => Generator \in claiming

LEMMA ClaimInvStep == ClaimInv /\ [WorkNext]_workVars => ClaimInv'
<1> SUFFICES ASSUME ClaimInv, [WorkNext]_workVars PROVE ClaimInv'
  OBVIOUS
<1> USE TheTwoClients DEF ClaimInv, Draining
<1>1. CASE GeneratorLoop
  BY <1>1 DEF GeneratorLoop, GeneratorClaims, GeneratorAsks, GeneratorSteps, GeneratorReleases,
              GeneratorGivesUp, GeneratorUnclaims, GeneratorLeaves, vars, Claim, Acquire, Release
<1>2. CASE DetectorLoop
  BY <1>2 DEF DetectorLoop, DetectorTakes, DetectorAsks, DetectorBegins, DetectorWorks,
              DetectorReleases, DetectorCutShort, DetectorGivesUp, DetectorLeaves, vars,
              Acquire, Release
<1>3. ASSUME NEW c \in Clients, InAcquire(c) PROVE ClaimInv'
  BY <1>3 DEF InAcquire, Wake, ContextEnds, LeaveQueue, Release
<1>4. CASE Queue \/ Outside \/ Close \/ DetectorClosed \/ Closed \/ Boot \/ UNCHANGED workVars
  BY <1>4 DEF Queue, Outside, FromOutside, Close, DetectorClosed, Closed, Boot, workVars, vars
<1> QED
  BY <1>1, <1>2, <1>3, <1>4 DEF WorkNext

(* A drain ends, or never began, before the detector's turn comes: the     *)
(* claim outlives each release of the lane between two Files.              *)
THEOREM PreviewsAreFirst == WorkSpec => PreviewsGoFirst
<1>1. WorkInit => ClaimInv
  BY DEF WorkInit, ClaimInv, Draining
<1>2. WorkSpec => []ClaimInv
  BY <1>1, ClaimInvStep, PTL DEF WorkSpec
<1>3. WorkSpec => []LaneInv
  BY WorkUsesTheLane, LaneInvInit, LaneInvStep, PTL DEF Spec
<1>4. ASSUME LaneInv, LaneInv', ClaimInv, ClaimInv', [WorkNext]_workVars,
             ~Owns(Detector), Owns(Detector)'
      PROVE  \/ generator \in {"wait", "done"}
             \/ generator = "drain" /\ (previews = 0 \/ Stopping(Generator))
  <2>1. Generator \notin claiming'
    <3>1. \A d \in Queued \cup claiming' : Prio[Detector] <= Prio[d]
      BY <1>4, LaneStep, NewOwnerIsNext, TheTwoClients
    <3>2. Prio[Generator] \in Nat /\ Prio[Detector] \in Nat /\ Prio[Generator] < Prio[Detector]
      BY WorkConstants, LaneConstants, TheTwoClients
    <3> QED
      BY <3>1, <3>2
  <2>2. generator' \in {"wait", "done"}
    BY <1>4, <2>1 DEF ClaimInv, Draining
  <2>3. CASE GeneratorLoop
    BY <2>2, <2>3 DEF GeneratorLoop, GeneratorClaims, GeneratorAsks, GeneratorSteps,
                      GeneratorReleases, GeneratorGivesUp, GeneratorUnclaims, GeneratorLeaves
  <2>4. CASE DetectorLoop \/ \E c \in Clients : InAcquire(c)
    BY <2>2, <2>4 DEF DetectorLoop, DetectorTakes, DetectorAsks, DetectorBegins, DetectorWorks,
                      DetectorReleases, DetectorCutShort, DetectorGivesUp, DetectorLeaves, InAcquire
  <2>5. CASE Queue \/ Outside \/ Close \/ DetectorClosed \/ Closed \/ Boot \/ UNCHANGED workVars
    BY <2>2, <2>5 DEF Queue, Outside, FromOutside, Close, DetectorClosed, Closed, Boot, workVars
  <2> QED
    BY <1>4, <2>3, <2>4, <2>5 DEF WorkNext
<1>5. LaneInv /\ LaneInv' /\ ClaimInv /\ ClaimInv' /\ [WorkNext]_workVars =>
        (~Owns(Detector) /\ Owns(Detector)' =>
            \/ generator \in {"wait", "done"}
            \/ generator = "drain" /\ (previews = 0 \/ Stopping(Generator)))
  BY <1>4
<1> QED
  BY <1>2, <1>3, <1>5, PTL DEF WorkSpec, PreviewsGoFirst

-----------------------------------------------------------------------------
(* What the detector heard.  A number in heard is the version whose sound  *)
(* was listened to: never one the disk has not reached, and, until a row   *)
(* is written between the listening and the save, none the row is past.    *)
(* So a save stamps either the version that was heard or one the disk has  *)
(* already left behind.                                                    *)
HeardTypes ==
    /\ version \in [Files -> Versions] /\ bytes \in [Files -> Versions]
    /\ analyzed \in [Files -> Versions \cup {None}]
    /\ soundOf \in [Files -> Versions \cup {None}]
    /\ {"at", "todo", "heard"} \subseteq DOMAIN detector
    /\ detector.heard \in [Files -> Versions \cup {None, Failed}]

Behind(f) == version[f] <= bytes[f] /\ (analyzed[f] # None => analyzed[f] <= version[f])

HeardSound(f) ==
    detector.heard[f] \in Nat => /\ detector.heard[f] <= bytes[f]
                                 /\ f \notin overtaken => version[f] <= detector.heard[f]

StampedTruly(f) ==
    analyzed[f] = version[f] /\ f \notin overtaken
        => soundOf[f] = version[f] \/ version[f] < bytes[f]

HeardInv ==
    /\ HeardTypes
    /\ \A f \in Files : Behind(f) /\ HeardSound(f) /\ StampedTruly(f)
    /\ detector.at = "save" => \A f \in Files \cap detector.todo : detector.heard[f] \in Nat

Unheard == [f \in Files |-> None]

\* What every step does that neither listens, saves nor writes a version.
Quiet ==
    /\ UNCHANGED <<version, bytes, analyzed, soundOf, overtaken>>
    /\ {"at", "todo", "heard"} \subseteq DOMAIN detector'
    /\ detector'.heard \in {detector.heard, Unheard}
    /\ detector'.at = "save" =>
          detector.at = "save" /\ detector'.todo = detector.todo /\ detector'.heard = detector.heard

LEMMA QuietStep == HeardInv /\ Quiet => HeardInv'
<1> SUFFICES ASSUME HeardInv, Quiet PROVE HeardInv'
  OBVIOUS
<1>1. HeardTypes'
  BY DEF HeardInv, Quiet, HeardTypes, Unheard
<1>2. ASSUME NEW f \in Files PROVE (Behind(f) /\ HeardSound(f) /\ StampedTruly(f))'
  <2>1. detector'.heard[f] \in Nat => detector'.heard[f] = detector.heard[f]
    BY DetectionConstants DEF Quiet, Unheard
  <2> QED
    BY <2>1 DEF HeardInv, Quiet, Behind, HeardSound, StampedTruly
<1>3. (detector.at = "save" => \A f \in Files \cap detector.todo : detector.heard[f] \in Nat)'
  BY DEF HeardInv, Quiet
<1> QED
  BY <1>1, <1>2, <1>3 DEF HeardInv

LEMMA IdleHearsNothing ==
    /\ {"at", "todo", "heard"} \subseteq DOMAIN Idle
    /\ Idle.at = "wait" /\ Idle.heard = Unheard
  BY DEF Idle, Unheard

LEMMA HeardInvInit == WorkInit => HeardInv
<1> SUFFICES ASSUME WorkInit PROVE HeardInv
  OBVIOUS
<1> USE DetectionConstants, IdleHearsNothing DEF WorkInit, DetectionInit, Versions
<1>1. 0 \in Versions /\ detector.heard = Unheard /\ detector.at = "wait"
  OBVIOUS
<1>2. HeardTypes
  BY <1>1 DEF HeardTypes, Unheard
<1>3. \A f \in Files : Behind(f) /\ HeardSound(f) /\ StampedTruly(f)
  BY <1>1 DEF Behind, HeardSound, StampedTruly, Unheard
<1> QED
  BY <1>1, <1>2, <1>3 DEF HeardInv

(* Of the detector's own steps only Listen, Compare and Save do more.      *)
LEMMA WorkerIsQuiet ==
    ASSUME HeardInv
    PROVE  /\ DetectorTakes \/ DetectorBegins \/ DetectorAsks => Quiet
           /\ DetectorReleases \/ DetectorCutShort \/ DetectorGivesUp \/ DetectorLeaves => Quiet
           /\ RecordDecode \/ SavesDone => Quiet
<1> USE IdleHearsNothing DEF Quiet, HeardInv, HeardTypes, WorkerOnly, files, stored, history
<1>1. NextJob => Quiet
  BY DEF NextJob
<1>2. Resolve => Quiet
  BY DEF Resolve
<1>3. JobDone => Quiet
  BY DEF JobDone
<1>4. Begin => Quiet
  BY DEF Begin, Detecting
<1>5. ASSUME NEW s \in Seasons, AskLane(s) PROVE Quiet
  BY <1>5 DEF AskLane
<1>6. SeasonDone => Quiet
  BY DEF SeasonDone, Unheard
<1>7. Leave => Quiet
  BY DEF Leave
<1>8. RecordDecode \/ SavesDone => Quiet
  BY DEF RecordDecode, SavesDone, Detecting
<1> QED
  BY <1>1, <1>2, <1>3, <1>4, <1>5, <1>6, <1>7, <1>8
     DEF DetectorTakes, DetectorBegins, DetectorAsks, DetectorReleases, DetectorCutShort,
         DetectorGivesUp, DetectorLeaves

LEMMA ListenKeeps ==
    ASSUME HeardInv, NEW f \in Files, Listen(f)
    PROVE  HeardInv'
<1> USE DetectionConstants DEF HeardInv
<1>1. /\ UNCHANGED <<version, bytes, analyzed, soundOf, overtaken>>
      /\ {"at", "todo", "heard"} \subseteq DOMAIN detector'
      /\ detector'.at = "decoded"
      /\ detector'.heard = [detector.heard EXCEPT ![f] = IF f \in broken THEN Failed ELSE bytes[f]]
  BY DEF Listen, HeardTypes, files, stored, history
<1>2. HeardTypes'
  BY <1>1 DEF HeardTypes
<1>3. ASSUME NEW g \in Files PROVE (Behind(g) /\ HeardSound(g) /\ StampedTruly(g))'
  <2>1. (Behind(g) /\ StampedTruly(g))'
    BY <1>1 DEF Behind, StampedTruly
  <2>2. ASSUME g = f PROVE HeardSound(g)'
    <3>1. detector'.heard[f] \in {Failed, bytes[f]}
      BY <1>1 DEF HeardTypes
    <3> QED
      BY <1>1, <2>2, <3>1 DEF HeardSound, Behind
  <2>3. ASSUME g # f PROVE HeardSound(g)'
    <3>1. detector'.heard[g] = detector.heard[g]
      BY <1>1, <2>3 DEF HeardTypes
    <3> QED
      BY <1>1, <3>1 DEF HeardSound
  <2> QED
    BY <2>1, <2>2, <2>3
<1> QED
  BY <1>1, <1>2, <1>3

(* What is saved was heard: Saved takes no File that could not be decoded. *)
LEMMA CompareKeeps == HeardInv /\ Compare => HeardInv'
<1> SUFFICES ASSUME HeardInv, Compare PROVE HeardInv'
  OBVIOUS
<1> USE DetectionConstants DEF HeardInv
<1>1. /\ UNCHANGED <<version, bytes, analyzed, soundOf, overtaken>>
      /\ {"at", "todo", "heard"} \subseteq DOMAIN detector'
      /\ detector'.todo = Saved /\ detector'.heard = detector.heard
  BY DEF Compare, WorkerOnly, HeardTypes, files, stored, history
<1>2. HeardTypes'
  BY <1>1 DEF HeardTypes
<1>3. ASSUME NEW g \in Files PROVE (Behind(g) /\ HeardSound(g) /\ StampedTruly(g))'
  BY <1>1 DEF Behind, HeardSound, StampedTruly
<1>4. \A g \in Saved : detector.heard[g] \in Nat
  BY DEF Saved, HeardTypes, Versions
<1> QED
  BY <1>1, <1>2, <1>3, <1>4

(* The save stamps the row's version.  Where no row was written since the  *)
(* listening, that is the version heard or an older one.                   *)
LEMMA SaveKeeps ==
    ASSUME HeardInv, NEW f \in Files, Save(f)
    PROVE  HeardInv'
<1> USE DetectionConstants DEF HeardInv
<1>1. CASE Detecting("failed") /\ UNCHANGED <<analyzed, soundOf, overtaken>>
  <2>1. Quiet
    BY <1>1 DEF Save, Detecting, Quiet, HeardTypes, files
  <2> QED
    BY <2>1, QuietStep
<1>2. CASE /\ analyzed' = [analyzed EXCEPT ![f] = version[f]]
           /\ soundOf' = [soundOf EXCEPT ![f] =
                  IF detector.heard[f] = Failed THEN None ELSE detector.heard[f]]
           /\ detector' = [detector EXCEPT !.todo = @ \ {f}]
           /\ overtaken' = IF detector.heard[f] = version[f] THEN overtaken \ {f} ELSE overtaken
  <2>1. /\ UNCHANGED <<version, bytes>>
        /\ {"at", "todo", "heard"} \subseteq DOMAIN detector'
        /\ detector'.at = "save" /\ detector'.todo = detector.todo \ {f}
        /\ detector'.heard = detector.heard
    BY <1>2 DEF Save, HeardTypes, files
  <2>2. /\ detector.heard[f] \in Nat /\ detector.heard[f] <= bytes[f]
        /\ f \notin overtaken => version[f] <= detector.heard[f]
        /\ version[f] \in Nat /\ bytes[f] \in Nat
    BY DEF Save, HeardTypes, HeardSound, Versions
  <2>3. HeardTypes'
    BY <1>2, <2>1, <2>2 DEF HeardTypes
  <2>4. ASSUME NEW g \in Files PROVE (Behind(g) /\ HeardSound(g) /\ StampedTruly(g))'
    <3>1. CASE g = f
      <4>1. analyzed'[f] = version[f] /\ soundOf'[f] = detector.heard[f]
        BY <1>2, <2>2 DEF HeardTypes
      <4>2. f \notin overtaken' => version[f] <= detector.heard[f]
        BY <1>2, <2>2
      <4> QED
        BY <2>1, <2>2, <3>1, <4>1, <4>2 DEF Behind, HeardSound, StampedTruly
    <3>2. CASE g # f
      <4>1. analyzed'[g] = analyzed[g] /\ soundOf'[g] = soundOf[g] /\ (g \in overtaken' <=> g \in overtaken)
        BY <1>2, <3>2 DEF HeardTypes
      <4> QED
        BY <2>1, <4>1 DEF Behind, HeardSound, StampedTruly
    <3> QED
      BY <3>1, <3>2
  <2> QED
    BY <2>1, <2>3, <2>4 DEF Save
<1> QED
  BY <1>1, <1>2 DEF Save

(* A File's bytes only go on, so what was heard of it was on the disk.     *)
LEMMA RewriteKeeps ==
    ASSUME HeardInv, NEW f \in Files, Rewrite(f)
    PROVE  HeardInv'
<1> USE DetectionConstants DEF HeardInv
<1>1. /\ UNCHANGED <<version, analyzed, soundOf, overtaken, detector>>
      /\ bytes' = [bytes EXCEPT ![f] = bytes[f] + 1] /\ bytes[f] < MaxVersion
  BY DEF Rewrite, stored
<1>2. bytes' \in [Files -> Versions] /\ \A g \in Files : bytes[g] \in Nat /\ version[g] \in Nat
  BY <1>1 DEF HeardTypes, Versions
<1>3. \A g \in Files : bytes[g] <= bytes'[g] /\ bytes'[g] \in Nat
  BY <1>1, <1>2 DEF HeardTypes
<1>4. HeardTypes'
  BY <1>1, <1>2 DEF HeardTypes
<1>5. ASSUME NEW g \in Files PROVE (Behind(g) /\ HeardSound(g) /\ StampedTruly(g))'
  BY <1>1, <1>2, <1>3 DEF Behind, HeardSound, StampedTruly
<1> QED
  BY <1>1, <1>4, <1>5

(* A row that goes to the disk's version leaves the stamp behind.          *)
LEMMA ScanKeeps ==
    ASSUME HeardInv, NEW f \in Files, ScanRow(f)
    PROVE  HeardInv'
<1> USE DetectionConstants DEF HeardInv
<1>1. /\ UNCHANGED <<bytes, analyzed, soundOf, detector>>
      /\ version' = [version EXCEPT ![f] = bytes[f]] /\ version[f] # bytes[f]
      /\ overtaken' = IF detector.heard[f] # None THEN overtaken \cup {f} ELSE overtaken
  BY DEF ScanRow, stored
<1>2. HeardTypes'
  BY <1>1 DEF HeardTypes
<1>3. version[f] < bytes[f] /\ version'[f] = bytes[f] /\ bytes[f] \in Nat /\ version[f] \in Nat
  BY <1>1 DEF HeardTypes, Behind, Versions
<1>4. ASSUME NEW g \in Files PROVE (Behind(g) /\ HeardSound(g) /\ StampedTruly(g))'
  <2>1. CASE g = f
    <3>1. analyzed[f] # version'[f] /\ (analyzed[f] # None => analyzed[f] <= version'[f])
      BY <1>3 DEF Behind, HeardTypes, Versions
    <3>2. detector.heard[f] \in Nat => f \in overtaken' /\ detector.heard[f] <= bytes[f]
      BY <1>1 DEF HeardSound
    <3> QED
      BY <1>1, <1>3, <2>1, <3>1, <3>2 DEF Behind, HeardSound, StampedTruly
  <2>2. CASE g # f
    <3>1. version'[g] = version[g] /\ (g \in overtaken' <=> g \in overtaken)
      BY <1>1, <2>2 DEF HeardTypes
    <3> QED
      BY <1>1, <3>1 DEF Behind, HeardSound, StampedTruly
  <2> QED
    BY <2>1, <2>2
<1> QED
  BY <1>1, <1>2, <1>4

LEMMA HeardInvStep == HeardInv /\ [WorkNext]_workVars => HeardInv'
<1> SUFFICES ASSUME HeardInv, [WorkNext]_workVars PROVE HeardInv'
  OBVIOUS
<1>1. CASE DetectorLoop
  <2>1. CASE DetectorWorks
    BY <2>1, QuietStep, WorkerIsQuiet, ListenKeeps, CompareKeeps, SaveKeeps
       DEF DetectorWorks, DetectSeason
  <2> QED
    BY <1>1, <2>1, QuietStep, WorkerIsQuiet DEF DetectorLoop
<1>2. ASSUME NEW f \in Files, FromOutside(Rewrite(f) \/ ScanRow(f)) PROVE HeardInv'
  BY <1>2, RewriteKeeps, ScanKeeps DEF FromOutside
<1>3. CASE GeneratorLoop \/ \E c \in Clients : InAcquire(c)
  <2>1. Quiet
    BY <1>3 DEF GeneratorLoop, GeneratorClaims, GeneratorAsks, GeneratorSteps, GeneratorReleases,
                GeneratorGivesUp, GeneratorUnclaims, GeneratorLeaves, InAcquire, detection, files,
                stored, history, Quiet, HeardInv, HeardTypes
  <2> QED
    BY <2>1, QuietStep
<1>4. CASE FromOutside(Toggle \/ Transcode \/ AfterScan \/ DetectShow)
  <2>1. Quiet
    BY <1>4 DEF FromOutside, Toggle, Transcode, AfterScan, DetectShow, files, stored, history,
                Quiet, HeardInv, HeardTypes
  <2> QED
    BY <2>1, QuietStep
<1>5. CASE Queue \/ Close \/ DetectorClosed \/ Boot \/ UNCHANGED workVars
  <2>1. Quiet
    BY <1>5 DEF Queue, Close, DetectorClosed, Boot, workVars, detection, files, stored, history,
                Quiet, HeardInv, HeardTypes
  <2> QED
    BY <2>1, QuietStep
<1>6. CASE Closed
  <2>1. Quiet
    BY <1>6, IdleHearsNothing DEF Closed, files, stored, history, Quiet
  <2> QED
    BY <2>1, QuietStep
<1> QED
  BY <1>1, <1>2, <1>3, <1>4, <1>5, <1>6 DEF WorkNext, Outside

(* A File that counts as heard was heard at that version, however often it *)
(* is replaced and scanned, runs fail, are forced or cut short by a        *)
(* shutdown, unless its row was written between the listening and the save.*)
THEOREM HeardTruly == WorkSpec => []HeardAtItsVersion
<1>1. HeardInv => HeardAtItsVersion
  BY DetectionConstants DEF HeardInv, HeardTypes, StampedTruly, HeardAtItsVersion, Versions
<1> QED
  BY <1>1, HeardInvInit, HeardInvStep, PTL DEF WorkSpec
=============================================================================
