---------------------------- MODULE RelayProofs ----------------------------
(***************************************************************************)
(* Playback governance, for any number of sessions, Users, Devices and     *)
(* reservations, any stream limits and any cap, and then the relay over    *)
(* it, for any number of sessions at the sharer.                           *)
(*                                                                         *)
(* The Manager's invariant is one about sets: what a step does to the set  *)
(* of slot holders (the Holders... lemmas) gives the exactness of the      *)
(* counter, and the exact counter is what makes the code's check of a      *)
(* number a check of the set.                                              *)
(*                                                                         *)
(* The relay runs the Manager as it is, so what is proved of it holds with *)
(* a relay.  What it promises the sharer and the other viewers rests on    *)
(* who has a claim to a session there: never more than one negotiation or  *)
(* session here, and none once the end call is under way.                  *)
(***************************************************************************)
EXTENDS Relay, FiniteSetTheorems, TLAPS

GovernanceInv == TypeOK /\ SlotsCounted /\ CapRespected /\ StreamLimitHeld

(* The cardinalities the steps need.                                       *)
LEMMA CardinalityOfDifference ==
    ASSUME NEW A, IsFiniteSet(A), NEW B \in SUBSET A
    PROVE  /\ IsFiniteSet(A \ B) /\ IsFiniteSet(B)
           /\ Cardinality(A) \in Nat /\ Cardinality(B) \in Nat
           /\ Cardinality(A \ B) \in Nat
           /\ Cardinality(A \ B) = Cardinality(A) - Cardinality(B)
<1>1. IsFiniteSet(B) /\ IsFiniteSet(A \ B)
  BY FS_Subset
<1>2. Cardinality((A \ B) \cup B)
        = Cardinality(A \ B) + Cardinality(B) - Cardinality((A \ B) \cap B)
  BY <1>1, FS_Union
<1>3. (A \ B) \cup B = A /\ (A \ B) \cap B = {}
  OBVIOUS
<1>4. /\ Cardinality(A) \in Nat /\ Cardinality(B) \in Nat
      /\ Cardinality(A \ B) \in Nat /\ Cardinality({}) = 0
  BY <1>1, FS_CardinalityType, FS_EmptySet
<1>5. Cardinality(A) = Cardinality(A \ B) + Cardinality(B) - Cardinality({})
  BY <1>2, <1>3, Zenon
<1> QED
  BY <1>1, <1>4, <1>5

(* Everything counted is finite.                                           *)
LEMMA FiniteHolders ==
    ASSUME TypeOK
    PROVE  /\ IsFiniteSet(live) /\ IsFiniteSet(Holders)
           /\ Cardinality(Holders) \in Nat
           /\ \A S \in SUBSET live :
                 /\ SlotsIn(S) \subseteq Holders
                 /\ IsFiniteSet(SlotsIn(S))
           /\ \A u : IsFiniteSet(Streams(u)) /\ Cardinality(Streams(u)) \in Nat
<1>1. IsFiniteSet(live)
  BY FS_Subset DEF TypeOK
<1>2. ASSUME NEW S \in SUBSET live PROVE SlotsIn(S) \in SUBSET live
  BY DEF SlotsIn
<1>3. \A S \in SUBSET live : IsFiniteSet(SlotsIn(S))
  BY <1>1, <1>2, FS_Subset
<1>4. IsFiniteSet(Holders)
  BY <1>3, FS_Union DEF Holders, TypeOK
<1>5. \A S \in SUBSET live : SlotsIn(S) \subseteq Holders
  BY DEF SlotsIn, Holders
<1>6. ASSUME NEW u PROVE IsFiniteSet(Streams(u))
  <2>1. Streams(u) \in SUBSET live
    BY DEF Streams
  <2> QED BY <1>1, <2>1, FS_Subset
<1> QED
  BY <1>1, <1>3, <1>4, <1>5, <1>6, FS_CardinalityType

-----------------------------------------------------------------------------
(* A replacement takes its predecessor's slot out, and puts its own in.    *)
LEMMA HoldersCreate ==
    ASSUME TypeOK, NEW id \in SessionIds, NEW u \in Users, NEW dev \in Devices,
           NEW d \in Decisions, NEW r, CreateGoverned(id, u, dev, d, r)
    PROVE  /\ SlotsIn(Target(u, dev, r)) \subseteq Holders
           /\ id \notin Holders
           /\ Holders' = (Holders \ SlotsIn(Target(u, dev, r)))
                            \cup (IF Metered(d) THEN {id} ELSE {})
<1> USE SessionConstants
<1> DEFINE target == Target(u, dev, r)
           freed == SlotsIn(target)
<1>1. target \subseteq live /\ freed \subseteq live /\ freed \subseteq Holders
  BY DEF Target, SlotsIn, Holders
<1>2. /\ id \notin live /\ id \notin reserved /\ id \notin slotFreed
      /\ live' = live \cup {id} /\ reserved' = reserved
      /\ slotFreed' = slotFreed \cup freed
      /\ id \notin slotFreed'
  BY <1>1 DEF CreateGoverned, Swap, TypeOK
<1>3. sess'[id].plays = d /\ \A x \in live : sess'[x] = sess[x]
  BY <1>2 DEF CreateGoverned, TypeOK
<1>4. SlotsIn(live)' = (SlotsIn(live) \ freed) \cup (IF Metered(d) THEN {id} ELSE {})
  <2>1. \A x : x \in SlotsIn(live)' <=>
               x \in live' /\ Metered(sess'[x].plays) /\ x \notin slotFreed'
    BY DEF SlotsIn
  <2>2. ASSUME NEW x \in live
        PROVE  x \in SlotsIn(live)' <=> x \in SlotsIn(live) \ freed
    BY <1>2, <1>3, <2>1 DEF SlotsIn
  <2>3. id \in SlotsIn(live)' <=> Metered(d)
    BY <1>2, <1>3, <2>1
  <2>4. \A x \in SlotsIn(live)' : x \in live \cup {id}
    BY <1>2, <2>1
  <2>5. \A x \in SlotsIn(live) : x \in live
    BY DEF SlotsIn
  <2>6. \A x : x \in SlotsIn(live)'
                 <=> x \in (SlotsIn(live) \ freed) \cup (IF Metered(d) THEN {id} ELSE {})
    BY <1>1, <1>2, <2>2, <2>3, <2>4, <2>5
  <2> QED BY <2>6
<1>5. freed \cap reserved = {}
  BY <1>1 DEF TypeOK
<1> QED
  BY <1>1, <1>2, <1>4, <1>5 DEF Holders, SlotsIn

(* Sessions that leave take out the slots they still had.                  *)
LEMMA HoldersRemove ==
    ASSUME TypeOK, NEW S \in SUBSET live, Remove(S)
    PROVE  Holders' = Holders \ SlotsIn(S)
<1>1. SlotsIn(live)' = SlotsIn(live) \ SlotsIn(S)
  BY DEF Remove, SlotsIn
<1>2. SlotsIn(S) \cap reserved = {}
  BY SessionConstants DEF TypeOK, SlotsIn
<1> QED
  BY <1>1, <1>2 DEF Remove, Holders

(* The steps that neither take nor free a slot.                            *)
LEMMA HoldersSame ==
    ASSUME UNCHANGED <<live, sess, slotFreed, reserved>>
    PROVE  Holders' = Holders
BY DEF Holders, SlotsIn

(* The counter follows the set.                                            *)
LEMMA CountFollows ==
    ASSUME TypeOK, SlotsCounted, NEW F \in SUBSET Holders
    PROVE  /\ Less(Cardinality(F)) \in Nat
           /\ Less(Cardinality(F)) = Cardinality(Holders \ F)
           /\ IsFiniteSet(Holders \ F)
           /\ activeTranscodes - Cardinality(F) = Cardinality(Holders \ F)
<1>1. IsFiniteSet(Holders)
  BY FiniteHolders
<1>2. /\ Cardinality(Holders \ F) = Cardinality(Holders) - Cardinality(F)
      /\ Cardinality(Holders) \in Nat /\ Cardinality(F) \in Nat
      /\ Cardinality(Holders \ F) \in Nat /\ IsFiniteSet(Holders \ F)
  BY <1>1, CardinalityOfDifference
<1> QED
  BY <1>2 DEF Less, SlotsCounted

-----------------------------------------------------------------------------
LEMMA TypeInit == Init => TypeOK
BY FS_EmptySet DEF Init, TypeOK

LEMMA TypeRemove ==
    ASSUME TypeOK, NEW S \in SUBSET live, Remove(S), Less(Cardinality(SlotsIn(S))) \in Nat,
           expiring' \in SUBSET minted
    PROVE  TypeOK'
BY DEF TypeOK, Remove

LEMMA TypeStep ==
    ASSUME TypeOK, SlotsCounted, [Next]_vars
    PROVE  TypeOK'
<1> USE SessionConstants
<1>r. ASSUME NEW S \in SUBSET live PROVE Less(Cardinality(SlotsIn(S))) \in Nat
  BY CountFollows, FiniteHolders
<1>0. CASE UNCHANGED vars
  BY <1>0 DEF vars, governance, timers, closing, TypeOK
<1>1. ASSUME NEW id \in SessionIds, NEW u \in Users, NEW dev \in Devices,
             NEW d \in Decisions, NEW r, CreateGoverned(id, u, dev, d, r)
      PROVE  TypeOK'
  <2> DEFINE target == Target(u, dev, r)
             freed == SlotsIn(target)
  <2>1. target \subseteq live /\ freed \subseteq target
    BY DEF Target, SlotsIn
  <2>2. IsFiniteSet(minted')
    BY <1>1, FS_AddElement DEF CreateGoverned, TypeOK
  <2>3. activeTranscodes' \in Nat
    BY <1>1, <1>r, <2>1 DEF CreateGoverned
  <2>4. sess' \in [SessionIds -> Sessions \cup {NoSession}]
        /\ \A x \in minted' : sess'[x] \in Sessions
    BY <1>1 DEF CreateGoverned, TypeOK, Sessions
  <2>5. runtime' \in [SessionIds -> {"none", "stopped", "running", "torn"}]
    BY <1>1 DEF CreateGoverned, TypeOK
  <2>6. /\ minted' = minted \cup {id} /\ live' = live \cup {id}
        /\ replaced' = replaced \cup target /\ slotFreed' = slotFreed \cup freed
        /\ graceTimers' = graceTimers \cup target
        /\ UNCHANGED <<reserved, expiring, idle, tearing, announcing, announced>>
    BY <1>1 DEF CreateGoverned, Swap, closing
  <2> QED
    BY <2>1, <2>2, <2>3, <2>4, <2>5, <2>6 DEF TypeOK
<1>2. ASSUME NEW id \in SessionIds, End(id) PROVE TypeOK'
  <2>1. {id} \in SUBSET live /\ Remove({id}) /\ expiring' \in SUBSET minted
    BY <1>2 DEF End, TypeOK
  <2> QED BY <1>r, <2>1, TypeRemove
<1>3. ASSUME NEW id \in SessionIds, GraceElapses(id) PROVE TypeOK'
  BY <1>3 DEF GraceElapses, governance, closing, TypeOK
<1>4. ASSUME NEW id \in SessionIds, GraceEnds(id) PROVE TypeOK'
  <2>1. expiring' \in SUBSET minted
    BY <1>4 DEF GraceEnds, TypeOK
  <2>2. CASE id \in live
    <3>1. {id} \in SUBSET live /\ Remove({id})
      BY <1>4, <2>2 DEF GraceEnds
    <3> QED BY <1>r, <2>1, <3>1, TypeRemove
  <2>3. CASE id \notin live
    BY <1>4, <2>1, <2>3 DEF GraceEnds, governance, closing, TypeOK
  <2> QED BY <2>2, <2>3
<1>5. ASSUME NEW id \in SessionIds,
             FallSilent(id) \/ Touch(id) \/ Launch(id) \/ JobExits(id)
      PROVE  TypeOK'
  BY <1>5 DEF FallSilent, Touch, Launch, JobExits, governance, timers, closing, TypeOK
<1>6. ASSUME NEW id \in SessionIds, Teardown(id) \/ Announce(id) PROVE TypeOK'
  BY <1>6 DEF Teardown, Announce, governance, timers, TypeOK
<1>7. CASE Reap
  <2>1. idle \in SUBSET live /\ Remove(idle) /\ expiring' \in SUBSET minted
    BY <1>7 DEF Reap, TypeOK
  <2> QED BY <1>r, <2>1, TypeRemove
<1>8. CASE EndAll
  <2>1. live \in SUBSET live /\ Remove(live) /\ expiring' \in SUBSET minted
    BY <1>8 DEF EndAll, TypeOK
  <2> QED BY <1>r, <2>1, TypeRemove
<1>9. ASSUME NEW r \in Reservations, ReserveTranscode(r) \/ ReleaseReservation(r)
      PROVE  TypeOK'
  <2>1. IsFiniteSet(reserved')
    BY <1>9, FS_AddElement, FS_RemoveElement
       DEF ReserveTranscode, ReleaseReservation, TypeOK
  <2>2. activeTranscodes' \in Nat
    BY <1>9 DEF ReserveTranscode, ReleaseReservation, Less, TypeOK
  <2> QED
    BY <1>9, <2>1, <2>2 DEF ReserveTranscode, ReleaseReservation, timers, closing, TypeOK
<1> QED
  BY <1>0, <1>1, <1>2, <1>3, <1>4, <1>5, <1>6, <1>7, <1>8, <1>9 DEF Next

-----------------------------------------------------------------------------
(* What a step does to the set of holders, whatever the step.              *)
LEMMA HoldersStep ==
    ASSUME TypeOK, SlotsCounted, Next
    PROVE  \/ /\ Holders' = Holders /\ activeTranscodes' = activeTranscodes
           \/ \E F \in SUBSET Holders :
                 /\ Holders' = Holders \ F
                 /\ activeTranscodes' = Less(Cardinality(F))
           \/ \E F \in SUBSET Holders, j \in SessionIds \cup Reservations :
                 /\ j \notin Holders
                 /\ F = {} \/ \E k \in Holders : F = {k}
                 /\ ~CapFull(activeTranscodes - Cardinality(F))
                 /\ Holders' = (Holders \ F) \cup {j}
                 /\ activeTranscodes' = Less(Cardinality(F)) + 1
<1> USE SessionConstants
<1>r. ASSUME NEW S \in SUBSET live, Remove(S)
      PROVE  \E F \in SUBSET Holders : /\ Holders' = Holders \ F
                                       /\ activeTranscodes' = Less(Cardinality(F))
  <2>1. SlotsIn(S) \in SUBSET Holders
    BY FiniteHolders
  <2> QED
    BY <1>r, <2>1, HoldersRemove DEF Remove
<1>1. ASSUME NEW id \in SessionIds, NEW u \in Users, NEW dev \in Devices,
             NEW d \in Decisions, NEW r, CreateGoverned(id, u, dev, d, r)
      PROVE  \E F \in SUBSET Holders :
               /\ F = {} \/ \E k \in Holders : F = {k}
               /\ id \notin Holders
               /\ Metered(d) => /\ ~CapFull(activeTranscodes - Cardinality(F))
                                /\ Holders' = (Holders \ F) \cup {id}
                                /\ activeTranscodes' = Less(Cardinality(F)) + 1
               /\ ~Metered(d) => /\ Holders' = Holders \ F
                                 /\ activeTranscodes' = Less(Cardinality(F))
  <2> DEFINE F == SlotsIn(Target(u, dev, r))
  <2>1. F \in SUBSET Holders /\ id \notin Holders
        /\ Holders' = (Holders \ F) \cup (IF Metered(d) THEN {id} ELSE {})
    BY <1>1, HoldersCreate
  <2>2. F = {} \/ \E k \in Holders : F = {k}
    <3>1. \A x, y \in F : x = y
      BY DEF SlotsIn, Target
    <3> QED BY <2>1, <3>1
  <2>3. /\ Metered(d) => ~CapFull(activeTranscodes - Cardinality(F))
        /\ activeTranscodes' = Less(Cardinality(F)) + (IF Metered(d) THEN 1 ELSE 0)
    BY <1>1 DEF CreateGoverned
  <2>4. Less(Cardinality(F)) \in Nat
    BY <2>1, CountFollows
  <2> QED
    BY <2>1, <2>2, <2>3, <2>4
<1>2. ASSUME NEW id \in SessionIds,
             FallSilent(id) \/ Touch(id) \/ Launch(id) \/ JobExits(id)
               \/ Teardown(id) \/ Announce(id) \/ GraceElapses(id)
      PROVE  Holders' = Holders /\ activeTranscodes' = activeTranscodes
  BY <1>2, HoldersSame DEF FallSilent, Touch, Launch, JobExits, Teardown,
     Announce, GraceElapses, governance, timers
<1>3. ASSUME NEW id \in SessionIds, End(id) \/ (GraceEnds(id) /\ id \in live)
      PROVE  {id} \in SUBSET live /\ Remove({id})
  BY <1>3 DEF End, GraceEnds
<1>4. ASSUME NEW id \in SessionIds, GraceEnds(id), id \notin live
      PROVE  Holders' = Holders /\ activeTranscodes' = activeTranscodes
  BY <1>4, HoldersSame DEF GraceEnds, governance
<1>5. CASE Reap
  <2>1. idle \in SUBSET live /\ Remove(idle)
    BY <1>5 DEF Reap, TypeOK
  <2> QED BY <1>r, <2>1
<1>6. CASE EndAll
  <2>1. live \in SUBSET live /\ Remove(live)
    BY <1>6 DEF EndAll
  <2> QED BY <1>r, <2>1
<1>7. ASSUME NEW r \in Reservations, ReserveTranscode(r)
      PROVE  /\ r \notin Holders
             /\ ~CapFull(activeTranscodes - Cardinality({}))
             /\ Holders' = (Holders \ {}) \cup {r}
             /\ activeTranscodes' = Less(Cardinality({})) + 1
  <2>1. Holders' = Holders \cup {r} /\ r \notin Holders
    BY <1>7 DEF ReserveTranscode, Holders, SlotsIn, TypeOK
  <2>2. Cardinality({}) = 0
    BY FS_EmptySet
  <2>3. activeTranscodes - 0 = activeTranscodes /\ Less(0) = activeTranscodes
    BY DEF TypeOK, Less
  <2> QED
    BY <1>7, <2>1, <2>2, <2>3 DEF ReserveTranscode
<1>8. ASSUME NEW r \in Reservations, ReleaseReservation(r)
      PROVE  /\ {r} \in SUBSET Holders /\ Holders' = Holders \ {r}
             /\ activeTranscodes' = Less(Cardinality({r}))
  <2>1. Holders' = Holders \ {r} /\ r \in Holders
    BY <1>8 DEF ReleaseReservation, Holders, SlotsIn, TypeOK
  <2>2. Cardinality({r}) = 1
    BY FS_Singleton
  <2> QED
    BY <1>8, <2>1, <2>2 DEF ReleaseReservation
<1>9. CASE \E id \in SessionIds, u \in Users, dev \in Devices, d \in Decisions :
              \E r \in live \cup {NoSession} : CreateGoverned(id, u, dev, d, r)
  BY <1>9, <1>1
<1>10. CASE \E id \in SessionIds : End(id) \/ GraceEnds(id)
  BY <1>10, <1>r, <1>3, <1>4
<1>11. CASE \E r \in Reservations : ReserveTranscode(r)
  BY <1>11, <1>7
<1>12. CASE \E r \in Reservations : ReleaseReservation(r)
  BY <1>12, <1>8
<1> QED
  BY <1>2, <1>5, <1>6, <1>9, <1>10, <1>11, <1>12 DEF Next

LEMMA SlotsStep ==
    ASSUME TypeOK, SlotsCounted, CapRespected, Next
    PROVE  SlotsCounted' /\ CapRespected'
<1> USE SessionConstants
<1>0. IsFiniteSet(Holders) /\ Cardinality(Holders) \in Nat
  BY FiniteHolders
<1>1. CASE Holders' = Holders /\ activeTranscodes' = activeTranscodes
  BY <1>1 DEF SlotsCounted, CapRespected
<1>2. ASSUME NEW F \in SUBSET Holders, Holders' = Holders \ F,
             activeTranscodes' = Less(Cardinality(F))
      PROVE  SlotsCounted' /\ CapRespected'
  <2>1. activeTranscodes' = Cardinality(Holders')
    BY <1>2, CountFollows
  <2>2. Cardinality(Holders') <= Cardinality(Holders)
        /\ Cardinality(Holders') \in Nat
    BY <1>0, <1>2, FS_Subset, FS_CardinalityType
  <2> QED
    BY <1>0, <2>1, <2>2 DEF SlotsCounted, CapRespected
<1>3. ASSUME NEW F \in SUBSET Holders, NEW j, j \notin Holders,
             ~CapFull(activeTranscodes - Cardinality(F)),
             Holders' = (Holders \ F) \cup {j},
             activeTranscodes' = Less(Cardinality(F)) + 1
      PROVE  SlotsCounted' /\ CapRespected'
  <2>1. /\ IsFiniteSet(Holders \ F)
        /\ Less(Cardinality(F)) = Cardinality(Holders \ F)
        /\ activeTranscodes - Cardinality(F) = Cardinality(Holders \ F)
        /\ Less(Cardinality(F)) \in Nat
    BY CountFollows
  <2>2. Cardinality((Holders \ F) \cup {j}) = Cardinality(Holders \ F) + 1
    BY <1>3, <2>1, FS_AddElement
  <2> QED
    BY <1>3, <2>1, <2>2 DEF SlotsCounted, CapRespected, CapFull
<1> QED
  BY <1>1, <1>2, <1>3, HoldersStep

(* No step takes a User over their stream limit.                           *)
LEMMA StreamStep ==
    ASSUME TypeOK, StreamLimitHeld, Next
    PROVE  StreamLimitHeld'
<1> USE SessionConstants
<1>0. \A u : IsFiniteSet(Streams(u)) /\ Cardinality(Streams(u)) \in Nat
  BY FiniteHolders
<1>1. ASSUME NEW id \in SessionIds, NEW u \in Users, NEW dev \in Devices,
             NEW d \in Decisions, NEW r, CreateGoverned(id, u, dev, d, r)
      PROVE  StreamLimitHeld'
  <2> DEFINE target == Target(u, dev, r)
  <2>1. /\ id \notin live /\ live' = live \cup {id} /\ id \notin replaced
        /\ replaced' = replaced \cup target /\ target \subseteq live
        /\ MaxStreams[u] > 0 => Cardinality(Streams(u) \ target) < MaxStreams[u]
        /\ \A x \in live : sess'[x] = sess[x]
        /\ sess'[id].user = u
    BY <1>1 DEF CreateGoverned, WithinLimit, Swap, Target, TypeOK
  <2>2. Streams(u)' = (Streams(u) \ target) \cup {id}
    BY <2>1 DEF Streams
  <2>3. \A v \in Users : v # u => Streams(v)' = Streams(v)
    BY <2>1 DEF Streams, Target
  <2>4. /\ IsFiniteSet(Streams(u) \ target)
        /\ Cardinality(Streams(u) \ target) \in Nat
    BY <1>0, FS_Subset, FS_CardinalityType
  <2> DEFINE next == (Streams(u) \ target) \cup {id}
  <2> DEFINE others == Streams(u) \ target
  <2>x. /\ IsFiniteSet(others \cup {id})
        /\ Cardinality(others \cup {id})
             = IF id \in others THEN Cardinality(others) ELSE Cardinality(others) + 1
    BY <2>4, FS_AddElement
  <2>a. /\ IsFiniteSet(next)
        /\ Cardinality(next) <= Cardinality(others) + 1
    BY <2>4, <2>x
  <2>b. Cardinality(next) \in Nat
    BY <2>a, FS_CardinalityType
  <2>5. Cardinality(Streams(u)') <= Cardinality(Streams(u) \ target) + 1
    BY <2>2, <2>a
  <2>6. Cardinality(Streams(u)') \in Nat
    BY <2>2, <2>b
  <2> QED
    BY <2>1, <2>3, <2>4, <2>5, <2>6 DEF StreamLimitHeld
<1>2. ASSUME live' \subseteq live, sess' = sess, replaced' = replaced
      PROVE  StreamLimitHeld'
  <2>1. ASSUME NEW u \in Users
        PROVE  /\ Cardinality(Streams(u)') <= Cardinality(Streams(u))
               /\ Cardinality(Streams(u)') \in Nat
    <3>1. Streams(u)' \in SUBSET Streams(u)
      BY <1>2 DEF Streams
    <3> QED BY <1>0, <3>1, FS_Subset, FS_CardinalityType
  <2> QED
    BY <1>0, <2>1 DEF StreamLimitHeld
<1>3. ASSUME ~\E id \in SessionIds, u \in Users, dev \in Devices, d \in Decisions :
                \E r \in live \cup {NoSession} : CreateGoverned(id, u, dev, d, r)
      PROVE  live' \subseteq live /\ sess' = sess /\ replaced' = replaced
  BY <1>3 DEF Next, End, GraceElapses, GraceEnds, FallSilent, Touch, Launch,
     JobExits, Teardown, Announce, Reap, EndAll, ReserveTranscode,
     ReleaseReservation, Remove, governance
<1> QED
  BY <1>1, <1>2, <1>3

LEMMA GovernanceInit == Init => GovernanceInv
<1> SUFFICES ASSUME Init PROVE GovernanceInv
  OBVIOUS
<1>1. Holders = {} /\ \A u : Streams(u) = {}
  BY DEF Init, Holders, SlotsIn, Streams
<1> QED
  BY <1>1, TypeInit, FS_EmptySet, SessionConstants
     DEF Init, GovernanceInv, SlotsCounted, CapRespected, StreamLimitHeld

LEMMA GovernanceStep == GovernanceInv /\ [Next]_vars => GovernanceInv'
<1> SUFFICES ASSUME GovernanceInv, [Next]_vars PROVE GovernanceInv'
  OBVIOUS
<1>1. TypeOK'
  BY TypeStep DEF GovernanceInv
<1>2. CASE UNCHANGED vars
  <2>1. Holders' = Holders /\ \A u : Streams(u)' = Streams(u)
    BY <1>2 DEF vars, governance, Holders, SlotsIn, Streams
  <2> QED
    BY <1>1, <1>2, <2>1 DEF vars, governance, GovernanceInv, SlotsCounted,
       CapRespected, StreamLimitHeld
<1>3. CASE Next
  BY <1>1, <1>3, SlotsStep, StreamStep DEF GovernanceInv
<1> QED BY <1>2, <1>3

LEMMA Governance == Spec => []GovernanceInv
BY GovernanceInit, GovernanceStep, PTL DEF Spec

(* The Manager's variables keep their types, for any sessions and Users.   *)
THEOREM ManagerTypes == Spec => []TypeOK
BY Governance, PTL DEF GovernanceInv

(* Manager.activeTranscodes is, at every moment, the number of sessions    *)
(* and reservations that hold a slot.                                      *)
THEOREM SlotsAreCounted == Spec => []SlotsCounted
BY Governance, PTL DEF GovernanceInv

(* The configured cap bounds them, whatever is replaced by what.           *)
THEOREM CapIsRespected == Spec => []CapRespected
BY Governance, PTL DEF GovernanceInv

(* No User ever has more unreplaced sessions than their limit.             *)
THEOREM StreamLimitIsHeld == Spec => []StreamLimitHeld
BY Governance, PTL DEF GovernanceInv

(* The counter and the slotFreed flags implement the bounded set of        *)
(* TranscodeCap, where a replacement is one step.                          *)
THEOREM RefinesTranscodeCap == Spec => ImplementsTranscodeCap
<1>1. Init => Governor!Init
  BY DEF Init, Governor!Init, Holders, SlotsIn
<1>2. GovernanceInv /\ [Next]_vars => [Governor!Next]_Holders
  <2> SUFFICES ASSUME GovernanceInv, [Next]_vars, Holders' # Holders
               PROVE  Governor!Next
    OBVIOUS
  <2>0. TypeOK /\ SlotsCounted /\ IsFiniteSet(Holders)
    BY FiniteHolders DEF GovernanceInv
  <2>1. Next
    BY HoldersSame DEF vars, governance
  <2>2. ASSUME NEW F \in SUBSET Holders, Holders' = Holders \ F PROVE Governor!Next
    BY <2>2 DEF Governor!Next, Governor!Release
  <2>3. ASSUME NEW F \in SUBSET Holders, NEW j \in SessionIds \cup Reservations,
               j \notin Holders, F = {} \/ \E k \in Holders : F = {k},
               ~CapFull(activeTranscodes - Cardinality(F)),
               Holders' = (Holders \ F) \cup {j}
        PROVE  Governor!Next
    <3>1. ~Governor!Full(Holders \ F)
      <4>1. activeTranscodes - Cardinality(F) = Cardinality(Holders \ F)
        BY <2>0, CountFollows
      <4>2. ~CapFull(Cardinality(Holders \ F))
        BY <2>3, <4>1, Zenon
      <4>3. Governor!Cardinality(Holders \ F) = Cardinality(Holders \ F)
        BY DEF Cardinality, Governor!Cardinality
      <4> QED BY <4>2, <4>3 DEF CapFull, Governor!Full
    <3>2. CASE F = {}
      <4>1. Holders \ F = Holders
        BY <3>2
      <4> QED BY <2>3, <3>1, <4>1 DEF Governor!Next, Governor!Admit
    <3>3. ASSUME NEW k \in Holders, F = {k} PROVE Governor!Next
      <4>1. k \in SessionIds \cup Reservations
        BY <2>0 DEF TypeOK, Holders, SlotsIn
      <4> QED BY <2>3, <3>1, <3>3, <4>1 DEF Governor!Next, Governor!Swap
    <3> QED BY <2>3, <3>2, <3>3
  <2> QED
    BY <2>0, <2>1, <2>2, <2>3, HoldersStep
<1> QED
  BY <1>1, <1>2, Governance, PTL DEF Spec, ImplementsTranscodeCap, Governor!Spec

-----------------------------------------------------------------------------
(***************************************************************************)
(* How a session ends.  It leaves the map in one critical section, so only *)
(* one of the calls that want it ended goes on to tear it down and to      *)
(* announce it: the three places a dying session can be in are disjoint.   *)
(***************************************************************************)
DyingOnce(id) ==
    /\ id \in live => id \notin tearing \cup announcing
    /\ id \in tearing => id \notin announcing
    /\ id \in live \cup tearing \cup announcing => announced[id] = 0
    /\ announced[id] <= 1
    /\ id \notin minted => announced[id] = 0 /\ runtime[id] = "none"
    /\ runtime[id] \in {"stopped", "running"} => id \in live \cup tearing

EndingInv == TypeOK /\ ReplacedIsDoomed /\ \A id \in SessionIds : DyingOnce(id)

LEMMA EndingInit == Init => EndingInv
BY TypeInit DEF Init, EndingInv, ReplacedIsDoomed, DyingOnce

LEMMA EndingRemove ==
    ASSUME EndingInv, NEW S \in SUBSET live, Remove(S),
           \/ expiring' = expiring
           \/ \E id \in SessionIds : expiring' = expiring \ {id} /\ S = {id}
    PROVE  ReplacedIsDoomed' /\ \A id \in SessionIds : DyingOnce(id)'
<1>1. ReplacedIsDoomed'
  BY DEF Remove, EndingInv, ReplacedIsDoomed
<1>2. ASSUME NEW id \in SessionIds PROVE DyingOnce(id)'
  BY DEF Remove, EndingInv, DyingOnce, TypeOK
<1> QED BY <1>1, <1>2

LEMMA EndingStep ==
    ASSUME EndingInv, TypeOK', [Next]_vars
    PROVE  EndingInv'
<1> USE SessionConstants
<1> SUFFICES ReplacedIsDoomed' /\ \A id \in SessionIds : DyingOnce(id)'
  BY DEF EndingInv
<1>0. CASE UNCHANGED vars
  BY <1>0 DEF vars, governance, timers, closing, EndingInv, ReplacedIsDoomed, DyingOnce
<1>1. ASSUME NEW id \in SessionIds, NEW u \in Users, NEW dev \in Devices,
             NEW d \in Decisions, NEW r, CreateGoverned(id, u, dev, d, r)
      PROVE  ReplacedIsDoomed' /\ \A x \in SessionIds : DyingOnce(x)'
  <2>1. ReplacedIsDoomed'
    BY <1>1 DEF CreateGoverned, Swap, EndingInv, ReplacedIsDoomed, TypeOK
  <2>2. ASSUME NEW x \in SessionIds PROVE DyingOnce(x)'
    BY <1>1, <2>2 DEF CreateGoverned, closing, EndingInv, DyingOnce, TypeOK
  <2> QED BY <2>1, <2>2
<1>2. ASSUME NEW id \in SessionIds, End(id)
      PROVE  ReplacedIsDoomed' /\ \A x \in SessionIds : DyingOnce(x)'
  BY <1>2, EndingRemove DEF End
<1>3. ASSUME NEW id \in SessionIds, GraceElapses(id)
      PROVE  ReplacedIsDoomed' /\ \A x \in SessionIds : DyingOnce(x)'
  BY <1>3 DEF GraceElapses, governance, closing, EndingInv, ReplacedIsDoomed, DyingOnce
<1>4. ASSUME NEW id \in SessionIds, GraceEnds(id)
      PROVE  ReplacedIsDoomed' /\ \A x \in SessionIds : DyingOnce(x)'
  <2>1. CASE id \in live
    BY <1>4, <2>1, EndingRemove DEF GraceEnds
  <2>2. CASE id \notin live
    BY <1>4, <2>2 DEF GraceEnds, governance, closing, EndingInv,
       ReplacedIsDoomed, DyingOnce
  <2> QED BY <2>1, <2>2
<1>5. ASSUME NEW id \in SessionIds,
             FallSilent(id) \/ Touch(id) \/ Launch(id) \/ JobExits(id)
               \/ Teardown(id) \/ Announce(id)
      PROVE  ReplacedIsDoomed' /\ \A x \in SessionIds : DyingOnce(x)'
  <2>1. ReplacedIsDoomed'
    BY <1>5 DEF FallSilent, Touch, Launch, JobExits, Teardown, Announce,
       governance, timers, EndingInv, ReplacedIsDoomed
  <2>2. ASSUME NEW x \in SessionIds, FallSilent(id) \/ Touch(id) PROVE DyingOnce(x)'
    BY <2>2 DEF FallSilent, Touch, closing, EndingInv, DyingOnce
  <2>3. ASSUME NEW x \in SessionIds, Launch(id) \/ JobExits(id) PROVE DyingOnce(x)'
    BY <2>3 DEF Launch, JobExits, closing, EndingInv, DyingOnce, TypeOK
  <2>4. ASSUME NEW x \in SessionIds, Teardown(id) PROVE DyingOnce(x)'
    BY <2>4 DEF Teardown, EndingInv, DyingOnce, TypeOK
  <2>5. ASSUME NEW x \in SessionIds, Announce(id) PROVE DyingOnce(x)'
    BY <2>5 DEF Announce, EndingInv, DyingOnce, TypeOK
  <2> QED BY <1>5, <2>1, <2>2, <2>3, <2>4, <2>5
<1>6. CASE Reap \/ EndAll
  BY <1>6, EndingRemove DEF Reap, EndAll, EndingInv, TypeOK
<1>7. ASSUME NEW r \in Reservations, ReserveTranscode(r) \/ ReleaseReservation(r)
      PROVE  ReplacedIsDoomed' /\ \A x \in SessionIds : DyingOnce(x)'
  BY <1>7 DEF ReserveTranscode, ReleaseReservation, timers, closing, EndingInv,
     ReplacedIsDoomed, DyingOnce
<1> QED
  BY <1>0, <1>1, <1>2, <1>3, <1>4, <1>5, <1>6, <1>7 DEF Next

LEMMA Ending == Spec => []EndingInv
<1>1. EndingInv /\ GovernanceInv' /\ [Next]_vars => EndingInv'
  BY EndingStep DEF GovernanceInv
<1> QED
  BY <1>1, EndingInit, Governance, PTL DEF Spec

(* However many of DELETE, the reaper, the grace timer and shutdown try to *)
(* end a session, its end is announced once, with its ffmpeg dead.         *)
THEOREM EndsAreAnnouncedOnce == Spec => []EndAnnouncedOnce
<1>1. EndingInv => EndAnnouncedOnce
  BY DEF EndingInv, DyingOnce, EndAnnouncedOnce, TypeOK
<1> QED BY <1>1, Ending, PTL

(* A replaced session that is still live has its end coming.               *)
THEOREM ReplacedAreDoomed == Spec => []ReplacedIsDoomed
BY Ending, PTL DEF EndingInv

(* No ffmpeg runs for a session nobody will tear down, and none encodes    *)
(* video outside the cap but a replaced session's in its grace period.     *)
THEOREM EncodersAreAccounted == Spec => []EncodersAccounted
<1>1. EndingInv => EncodersAccounted
  BY DEF EndingInv, DyingOnce, EncodersAccounted, ReplacedIsDoomed, TypeOK,
     Holders, SlotsIn
<1> QED BY <1>1, Ending, PTL

-----------------------------------------------------------------------------
(* The relay.                                                              *)

\* The session at the sharer that i has a claim to.
Claim(i) == IF asking[i] = None THEN remote[i] ELSE asking[i].holds

Apart == \A i, j \in SessionIds : Claim(i) # None /\ Claim(i) = Claim(j) => i = j

\* Whatever is claimed or being ended has been opened, and only the session of a
\* client who has left is being ended.
Sent ==
    /\ \A x \in relayEnds : there[x] # "new"
    /\ \A i \in SessionIds : Claim(i) # None =>
          there[Claim(i)] # "new" /\ (Claim(i) \in relayEnds => i \in minted \ live)

\* What the sharer is asked to replace is, or was, of the same viewer.
SameViewer(n) ==
    n.theirs # None => \E k \in minted : remote[k] = n.theirs /\ Viewer(k) = <<n.user, n.device>>

Shape(i) ==
    /\ remote[i] # None => i \in minted
    /\ asking[i] # None =>
          /\ i \notin minted
          /\ asking[i].stage = "asking" <=> asking[i].holds = None
          /\ asking[i].holds # None => there[asking[i].holds] \in {"live", "gone", "cutOff"}
          /\ SameViewer(asking[i])

ManagerInv == GovernanceInv /\ EndingInv
RelayInv == /\ RelayTypeOK /\ (\A i \in SessionIds : Shape(i)) /\ Apart /\ Sent
            /\ NoStrays /\ StreamsAreLeftAlone

-----------------------------------------------------------------------------
(* Every step of the relay is a step of the Manager, or none.              *)
LEMMA RelayIsManager ==
    ASSUME TypeOK, RelayTypeOK, [RelayNext]_relayVars
    PROVE  [Next]_vars
<1> USE SessionConstants, RelayConstants
<1>1. CASE UNCHANGED relayVars
  BY <1>1 DEF relayVars
<1>2. CASE ManagerStep
  BY <1>2 DEF ManagerStep, Next
<1>3. ASSUME NEW id \in SessionIds, NEW d \in Decisions, CreateRelay(id, d) PROVE Next
  <2> DEFINE n == asking[id]
  <2>1. n \in Negotiations /\ CreateGoverned(id, n.user, n.device, d, n.replaces)
    BY <1>3 DEF CreateRelay, Stands, At, RelayTypeOK
  <2>2. CASE n.replaces \in live
    BY <2>1, <2>2 DEF Next, Negotiations
  <2>3. CASE n.replaces \notin live
    <3>1. Target(n.user, n.device, n.replaces) = Target(n.user, n.device, NoSession)
      BY <2>3 DEF Target, TypeOK
    <3>2. CreateGoverned(id, n.user, n.device, d, NoSession)
      BY <2>1, <3>1 DEF CreateGoverned
    <3> QED BY <2>1, <3>2 DEF Next, Negotiations
  <2> QED BY <2>2, <2>3
<1>4. ASSUME NEW id \in SessionIds, FallQuiet(id) \/ Fetch(id) \/ AnnounceEnd(id)
      PROVE  [Next]_vars
  BY <1>4 DEF FallQuiet, Fetch, AnnounceEnd, Next
<1>5. ASSUME NEW id \in SessionIds,
             \/ \E u \in Users, dev \in Devices, r \in live \cup {NoSession} : Negotiate(id, u, dev, r)
             \/ \E x \in Remotes : Open(id, x)
             \/ GiveUp(id) \/ HiddenTrack(id) \/ EndHeld(id) \/ RefuseRelay(id)
      PROVE  UNCHANGED vars
  BY <1>5 DEF Negotiate, Open, GiveUp, HiddenTrack, EndHeld, RefuseRelay
<1>6. ASSUME \/ SharerRestarts
             \/ \E x \in Remotes : RelayEndSession(x) \/ Unfetched(x) \/ SharerReaps(x)
                                   \/ GraceEndsThere(x)
      PROVE  UNCHANGED vars
  BY <1>6 DEF SharerRestarts, RelayEndSession, Unfetched, SharerReaps, GraceEndsThere
<1> QED BY <1>1, <1>2, <1>3, <1>4, <1>5, <1>6 DEF RelayNext

(* What no step of the Manager undoes.                                     *)
Frame ==
    /\ minted \subseteq minted' /\ replaced \subseteq replaced'
    /\ \A id \in minted : sess'[id] = sess[id]
    /\ \A id \in minted : id \in live' => id \in live

LEMMA ManagerFrame ==
    ASSUME TypeOK, [Next]_vars
    PROVE  Frame
<1> USE DEF Frame, TypeOK
<1>1. CASE UNCHANGED vars
  BY <1>1 DEF vars, governance
<1>2. ASSUME NEW id \in SessionIds, NEW u \in Users, NEW dev \in Devices,
             NEW d \in Decisions, NEW r, CreateGoverned(id, u, dev, d, r)
      PROVE  Frame
  BY <1>2 DEF CreateGoverned, Swap
<1>3. ASSUME NEW S \in SUBSET live, Remove(S) PROVE Frame
  BY <1>3 DEF Remove
<1>4. ASSUME NEW id \in SessionIds,
             \/ End(id) \/ GraceElapses(id) \/ GraceEnds(id)
             \/ FallSilent(id) \/ Touch(id) \/ Launch(id) \/ JobExits(id)
             \/ Teardown(id) \/ Announce(id)
      PROVE  Frame
  BY <1>3, <1>4 DEF End, GraceElapses, GraceEnds, FallSilent, Touch, Launch, JobExits,
     Teardown, Announce, governance
<1>5. CASE Reap \/ EndAll
  BY <1>3, <1>5 DEF Reap, EndAll
<1>6. ASSUME NEW r \in Reservations, ReserveTranscode(r) \/ ReleaseReservation(r) PROVE Frame
  BY <1>6 DEF ReserveTranscode, ReleaseReservation
<1> QED BY <1>1, <1>2, <1>4, <1>5, <1>6 DEF Next

\* A session here that lives or is being ended.
Working == live \cup tearing \cup announcing

(* The Manager's own steps mint only ids nobody negotiates for, and a      *)
(* session that leaves the map is on its way to its announcement.          *)
LEMMA ManagerWorks ==
    ASSUME TypeOK, ManagerStep
    PROVE  /\ Working \subseteq Working'
           /\ \A i \in SessionIds : asking[i] # None /\ i \in minted' => i \in minted
<1> USE DEF Working, TypeOK
<1> DEFINE Goal == /\ Working \subseteq Working'
                   /\ \A i \in SessionIds : asking[i] # None /\ i \in minted' => i \in minted
<1>1. ASSUME NEW id \in SessionIds, asking[id] = None, NEW u \in Users, NEW dev \in Devices,
             NEW d \in Decisions, NEW r, CreateGoverned(id, u, dev, d, r)
      PROVE  Goal
  BY <1>1 DEF CreateGoverned, closing
<1>2. ASSUME NEW S \in SUBSET live, Remove(S) PROVE Goal
  BY <1>2 DEF Remove
<1>3. ASSUME NEW id \in SessionIds,
             \/ End(id) \/ GraceElapses(id) \/ GraceEnds(id)
             \/ Touch(id) \/ Launch(id) \/ JobExits(id) \/ Teardown(id)
      PROVE  Goal
  BY <1>2, <1>3 DEF End, GraceElapses, GraceEnds, Touch, Launch, JobExits, Teardown, closing
<1>4. CASE Reap \/ EndAll
  BY <1>2, <1>4 DEF Reap, EndAll
<1>5. ASSUME NEW r \in Reservations, ReserveTranscode(r) \/ ReleaseReservation(r) PROVE Goal
  BY <1>5 DEF ReserveTranscode, ReleaseReservation, closing
<1> QED BY <1>1, <1>3, <1>4, <1>5 DEF ManagerStep

-----------------------------------------------------------------------------
(* The variables of the relay keep their types.                            *)
LEMMA RelayTypeInit == RelayInit => RelayTypeOK
BY RelayConstants DEF RelayInit, RelayTypeOK, Up

LEMMA LeaveTypes ==
    ASSUME RelayTypeOK, NEW S, NEW how \in {"ended", "gone", "cutOff"}, Leave(S, how)
    PROVE  /\ there' \in [Remotes -> {"new", "live", "replaced", "ended", "gone", "cutOff"}]
           /\ raw' \subseteq Up' /\ unfetched' \subseteq Up' /\ excused' \subseteq Up'
BY DEF RelayTypeOK, Leave, Up

LEMMA DeleteTypes ==
    ASSUME RelayTypeOK, NEW x, Delete(x)
    PROVE  /\ there' \in [Remotes -> {"new", "live", "replaced", "ended", "gone", "cutOff"}]
           /\ raw' \subseteq Up' /\ unfetched' \subseteq Up' /\ excused' \subseteq Up'
<1>1. CASE Leave({x}, "ended")
  BY <1>1, LeaveTypes
<1>2. CASE excused' = excused \cup ({x} \cap Up) /\ UNCHANGED <<there, raw, unfetched>>
  BY <1>2 DEF RelayTypeOK, Up
<1> QED BY <1>1, <1>2 DEF Delete

LEMMA RelayTypeStep ==
    ASSUME TypeOK, RelayTypeOK, [RelayNext]_relayVars
    PROVE  RelayTypeOK'
<1> USE SessionConstants, RelayConstants
<1>1. CASE UNCHANGED relayVars \/ ManagerStep
  BY <1>1 DEF relayVars, relay, sharer, ManagerStep, RelayTypeOK, Up
<1>2. ASSUME NEW id \in SessionIds, NEW u \in Users, NEW dev \in Devices,
             NEW r \in live \cup {NoSession}, Negotiate(id, u, dev, r)
      PROVE  RelayTypeOK'
  <2>1. r \in SessionIds \cup {NoSession} /\ TheirsOf(u, dev, r) \in Remotes \cup {None}
    BY DEF TheirsOf, Target, TypeOK, RelayTypeOK
  <2>2. asking' \in [SessionIds -> Negotiations \cup {None}]
    BY <1>2, <2>1 DEF Negotiate, Negotiations, RelayTypeOK
  <2> QED BY <1>2, <2>2 DEF Negotiate, sharer, RelayTypeOK, Up
<1>3. ASSUME NEW id \in SessionIds, NEW x \in Remotes, Open(id, x) PROVE RelayTypeOK'
  <2>1. asking[id] \in Negotiations
    BY <1>3 DEF Open, At, RelayTypeOK
  <2>2. asking' \in [SessionIds -> Negotiations \cup {None}]
    BY <1>3, <2>1 DEF Open, Negotiations, RelayTypeOK
  <2>3. there' \in [Remotes -> {"new", "live", "replaced", "ended", "gone", "cutOff"}]
    BY <1>3 DEF Open, RelayTypeOK
  <2>4. Up \cup {x} \subseteq Up'
    BY <1>3 DEF Open, Up, Replaceable, RelayTypeOK
  <2>5. swapped' \in [Remotes -> (Users \X Devices) \cup {None}]
    BY <1>3, <2>1 DEF Open, Negotiations, RelayTypeOK
  <2>6. raw' \subseteq raw \cup {x} /\ excused' \subseteq excused \cup {x}
    BY <1>3 DEF Open
  <2> QED BY <1>3, <2>2, <2>3, <2>4, <2>5, <2>6 DEF Open, RelayTypeOK
<1>4. ASSUME NEW id \in SessionIds, GiveUp(id) \/ HiddenTrack(id) \/ RefuseRelay(id)
      PROVE  RelayTypeOK'
  <2>1. asking[id] \in Negotiations
    BY <1>4 DEF GiveUp, HiddenTrack, RefuseRelay, Stands, At, RelayTypeOK
  <2>2. asking' \in [SessionIds -> Negotiations \cup {None}]
    BY <1>4, <2>1 DEF GiveUp, HiddenTrack, RefuseRelay, Negotiations, RelayTypeOK
  <2> QED BY <1>4, <2>2 DEF GiveUp, HiddenTrack, RefuseRelay, sharer, RelayTypeOK, Up
<1>5. ASSUME NEW id \in SessionIds, EndHeld(id) PROVE RelayTypeOK'
  <2>1. asking[id] \in Negotiations
    BY <1>5 DEF EndHeld, At, RelayTypeOK
  <2>2. asking' \in [SessionIds -> Negotiations \cup {None}]
    BY <1>5, <2>1 DEF EndHeld, Negotiations, RelayTypeOK
  <2>3. Delete(asking[id].holds)
    BY <1>5 DEF EndHeld
  <2> QED BY <1>5, <2>2, <2>3, DeleteTypes DEF EndHeld, RelayTypeOK
<1>6. ASSUME NEW id \in SessionIds, NEW d \in Decisions, CreateRelay(id, d) PROVE RelayTypeOK'
  <2>1. asking[id] \in Negotiations
    BY <1>6 DEF CreateRelay, Stands, At, RelayTypeOK
  <2> QED BY <1>6, <2>1 DEF CreateRelay, Negotiations, sharer, RelayTypeOK, Up
<1>7. ASSUME NEW id \in SessionIds, FallQuiet(id) \/ Fetch(id) \/ AnnounceEnd(id)
      PROVE  RelayTypeOK'
  BY <1>7 DEF FallQuiet, Fetch, AnnounceEnd, Relays, relay, sharer, RelayTypeOK, Up
<1>8. ASSUME NEW x \in Remotes, RelayEndSession(x) PROVE RelayTypeOK'
  BY <1>8, DeleteTypes DEF RelayEndSession, RelayTypeOK
<1>9. ASSUME NEW x \in Remotes, Unfetched(x) PROVE RelayTypeOK'
  BY <1>9 DEF Unfetched, RelayTypeOK, Up
<1>10. ASSUME NEW x \in Remotes, SharerReaps(x) \/ GraceEndsThere(x) PROVE RelayTypeOK'
  <2>1. PICK how \in {"ended", "gone", "cutOff"} : Leave({x}, how)
    BY <1>10 DEF SharerReaps, GraceEndsThere
  <2> QED BY <1>10, <2>1, LeaveTypes DEF SharerReaps, GraceEndsThere, RelayTypeOK
<1>11. CASE SharerRestarts
  BY <1>11, LeaveTypes DEF SharerRestarts, RelayTypeOK
<1> QED
  BY <1>1, <1>2, <1>3, <1>4, <1>5, <1>6, <1>7, <1>8, <1>9, <1>10, <1>11 DEF RelayNext

-----------------------------------------------------------------------------
(* What a step does to the sessions there, and to the claims here.         *)
LEMMA LeaveEffect ==
    ASSUME RelayTypeOK, NEW S, NEW how \in {"ended", "gone", "cutOff"}, Leave(S, how),
           NEW y \in Remotes
    PROVE  /\ there'[y] = there[y] \/ (y \in S \cap Up /\ there'[y] = how)
           /\ y \in S => there'[y] # "live"
           /\ y \notin S /\ y \in excused => y \in excused'
BY DEF Leave, RelayTypeOK, Up

LEMMA DeleteEffect ==
    ASSUME RelayTypeOK, NEW x, Delete(x), NEW y \in Remotes
    PROVE  /\ there'[y] = there[y] \/ (y = x /\ x \in Up /\ there'[y] = "ended")
           /\ y \in excused => y \in excused' \/ there'[y] # "live"
           /\ y = x /\ there'[y] = "live" => y \in excused'
<1>1. CASE Leave({x}, "ended")
  BY <1>1, LeaveEffect DEF Up
<1>2. CASE excused' = excused \cup ({x} \cap Up) /\ UNCHANGED <<there, raw, unfetched>>
  BY <1>2 DEF Up
<1> QED BY <1>1, <1>2 DEF Delete

LEMMA OpenEffect ==
    ASSUME RelayTypeOK, NEW id \in SessionIds, NEW x \in Remotes, Open(id, x)
    PROVE  /\ there[x] = "new" /\ there'[x] = "live"
           /\ excused \subseteq excused'
           /\ asking[id] \in Negotiations /\ asking[id].stage = "asking"
           /\ \/ asking' = asking /\ x \in excused'
              \/ \E b \in BOOLEAN :
                    asking' = [asking EXCEPT ![id] = [@ EXCEPT !.stage = "answered", !.holds = x, !.raw = b]]
           /\ UNCHANGED <<vars, remote, relayEnds>>
<1> USE RelayConstants
<1>1. PICK sent \in {asking[id].theirs, None} :
          /\ there' = [y \in Remotes |-> IF y = x THEN "live"
                                         ELSE IF y \in Replaceable(sent) THEN "replaced"
                                         ELSE there[y]]
          /\ swapped' = [y \in Remotes |-> IF y \in Replaceable(sent)
                                           THEN <<asking[id].user, asking[id].device>>
                                           ELSE swapped[y]]
  BY DEF Open
<1>3. asking[id] \in Negotiations /\ asking[id].stage = "asking" /\ there[x] = "new" /\ there'[x] = "live"
  BY <1>1 DEF Open, At, RelayTypeOK
<1>4. \/ asking' = asking /\ x \in excused' /\ excused \subseteq excused'
      \/ /\ asking' = [asking EXCEPT ![id] = [@ EXCEPT !.stage = "answered", !.holds = x, !.raw = (x \in raw')]]
         /\ excused' = excused
  BY DEF Open
<1>6. (x \in raw') \in BOOLEAN
  OBVIOUS
<1>5. UNCHANGED <<vars, remote, relayEnds>>
  BY DEF Open
<1>7. \/ asking' = asking /\ x \in excused'
      \/ \E b \in BOOLEAN :
            asking' = [asking EXCEPT ![id] = [@ EXCEPT !.stage = "answered", !.holds = x, !.raw = b]]
  BY <1>4, <1>6
<1>8. excused \subseteq excused'
  BY <1>4
<1> QED BY <1>3, <1>5, <1>7, <1>8

\* ... and of another session there, y.
LEMMA OpenOther ==
    ASSUME RelayTypeOK, NEW id \in SessionIds, NEW x \in Remotes, Open(id, x),
           NEW y \in Remotes, y # x
    PROVE  \/ there'[y] = there[y] /\ swapped'[y] = swapped[y]
           \/ /\ there[y] = "live" /\ there'[y] = "replaced" /\ y = asking[id].theirs
              /\ swapped'[y] = <<asking[id].user, asking[id].device>>
BY RelayConstants DEF Open, Replaceable, RelayTypeOK

LEMMA HeldEnds ==
    ASSUME RelayTypeOK, NEW id \in SessionIds, EndHeld(id)
    PROVE  /\ asking[id] \in Negotiations /\ asking[id] # None
           /\ \A i \in SessionIds \ {id} : asking'[i] = asking[i]
           /\ \/ asking'[id] = None
              \/ /\ asking'[id].stage = "asking" /\ asking'[id].holds = None
                 /\ asking'[id].theirs = asking[id].theirs
                 /\ asking'[id].user = asking[id].user /\ asking'[id].device = asking[id].device
           /\ Delete(asking[id].holds) /\ UNCHANGED <<vars, remote, relayEnds, swapped>>
<1> DEFINE next == [asking[id] EXCEPT !.stage = "asking", !.holds = None, !.again = TRUE]
<1>1. asking[id] \in Negotiations /\ asking[id] # None
  BY RelayConstants DEF EndHeld, At, RelayTypeOK
<1>2. asking'[id] = None \/ asking'[id] = next
  BY DEF EndHeld, RelayTypeOK
<1>3. /\ next.stage = "asking" /\ next.holds = None /\ next.theirs = asking[id].theirs
      /\ next.user = asking[id].user /\ next.device = asking[id].device
  BY <1>1 DEF Negotiations
<1>4. Delete(asking[id].holds) /\ UNCHANGED <<vars, remote, relayEnds, swapped>>
      /\ \A i \in SessionIds \ {id} : asking'[i] = asking[i]
  BY DEF EndHeld, RelayTypeOK
<1> HIDE DEF next
<1> QED BY <1>1, <1>2, <1>3, <1>4

LEMMA SameViewerKept ==
    ASSUME Frame, NEW n, SameViewer(n), \A k \in minted : remote'[k] = remote[k], n.theirs # None
    PROVE  \E k \in minted' : remote'[k] = n.theirs /\ Viewer(k)' = <<n.user, n.device>>
<1>1. PICK k \in minted : remote[k] = n.theirs /\ Viewer(k) = <<n.user, n.device>>
  BY DEF SameViewer
<1>2. k \in minted' /\ sess'[k] = sess[k] /\ remote'[k] = remote[k]
  BY DEF Frame
<1> QED BY <1>1, <1>2 DEF Viewer

-----------------------------------------------------------------------------
(* A step opens one session there, for one negotiation or for nobody, or   *)
(* leaves each claim as it was or gives it up.                             *)
LEMMA ClaimStep ==
    ASSUME TypeOK, RelayTypeOK, \A i \in SessionIds : Shape(i), [RelayNext]_relayVars
    PROVE  \/ \A i \in SessionIds : Claim(i)' \in {Claim(i), None}
           \/ \E id \in SessionIds, x \in Remotes :
                 /\ there[x] = "new" /\ there'[x] = "live" /\ Claim(id)' = x /\ id \notin minted
                 /\ \A i \in SessionIds \ {id} : Claim(i)' = Claim(i)
<1> USE RelayConstants
<1> DEFINE Kept == \A i \in SessionIds : Claim(i)' \in {Claim(i), None}
           Opened == \E id \in SessionIds, x \in Remotes :
                 /\ there[x] = "new" /\ there'[x] = "live" /\ Claim(id)' = x /\ id \notin minted
                 /\ \A i \in SessionIds \ {id} : Claim(i)' = Claim(i)
<1>1. ASSUME UNCHANGED <<asking, remote>> PROVE Kept
  BY <1>1 DEF Claim
<1>2. ASSUME NEW id \in SessionIds, NEW u \in Users, NEW dev \in Devices,
             NEW r \in live \cup {NoSession}, Negotiate(id, u, dev, r)
      PROVE  Kept
  <2>1. /\ asking'[id].holds = None /\ remote' = remote
        /\ \A i \in SessionIds \ {id} : asking'[i] = asking[i]
    BY <1>2 DEF Negotiate, RelayTypeOK
  <2>2. remote[id] = None
    BY <1>2 DEF Negotiate, Shape
  <2> QED BY <2>1, <2>2 DEF Claim
<1>3. ASSUME NEW id \in SessionIds, NEW x \in Remotes, Open(id, x) PROVE Kept \/ Opened
  <2>1. CASE asking' = asking
    BY <1>1, <1>3, <2>1, OpenEffect
  <2>2. ASSUME NEW b \in BOOLEAN,
               asking' = [asking EXCEPT ![id] = [@ EXCEPT !.stage = "answered", !.holds = x, !.raw = b]]
        PROVE  Opened
    <3>1. /\ asking[id] \in Negotiations /\ asking[id] # None /\ remote' = remote
          /\ there[x] = "new" /\ there'[x] = "live"
      BY <1>3, OpenEffect
    <3>2. /\ asking'[id] \in Negotiations /\ asking'[id].holds = x
          /\ \A i \in SessionIds \ {id} : asking'[i] = asking[i]
      BY <2>2, <3>1 DEF RelayTypeOK, Negotiations
    <3>3. Claim(id)' = x /\ \A i \in SessionIds \ {id} : Claim(i)' = Claim(i)
      BY <3>1, <3>2 DEF Claim
    <3> QED BY <3>1, <3>3 DEF Shape
  <2>3. \/ asking' = asking
        \/ \E b \in BOOLEAN :
              asking' = [asking EXCEPT ![id] = [@ EXCEPT !.stage = "answered", !.holds = x, !.raw = b]]
    BY <1>3, OpenEffect
  <2> QED BY <2>1, <2>2, <2>3
<1>4. ASSUME NEW id \in SessionIds,
             GiveUp(id) \/ HiddenTrack(id) \/ RefuseRelay(id) \/ EndHeld(id)
      PROVE  Kept
  <2>1. asking[id] \in Negotiations /\ asking[id] # None /\ remote' = remote
    BY <1>4 DEF GiveUp, HiddenTrack, RefuseRelay, EndHeld, Stands, At, RelayTypeOK
  <2>2. \A i \in SessionIds \ {id} : asking'[i] = asking[i]
    BY <1>4 DEF GiveUp, HiddenTrack, RefuseRelay, EndHeld, RelayTypeOK
  <2>4. ASSUME GiveUp(id) \/ HiddenTrack(id) \/ RefuseRelay(id)
        PROVE  asking'[id] = None \/ asking'[id].holds \in {asking[id].holds, None}
    BY <2>1, <2>4 DEF GiveUp, HiddenTrack, RefuseRelay, RelayTypeOK, Negotiations
  <2>5. ASSUME EndHeld(id) PROVE asking'[id] = None \/ asking'[id].holds = None
    BY <2>5, HeldEnds
  <2>6. asking'[id] = None \/ asking'[id].holds \in {asking[id].holds, None}
    BY <1>4, <2>4, <2>5
  <2>3. remote[id] = None
    BY <2>1 DEF Shape
  <2> QED BY <2>1, <2>2, <2>3, <2>6 DEF Claim
<1>5. ASSUME NEW id \in SessionIds, NEW d \in Decisions, CreateRelay(id, d) PROVE Kept
  <2>1. asking[id] # None /\ asking'[id] = None /\ remote'[id] = asking[id].holds
    BY <1>5 DEF CreateRelay, Stands, At, RelayTypeOK
  <2>2. \A i \in SessionIds \ {id} : asking'[i] = asking[i] /\ remote'[i] = remote[i]
    BY <1>5 DEF CreateRelay, RelayTypeOK
  <2> QED BY <2>1, <2>2 DEF Claim
<1>6. ASSUME \/ UNCHANGED relayVars \/ ManagerStep \/ SharerRestarts
             \/ \E id \in SessionIds : FallQuiet(id) \/ Fetch(id) \/ AnnounceEnd(id)
             \/ \E x \in Remotes : RelayEndSession(x) \/ Unfetched(x) \/ SharerReaps(x)
                                   \/ GraceEndsThere(x)
      PROVE  UNCHANGED <<asking, remote>>
  BY <1>6 DEF relayVars, relay, ManagerStep, SharerRestarts, FallQuiet, Fetch, AnnounceEnd,
     RelayEndSession, Unfetched, SharerReaps, GraceEndsThere
<1> QED
  BY <1>1, <1>2, <1>3, <1>4, <1>5, <1>6 DEF RelayNext

(* No session there is opened twice, and end calls are started by the      *)
(* announcement of an end only.                                            *)
LEMMA CallStep ==
    ASSUME TypeOK, RelayTypeOK, [RelayNext]_relayVars
    PROVE  /\ \A y \in Remotes : there[y] # "new" => there'[y] # "new"
           /\ \/ relayEnds' \subseteq relayEnds
              \/ \E id \in announcing : Relays(id) /\ relayEnds' = relayEnds \cup {remote[id]}
                                        /\ UNCHANGED <<asking, remote>>
<1> DEFINE Old == \A y \in Remotes : there[y] # "new" => there'[y] # "new"
           Ends == \/ relayEnds' \subseteq relayEnds
                   \/ \E id \in announcing : Relays(id) /\ relayEnds' = relayEnds \cup {remote[id]}
                                             /\ UNCHANGED <<asking, remote>>
<1>1. ASSUME \/ UNCHANGED relayVars \/ ManagerStep
             \/ \E id \in SessionIds : FallQuiet(id) \/ Fetch(id)
             \/ \E id \in SessionIds : GiveUp(id) \/ HiddenTrack(id) \/ RefuseRelay(id)
             \/ \E id \in SessionIds, d \in Decisions : CreateRelay(id, d)
             \/ \E x \in Remotes : Unfetched(x)
             \/ \E id \in SessionIds, u \in Users, dev \in Devices, r \in live \cup {NoSession} :
                   Negotiate(id, u, dev, r)
      PROVE  UNCHANGED <<there, relayEnds>>
  BY <1>1 DEF relayVars, relay, sharer, ManagerStep, FallQuiet, Fetch, GiveUp, HiddenTrack,
     RefuseRelay, CreateRelay, Unfetched, Negotiate
<1>2. ASSUME NEW id \in SessionIds, AnnounceEnd(id) PROVE Old /\ Ends
  BY <1>2 DEF AnnounceEnd, Announce, sharer
<1>3. ASSUME NEW id \in SessionIds, NEW x \in Remotes, Open(id, x) PROVE Old /\ Ends
  <2>1. relayEnds' = relayEnds
    BY <1>3, OpenEffect
  <2>2. ASSUME NEW y \in Remotes, there[y] # "new" PROVE there'[y] # "new"
    BY <1>3, <2>2, OpenEffect, OpenOther
  <2> QED BY <2>1, <2>2
<1>4. ASSUME NEW id \in SessionIds, EndHeld(id) PROVE Old /\ Ends
  <2>1. Delete(asking[id].holds) /\ relayEnds' = relayEnds
    BY <1>4 DEF EndHeld
  <2>2. Old
    BY <2>1, DeleteEffect
  <2> QED BY <2>1, <2>2
<1>5. ASSUME NEW x \in Remotes, RelayEndSession(x) PROVE Old /\ Ends
  <2>1. Delete(x) /\ relayEnds' \subseteq relayEnds
    BY <1>5 DEF RelayEndSession
  <2>2. Old
    BY <2>1, DeleteEffect
  <2> QED BY <2>1, <2>2
<1>6. ASSUME \/ SharerRestarts
             \/ \E x \in Remotes : SharerReaps(x) \/ GraceEndsThere(x)
      PROVE  Old /\ Ends
  <2>1. ASSUME NEW S, NEW how \in {"ended", "gone", "cutOff"}, Leave(S, how) PROVE Old
    BY <2>1, LeaveEffect
  <2>2. Old
    BY <1>6, <2>1 DEF SharerRestarts, SharerReaps, GraceEndsThere
  <2>3. relayEnds' = relayEnds
    BY <1>6 DEF SharerRestarts, SharerReaps, GraceEndsThere
  <2> QED BY <2>2, <2>3
<1>7. ASSUME UNCHANGED <<there, relayEnds>> PROVE Old /\ Ends
  BY <1>7
<1> QED
  <2>1. Old /\ Ends
    BY <1>1, <1>2, <1>3, <1>4, <1>5, <1>6, <1>7 DEF RelayNext
  <2> QED BY <2>1

(* Nobody takes over a claim, and a claim is not given up late.            *)
LEMMA ClaimsStep ==
    ASSUME TypeOK, \A i \in SessionIds : DyingOnce(i),
           RelayTypeOK, \A i \in SessionIds : Shape(i), Apart, Sent, [RelayNext]_relayVars
    PROVE  Apart' /\ Sent'
<1> USE RelayConstants
<1>1. Frame
  BY RelayIsManager, ManagerFrame
<1>2. \A i \in SessionIds : Claim(i) \in Remotes \cup {None}
  BY DEF Claim, RelayTypeOK, Negotiations
<1>3. Apart'
  BY <1>2, ClaimStep DEF Apart, Sent
<1>4. ASSUME NEW x \in relayEnds' PROVE there'[x] # "new"
  <2>1. CASE x \in relayEnds
    BY <2>1, CallStep DEF Sent, RelayTypeOK
  <2>2. CASE x \notin relayEnds
    <3>1. PICK id \in announcing : Relays(id) /\ x = remote[id]
      BY <2>2, CallStep
    <3>2. id \in SessionIds /\ Claim(id) = x /\ x \in Remotes
      BY <3>1 DEF TypeOK, Shape, Relays, Claim, RelayTypeOK
    <3> QED BY <3>1, <3>2, CallStep DEF Sent, Relays
  <2> QED BY <2>1, <2>2
<1>5. ASSUME NEW i \in SessionIds, Claim(i)' # None PROVE there'[Claim(i)'] # "new"
  <2>1. CASE Claim(i)' = Claim(i)
    BY <1>2, <1>5, <2>1, CallStep DEF Sent
  <2>2. CASE Claim(i)' # Claim(i)
    BY <1>5, <2>2, ClaimStep
  <2> QED BY <2>1, <2>2
<1>6. ASSUME NEW i \in SessionIds, Claim(i)' # None, Claim(i)' \in relayEnds'
      PROVE  i \in minted' \ live'
  <2>1. CASE Claim(i)' = Claim(i)
    <3>1. CASE Claim(i) \in relayEnds
      BY <1>1, <1>6, <2>1, <3>1 DEF Sent, Frame
    <3>2. CASE Claim(i) \notin relayEnds
      <4>1. PICK id \in announcing : Relays(id) /\ Claim(i) = remote[id]
        BY <1>6, <2>1, <3>2, CallStep
      <4>2. id \in SessionIds /\ id \in minted \ live /\ Claim(id) = Claim(i) /\ Claim(i) # None
        BY <4>1 DEF TypeOK, DyingOnce, Shape, Relays, Claim
      <4>3. i = id
        BY <4>2 DEF Apart
      <4> QED BY <1>1, <4>2, <4>3 DEF Frame
    <3> QED BY <3>1, <3>2
  <2>2. CASE Claim(i)' # Claim(i)
    <3>1. there[Claim(i)'] = "new" /\ Claim(i)' \in Remotes
      BY <1>6, <2>2, ClaimStep
    <3>2. Claim(i)' \notin relayEnds
      BY <3>1 DEF Sent
    <3>3. PICK id \in announcing : Relays(id) /\ UNCHANGED <<asking, remote>>
      BY <1>6, <3>2, CallStep
    <3> QED BY <2>2, <3>3 DEF Claim
  <2> QED BY <2>1, <2>2
<1> QED BY <1>3, <1>4, <1>5, <1>6 DEF Sent

-----------------------------------------------------------------------------
LEMMA ShapeKept ==
    ASSUME RelayTypeOK, Frame, NEW i \in SessionIds, Shape(i),
           asking'[i] = asking[i], remote'[i] = remote[i],
           \A k \in minted : remote'[k] = remote[k],
           asking[i] # None => i \notin minted',
           asking[i] # None /\ asking[i].holds # None =>
              there'[asking[i].holds] \in {"live", "gone", "cutOff"}
    PROVE  Shape(i)'
<1>1. remote'[i] # None => i \in minted'
  BY DEF Shape, Frame
<1>2. asking[i] # None => SameViewer(asking[i])'
  BY SameViewerKept DEF Shape, SameViewer
<1> QED BY <1>1, <1>2 DEF Shape

LEMMA ShapeStep ==
    ASSUME TypeOK, RelayTypeOK, \A i \in SessionIds : Shape(i), Apart, Sent, [RelayNext]_relayVars
    PROVE  (\A i \in SessionIds : Shape(i))'
<1> USE RelayConstants
<1> DEFINE Goal == \A i \in SessionIds : Shape(i)'
           HeldBy(i) == asking[i] # None /\ asking[i].holds # None
<1>1. Frame
  BY RelayIsManager, ManagerFrame
<1>2. \A i \in SessionIds : asking[i] # None => asking[i] \in Negotiations
  BY DEF RelayTypeOK
\* A claim of a negotiation is nobody else's.
<1>3. ASSUME NEW i \in SessionIds, HeldBy(i)
      PROVE  /\ asking[i].holds \in Remotes \ relayEnds
             /\ \A k \in minted : remote[k] # asking[i].holds
  <2>1. Claim(i) = asking[i].holds /\ i \notin minted
    BY <1>3 DEF Claim, Shape
  <2>2. \A k \in minted : k \in SessionIds /\ Claim(k) = remote[k]
    BY DEF TypeOK, Claim, Shape
  <2> QED BY <1>2, <1>3, <2>1, <2>2 DEF Sent, Apart, Negotiations
<1>4. ASSUME UNCHANGED <<asking, remote>>,
             \A i \in SessionIds : asking[i] # None => i \notin minted',
             \A i \in SessionIds : HeldBy(i) => there'[asking[i].holds] \in {"live", "gone", "cutOff"}
      PROVE  Goal
  BY <1>1, <1>4, ShapeKept
<1>5. CASE UNCHANGED relayVars \/ ManagerStep
  <2>1. UNCHANGED <<asking, remote, there>>
    BY <1>5 DEF relayVars, relay, sharer, ManagerStep
  <2>2. \A i \in SessionIds : asking[i] # None => i \notin minted'
    BY <1>5, ManagerWorks DEF relayVars, vars, Shape
  <2> QED BY <1>4, <2>1, <2>2 DEF Shape
<1>6. ASSUME \/ \E id \in SessionIds : FallQuiet(id) \/ Fetch(id) \/ AnnounceEnd(id)
             \/ \E x \in Remotes : Unfetched(x)
      PROVE  Goal
  <2>1. UNCHANGED <<asking, remote, there, minted>>
    BY <1>6 DEF FallQuiet, FallSilent, Fetch, Touch, AnnounceEnd, Announce, Unfetched, vars,
       relay, sharer
  <2> QED BY <1>4, <2>1 DEF Shape
<1>7. ASSUME NEW x \in Remotes, RelayEndSession(x) PROVE Goal
  <2>1. UNCHANGED <<asking, remote, minted>> /\ Delete(x) /\ x \in relayEnds
    BY <1>7 DEF RelayEndSession, vars
  <2>2. ASSUME NEW i \in SessionIds, HeldBy(i)
        PROVE  there'[asking[i].holds] \in {"live", "gone", "cutOff"}
    BY <1>3, <2>1, <2>2, DeleteEffect DEF Shape
  <2> QED BY <1>4, <2>1, <2>2 DEF Shape
<1>8. ASSUME NEW x \in Remotes, SharerReaps(x) PROVE Goal
  <2>1. PICK how \in {"gone", "cutOff"} : Leave({x}, how)
    BY <1>8 DEF SharerReaps
  <2>2. ASSUME NEW i \in SessionIds, HeldBy(i)
        PROVE  there'[asking[i].holds] \in {"live", "gone", "cutOff"}
    BY <1>3, <2>1, <2>2, LeaveEffect DEF Shape
  <2>3. UNCHANGED <<asking, remote, minted>>
    BY <1>8 DEF SharerReaps, vars
  <2> QED BY <1>4, <2>2, <2>3 DEF Shape
<1>9. ASSUME SharerRestarts PROVE Goal
  <2>1. UNCHANGED <<asking, remote, minted>> /\ Leave(Up, "gone")
    BY <1>9 DEF SharerRestarts, vars
  <2>2. ASSUME NEW i \in SessionIds, HeldBy(i)
        PROVE  there'[asking[i].holds] \in {"live", "gone", "cutOff"}
    BY <1>3, <2>1, <2>2, LeaveEffect DEF Shape
  <2> QED BY <1>4, <2>1, <2>2 DEF Shape
<1>10. ASSUME NEW x \in Remotes, GraceEndsThere(x) PROVE Goal
  <2>1. UNCHANGED <<asking, remote, minted>> /\ Leave({x}, "ended") /\ there[x] = "replaced"
    BY <1>10 DEF GraceEndsThere, vars
  <2>2. ASSUME NEW i \in SessionIds, HeldBy(i)
        PROVE  there'[asking[i].holds] \in {"live", "gone", "cutOff"}
    BY <1>3, <2>1, <2>2, LeaveEffect DEF Shape
  <2> QED BY <1>4, <2>1, <2>2 DEF Shape
\* What a negotiation's own step leaves as it was for the others.
<1>11. ASSUME NEW id \in SessionIds, \A i \in SessionIds \ {id} : asking'[i] = asking[i],
              UNCHANGED <<remote, minted, there>>
       PROVE  \A i \in SessionIds \ {id} : Shape(i)'
  BY <1>1, <1>11, ShapeKept DEF Shape
<1>12. ASSUME NEW id \in SessionIds, NEW u \in Users, NEW dev \in Devices,
              NEW r \in live \cup {NoSession}, Negotiate(id, u, dev, r)
       PROVE  Goal
  <2> DEFINE n == asking'[id]
  <2>1. /\ n = [stage |-> "asking", user |-> u, device |-> dev, replaces |-> r,
                theirs |-> TheirsOf(u, dev, r), holds |-> None, raw |-> FALSE, again |-> FALSE]
        /\ id \notin minted /\ UNCHANGED <<remote, minted, there, sess>>
        /\ \A i \in SessionIds \ {id} : asking'[i] = asking[i]
    BY <1>12 DEF Negotiate, RelayTypeOK, vars, sharer
  <2>2. n.stage = "asking" /\ n.holds = None /\ n.theirs = TheirsOf(u, dev, r)
        /\ n.user = u /\ n.device = dev
    BY <2>1
  <2>3. ASSUME TheirsOf(u, dev, r) # None
        PROVE  r \in minted /\ remote[r] = TheirsOf(u, dev, r) /\ Viewer(r) = <<u, dev>>
    BY <2>3 DEF TheirsOf, Target, TypeOK, Viewer
  <2>4. SameViewer(asking[id])'
    BY <2>1, <2>2, <2>3 DEF SameViewer, Viewer
  <2>5. Shape(id)'
    BY <2>1, <2>2, <2>4 DEF Shape
  <2> QED BY <1>11, <2>1, <2>5
<1>13. ASSUME NEW id \in SessionIds, NEW x \in Remotes, Open(id, x) PROVE Goal
  <2>1. /\ asking[id] \in Negotiations /\ asking[id] # None
        /\ UNCHANGED <<remote, minted, sess>> /\ there'[x] = "live"
    BY <1>13, OpenEffect DEF vars
  <2>2. asking[id].theirs # None => \E k \in minted : remote[k] = asking[id].theirs
    BY <2>1 DEF Shape, SameViewer
  <2>3. ASSUME NEW i \in SessionIds, HeldBy(i)
        PROVE  there'[asking[i].holds] \in {"live", "gone", "cutOff"}
    <3>1. asking[i].holds \in Remotes /\ asking[i].holds # asking[id].theirs
      BY <1>3, <2>1, <2>2, <2>3
    <3>2. CASE asking[i].holds = x
      BY <2>1, <3>2
    <3>3. CASE asking[i].holds # x
      <4>1. there'[asking[i].holds] = there[asking[i].holds]
        BY <1>13, <3>1, <3>3, OpenOther
      <4> QED BY <2>3, <4>1 DEF Shape
    <3> QED BY <3>2, <3>3
  <2>4. CASE asking' = asking
    BY <1>4, <2>1, <2>3, <2>4 DEF Shape
  <2>5. ASSUME NEW b \in BOOLEAN,
               asking' = [asking EXCEPT ![id] = [@ EXCEPT !.stage = "answered", !.holds = x, !.raw = b]]
        PROVE  Goal
    <3>1. asking'[id] = [asking[id] EXCEPT !.stage = "answered", !.holds = x, !.raw = b]
          /\ \A i \in SessionIds \ {id} : asking'[i] = asking[i]
      BY <2>5 DEF RelayTypeOK
    <3>2. /\ asking'[id].stage = "answered" /\ asking'[id].holds = x
          /\ asking'[id].theirs = asking[id].theirs
          /\ asking'[id].user = asking[id].user /\ asking'[id].device = asking[id].device
      BY <2>1, <3>1 DEF Negotiations
    <3>3. SameViewer(asking[id])'
      BY <2>1, <3>2 DEF Shape, SameViewer, Viewer
    <3>4. Shape(id)'
      BY <2>1, <3>2, <3>3 DEF Shape
    <3>5. \A i \in SessionIds \ {id} : Shape(i)'
      BY <1>1, <2>1, <2>3, <3>1, ShapeKept DEF Shape
    <3> QED BY <3>4, <3>5
  <2>6. \/ asking' = asking
        \/ \E b \in BOOLEAN :
              asking' = [asking EXCEPT ![id] = [@ EXCEPT !.stage = "answered", !.holds = x, !.raw = b]]
    BY <1>13, OpenEffect
  <2> QED BY <2>4, <2>5, <2>6
<1>14. ASSUME NEW id \in SessionIds, GiveUp(id) \/ HiddenTrack(id) \/ RefuseRelay(id) PROVE Goal
  <2>1. /\ asking[id] \in Negotiations /\ asking[id] # None
        /\ UNCHANGED <<remote, minted, there, sess>>
        /\ \A i \in SessionIds \ {id} : asking'[i] = asking[i]
    BY <1>14 DEF GiveUp, HiddenTrack, RefuseRelay, Stands, At, RelayTypeOK, vars, sharer
  <2>2. \/ asking'[id] = None
        \/ /\ asking[id].stage = "answered"
           /\ \E s \in {"retrying", "refusing"} : asking'[id] = [asking[id] EXCEPT !.stage = s]
    BY <1>14 DEF GiveUp, HiddenTrack, RefuseRelay, Stands, At, RelayTypeOK
  <2>3. ASSUME NEW s \in {"retrying", "refusing"}, asking[id].stage = "answered",
               asking'[id] = [asking[id] EXCEPT !.stage = s]
        PROVE  Shape(id)'
    <3>1. /\ asking'[id].stage # "asking" /\ asking'[id].holds = asking[id].holds
          /\ asking'[id].theirs = asking[id].theirs
          /\ asking'[id].user = asking[id].user /\ asking'[id].device = asking[id].device
      BY <2>1, <2>3 DEF Negotiations
    <3>2. SameViewer(asking[id])'
      BY <2>1, <3>1 DEF Shape, SameViewer, Viewer
    <3> QED BY <2>1, <2>3, <3>1, <3>2 DEF Shape
  <2>4. Shape(id)'
    BY <2>1, <2>2, <2>3 DEF Shape
  <2> QED BY <1>11, <2>1, <2>4
<1>15. ASSUME NEW id \in SessionIds, EndHeld(id) PROVE Goal
  <2>1. /\ asking[id] \in Negotiations /\ asking[id] # None
        /\ UNCHANGED <<remote, minted, sess>> /\ Delete(asking[id].holds)
        /\ \A i \in SessionIds \ {id} : asking'[i] = asking[i]
    BY <1>15, HeldEnds DEF vars
  <2>2. ASSUME asking'[id] # None
        PROVE  /\ asking'[id].stage = "asking" /\ asking'[id].holds = None
               /\ asking'[id].theirs = asking[id].theirs
               /\ asking'[id].user = asking[id].user /\ asking'[id].device = asking[id].device
    BY <1>15, <2>2, HeldEnds
  <2>3. asking'[id] # None => SameViewer(asking[id])'
    BY <2>1, <2>2 DEF Shape, SameViewer, Viewer
  <2>4. Shape(id)'
    BY <2>1, <2>2, <2>3 DEF Shape
  <2>5. ASSUME NEW i \in SessionIds \ {id}, HeldBy(i)
        PROVE  there'[asking[i].holds] \in {"live", "gone", "cutOff"}
    <3>1. asking[i].holds # asking[id].holds /\ asking[i].holds \in Remotes
      BY <1>3, <2>1, <2>5 DEF Apart, Claim
    <3> QED BY <2>1, <2>5, <3>1, DeleteEffect DEF Shape
  <2>6. \A i \in SessionIds \ {id} : Shape(i)'
    BY <1>1, <2>1, <2>5, ShapeKept DEF Shape
  <2> QED BY <2>4, <2>6
<1>16. ASSUME NEW id \in SessionIds, NEW d \in Decisions, CreateRelay(id, d) PROVE Goal
  <2>1. /\ asking'[id] = None /\ minted' = minted \cup {id} /\ id \notin minted /\ there' = there
        /\ \A i \in SessionIds \ {id} : asking'[i] = asking[i] /\ remote'[i] = remote[i]
    BY <1>16 DEF CreateRelay, CreateGoverned, RelayTypeOK, sharer
  <2>2. Shape(id)'
    BY <2>1 DEF Shape
  <2>3. \A k \in minted : remote'[k] = remote[k]
    BY <2>1 DEF TypeOK
  <2>4. \A i \in SessionIds \ {id} : Shape(i)'
    BY <1>1, <2>1, <2>3, ShapeKept DEF Shape
  <2> QED BY <2>2, <2>4
<1> QED
  <2>1. Goal
    BY <1>5, <1>6, <1>7, <1>8, <1>9, <1>10, <1>12, <1>13, <1>14, <1>15, <1>16 DEF RelayNext
  <2> QED BY <2>1

-----------------------------------------------------------------------------
-----------------------------------------------------------------------------
Cared(x) == Held(x) \/ Wrapped(x) \/ x \in relayEnds \/ x \in excused

Tended(x) == there[x] = "live" => Cared(x)

LEMMA CareKept ==
    ASSUME TypeOK, NEW x \in Remotes, Cared(x),
           \A i \in SessionIds : asking[i] # None /\ asking[i].holds = x =>
              asking'[i] # None /\ asking'[i].holds = x,
           Working \subseteq Working', \A i \in Working : remote'[i] = remote[i],
           x \in relayEnds => x \in relayEnds', x \in excused => x \in excused'
    PROVE  Cared(x)'
<1>1. CASE Held(x)
  BY <1>1 DEF Held, Cared
<1>2. CASE Wrapped(x)
  BY <1>2 DEF Wrapped, Cared, Working
<1> QED BY <1>1, <1>2 DEF Cared

LEMMA NoStraysStep ==
    ASSUME TypeOK, RelayTypeOK, \A i \in SessionIds : Shape(i), NoStrays, [RelayNext]_relayVars
    PROVE  NoStrays'
<1> USE RelayConstants
<1> DEFINE Goal == \A y \in Remotes : Tended(y)'
<1>1. \A y \in Remotes : there[y] = "live" => Cared(y)
  BY DEF NoStrays, Cared
<1>2. ASSUME UNCHANGED <<asking, remote, relayEnds, there, excused>>, Working \subseteq Working'
      PROVE  Goal
  BY <1>1, <1>2, CareKept DEF Tended
<1>3. ASSUME UNCHANGED relayVars \/ ManagerStep PROVE Goal
  <2>1. UNCHANGED <<asking, remote, relayEnds, there, excused>>
    BY <1>3 DEF relayVars, relay, sharer, ManagerStep
  <2>2. ASSUME UNCHANGED vars PROVE Goal
    BY <1>2, <2>1, <2>2 DEF vars, closing, Working
  <2>3. ASSUME ManagerStep PROVE Goal
    BY <1>2, <2>1, <2>3, ManagerWorks
  <2> QED BY <1>3, <2>2, <2>3 DEF relayVars
<1>4. ASSUME \/ \E id \in SessionIds : FallQuiet(id) \/ Fetch(id)
             \/ \E x \in Remotes : Unfetched(x)
      PROVE  Goal
  <2>1. UNCHANGED <<asking, remote, relayEnds, there, excused, live, tearing, announcing>>
    BY <1>4 DEF FallQuiet, FallSilent, Fetch, Touch, Unfetched, vars, closing, relay, sharer
  <2> QED BY <1>2, <2>1 DEF Working
<1>5. ASSUME NEW id \in SessionIds,
             UNCHANGED <<vars, remote, relayEnds, there, excused>>,
             \A i \in SessionIds \ {id} : asking'[i] = asking[i],
             asking[id] # None /\ asking[id].holds # None =>
                asking'[id] # None /\ asking'[id].holds = asking[id].holds
      PROVE  Goal
  <2>1. Working' = Working
    BY <1>5 DEF Working, vars, closing
  <2>2. ASSUME NEW y \in Remotes, NEW i \in SessionIds, asking[i] # None, asking[i].holds = y
        PROVE  asking'[i] # None /\ asking'[i].holds = y
    BY <1>5, <2>2
  <2> QED BY <1>1, <1>5, <2>1, <2>2, CareKept DEF Tended
<1>6. ASSUME NEW id \in SessionIds, NEW u \in Users, NEW dev \in Devices,
             NEW r \in live \cup {NoSession}, Negotiate(id, u, dev, r)
      PROVE  Goal
  BY <1>5, <1>6 DEF Negotiate, sharer, RelayTypeOK
<1>7. ASSUME NEW id \in SessionIds, GiveUp(id) PROVE Goal
  BY <1>5, <1>7 DEF GiveUp, At, Shape, sharer, RelayTypeOK
<1>8. ASSUME NEW id \in SessionIds, HiddenTrack(id) \/ RefuseRelay(id) PROVE Goal
  <2>1. /\ asking[id] \in Negotiations /\ asking[id] # None
        /\ UNCHANGED <<vars, remote, relayEnds, sharer>>
        /\ \A i \in SessionIds \ {id} : asking'[i] = asking[i]
    BY <1>8 DEF HiddenTrack, RefuseRelay, Stands, At, RelayTypeOK
  <2>2. \E s \in {"retrying", "refusing"} : asking'[id] = [asking[id] EXCEPT !.stage = s]
    BY <1>8 DEF HiddenTrack, RefuseRelay, RelayTypeOK
  <2>3. asking'[id] # None /\ asking'[id].holds = asking[id].holds
    BY <2>1, <2>2 DEF Negotiations
  <2> QED BY <1>5, <2>1, <2>3 DEF sharer
<1>9. ASSUME UNCHANGED <<vars, asking, remote>>, NEW y \in Remotes, there[y] = "live",
             y \in relayEnds => y \in relayEnds' \/ y \in excused', y \in excused => y \in excused'
      PROVE  Cared(y)'
  BY <1>1, <1>9 DEF Cared, Held, Wrapped, vars, closing
<1>10. ASSUME NEW x \in Remotes, RelayEndSession(x) PROVE Goal
  <2>1. UNCHANGED <<vars, asking, remote>> /\ Delete(x) /\ relayEnds' = relayEnds \ {x}
    BY <1>10 DEF RelayEndSession
  <2> QED BY <1>9, <2>1, DeleteEffect DEF Tended
<1>11. ASSUME \/ SharerRestarts
              \/ \E x \in Remotes : SharerReaps(x) \/ GraceEndsThere(x)
       PROVE  Goal
  <2>1. UNCHANGED <<vars, asking, remote, relayEnds>>
    BY <1>11 DEF SharerRestarts, SharerReaps, GraceEndsThere
  <2>2. ASSUME NEW S, NEW how \in {"ended", "gone", "cutOff"}, Leave(S, how) PROVE Goal
    BY <1>9, <2>1, <2>2, LeaveEffect DEF Tended
  <2> QED BY <1>11, <2>2 DEF SharerRestarts, SharerReaps, GraceEndsThere
<1>12. ASSUME NEW id \in SessionIds, NEW x \in Remotes, Open(id, x) PROVE Goal
  <2>1. /\ asking[id] \in Negotiations /\ asking[id] # None /\ asking[id].holds = None
        /\ UNCHANGED <<vars, remote, relayEnds>> /\ there[x] = "new" /\ excused \subseteq excused'
    BY <1>12, OpenEffect DEF Shape
  <2>2. Working' = Working
    BY <2>1 DEF Working, vars, closing
  <2>3. \/ asking' = asking /\ x \in excused'
        \/ asking'[id] # None /\ asking'[id].holds = x
           /\ \A i \in SessionIds \ {id} : asking'[i] = asking[i]
    <3>1. ASSUME NEW b \in BOOLEAN,
                 asking' = [asking EXCEPT ![id] = [@ EXCEPT !.stage = "answered", !.holds = x, !.raw = b]]
          PROVE  asking'[id] # None /\ asking'[id].holds = x
                 /\ \A i \in SessionIds \ {id} : asking'[i] = asking[i]
      <4>1. asking'[id] \in Negotiations /\ asking'[id].holds = x
        BY <2>1, <3>1 DEF Negotiations, RelayTypeOK
      <4> QED BY <3>1, <4>1
    <3>2. \/ asking' = asking /\ x \in excused'
          \/ \E b \in BOOLEAN :
                asking' = [asking EXCEPT ![id] = [@ EXCEPT !.stage = "answered", !.holds = x, !.raw = b]]
      BY <1>12, OpenEffect
    <3> QED BY <3>1, <3>2
  <2>4. Cared(x)'
    BY <2>3 DEF Cared, Held
  <2>5. ASSUME NEW y \in Remotes, y # x, there'[y] = "live" PROVE Cared(y)'
    <3>1. there[y] = "live"
      BY <1>12, <2>5, OpenOther
    <3>2. \A i \in SessionIds : asking[i] # None /\ asking[i].holds = y =>
             asking'[i] # None /\ asking'[i].holds = y
      BY <2>1, <2>3
    <3> QED BY <1>1, <2>1, <2>2, <3>1, <3>2, CareKept
  <2> QED BY <2>4, <2>5 DEF Tended
<1>13. ASSUME NEW id \in SessionIds, EndHeld(id) PROVE Goal
  <2> DEFINE h == asking[id].holds
  <2>1. /\ UNCHANGED <<vars, remote, relayEnds>> /\ Delete(h)
        /\ \A i \in SessionIds \ {id} : asking'[i] = asking[i]
    BY <1>13, HeldEnds
  <2>2. Working' = Working
    BY <2>1 DEF Working, vars, closing
  <2>3. ASSUME NEW y \in Remotes, there'[y] = "live" PROVE Cared(y)'
    <3>1. there[y] = "live" /\ (y \in excused => y \in excused') /\ (y = h => y \in excused')
      BY <2>1, <2>3, DeleteEffect
    <3>2. CASE y = h
      BY <3>1, <3>2 DEF Cared
    <3>3. CASE y # h
      <4>1. \A i \in SessionIds : asking[i] # None /\ asking[i].holds = y =>
               asking'[i] # None /\ asking'[i].holds = y
        BY <2>1, <3>3
      <4> QED BY <1>1, <2>1, <2>2, <3>1, <4>1, CareKept
    <3> QED BY <3>2, <3>3
  <2> QED BY <2>3 DEF Tended
<1>14. ASSUME NEW id \in SessionIds, NEW d \in Decisions, CreateRelay(id, d) PROVE Goal
  <2>1. /\ asking[id] # None /\ remote' = [remote EXCEPT ![id] = asking[id].holds]
        /\ live' = live \cup {id} /\ id \notin minted
        /\ UNCHANGED <<tearing, announcing, relayEnds, there, excused>>
        /\ \A i \in SessionIds \ {id} : asking'[i] = asking[i]
    BY <1>14 DEF CreateRelay, CreateGoverned, closing, Stands, At, sharer, RelayTypeOK
  <2>2. ASSUME NEW y \in Remotes, there'[y] = "live" PROVE Cared(y)'
    <3>1. CASE y = asking[id].holds
      <4>1. id \in live' /\ remote'[id] = y
        BY <2>1, <3>1 DEF RelayTypeOK
      <4> QED BY <4>1 DEF Cared, Wrapped
    <3>2. CASE y # asking[id].holds
      <4>1. \A i \in SessionIds : asking[i] # None /\ asking[i].holds = y =>
               asking'[i] # None /\ asking'[i].holds = y
        BY <2>1, <3>2
      <4>2. Working \subseteq Working' /\ \A i \in Working : remote'[i] = remote[i]
        BY <2>1 DEF Working, TypeOK, RelayTypeOK
      <4> QED BY <1>1, <2>1, <2>2, <4>1, <4>2, CareKept
    <3> QED BY <3>1, <3>2
  <2> QED BY <2>2 DEF Tended
<1>15. ASSUME NEW id \in SessionIds, AnnounceEnd(id) PROVE Goal
  <2>1. /\ UNCHANGED <<asking, remote, there, excused, live, tearing>>
        /\ announcing' = announcing \ {id}
        /\ relayEnds' = IF Relays(id) THEN relayEnds \cup {remote[id]} ELSE relayEnds
    BY <1>15 DEF AnnounceEnd, Announce, sharer
  <2>2. ASSUME NEW y \in Remotes, there[y] = "live" PROVE Cared(y)'
    <3>1. CASE \E i \in live \cup tearing \cup announcing : i # id /\ remote[i] = y
      BY <2>1, <3>1 DEF Cared, Wrapped
    <3>2. CASE remote[id] = y
      BY <2>1, <3>2 DEF Cared, Relays
    <3>3. CASE Held(y) \/ y \in relayEnds \/ y \in excused
      BY <2>1, <3>3 DEF Cared, Held
    <3> QED BY <1>1, <2>2, <3>1, <3>2, <3>3 DEF Cared, Wrapped
  <2> QED BY <2>1, <2>2 DEF Tended
<1> QED
  <2>1. Goal
    BY <1>3, <1>4, <1>6, <1>7, <1>8, <1>10, <1>11, <1>12, <1>13, <1>14, <1>15 DEF RelayNext
  <2> QED BY <2>1 DEF NoStrays, Tended, Cared

-----------------------------------------------------------------------------
LEMMA RemoteStep ==
    ASSUME RelayTypeOK, [RelayNext]_relayVars
    PROVE  \/ UNCHANGED remote
           \/ \E id \in SessionIds :
                 /\ id \notin minted /\ asking[id] # None /\ UNCHANGED there
                 /\ asking[id].stage = "answered"
                 /\ remote' = [remote EXCEPT ![id] = asking[id].holds]
<1>1. CASE UNCHANGED relayVars \/ ManagerStep \/ SharerRestarts
  BY <1>1 DEF relayVars, relay, ManagerStep, SharerRestarts
<1>2. ASSUME NEW x \in Remotes,
             RelayEndSession(x) \/ Unfetched(x) \/ SharerReaps(x) \/ GraceEndsThere(x)
      PROVE  UNCHANGED remote
  BY <1>2 DEF RelayEndSession, Unfetched, SharerReaps, GraceEndsThere
<1>3. ASSUME NEW id \in SessionIds,
             \/ \E u \in Users, dev \in Devices, r \in live \cup {NoSession} : Negotiate(id, u, dev, r)
             \/ \E x \in Remotes : Open(id, x)
             \/ GiveUp(id) \/ HiddenTrack(id) \/ EndHeld(id) \/ RefuseRelay(id)
             \/ FallQuiet(id) \/ Fetch(id) \/ AnnounceEnd(id)
      PROVE  UNCHANGED remote
  BY <1>3 DEF Negotiate, Open, GiveUp, HiddenTrack, EndHeld, RefuseRelay, FallQuiet, relay,
     Fetch, AnnounceEnd
<1>4. ASSUME NEW id \in SessionIds, NEW d \in Decisions, CreateRelay(id, d)
      PROVE  /\ id \notin minted /\ asking[id] # None /\ UNCHANGED there
             /\ asking[id].stage = "answered"
             /\ remote' = [remote EXCEPT ![id] = asking[id].holds]
  BY <1>4 DEF CreateRelay, CreateGoverned, Stands, At, sharer
<1> QED BY <1>1, <1>2, <1>3, <1>4 DEF RelayNext

\* Whatever becomes of a session there becomes of it by one of these.
Fate(y) ==
    \/ UNCHANGED <<there[y], swapped[y]>>
    \/ there'[y] \in {"gone", "cutOff"}
    \/ there[y] = "replaced" /\ there'[y] = "ended" /\ UNCHANGED swapped[y]
    \/ there'[y] = "ended" /\ y \in relayEnds
    \/ there'[y] = "ended" /\ \E n \in SessionIds : asking[n] # None /\ asking[n].holds = y
    \/ /\ there'[y] = "replaced"
       /\ \E n \in SessionIds : /\ asking[n] # None /\ asking[n].theirs = y
                               /\ swapped'[y] = <<asking[n].user, asking[n].device>>

LEMMA FateStep ==
    ASSUME RelayTypeOK, [RelayNext]_relayVars, NEW y \in Remotes, there[y] # "new"
    PROVE  Fate(y)
<1> USE RelayConstants DEF Fate
<1>1. ASSUME UNCHANGED <<there, swapped>> PROVE Fate(y)
  BY <1>1
<1>2. CASE UNCHANGED relayVars \/ ManagerStep
  BY <1>1, <1>2 DEF relayVars, relay, sharer, ManagerStep
<1>3. ASSUME NEW id \in SessionIds,
             \/ \E u \in Users, dev \in Devices, r \in live \cup {NoSession} : Negotiate(id, u, dev, r)
             \/ \E d \in Decisions : CreateRelay(id, d)
             \/ GiveUp(id) \/ HiddenTrack(id) \/ RefuseRelay(id)
             \/ FallQuiet(id) \/ Fetch(id) \/ AnnounceEnd(id)
      PROVE  UNCHANGED <<there, swapped>>
  BY <1>3 DEF Negotiate, CreateRelay, GiveUp, HiddenTrack, RefuseRelay, FallQuiet, relay,
     Fetch, AnnounceEnd, sharer
<1>4. ASSUME NEW x \in Remotes, Unfetched(x) PROVE UNCHANGED <<there, swapped>>
  BY <1>4 DEF Unfetched
<1>5. ASSUME NEW id \in SessionIds, NEW x \in Remotes, Open(id, x) PROVE Fate(y)
  <2>1. asking[id] # None /\ there[x] = "new"
    BY <1>5, OpenEffect
  <2>2. y # x
    BY <2>1
  <2> QED BY <1>5, <2>1, <2>2, OpenOther
<1>6. ASSUME NEW id \in SessionIds, EndHeld(id) PROVE Fate(y)
  <2>1. asking[id] # None /\ Delete(asking[id].holds) /\ swapped' = swapped
    BY <1>6, HeldEnds
  <2> QED BY <2>1, DeleteEffect
<1>7. ASSUME NEW x \in Remotes, RelayEndSession(x) PROVE Fate(y)
  <2>1. x \in relayEnds /\ Delete(x) /\ swapped' = swapped
    BY <1>7 DEF RelayEndSession
  <2> QED BY <2>1, DeleteEffect
<1>8. ASSUME NEW x \in Remotes, SharerReaps(x) PROVE Fate(y)
  <2>1. swapped' = swapped /\ \E how \in {"gone", "cutOff"} : Leave({x}, how)
    BY <1>8 DEF SharerReaps
  <2> QED BY <2>1, LeaveEffect
<1>9. CASE SharerRestarts
  BY <1>9, LeaveEffect DEF SharerRestarts
<1>10. ASSUME NEW x \in Remotes, GraceEndsThere(x) PROVE Fate(y)
  <2>1. swapped' = swapped /\ there[x] = "replaced" /\ Leave({x}, "ended")
    BY <1>10 DEF GraceEndsThere
  <2> QED BY <2>1, LeaveEffect
<1> HIDE DEF Fate
<1> QED BY <1>1, <1>2, <1>3, <1>4, <1>5, <1>6, <1>7, <1>8, <1>9, <1>10 DEF RelayNext

LEMMA StreamsStep ==
    ASSUME TypeOK, RelayTypeOK, \A i \in SessionIds : Shape(i), Apart, Sent,
           StreamsAreLeftAlone, [RelayNext]_relayVars, TypeOK'
    PROVE  StreamsAreLeftAlone'
<1> USE RelayConstants
<1>1. Frame
  BY RelayIsManager, ManagerFrame
<1>2. live' \subseteq SessionIds
  BY DEF TypeOK
<1> SUFFICES ASSUME NEW id \in (live \ replaced)', remote'[id] # None
             PROVE  \/ there'[remote'[id]] \in {"live", "gone", "cutOff"}
                    \/ /\ there'[remote'[id]] \in {"replaced", "ended"}
                       /\ swapped'[remote'[id]] = Viewer(id)'
  BY DEF StreamsAreLeftAlone, Relays
<1>3. CASE id \notin minted
  <2>1. remote[id] = None /\ id \in SessionIds
    BY <1>2, <1>3 DEF Shape
  <2>2. /\ asking[id] # None /\ asking[id].stage = "answered"
        /\ UNCHANGED there /\ remote'[id] = asking[id].holds
    BY <2>1, RemoteStep DEF RelayTypeOK
  <2> QED BY <2>1, <2>2 DEF Shape
<1>4. CASE id \in minted
  <2> DEFINE y == remote[id]
  <2>1. id \in live \ replaced /\ id \in SessionIds /\ sess'[id] = sess[id]
    BY <1>1, <1>4 DEF Frame, TypeOK
  <2>2. remote'[id] = y
    BY <1>4, <2>1, RemoteStep DEF RelayTypeOK
  <2>3. y \in Remotes /\ Claim(id) = y /\ asking[id] = None
    BY <1>4, <2>1, <2>2 DEF RelayTypeOK, Claim, Shape
  <2>4. there[y] # "new" /\ y \notin relayEnds
    BY <2>1, <2>3 DEF Sent
  <2>5. \/ there[y] \in {"live", "gone", "cutOff"}
        \/ there[y] \in {"replaced", "ended"} /\ swapped[y] = Viewer(id)
    BY <2>1, <2>3 DEF StreamsAreLeftAlone, Relays
  <2>6. ASSUME NEW n \in SessionIds, asking[n] # None PROVE asking[n].holds # y
    BY <2>1, <2>3, <2>6 DEF Claim, Apart
  <2>7. ASSUME NEW n \in SessionIds, asking[n] # None, asking[n].theirs = y
        PROVE  <<asking[n].user, asking[n].device>> = Viewer(id)
    <3>1. PICK k \in minted : remote[k] = y /\ Viewer(k) = <<asking[n].user, asking[n].device>>
      BY <2>3, <2>7 DEF Shape, SameViewer
    <3>2. k \in SessionIds /\ Claim(k) = y
      BY <3>1 DEF TypeOK, Claim, Shape
    <3>3. k = id
      BY <2>1, <2>3, <3>2 DEF Apart
    <3> QED BY <3>1, <3>3
  <2>8. Viewer(id)' = Viewer(id)
    BY <2>1 DEF Viewer
  <2>9. Fate(y)
    BY <2>3, <2>4, FateStep
  <2> QED BY <2>2, <2>4, <2>5, <2>6, <2>7, <2>8, <2>9 DEF Fate
<1> QED BY <1>3, <1>4

-----------------------------------------------------------------------------
LEMMA RelayInvInit == RelayInit => ManagerInv /\ RelayInv
<1> SUFFICES ASSUME RelayInit PROVE ManagerInv /\ RelayInv
  OBVIOUS
<1>1. ManagerInv
  BY GovernanceInit, EndingInit DEF RelayInit, ManagerInv, GovernanceInv
<1>2. RelayTypeOK
  BY RelayTypeInit
<1>3. \A i \in SessionIds : asking[i] = None /\ remote[i] = None
  BY DEF RelayInit
<1>4. (\A i \in SessionIds : Shape(i)) /\ Apart /\ Sent
  BY <1>3 DEF RelayInit, Shape, Apart, Sent, Claim
<1>5. NoStrays /\ StreamsAreLeftAlone
  BY DEF RelayInit, Init, NoStrays, StreamsAreLeftAlone
<1> QED BY <1>1, <1>2, <1>4, <1>5 DEF RelayInv

LEMMA RelayInvStep ==
    ManagerInv /\ RelayInv /\ [RelayNext]_relayVars => (ManagerInv /\ RelayInv)'
<1> SUFFICES ASSUME ManagerInv, RelayInv, [RelayNext]_relayVars
             PROVE  (ManagerInv /\ RelayInv)'
  OBVIOUS
<1>1. TypeOK /\ (\A i \in SessionIds : DyingOnce(i))
  BY DEF ManagerInv, GovernanceInv, EndingInv
<1>2. [Next]_vars
  BY <1>1, RelayIsManager DEF RelayInv
<1>3. ManagerInv'
  <2>1. GovernanceInv'
    BY <1>2, GovernanceStep DEF ManagerInv
  <2> QED BY <1>2, <2>1, EndingStep DEF ManagerInv, GovernanceInv
<1>4. RelayTypeOK'
  BY <1>1, RelayTypeStep DEF RelayInv
<1>5. (\A i \in SessionIds : Shape(i))' /\ Apart' /\ Sent'
  BY <1>1, ShapeStep, ClaimsStep DEF RelayInv
<1>6. NoStrays'
  BY <1>1, NoStraysStep DEF RelayInv
<1>7. StreamsAreLeftAlone'
  BY <1>1, <1>3, StreamsStep DEF RelayInv, ManagerInv, GovernanceInv
<1> QED BY <1>3, <1>4, <1>5, <1>6, <1>7 DEF RelayInv

LEMMA RelayInvariant == RelaySpec => [](ManagerInv /\ RelayInv)
BY RelayInvInit, RelayInvStep, PTL DEF RelaySpec

(* The variables of the relay have their types; a session at the sharer    *)
(* that has left its map is no longer counted as playing or fetched from.  *)
THEOREM RelayTypes == RelaySpec => []RelayTypeOK
BY RelayInvariant, PTL DEF RelayInv

(* negotiateRelay and the observer use the Manager only through its        *)
(* operations: with a relay it still behaves as PlaybackSessions says, so  *)
(* every theorem about the Manager holds of it.                            *)
THEOREM RelayKeepsTheManager == RelaySpec => Spec
<1>1. RelayInit => Init
  BY DEF RelayInit
<1>2. ManagerInv /\ RelayInv /\ [RelayNext]_relayVars => [Next]_vars
  BY RelayIsManager DEF ManagerInv, GovernanceInv, RelayInv
<1> QED BY <1>1, <1>2, RelayInvariant, PTL DEF RelaySpec, Spec

(* The failure clean-ups of negotiateRelay and the observer miss nobody:   *)
(* whichever of a refusal, a re-ask, a replacement, the reaper and         *)
(* shutdown comes when, a session left playing at the sharer is one whose  *)
(* answer or end was lost on the way.                                      *)
THEOREM NobodyIsLeftBehind == RelaySpec => []NoStrays
BY RelayInvariant, PTL DEF RelayInv

(* RemoteSessionID names each wrapped session once, and replaceTarget only *)
(* the caller's own: no viewer's negotiation, refusal or end takes away    *)
(* what another viewer watches, though the sharer cannot tell them apart.  *)
THEOREM EachHisOwnStream == RelaySpec => []StreamsAreLeftAlone
BY RelayInvariant, PTL DEF RelayInv
=============================================================================
