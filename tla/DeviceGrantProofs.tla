-------------------------- MODULE DeviceGrantProofs --------------------------
(***************************************************************************)
(* Proofs about DeviceGrant, for any number of people, requests and codes: *)
(* the types, the way in that everyone keeps, the passwords that a Group   *)
(* mapping spares, and the one session that a code gives.                  *)
(***************************************************************************)
EXTENDS DeviceGrant, FiniteSetTheorems, TLAPS

-----------------------------------------------------------------------------
(* The types, with one thing more: a call that is about an identity knows  *)
(* which.  Without it a call could look up None.                           *)

AboutIdentity == {"find", "record", "create", "whose", "attach", "vouch", "note"}

CallsTyped ==
    /\ call \in [Callers -> Call]
    /\ \A c \in Callers : call[c].at \in AboutIdentity => call[c].subject \in Subjects

Typed == AccountsTypeOK /\ CallsTyped

LEMMA NoCallTyped ==
    ASSUME NEW at \in Steps
    PROVE  NoCall(at) \in Call /\ NoCall(at).at = at
BY DEF NoCall, Call, Roles

LEMMA CallTyped ==
    ASSUME Typed, NEW c \in Callers, NEW x \in Call,
           x.at \in AboutIdentity => x.subject \in Subjects,
           call' = [call EXCEPT ![c] = x]
    PROVE  CallsTyped'
BY DEF Typed, AccountsTypeOK, CallsTyped

LEMMA OverTyped ==
    ASSUME Typed, NEW c \in Callers, Over(c)
    PROVE  CallsTyped'
<1>. DEFINE x == NoCall(IF c = Rechecker THEN "idle" ELSE "done")
<1>1. x \in Call /\ x.at \notin AboutIdentity
  BY NoCallTyped DEF Steps, AboutIdentity
<1>2. call' = [call EXCEPT ![c] = x]
  BY DEF Over
<1>. QED
  BY <1>1, <1>2, CallTyped

LEMMA GoesTyped ==
    ASSUME Typed, NEW c \in Callers, NEW at \in Steps, Goes(c, at),
           at \in AboutIdentity => call[c].subject \in Subjects
    PROVE  CallsTyped'
<1>. DEFINE x == [call[c] EXCEPT !.at = at]
<1>1. call[c] \in Call
  BY DEF Typed, AccountsTypeOK
<1>2. x \in Call /\ x.at = at /\ x.subject = call[c].subject
  BY <1>1 DEF Call
<1>3. CASE at \in {"idle", "done"}
  BY <1>3, OverTyped DEF Goes
<1>4. CASE at \notin {"idle", "done"}
  <2>1. call' = [call EXCEPT ![c] = x]
    BY <1>4 DEF Goes
  <2>. QED
    BY <2>1, <1>2, CallTyped
<1>. QED
  BY <1>3, <1>4

LEMMA EventTyped ==
    ASSUME Typed, Event
    PROVE  events' \in 0..MaxEvents
BY AccountConstants DEF Event, Typed, AccountsTypeOK

LEMMA HolderTyped ==
    ASSUME Typed, NEW s \in Subjects
    PROVE  /\ Holder(s) \in People \cup {None}
           /\ identity[s] # None => identity[s] \in Identity /\ Holder(s) \in People
BY DEF Typed, AccountsTypeOK, Holder, Identity

LEMMA IdentityAnswered ==
    ASSUME NEW i \in Identity, NEW g \in Roles, NEW n \in 0..MaxUnverified
    PROVE  /\ [i EXCEPT !.groups = g, !.failures = n] \in Identity
           /\ [i EXCEPT !.groups = g, !.failures = n].user = i.user
BY DEF Identity

LEMMA AnsweredTyped ==
    ASSUME Typed, NEW c \in Callers, call[c].subject \in Subjects, identity[call[c].subject] # None
    PROVE  /\ Answered(c) \in [Subjects -> Identity \cup {None}]
           /\ identity' = Answered(c) => \A t \in Subjects : Holder(t)' = Holder(t)
<1>. DEFINE s == call[c].subject
            x == [identity[s] EXCEPT !.groups = call[c].groups, !.failures = 0]
<1>1. identity[s] \in Identity /\ call[c].groups \in Roles
  BY HolderTyped DEF Typed, AccountsTypeOK, Call
<1>2. x \in Identity /\ x.user = identity[s].user
  <2>1. 0 \in 0..MaxUnverified
    BY AccountConstants
  <2>. QED
    BY <1>1, <2>1, IdentityAnswered
<1>3. x # None
  BY <1>2, NoneIsNoIdentity
<1>4. Answered(c) = [identity EXCEPT ![s] = x]
  BY DEF Answered, Typed, AccountsTypeOK
<1>5. ASSUME identity' = Answered(c), NEW t \in Subjects
      PROVE  Holder(t)' = Holder(t)
  <2>1. CASE t = s
    <3>1. identity'[t] = x
      BY <1>4, <1>5, <2>1 DEF Typed, AccountsTypeOK
    <3>. QED
      BY <1>2, <1>3, <2>1, <3>1 DEF Holder
  <2>2. CASE t # s
    BY <1>4, <1>5, <2>2 DEF Holder, Typed, AccountsTypeOK
  <2>. QED
    BY <2>1, <2>2
<1>6. Answered(c) \in [Subjects -> Identity \cup {None}]
  BY <1>2, <1>4 DEF Typed, AccountsTypeOK
<1>. QED
  BY <1>5, <1>6

LEMMA RemoveTyped ==
    ASSUME Typed, NEW gone \in SUBSET People
    PROVE  /\ Left(gone) \in [Subjects -> Identity \cup {None}]
           /\ Remove(gone) => /\ users' \subseteq People /\ password' \subseteq People
                             /\ device' \in [People -> People \cup {None}]
                             /\ session' \in [People -> People \cup {None}]
BY DEF Typed, AccountsTypeOK, Left, Remove

LEMMA SyncTyped ==
    ASSUME Typed, NEW c \in Callers, SyncSteps(c)
    PROVE  Typed'
<1>. call[c] \in Call /\ call[c].next \in Steps /\ call[c].next \notin AboutIdentity
  BY DEF Typed, AccountsTypeOK, Call, Steps, AboutIdentity
<1>1. CASE SyncGroupMapping(c)
  <2>1. \A g \in Roles :
           LET x == [call[c] EXCEPT !.at = "rules", !.groups = g]
           IN  x \in Call /\ x.at \notin AboutIdentity
    BY DEF Call, Steps, Roles, AboutIdentity
  <2>2. ASSUME NEW g \in Roles, call' = [call EXCEPT ![c].at = "rules", ![c].groups = g]
        PROVE  CallsTyped'
    <3>1. call' = [call EXCEPT ![c] = [call[c] EXCEPT !.at = "rules", !.groups = g]]
      BY <2>2 DEF Typed, AccountsTypeOK
    <3>. QED
      BY <2>1, <3>1, CallTyped
  <2>3. CallsTyped'
    <3>1. CASE Over(c)
      BY <3>1, OverTyped
    <3>2. CASE Goes(c, call[c].next)
      BY <3>2, GoesTyped
    <3>3. CASE \E g \in Roles : call' = [call EXCEPT ![c].at = "rules", ![c].groups = g]
      BY <3>3, <2>2
    <3>. QED
      BY <1>1, <3>1, <3>2, <3>3 DEF SyncGroupMapping, Roles
  <2>. QED
    BY <1>1, <2>3 DEF SyncGroupMapping, Typed, AccountsTypeOK, CallsTyped
<1>2. CASE GroupMapping(c)
  <2>1. "apply" \in Steps /\ "apply" \notin AboutIdentity
    BY DEF Steps, AboutIdentity
  <2>2. CallsTyped'
    BY <1>2, <2>1, GoesTyped DEF GroupMapping
  <2>. QED
    BY <1>2, <2>2 DEF GroupMapping, Typed, AccountsTypeOK, CallsTyped
<1>3. CASE ApplyMappedAccess(c)
  <2>1. CallsTyped'
    BY <1>3, GoesTyped DEF ApplyMappedAccess
  <2>2. role' \in [People -> Roles]
    BY <1>3 DEF ApplyMappedAccess, Typed, AccountsTypeOK, Call
  <2>. QED
    BY <1>3, <2>1, <2>2 DEF ApplyMappedAccess, Typed, AccountsTypeOK, CallsTyped
<1>4. CASE Hear(c)
  <2>1. /\ {"idle", "sync"} \subseteq Steps /\ {"idle", "sync"} \cap AboutIdentity = {}
    BY DEF Steps, AboutIdentity
  <2>2. CallsTyped'
    BY <1>4, <2>1, GoesTyped DEF Hear
  <2>. QED
    BY <1>4, <2>2 DEF Hear, Typed, AccountsTypeOK, CallsTyped
<1>. QED
  BY <1>1, <1>2, <1>3, <1>4 DEF SyncSteps

(* What a request does next.                                               *)
LEMMA RequestTyped ==
    ASSUME Typed, NEW r \in Requests, RequestSteps(r)
    PROVE  Typed'
<1>. /\ r \in Callers /\ r \in People /\ r # Rechecker
     /\ call[r] \in Call /\ call[r].user \in People \cup {None}
  BY AccountConstants DEF Callers, People, Typed, AccountsTypeOK, Call
<1>. USE DEF Typed, AccountsTypeOK, CallsTyped
<1>1. CASE UserByID(r)
  <2>1. [NoCall("device") EXCEPT !.user = call[r].user] \in Call
    BY DEF NoCall, Call, Steps, Roles
  <2>2. [NoCall("device") EXCEPT !.user = call[r].user].at \notin AboutIdentity
    BY DEF NoCall, AboutIdentity
  <2>3. CallsTyped'
    BY <1>1, <2>1, <2>2, CallTyped, OverTyped DEF UserByID
  <2>. QED
    BY <1>1, <2>3 DEF UserByID
<1>2. CASE UpsertDevice(r)
  <2>1. CallsTyped'
    BY <1>2, OverTyped, GoesTyped DEF UpsertDevice, Steps, AboutIdentity
  <2>. QED
    BY <1>2, <2>1 DEF UpsertDevice
<1>3. CASE InsertToken(r)
  <2>1. CallsTyped'
    BY <1>3, OverTyped, GoesTyped DEF InsertToken, Steps, AboutIdentity
  <2>. QED
    BY <1>3, <2>1 DEF InsertToken
<1>4. CASE ExternalIdentityUser(r)
  <2>1. call[r].subject \in Subjects
    BY <1>4 DEF ExternalIdentityUser, AboutIdentity
  <2>2. ASSUME NEW u \in People \cup {None}, NEW at \in {"create", "record"},
               call' = [call EXCEPT ![r].user = u, ![r].at = at]
        PROVE  CallsTyped'
    <3>1. call' = [call EXCEPT ![r] = [call[r] EXCEPT !.user = u, !.at = at]]
      BY <2>2
    <3>2. [call[r] EXCEPT !.user = u, !.at = at] \in Call
      BY DEF Call, Steps
    <3>3. [call[r] EXCEPT !.user = u, !.at = at].subject \in Subjects
      BY <2>1 DEF Call
    <3>. QED
      BY <3>1, <3>2, <3>3, CallTyped
  <2>3. CallsTyped'
    BY <1>4, <2>1, <2>2, HolderTyped DEF ExternalIdentityUser
  <2>. QED
    BY <1>4, <2>3 DEF ExternalIdentityUser
<1>5. CASE RecordExternalSignIn(r)
  <2>1. call[r].subject \in Subjects
    BY <1>5 DEF RecordExternalSignIn, AboutIdentity
  <2>2. CallsTyped'
    BY <1>5, OverTyped, GoesTyped DEF RecordExternalSignIn, Steps, AboutIdentity
  <2>3. identity' \in [Subjects -> Identity \cup {None}]
    BY <1>5, <2>1, AnsweredTyped DEF RecordExternalSignIn
  <2>. QED
    BY <1>5, <2>2, <2>3 DEF RecordExternalSignIn
<1>6. CASE CreateExternalMember(r)
  <2>1. call[r].subject \in Subjects
    BY <1>6 DEF CreateExternalMember, AboutIdentity
  <2>2. ASSUME call' = [call EXCEPT ![r].user = r, ![r].at = "sync"]
        PROVE  CallsTyped'
    <3>1. call' = [call EXCEPT ![r] = [call[r] EXCEPT !.user = r, !.at = "sync"]]
      BY <2>2
    <3>2. [call[r] EXCEPT !.user = r, !.at = "sync"] \in Call
      BY DEF Call, Steps
    <3>3. [call[r] EXCEPT !.user = r, !.at = "sync"].subject \in Subjects
      BY <2>1 DEF Call
    <3>. QED
      BY <3>1, <3>2, <3>3, CallTyped
  <2>3. CallsTyped'
    BY <1>6, <2>1, <2>2, GoesTyped DEF CreateExternalMember, Steps
  <2>4. [user |-> r, groups |-> call[r].groups, failures |-> 0] \in Identity
    BY AccountConstants DEF Identity, Call
  <2>. QED
    BY <1>6, <2>1, <2>3, <2>4 DEF CreateExternalMember
<1>7. CASE HeldAfterAll(r)
  <2>1. call[r].subject \in Subjects
    BY <1>7 DEF HeldAfterAll, AboutIdentity
  <2>2. ASSUME NEW u \in People \cup {None}, call' = [call EXCEPT ![r].user = u, ![r].at = "sync"]
        PROVE  CallsTyped'
    <3>1. call' = [call EXCEPT ![r] = [call[r] EXCEPT !.user = u, !.at = "sync"]]
      BY <2>2
    <3>2. [call[r] EXCEPT !.user = u, !.at = "sync"] \in Call
      BY DEF Call, Steps
    <3>3. [call[r] EXCEPT !.user = u, !.at = "sync"].subject \in Subjects
      BY <2>1 DEF Call
    <3>. QED
      BY <3>1, <3>2, <3>3, CallTyped
  <2>3. CallsTyped'
    BY <1>7, <2>1, <2>2, HolderTyped, OverTyped DEF HeldAfterAll
  <2>. QED
    BY <1>7, <2>3 DEF HeldAfterAll
<1>8. CASE AttachExternalIdentity(r)
  <2>1. call[r].subject \in Subjects
    BY <1>8 DEF AttachExternalIdentity, AboutIdentity
  <2>2. CallsTyped'
    BY <1>8, OverTyped, GoesTyped DEF AttachExternalIdentity, Steps, AboutIdentity
  <2>3. \A u \in People, n \in 0..MaxUnverified :
           [user |-> u, groups |-> call[r].groups, failures |-> n] \in Identity
    BY DEF Identity, Call
  <2>4. /\ 0 \in 0..MaxUnverified
        /\ identity[call[r].subject] # None => identity[call[r].subject].failures \in 0..MaxUnverified
    BY <2>1, HolderTyped, AccountConstants DEF Identity
  <2>5. identity' \in [Subjects -> Identity \cup {None}]
    BY <1>8, <2>1, <2>3, <2>4 DEF AttachExternalIdentity
  <2>. QED
    BY <1>8, <2>2, <2>5 DEF AttachExternalIdentity
<1>9. CASE SyncSteps(r)
  BY <1>9, SyncTyped
<1>10. CASE DeleteUserKeepingAnAdmin(r)
  <2>1. CallsTyped'
    BY <1>10, OverTyped DEF DeleteUserKeepingAnAdmin
  <2>2. MayGo(call[r].user) => {call[r].user} \in SUBSET People
    BY DEF MayGo
  <2>. QED
    BY <1>10, <2>1, <2>2, RemoveTyped DEF DeleteUserKeepingAnAdmin
<1>11. CASE UninstallSignIn(r)
  <2>1. CallsTyped'
    BY <1>11, OverTyped, GoesTyped DEF UninstallSignIn, Steps, AboutIdentity
  <2>. QED
    BY <1>11, <2>1 DEF UninstallSignIn
<1>12. CASE DeleteSignInPlugin(r)
  <2>1. CallsTyped'
    BY <1>12, OverTyped DEF DeleteSignInPlugin
  <2>2. call[r].seen \in SUBSET People
    BY DEF Call
  <2>. QED
    BY <1>12, <2>1, <2>2, RemoveTyped DEF DeleteSignInPlugin
<1>13. CASE PutBack(r)
  <2>1. CallsTyped' /\ events' \in 0..MaxEvents
    BY <1>13, OverTyped, EventTyped DEF PutBack
  <2>. QED
    BY <1>13, <2>1 DEF PutBack
<1>. QED
  BY <1>1, <1>2, <1>3, <1>4, <1>5, <1>6, <1>7, <1>8, <1>9, <1>10, <1>11, <1>12, <1>13 DEF RequestSteps

LEMMA BegunTyped ==
    ASSUME Typed, NEW r \in Requests, NEW x \in Call, Begin(r, x),
           x.at \in AboutIdentity => x.subject \in Subjects
    PROVE  CallsTyped' /\ events' \in 0..MaxEvents
BY CallTyped, EventTyped DEF Begin, Callers

(* A request that begins.                                                  *)
LEMMA ArrivalTyped ==
    ASSUME Typed, Arrive
    PROVE  Typed'
<1>. USE DEF Typed, AccountsTypeOK, CallsTyped
<1>1. ASSUME NEW r \in Requests, NEW u \in People, Login(r, u) PROVE Typed'
  <2>. DEFINE x == [NoCall("device") EXCEPT !.user = u]
  <2>1. x \in Call /\ x.at \notin AboutIdentity
    BY DEF NoCall, Call, Steps, Roles, AboutIdentity
  <2>2. CallsTyped' /\ events' \in 0..MaxEvents
    BY <1>1, <2>1, BegunTyped DEF Login
  <2>. QED
    BY <1>1, <2>2 DEF Login
<1>2. ASSUME NEW r \in Requests, NEW u \in People, DeleteUser(r, u) PROVE Typed'
  <2>. DEFINE x == [NoCall("delete") EXCEPT !.user = u]
  <2>1. x \in Call /\ x.at \notin AboutIdentity
    BY DEF NoCall, Call, Steps, Roles, AboutIdentity
  <2>2. CallsTyped' /\ events' \in 0..MaxEvents
    BY <1>2, <2>1, BegunTyped DEF DeleteUser
  <2>. QED
    BY <1>2, <2>2 DEF DeleteUser
<1>3. ASSUME NEW r \in Requests, NEW s \in Subjects, SignIn(r, s) PROVE Typed'
  <2>. DEFINE x == [NoCall("find") EXCEPT !.subject = s, !.groups = directory[s], !.next = "reread"]
  <2>1. directory[s] \in Roles
    BY <1>3 DEF SignIn
  <2>2. x \in Call /\ x.subject \in Subjects
    BY <2>1 DEF NoCall, Call, Steps, Roles
  <2>3. CallsTyped' /\ events' \in 0..MaxEvents
    BY <1>3, <2>2, BegunTyped DEF SignIn
  <2>. QED
    BY <1>3, <2>3 DEF SignIn
<1>4. ASSUME NEW r \in Requests, NEW u \in People, NEW s \in Subjects, Attach(r, u, s) PROVE Typed'
  <2>. DEFINE x == [NoCall("attach") EXCEPT !.user = u, !.subject = s, !.groups = directory[s]]
  <2>1. directory[s] \in Roles
    BY <1>4 DEF Attach
  <2>2. x \in Call /\ x.subject \in Subjects
    BY <2>1 DEF NoCall, Call, Steps, Roles
  <2>3. CallsTyped' /\ events' \in 0..MaxEvents
    BY <1>4, <2>2, BegunTyped DEF Attach
  <2>. QED
    BY <1>4, <2>3 DEF Attach
<1>5. ASSUME NEW r \in Requests, UninstallPreview(r) PROVE Typed'
  <2>. DEFINE x == [NoCall("confirm") EXCEPT !.seen = Casualties]
  <2>1. Casualties \in SUBSET People
    BY DEF Casualties
  <2>2. x \in Call /\ x.at \notin AboutIdentity
    BY <2>1 DEF NoCall, Call, Steps, Roles, AboutIdentity
  <2>3. CallsTyped' /\ events' \in 0..MaxEvents
    BY <1>5, <2>2, BegunTyped DEF UninstallPreview
  <2>. QED
    BY <1>5, <2>3 DEF UninstallPreview
<1>. QED
  BY <1>1, <1>2, <1>3, <1>4, <1>5 DEF Arrive

(* The re-check.                                                           *)
LEMMA RecheckTyped ==
    ASSUME Typed, RecheckSteps
    PROVE  Typed'
<1>. /\ Rechecker \in Callers /\ call[Rechecker] \in Call
     /\ call[Rechecker].next \in Steps /\ call[Rechecker].next \notin AboutIdentity
  BY DEF Callers, Typed, AccountsTypeOK, Call, Steps, AboutIdentity
<1>. USE DEF Typed, AccountsTypeOK, CallsTyped
<1>1. CASE RunDue
  <2>1. \A s \in Subjects : identity[s] # None => identity[s].user \in People
    BY HolderTyped DEF Holder
  <2>. QED
    BY <1>1, <2>1 DEF RunDue
<1>2. ASSUME NEW i \in due, Recheck(i) PROVE Typed'
  <2>1. i.subject \in Subjects /\ i.user \in People
    OBVIOUS
  <2>2. ASSUME NEW at \in Steps, NEW next \in {"hear", "idle"}, Finds(i, at, next) PROVE CallsTyped'
    <3>. DEFINE x == [NoCall(at) EXCEPT !.user = i.user, !.subject = i.subject, !.next = next,
                         !.groups = IF directory[i.subject] \in Roles THEN directory[i.subject] ELSE "member"]
    <3>1. x \in Call /\ x.subject \in Subjects
      BY <2>1 DEF NoCall, Call, Roles
    <3>2. call' = [call EXCEPT ![Rechecker] = x]
      BY <2>2 DEF Finds
    <3>. QED
      BY <3>1, <3>2, CallTyped
  <2>3. CallsTyped'
    BY <1>2, <2>2 DEF Recheck, Steps
  <2>4. events' \in 0..MaxEvents
    BY <1>2, EventTyped DEF Recheck
  <2>. QED
    BY <1>2, <2>1, <2>3, <2>4 DEF Recheck
<1>3. CASE RecordExternalCheck
  <2>1. call[Rechecker].subject \in Subjects
    BY <1>3 DEF RecordExternalCheck, AboutIdentity
  <2>2. CallsTyped'
    BY <1>3, OverTyped, GoesTyped DEF RecordExternalCheck, Steps, AboutIdentity
  <2>3. identity' \in [Subjects -> Identity \cup {None}]
    BY <1>3, <2>1, AnsweredTyped DEF RecordExternalCheck
  <2>. QED
    BY <1>3, <2>2, <2>3 DEF RecordExternalCheck
<1>4. CASE NoteExternalCheckFailure
  <2>. DEFINE s == call[Rechecker].subject
              n == IF identity[s].failures < MaxUnverified THEN identity[s].failures + 1 ELSE MaxUnverified
  <2>1. s \in Subjects
    BY <1>4 DEF NoteExternalCheckFailure, AboutIdentity
  <2>2. CallsTyped'
    BY <1>4, OverTyped, GoesTyped DEF NoteExternalCheckFailure, Steps, AboutIdentity
  <2>3. ASSUME identity[s] # None
        PROVE  n \in 0..MaxUnverified /\ identity[s] \in Identity
    BY <2>1, <2>3, HolderTyped, AccountConstants DEF Identity
  <2>4. ASSUME identity[s] # None
        PROVE  [identity[s] EXCEPT !.failures = n] \in Identity
    BY <2>3, <2>4 DEF Identity
  <2>5. identity' \in [Subjects -> Identity \cup {None}]
    BY <1>4, <2>1, <2>4 DEF NoteExternalCheckFailure
  <2>. QED
    BY <1>4, <2>2, <2>5 DEF NoteExternalCheckFailure
<1>5. CASE RevokeSessions
  <2>1. CallsTyped' /\ events' \in 0..MaxEvents
    BY <1>5, OverTyped, GoesTyped, EventTyped DEF RevokeSessions, Steps, AboutIdentity
  <2>. QED
    BY <1>5, <2>1 DEF RevokeSessions
<1>6. CASE SyncSteps(Rechecker)
  BY <1>6, SyncTyped
<1>. QED
  BY <1>1, <1>2, <1>3, <1>4, <1>5, <1>6 DEF RecheckSteps

(* What happens elsewhere.                                                 *)
LEMMA ElsewhereTyped ==
    ASSUME Typed, Elsewhere
    PROVE  Typed'
<1>. USE DEF Typed, AccountsTypeOK, CallsTyped
<1>1. ASSUME NEW u \in People, SetUserPassword(u) PROVE Typed'
  BY <1>1, EventTyped DEF SetUserPassword
<1>2. CASE Install
  BY <1>2, EventTyped DEF Install
<1>3. CASE SetGroupMapping
  BY <1>3, EventTyped DEF SetGroupMapping
<1>4. ASSUME NEW s \in Subjects, NEW a \in Answers, DirectoryChanges(s, a) PROVE Typed'
  BY <1>4, EventTyped DEF DirectoryChanges
<1>5. ASSUME NEW x \in People, DeleteDevice(x) PROVE Typed'
  BY <1>5, EventTyped DEF DeleteDevice
<1>6. CASE Crash
  <2>1. CallsTyped'
    BY <1>6, NoCallTyped DEF Crash, Steps, AboutIdentity
  <2>. QED
    BY <1>6, <2>1, EventTyped DEF Crash
<1>. QED
  BY <1>1, <1>2, <1>3, <1>4, <1>5, <1>6 DEF Elsewhere

-----------------------------------------------------------------------------
(* What a step of the accounts does to a request: nothing, begin it as one *)
(* that is about no code, end it, or take it on.  Of a request that makes  *)
(* a session it changes neither the course nor the person.                 *)

Carried == {"reread", "device", "token"}
OfGrant == {"approve", "redeem"}

Moved(q) ==
    \/ call'[q] = call[q]
    \/ call[q].at = "new" /\ call'[q].at \notin OfGrant \cup {"new"}
    \/ call[q].at # "new" /\ call'[q].at = "done"
    \/ call[q].at \in Carried /\ call'[q].at \in (Carried \ {"reread"}) \cup {"in"} /\ call'[q].user = call[q].user
    \/ call[q].at \notin Carried \cup OfGrant \cup {"new", "in", "done"} /\ call'[q].at \notin OfGrant \cup {"new"}

LEMMA OverMoves ==
    ASSUME Typed, NEW r \in Requests, Over(r), call[r].at # "new"
    PROVE  \A q \in Requests : Moved(q)
BY AccountConstants DEF Over, Moved, NoCall, Typed, AccountsTypeOK, Callers

LEMMA RequestMoves ==
    ASSUME Typed, NEW r \in Requests, RequestSteps(r)
    PROVE  \A q \in Requests : Moved(q)
<1>. /\ r \in Callers /\ r # Rechecker /\ DOMAIN call = Callers /\ Requests \subseteq Callers
     /\ call[r] \in Call /\ call[r].next \in {"reread", "done", "hear", "idle"}
     /\ DOMAIN call[r] = {"at", "user", "subject", "groups", "next", "seen"}
  BY AccountConstants DEF Callers, Typed, AccountsTypeOK, Call
<1>. DEFINE Before == Steps \ (Carried \cup OfGrant \cup {"new", "in", "done"})
<1>a. ASSUME NEW at \in Steps \ (OfGrant \cup {"new"}), Goes(r, at), call[r].at \in Before
      PROVE  \A q \in Requests : Moved(q)
  <2>1. CASE at \in {"idle", "done"}
    BY <1>a, <2>1, OverMoves DEF Goes
  <2>2. CASE at \notin {"idle", "done"}
    BY <1>a, <2>2 DEF Goes, Moved
  <2>. QED
    BY <2>1, <2>2
<1>b. ASSUME NEW x, call' = [call EXCEPT ![r] = x], x.at \notin OfGrant \cup {"new"}, call[r].at \in Before
      PROVE  \A q \in Requests : Moved(q)
  BY <1>b DEF Moved
<1>1. CASE UserByID(r)
  <2>1. CASE Over(r)
    BY <1>1, <2>1, OverMoves DEF UserByID
  <2>2. CASE call' = [call EXCEPT ![r] = [NoCall("device") EXCEPT !.user = call[r].user]]
    BY <1>1, <2>2 DEF UserByID, Moved, NoCall, Carried
  <2>. QED
    BY <1>1, <2>1, <2>2 DEF UserByID
<1>2. CASE UpsertDevice(r) \/ InsertToken(r)
  <2>1. CASE Over(r)
    BY <1>2, <2>1, OverMoves DEF UpsertDevice, InsertToken
  <2>2. ASSUME NEW at \in {"token", "in"}, Goes(r, at)
        PROVE  \A q \in Requests : Moved(q)
    <3>1. call' = [call EXCEPT ![r].at = at] /\ call[r].at \in Carried
      BY <1>2, <2>2 DEF Goes, UpsertDevice, InsertToken, Carried
    <3>. QED
      BY <3>1 DEF Moved, Carried
  <2>. QED
    BY <1>2, <2>1, <2>2 DEF UpsertDevice, InsertToken
<1>3. CASE ExternalIdentityUser(r)
  BY <1>3 DEF ExternalIdentityUser, Moved, Carried, OfGrant
<1>4. CASE RecordExternalSignIn(r)
  BY <1>4, <1>a, OverMoves DEF RecordExternalSignIn, Carried, OfGrant, Steps
<1>5. CASE CreateExternalMember(r)
  <2>1. CASE Goes(r, "whose")
    BY <1>5, <2>1, <1>a DEF CreateExternalMember, Carried, OfGrant, Steps
  <2>2. CASE call' = [call EXCEPT ![r].user = r, ![r].at = "sync"]
    BY <1>5, <2>2 DEF CreateExternalMember, Moved, Carried, OfGrant
  <2>. QED
    BY <1>5, <2>1, <2>2 DEF CreateExternalMember
<1>6. CASE HeldAfterAll(r)
  <2>1. CASE Over(r)
    BY <1>6, <2>1, OverMoves DEF HeldAfterAll
  <2>2. CASE \E u \in People \cup {None} : call' = [call EXCEPT ![r].user = u, ![r].at = "sync"]
    BY <1>6, <2>2 DEF HeldAfterAll, Moved, Carried, OfGrant
  <2>3. call[r].subject \in Subjects
    BY <1>6 DEF HeldAfterAll, AboutIdentity, Typed, CallsTyped
  <2>. QED
    BY <1>6, <2>1, <2>2, <2>3, HolderTyped DEF HeldAfterAll
<1>7. CASE AttachExternalIdentity(r)
  BY <1>7, <1>a, OverMoves DEF AttachExternalIdentity, Carried, OfGrant, Steps
<1>8. CASE SyncSteps(r)
  <2>1. CASE SyncGroupMapping(r)
    <3>1. CASE Over(r)
      BY <2>1, <3>1, OverMoves DEF SyncGroupMapping
    <3>2. CASE Goes(r, call[r].next)
      BY <2>1, <3>2, <1>a DEF SyncGroupMapping, Carried, OfGrant, Steps
    <3>3. CASE \E g \in Roles : call' = [call EXCEPT ![r].at = "rules", ![r].groups = g]
      BY <2>1, <3>3 DEF SyncGroupMapping, Moved, Carried, OfGrant
    <3>. QED
      BY <2>1, <3>1, <3>2, <3>3 DEF SyncGroupMapping, Roles
  <2>2. CASE GroupMapping(r)
    BY <2>2, <1>a DEF GroupMapping, Carried, OfGrant, Steps
  <2>3. CASE ApplyMappedAccess(r)
    BY <2>3, <1>a DEF ApplyMappedAccess, Carried, OfGrant, Steps
  <2>4. CASE Hear(r)
    BY <2>4, <1>a DEF Hear, Carried, OfGrant, Steps
  <2>. QED
    BY <1>8, <2>1, <2>2, <2>3, <2>4 DEF SyncSteps
<1>9. CASE DeleteUserKeepingAnAdmin(r) \/ DeleteSignInPlugin(r) \/ PutBack(r)
  BY <1>9, OverMoves DEF DeleteUserKeepingAnAdmin, DeleteSignInPlugin, PutBack
<1>10. CASE UninstallSignIn(r)
  BY <1>10, <1>a, OverMoves DEF UninstallSignIn, Carried, OfGrant, Steps
<1>. QED
  BY <1>1, <1>2, <1>3, <1>4, <1>5, <1>6, <1>7, <1>8, <1>9, <1>10 DEF RequestSteps

LEMMA ArrivalMoves ==
    ASSUME Typed, Arrive
    PROVE  \A q \in Requests : Moved(q)
<1>1. ASSUME NEW r \in Requests, NEW x, Begin(r, x), x.at \notin OfGrant \cup {"new"}
      PROVE  \A q \in Requests : Moved(q)
  BY <1>1 DEF Begin, Moved, Typed, AccountsTypeOK, Callers
<1>. QED
  BY <1>1 DEF Arrive, Login, DeleteUser, SignIn, Attach, UninstallPreview, NoCall, OfGrant

LEMMA RecheckLeaves ==
    ASSUME Typed, RecheckSteps \/ RevokePairings
    PROVE  \A q \in Requests : call'[q] = call[q]
<1>1. \A at : Goes(Rechecker, at) \/ Over(Rechecker) => \A q \in Requests : call'[q] = call[q]
  BY AccountConstants DEF Goes, Over, Typed, AccountsTypeOK, Callers
<1>2. \A i, at, next : Finds(i, at, next) => \A q \in Requests : call'[q] = call[q]
  BY AccountConstants DEF Finds, Typed, AccountsTypeOK, Callers
<1>3. SyncSteps(Rechecker) => \A q \in Requests : call'[q] = call[q]
  BY <1>1, AccountConstants
  DEF SyncSteps, SyncGroupMapping, GroupMapping, ApplyMappedAccess, Hear, Typed, AccountsTypeOK, Callers
<1>. QED
  BY <1>1, <1>2, <1>3
  DEF RecheckSteps, RunDue, Recheck, RecordExternalCheck, NoteExternalCheckFailure, RevokeSessions,
      RevokePairings

LEMMA ElsewhereMoves ==
    ASSUME Typed, Elsewhere
    PROVE  \A q \in Requests : Moved(q)
BY AccountConstants
DEF Elsewhere, SetUserPassword, Install, SetGroupMapping, DirectoryChanges, DeleteDevice, Crash,
    Moved, NoCall, Callers

-----------------------------------------------------------------------------
(* A request about a code is one that approves it, collects it, or has.    *)

Asked ==
    \A r \in Requests :
        IF asks[r] = None THEN call[r].at \notin OfGrant
        ELSE call[r].at \in OfGrant \cup Carried \cup {"in", "done"}

GrantTyped == TypeOK /\ CallsTyped /\ Asked

LEMMA AskedHolds ==
    ASSUME Asked, UNCHANGED asks, \A q \in Requests : Moved(q)
    PROVE  Asked'
BY DEF Asked, Moved, OfGrant, Carried

LEMMA InitTyped == Init => GrantTyped
<1>. SUFFICES ASSUME Init PROVE GrantTyped
  OBVIOUS
<1>. USE DEF Init, AccountsInit
<1>1. PICK h \in [Subjects -> Guests \cup {None}] :
        /\ users = Locals \cup {h[s] : s \in {t \in Subjects : h[t] # None}}
        /\ directory \in [Subjects -> Roles]
        /\ identity = [s \in Subjects |-> IF h[s] = None THEN None
                         ELSE [user |-> h[s], groups |-> directory[s], failures |-> 0]]
        /\ named = [u \in People |-> IF \E s \in Subjects : h[s] = u
                                     THEN CHOOSE s \in Subjects : h[s] = u ELSE None]
  OBVIOUS
<1>2. users \subseteq People /\ password \subseteq People
  BY <1>1 DEF People
<1>3. named \in [People -> Subjects \cup {None}]
  BY <1>1
<1>4. identity \in [Subjects -> Identity \cup {None}]
  <2>1. \A s \in Subjects : h[s] # None =>
           [user |-> h[s], groups |-> directory[s], failures |-> 0] \in Identity
    BY <1>1, AccountConstants DEF Identity, People
  <2>. QED
    BY <1>1, <2>1
<1>5. role \in [People -> Roles]
  BY DEF Roles
<1>6. device \in [People -> People \cup {None}] /\ session \in [People -> People \cup {None}]
  OBVIOUS
<1>7. CallsTyped
  BY NoCallTyped DEF CallsTyped, Steps, AboutIdentity
<1>8. directory \in [Subjects -> Answers]
  BY <1>1 DEF Answers
<1>9. AccountsTypeOK
  BY <1>2, <1>3, <1>4, <1>5, <1>6, <1>7, <1>8, AccountConstants DEF AccountsTypeOK, CallsTyped
<1>10. codes \in [Codes -> [state : States, by : People \cup {None}]]
  <2>1. /\ [state |-> "none", by |-> None] \in [state : States, by : People \cup {None}]
        /\ [state : {"approved"}, by : users \ password] \subseteq [state : States, by : People \cup {None}]
    BY <1>2 DEF States
  <2>. QED
    BY <2>1
<1>11. told \in [Codes -> SUBSET People]
  BY <1>10
<1>12. Asked
  BY DEF Asked, Callers, NoCall, OfGrant
<1>. QED
  BY <1>7, <1>9, <1>10, <1>11, <1>12 DEF GrantTyped, TypeOK

(* A User who goes takes codes along, whatever step they go by.            *)
LEMMA CascadeTyped ==
    ASSUME GrantTyped, Typed', Cascade, \A q \in Requests : Moved(q)
    PROVE  GrantTyped'
BY AskedHolds DEF GrantTyped, TypeOK, Typed, Cascade, Gone, States

(* The grant's own steps leave the accounts alone.                         *)
LEMMA AccountsUntouched ==
    ASSUME GrantTyped, UNCHANGED untouched, CallsTyped', events' \in 0..MaxEvents
    PROVE  AccountsTypeOK'
BY DEF GrantTyped, TypeOK, AccountsTypeOK, untouched, CallsTyped

LEMMA StepTyped == GrantTyped /\ [Next]_vars => GrantTyped'
<1>. SUFFICES ASSUME GrantTyped, [Next]_vars PROVE GrantTyped'
  OBVIOUS
<1>t. Typed
  BY DEF GrantTyped, TypeOK, Typed
<1>1. CASE Arrive /\ Cascade
  BY <1>t, <1>1, ArrivalTyped, ArrivalMoves, CascadeTyped
<1>2. CASE CodesArrive
  <2>1. PICK r \in Requests, k \in Codes :
           RedeemDeviceCode(r, k) \/ \E u \in People : ApproveDeviceCode(r, u, k)
    BY <1>2 DEF CodesArrive
  <2>2. CallsTyped' /\ events' \in 0..MaxEvents
    <3>1. CASE RedeemDeviceCode(r, k)
      <4>1. NoCall("redeem") \in Call /\ NoCall("redeem").at \notin AboutIdentity
        BY NoCallTyped DEF Steps, AboutIdentity
      <4>. QED
        BY <1>t, <3>1, <4>1, BegunTyped DEF RedeemDeviceCode
    <3>2. ASSUME NEW u \in People, ApproveDeviceCode(r, u, k)
          PROVE  CallsTyped' /\ events' \in 0..MaxEvents
      <4>. DEFINE x == [NoCall("approve") EXCEPT !.user = u]
      <4>1. x \in Call /\ x.at \notin AboutIdentity
        BY DEF NoCall, Call, Steps, Roles, AboutIdentity
      <4>. QED
        BY <1>t, <3>2, <4>1, BegunTyped DEF ApproveDeviceCode
    <3>. QED
      BY <2>1, <3>1, <3>2
  <2>3. UNCHANGED <<untouched, codes, told>> /\ asks' \in [Requests -> Codes \cup {None}]
    BY <2>1 DEF RedeemDeviceCode, ApproveDeviceCode, GrantTyped, TypeOK
  <2>4. Asked'
    BY <2>1, NoneIsNoCode
    DEF RedeemDeviceCode, ApproveDeviceCode, Begin, NoCall, Asked, OfGrant, Carried, Callers,
        GrantTyped, TypeOK, AccountsTypeOK
  <2>. QED
    BY <2>2, <2>3, <2>4, AccountsUntouched DEF GrantTyped, TypeOK
<1>3. ASSUME NEW r \in Requests, RequestSteps(r) /\ Cascade PROVE GrantTyped'
  BY <1>t, <1>3, RequestTyped, RequestMoves, CascadeTyped
<1>4. ASSUME NEW r \in Requests, ApproveDeviceAuth(r) PROVE GrantTyped'
  <2>1. CallsTyped'
    BY <1>t, <1>4, OverTyped DEF ApproveDeviceAuth, Callers
  <2>2. /\ codes' \in [Codes -> [state : States, by : People \cup {None}]]
        /\ told' \in [Codes -> SUBSET People]
    BY <1>4 DEF ApproveDeviceAuth, GrantTyped, TypeOK, AccountsTypeOK, States
  <2>3. UNCHANGED <<untouched, asks>> /\ events' \in 0..MaxEvents
    BY <1>4 DEF ApproveDeviceAuth, GrantTyped, TypeOK, AccountsTypeOK
  <2>4. Asked'
    BY <1>t, <1>4, OverMoves, AskedHolds DEF ApproveDeviceAuth, GrantTyped
  <2>. QED
    BY <2>1, <2>2, <2>3, <2>4, AccountsUntouched DEF GrantTyped, TypeOK
<1>5. ASSUME NEW r \in Requests, RedeemDeviceAuth(r) PROVE GrantTyped'
  <2>. /\ r \in Callers
       /\ codes \in [Codes -> [state : States, by : People \cup {None}]]
       /\ asks[r] \in Codes \cup {None} /\ call[r] \in Call
       /\ events \in 0..MaxEvents /\ DOMAIN call = Callers
    BY DEF GrantTyped, TypeOK, AccountsTypeOK, Callers
  <2>1. CASE Over(r) /\ UNCHANGED codes
    <3>1. CallsTyped'
      BY <1>t, <2>1, OverTyped
    <3>2. Asked'
      BY <1>t, <1>5, <2>1, OverMoves, AskedHolds DEF RedeemDeviceAuth, GrantTyped
    <3>. QED
      BY <1>5, <2>1, <3>1, <3>2, AccountsUntouched DEF RedeemDeviceAuth, GrantTyped, TypeOK
  <2>2. CASE /\ codes[asks[r]].state = "approved"
             /\ codes' = [codes EXCEPT ![asks[r]].state = "redeemed"]
             /\ call' = [call EXCEPT ![r].user = codes[asks[r]].by, ![r].at = "reread"]
    <3>1. codes' \in [Codes -> [state : States, by : People \cup {None}]]
      BY <2>2 DEF States
    <3>. DEFINE x == [call[r] EXCEPT !.user = codes[asks[r]].by, !.at = "reread"]
    <3>2. call' = [call EXCEPT ![r] = x]
      BY <2>2
    <3>3. codes[asks[r]].by \in People \cup {None}
      BY <1>5 DEF RedeemDeviceAuth, GrantTyped, Asked, OfGrant
    <3>4. x \in Call /\ x.at \notin AboutIdentity
      BY <3>3 DEF Call, Steps, AboutIdentity
    <3>5. CallsTyped'
      BY <1>t, <3>2, <3>4, CallTyped
    <3>6. Asked'
      BY <1>5, <3>2 DEF RedeemDeviceAuth, Asked, OfGrant, Carried, GrantTyped, Callers
    <3>. QED
      BY <1>5, <3>1, <3>5, <3>6, AccountsUntouched DEF RedeemDeviceAuth, GrantTyped, TypeOK
  <2>. QED
    BY <1>5, <2>1, <2>2 DEF RedeemDeviceAuth
<1>6. CASE RecheckSteps /\ Cascade
  BY <1>t, <1>6, RecheckTyped, RecheckLeaves, CascadeTyped DEF Moved
<1>7. CASE RevokePairings
  <2>1. CallsTyped' /\ events' \in 0..MaxEvents
    <3>1. /\ Rechecker \in Callers /\ call[Rechecker].next \in Steps
          /\ call[Rechecker].next \notin AboutIdentity /\ events \in 0..MaxEvents
      BY DEF GrantTyped, TypeOK, AccountsTypeOK, Callers, Call, Steps, AboutIdentity
    <3>. QED
      BY <1>t, <1>7, <3>1, OverTyped, GoesTyped, EventTyped DEF RevokePairings
  <2>2. codes' \in [Codes -> [state : States, by : People \cup {None}]]
    BY <1>7 DEF RevokePairings, GrantTyped, TypeOK, Gone, States
  <2>3. Asked'
    BY <1>t, <1>7, RecheckLeaves, AskedHolds DEF Moved, RevokePairings, GrantTyped
  <2>. QED
    BY <1>7, <2>1, <2>2, <2>3, AccountsUntouched DEF RevokePairings, GrantTyped, TypeOK
<1>8. CASE Elsewhere /\ Cascade
  BY <1>t, <1>8, ElsewhereTyped, ElsewhereMoves, CascadeTyped
<1>9. ASSUME NEW k \in Codes, StartDeviceAuth(k) \/ Expire(k) PROVE GrantTyped'
  <2>1. codes' \in [Codes -> [state : States, by : People \cup {None}]]
    BY <1>9 DEF StartDeviceAuth, Expire, GrantTyped, TypeOK, Gone, States
  <2>2. UNCHANGED <<untouched, call, asks, told>> /\ CallsTyped' /\ events' \in 0..MaxEvents
    BY <1>t, <1>9, EventTyped DEF StartDeviceAuth, Expire, GrantTyped, CallsTyped
  <2>3. Asked'
    BY <2>2 DEF Asked, GrantTyped
  <2>. QED
    BY <2>1, <2>2, <2>3, AccountsUntouched DEF GrantTyped, TypeOK
<1>10. CASE UNCHANGED vars
  BY <1>10 DEF GrantTyped, Asked, TypeOK, AccountsTypeOK, CallsTyped, vars, accounts
<1>. QED
  BY <1>1, <1>2, <1>3, <1>4, <1>5, <1>6, <1>7, <1>8, <1>9, <1>10
  DEF Next, Proceeds, Rechecks

(* Types hold, and every call that is about an identity knows which.       *)
THEOREM GrantTypes == Spec => []GrantTyped
BY InitTyped, StepTyped, PTL DEF Spec

-----------------------------------------------------------------------------
(* The way in.  With the types it is inductive as it stands: what deletes  *)
(* counts again in the same statement, and what uninstalls compares again  *)
(* with everyone who has no other way in.                                  *)

WayIn == GrantTyped /\ EveryoneHasAWayIn

LEMMA WayInKept ==
    ASSUME Typed, EveryoneHasAWayIn, UNCHANGED <<users, installed>>, password \subseteq password',
           \A u \in People : u \in password => role'[u] = role[u],
           \A s \in Subjects : Holder(s)' = Holder(s)
    PROVE  EveryoneHasAWayIn'
<1>1. LocalAdmins \subseteq LocalAdmins'
  BY DEF LocalAdmins, Admins, Typed, AccountsTypeOK
<1>2. \A u : Holds(u)' = Holds(u)
  BY DEF Holds
<1>. QED
  BY <1>1, <1>2 DEF EveryoneHasAWayIn

LEMMA SameHolder ==
    ASSUME UNCHANGED identity
    PROVE  \A s \in Subjects : Holder(s)' = Holder(s)
BY DEF Holder

LEMMA SyncWayIn ==
    ASSUME Typed, EveryoneHasAWayIn, NEW c \in Callers, SyncSteps(c)
    PROVE  EveryoneHasAWayIn'
<1>1. \A u \in People : u \in password => role'[u] = role[u]
  BY DEF SyncSteps, SyncGroupMapping, GroupMapping, ApplyMappedAccess, Hear, Typed, AccountsTypeOK
<1>2. UNCHANGED <<users, password, installed, identity>>
  BY DEF SyncSteps, SyncGroupMapping, GroupMapping, ApplyMappedAccess, Hear
<1>. QED
  BY <1>1, <1>2, WayInKept, SameHolder

LEMMA RequestWayIn ==
    ASSUME Typed, EveryoneHasAWayIn, NEW r \in Requests, RequestSteps(r)
    PROVE  EveryoneHasAWayIn'
<1>. r \in Callers /\ r \in People /\ call[r] \in Call
  BY DEF Callers, People, Typed, AccountsTypeOK
<1>1. CASE \/ UserByID(r) \/ UpsertDevice(r) \/ InsertToken(r) \/ ExternalIdentityUser(r)
           \/ HeldAfterAll(r) \/ UninstallSignIn(r) \/ PutBack(r)
  <2>1. UNCHANGED <<users, role, password, installed, identity>>
    BY <1>1 DEF UserByID, UpsertDevice, InsertToken, ExternalIdentityUser, HeldAfterAll, UninstallSignIn,
                PutBack
  <2>. QED
    BY <2>1, WayInKept, SameHolder
<1>2. CASE RecordExternalSignIn(r)
  <2>1. call[r].subject \in Subjects
    BY <1>2 DEF RecordExternalSignIn, AboutIdentity, Typed, CallsTyped
  <2>2. \A s \in Subjects : Holder(s)' = Holder(s)
    BY <1>2, <2>1, SameHolder, AnsweredTyped DEF RecordExternalSignIn
  <2>. QED
    BY <1>2, <2>2, WayInKept DEF RecordExternalSignIn
<1>3. CASE CreateExternalMember(r)
  <2>1. PICK s \in Subjects : s = call[r].subject
    BY <1>3 DEF CreateExternalMember, AboutIdentity, Typed, CallsTyped
  <2>2. CASE UNCHANGED <<users, identity>>
    BY <1>3, <2>2, WayInKept, SameHolder DEF CreateExternalMember
  <2>3. CASE /\ installed /\ identity[s] = None /\ users' = users \cup {r}
             /\ identity' = [identity EXCEPT ![s] = [user |-> r, groups |-> call[r].groups, failures |-> 0]]
    <3>r. [user |-> r, groups |-> call[r].groups, failures |-> 0] \in Identity
      BY AccountConstants DEF Identity, Call
    <3>1. Holder(s)' = r
      <4>1. identity'[s] = [user |-> r, groups |-> call[r].groups, failures |-> 0]
        BY <2>1, <2>3 DEF Typed, AccountsTypeOK
      <4>2. identity'[s] # None /\ identity'[s].user = r
        BY <3>r, <4>1, NoneIsNoIdentity
      <4>. QED
        BY <4>2 DEF Holder
    <3>2. \A t \in Subjects : Holder(t) # None => Holder(t)' = Holder(t)
      BY <2>1, <2>3 DEF Holder, Typed, AccountsTypeOK
    <3>3. s \in Holds(r)' /\ \A u \in People : Holds(u) \subseteq Holds(u)'
      <4>1. \A u \in People : u # None
        BY AccountConstants
      <4>. QED
        BY <2>1, <3>1, <3>2, <4>1 DEF Holds
    <3>4. LocalAdmins \subseteq LocalAdmins'
      BY <1>3, <2>3 DEF CreateExternalMember, LocalAdmins, Admins
    <3>5. installed' /\ password' = password /\ users \subseteq People
      BY <1>3, <2>3 DEF CreateExternalMember, Typed, AccountsTypeOK
    <3>. QED
      BY <2>3, <3>3, <3>4, <3>5 DEF EveryoneHasAWayIn
  <2>. QED
    BY <1>3, <2>1, <2>2, <2>3 DEF CreateExternalMember
<1>4. CASE AttachExternalIdentity(r)
  <2>1. PICK s \in Subjects, u \in People \cup {None} : s = call[r].subject /\ u = call[r].user
    BY <1>4 DEF Call, AttachExternalIdentity, AboutIdentity, Typed, CallsTyped
  <2>2. CASE UNCHANGED identity
    BY <1>4, <2>1, <2>2, WayInKept, SameHolder DEF AttachExternalIdentity
  <2>3. ASSUME u \in users, Holder(s) \in {None, u},
               NEW n \in 0..MaxUnverified,
               identity' = [identity EXCEPT ![s] = [user |-> u, groups |-> call[r].groups, failures |-> n]]
        PROVE  EveryoneHasAWayIn'
    <3>1. [user |-> u, groups |-> call[r].groups, failures |-> n] \in Identity
      BY <2>3 DEF Identity, Call, Typed, AccountsTypeOK
    <3>2. Holder(s)' = u
      <4>1. identity'[s] = [user |-> u, groups |-> call[r].groups, failures |-> n]
        BY <2>1, <2>3 DEF Typed, AccountsTypeOK
      <4>2. identity'[s] # None /\ identity'[s].user = u
        BY <3>1, <4>1, NoneIsNoIdentity
      <4>. QED
        BY <4>2 DEF Holder
    <3>3. \A t \in Subjects : Holder(t) # None => Holder(t)' = Holder(t)
      <4>1. \A t \in Subjects \ {s} : identity'[t] = identity[t]
        BY <2>1, <2>3 DEF Typed, AccountsTypeOK
      <4>2. \A t \in Subjects \ {s} : Holder(t)' = Holder(t)
        BY <4>1 DEF Holder
      <4>. QED
        BY <2>3, <3>2, <4>2
    <3>4. \A v \in People : Holds(v) \subseteq Holds(v)'
      BY <3>3, AccountConstants DEF Holds
    <3>5. UNCHANGED <<users, role, password, installed>>
      BY <1>4 DEF AttachExternalIdentity
    <3>6. LocalAdmins' = LocalAdmins /\ users \subseteq People
      BY <3>5 DEF LocalAdmins, Admins, Typed, AccountsTypeOK
    <3>. QED
      BY <3>4, <3>5, <3>6 DEF EveryoneHasAWayIn
  <2>4. identity[s] # None => identity[s].failures \in 0..MaxUnverified
    BY <2>1, HolderTyped DEF Identity
  <2>5. 0 \in 0..MaxUnverified
    BY AccountConstants
  <2>. QED
    BY <1>4, <2>1, <2>2, <2>3, <2>4, <2>5 DEF AttachExternalIdentity
<1>5. CASE SyncSteps(r)
  BY <1>5, SyncWayIn
<1>6. CASE DeleteUserKeepingAnAdmin(r)
  <2>. DEFINE u == call[r].user
  <2>1. CASE ~MayGo(u)
    BY <1>6, <2>1, WayInKept, SameHolder DEF DeleteUserKeepingAnAdmin
  <2>2. CASE MayGo(u)
    <3>1. /\ users' = users \ {u} /\ password' = password \ {u} /\ identity' = Left({u})
          /\ UNCHANGED <<role, installed>>
      BY <1>6, <2>2 DEF DeleteUserKeepingAnAdmin, Remove
    <3>2. LocalAdmins' = LocalAdmins \ {u}
      BY <3>1 DEF LocalAdmins, Admins
    <3>3. LocalAdmins # {u}
      <4>1. LocalAdmins = {u} => Cardinality(LocalAdmins) = 1 /\ u \in LocalAdmins
        BY FS_Singleton
      <4>. QED
        BY <2>2, <4>1 DEF MayGo
    <3>4. \A s \in Subjects, v \in People : Holder(s) = v /\ v # u => Holder(s)' = v
      BY <3>1, AccountConstants DEF Left, Holder
    <3>5. \A v \in users' : Holds(v) \subseteq Holds(v)'
      BY <3>1, <3>4 DEF Holds, Typed, AccountsTypeOK
    <3>. QED
      BY <3>1, <3>2, <3>3, <3>5 DEF EveryoneHasAWayIn
  <2>. QED
    BY <2>1, <2>2
<1>7. CASE DeleteSignInPlugin(r)
  <2>1. Casualties = users \ password
    BY DEF Casualties, EveryoneHasAWayIn
  <2>2. /\ users' = users \ Casualties /\ password' = password \ Casualties /\ role' = role
    BY <1>7 DEF DeleteSignInPlugin, Remove
  <2>3. users' \ password' = {} /\ LocalAdmins' = LocalAdmins
    BY <2>1, <2>2 DEF LocalAdmins, Admins
  <2>. QED
    BY <2>3 DEF EveryoneHasAWayIn
<1>. QED
  BY <1>1, <1>2, <1>3, <1>4, <1>5, <1>6, <1>7 DEF RequestSteps

LEMMA RecheckWayIn ==
    ASSUME Typed, EveryoneHasAWayIn, RecheckSteps
    PROVE  EveryoneHasAWayIn'
<1>. Rechecker \in Callers
  BY DEF Callers
<1>1. CASE RunDue \/ (\E i \in due : Recheck(i)) \/ RevokeSessions
  <2>1. UNCHANGED <<users, role, password, installed, identity>>
    BY <1>1 DEF RunDue, Recheck, RevokeSessions
  <2>. QED
    BY <2>1, WayInKept, SameHolder
<1>2. CASE RecordExternalCheck
  <2>1. call[Rechecker].subject \in Subjects
    BY <1>2 DEF RecordExternalCheck, AboutIdentity, Typed, CallsTyped
  <2>2. \A s \in Subjects : Holder(s)' = Holder(s)
    BY <1>2, <2>1, SameHolder, AnsweredTyped DEF RecordExternalCheck
  <2>. QED
    BY <1>2, <2>2, WayInKept DEF RecordExternalCheck
<1>3. CASE NoteExternalCheckFailure
  <2>. DEFINE s == call[Rechecker].subject
  <2>1. s \in Subjects
    BY <1>3 DEF NoteExternalCheckFailure, AboutIdentity, Typed, CallsTyped
  <2>2. CASE UNCHANGED identity
    BY <1>3, <2>2, WayInKept, SameHolder DEF NoteExternalCheckFailure
  <2>3. ASSUME identity[s] # None, NEW n \in 0..MaxUnverified, identity' = [identity EXCEPT ![s].failures = n]
        PROVE  \A t \in Subjects : Holder(t)' = Holder(t)
    <3>1. identity[s] \in Identity
      BY <2>1, <2>3, HolderTyped
    <3>. DEFINE x == [identity[s] EXCEPT !.failures = n]
    <3>2. x \in Identity /\ x.user = identity[s].user
      BY <3>1 DEF Identity
    <3>3. identity' = [identity EXCEPT ![s] = x]
      BY <2>3 DEF Typed, AccountsTypeOK
    <3>. QED
      BY <2>1, <2>3, <3>2, <3>3, NoneIsNoIdentity DEF Holder, Typed, AccountsTypeOK
  <2>4. CASE /\ identity[s] # None
             /\ identity' = [identity EXCEPT ![s].failures =
                               IF identity[s].failures < MaxUnverified THEN identity[s].failures + 1
                               ELSE MaxUnverified]
    <3>1. (IF identity[s].failures < MaxUnverified THEN identity[s].failures + 1 ELSE MaxUnverified)
             \in 0..MaxUnverified
      BY <2>1, <2>4, HolderTyped, AccountConstants DEF Identity
    <3>. QED
      BY <1>3, <2>3, <2>4, <3>1, WayInKept DEF NoteExternalCheckFailure
  <2>. QED
    BY <1>3, <2>2, <2>4 DEF NoteExternalCheckFailure
<1>4. CASE SyncSteps(Rechecker)
  BY <1>4, SyncWayIn
<1>. QED
  BY <1>1, <1>2, <1>3, <1>4 DEF RecheckSteps

LEMMA WayInStep == WayIn /\ [Next]_vars => WayIn'
<1>. SUFFICES ASSUME WayIn, [Next]_vars PROVE EveryoneHasAWayIn'
  BY StepTyped DEF WayIn
<1>. Typed /\ EveryoneHasAWayIn
  BY DEF WayIn, GrantTyped, TypeOK, Typed
<1>1. CASE Arrive
  <2>1. UNCHANGED <<users, role, password, installed, identity>>
    BY <1>1 DEF Arrive, Login, DeleteUser, SignIn, Attach, UninstallPreview
  <2>. QED
    BY <2>1, WayInKept, SameHolder
<1>2. ASSUME NEW r \in Requests, RequestSteps(r) PROVE EveryoneHasAWayIn'
  BY <1>2, RequestWayIn
<1>3. CASE RecheckSteps
  BY <1>3, RecheckWayIn
<1>4. CASE Elsewhere
  <2>1. CASE Install
    <3>1. installed' /\ UNCHANGED <<users, role, password, identity>>
      BY <2>1 DEF Install
    <3>2. LocalAdmins' = LocalAdmins /\ \A u : Holds(u)' = Holds(u)
      BY <3>1, SameHolder DEF LocalAdmins, Admins, Holds
    <3>. QED
      BY <3>1, <3>2 DEF EveryoneHasAWayIn
  <2>2. CASE ~Install
    <3>1. UNCHANGED <<users, role, installed, identity>> /\ password \subseteq password'
      BY <1>4, <2>2 DEF Elsewhere, SetUserPassword, SetGroupMapping, DirectoryChanges, DeleteDevice, Crash
    <3>. QED
      BY <3>1, WayInKept, SameHolder
  <2>. QED
    BY <2>1, <2>2
<1>5. CASE UNCHANGED <<users, role, password, installed, identity>>
  BY <1>5, WayInKept, SameHolder
<1>6. ASSUME \/ CodesArrive
             \/ \E r \in Requests : ApproveDeviceAuth(r) \/ RedeemDeviceAuth(r)
             \/ RevokePairings
             \/ \E k \in Codes : StartDeviceAuth(k) \/ Expire(k)
             \/ UNCHANGED vars
      PROVE  UNCHANGED <<users, role, password, installed, identity>>
  BY <1>6 DEF CodesArrive, RedeemDeviceCode, ApproveDeviceCode, ApproveDeviceAuth, RedeemDeviceAuth,
              RevokePairings, StartDeviceAuth, Expire, untouched, vars, accounts
<1>. QED
  BY <1>1, <1>2, <1>3, <1>4, <1>5, <1>6 DEF Next, Proceeds, Rechecks

LEMMA WayInInit == Init => WayIn
<1>. SUFFICES ASSUME Init PROVE EveryoneHasAWayIn
  BY InitTyped DEF WayIn
<1>. USE DEF Init, AccountsInit
<1>1. PICK h \in [Subjects -> Guests \cup {None}] :
        /\ users = Locals \cup {h[s] : s \in {t \in Subjects : h[t] # None}}
        /\ identity = [s \in Subjects |-> IF h[s] = None THEN None
                         ELSE [user |-> h[s], groups |-> directory[s], failures |-> 0]]
        /\ directory \in [Subjects -> Roles]
  OBVIOUS
<1>2. \A s \in Subjects : h[s] # None => Holder(s) = h[s]
  <2>1. \A s \in Subjects : h[s] # None => identity[s] \in Identity
    BY <1>1, AccountConstants DEF Identity, People
  <2>. QED
    BY <1>1, <2>1, NoneIsNoIdentity DEF Holder
<1>3. Locals \subseteq LocalAdmins
  BY <1>1 DEF LocalAdmins, Admins, People
<1>4. \A u \in users \ password : Holds(u) # {}
  <2>1. \A u \in users \ password : \E s \in Subjects : h[s] = u /\ h[s] # None
    BY <1>1, <1>3 DEF LocalAdmins
  <2>. QED
    <3>1. \A s \in Subjects : Holder(s) = h[s] \/ h[s] = None
      BY <1>2
    <3>. QED
      BY <2>1, <3>1 DEF Holds
<1>. QED
  BY <1>3, <1>4, AccountConstants DEF EveryoneHasAWayIn

(* An Admin with a Local password always remains, and nobody is left with  *)
(* neither a password nor an identity of the installed provider.           *)
THEOREM EveryoneKeepsAWayIn == Spec => []EveryoneHasAWayIn
<1>1. WayIn => EveryoneHasAWayIn
  BY DEF WayIn
<1>. QED
  BY <1>1, WayInInit, WayInStep, PTL DEF Spec

(* Only a mapping writes roles, and the statement looks for a password.    *)
THEOREM PasswordsKeepTheirRole == Spec => MappingSparesPasswords
<1>1. ASSUME GrantTyped, [Next]_vars
      PROVE  [\A u \in users \cap users' \cap password : role'[u] = role[u]]_accounts
  <2>. Typed
    BY <1>1 DEF GrantTyped, TypeOK, Typed
  <2>1. CASE \E c \in Callers : ApplyMappedAccess(c)
    BY <2>1 DEF ApplyMappedAccess, Typed, AccountsTypeOK
  <2>2. CASE UNCHANGED role
    BY <2>2
  <2>3. (\E c \in Callers : ApplyMappedAccess(c)) \/ UNCHANGED role
    <3>1. \A c \in Callers : SyncSteps(c) => ApplyMappedAccess(c) \/ UNCHANGED role
      BY DEF SyncSteps, SyncGroupMapping, GroupMapping, Hear
    <3>2. CASE \E r \in Requests : RequestSteps(r)
      BY <3>1, <3>2 DEF RequestSteps, UserByID, UpsertDevice, InsertToken, ExternalIdentityUser,
         RecordExternalSignIn, CreateExternalMember, HeldAfterAll, AttachExternalIdentity,
         DeleteUserKeepingAnAdmin, UninstallSignIn, DeleteSignInPlugin, PutBack, Callers
    <3>3. CASE RecheckSteps
      BY <3>1, <3>3 DEF RecheckSteps, RunDue, Recheck, RecordExternalCheck, NoteExternalCheckFailure,
         RevokeSessions, Callers
    <3>4. CASE Arrive \/ Elsewhere
      BY <3>4 DEF Arrive, Login, DeleteUser, SignIn, Attach, UninstallPreview, Elsewhere, SetUserPassword,
         Install, SetGroupMapping, Crash, DirectoryChanges, DeleteDevice
    <3>5. CASE \/ CodesArrive
               \/ \E r \in Requests : ApproveDeviceAuth(r) \/ RedeemDeviceAuth(r)
               \/ RevokePairings
               \/ \E k \in Codes : StartDeviceAuth(k) \/ Expire(k)
               \/ UNCHANGED vars
      BY <3>5 DEF CodesArrive, RedeemDeviceCode, ApproveDeviceCode, ApproveDeviceAuth, RedeemDeviceAuth,
                  RevokePairings, StartDeviceAuth, Expire, untouched, vars, accounts
    <3>. QED
      BY <1>1, <3>2, <3>3, <3>4, <3>5 DEF Next, Proceeds, Rechecks
  <2>. QED
    BY <2>1, <2>2, <2>3
<1>. QED
  BY <1>1, GrantTypes, PTL DEF Spec, MappingSparesPasswords

-----------------------------------------------------------------------------
(* The code.  Who bears it is whom the redemption let through: nobody      *)
(* before it, one request after it, and that one acts for whoever approved *)
(* - even when the code's row has gone since.                              *)

Bears(r, k) == asks[r] = k /\ call[r].at \in Carried \cup {"in"}

CodeKept(k) ==
    /\ told[k] = {} \/ \E u \in People : told[k] = {u}
    /\ codes[k].state \in {"none", "pending"} => told[k] = {} /\ codes[k].by = None
    /\ codes[k].state \in {"approved", "redeemed"} => told[k] = {codes[k].by}
    /\ codes[k].state \in {"none", "pending", "approved"} => \A r \in Requests : ~Bears(r, k)
    /\ \A q, r \in Requests : Bears(q, k) /\ Bears(r, k) => q = r
    /\ \A r \in Requests : Bears(r, k) => told[k] = {call[r].user}

CodesKept == GrantTyped /\ \A k \in Codes : CodeKept(k)

LEMMA CodesKeptInit == Init => CodesKept
<1>. SUFFICES ASSUME Init, NEW k \in Codes PROVE CodeKept(k)
  BY InitTyped DEF CodesKept
<1>1. \A r \in Requests : ~Bears(r, k)
  BY NoneIsNoCode DEF Init, Bears
<1>2. /\ codes[k] = [state |-> "none", by |-> None] \/ codes[k] \in [state : {"approved"}, by : users \ password]
      /\ told[k] = {codes[k].by} \ {None}
  BY DEF Init
<1>3. users \subseteq People
  BY InitTyped DEF GrantTyped, TypeOK, AccountsTypeOK
<1>. QED
  BY <1>1, <1>2, <1>3, AccountConstants DEF CodeKept

(* What leaves a code alone, or takes its row away, lets nobody through.   *)
LEMMA CodeStays ==
    ASSUME NEW k \in Codes, CodeKept(k), told'[k] = told[k],
           codes'[k] = codes[k] \/ codes'[k] = Gone,
           \A r \in Requests : Bears(r, k)' => Bears(r, k) /\ call'[r].user = call[r].user
    PROVE  CodeKept(k)'
<1>1. CASE codes'[k] = codes[k]
  BY <1>1 DEF CodeKept
<1>2. CASE codes'[k] = Gone
  <2>1. codes'[k].state = "gone"
    BY <1>2 DEF Gone
  <2>. QED
    BY <2>1 DEF CodeKept
<1>. QED
  BY <1>1, <1>2

LEMMA MovedBears ==
    ASSUME GrantTyped, NEW k \in Codes, UNCHANGED asks, \A q \in Requests : Moved(q)
    PROVE  \A r \in Requests : Bears(r, k)' => Bears(r, k) /\ call'[r].user = call[r].user
BY NoneIsNoCode DEF GrantTyped, Asked, Moved, Bears, Carried, OfGrant

LEMMA CodesKeptStep == CodesKept /\ [Next]_vars => CodesKept'
<1>. SUFFICES ASSUME CodesKept, [Next]_vars, NEW k \in Codes PROVE CodeKept(k)'
  BY StepTyped DEF CodesKept
<1>. /\ GrantTyped /\ CodeKept(k) /\ Typed
     /\ DOMAIN call = Callers /\ Requests \subseteq Callers
     /\ asks \in [Requests -> Codes \cup {None}] /\ told \in [Codes -> SUBSET People]
     /\ codes \in [Codes -> [state : States, by : People \cup {None}]]
  BY DEF CodesKept, GrantTyped, TypeOK, Typed, AccountsTypeOK, Callers
<1>1. ASSUME Arrive \/ (\E r \in Requests : RequestSteps(r)) \/ RecheckSteps \/ Elsewhere, Cascade
      PROVE  CodeKept(k)'
  <2>1. \A q \in Requests : Moved(q)
    BY <1>1, ArrivalMoves, RequestMoves, RecheckLeaves, ElsewhereMoves DEF Moved
  <2>2. UNCHANGED <<asks, told>> /\ (codes'[k] = codes[k] \/ codes'[k] = Gone)
    BY <1>1 DEF Cascade
  <2>. QED
    BY <2>1, <2>2, MovedBears, CodeStays
<1>2. CASE CodesArrive
  <2>1. PICK r \in Requests, j \in Codes :
           RedeemDeviceCode(r, j) \/ \E u \in People : ApproveDeviceCode(r, u, j)
    BY <1>2 DEF CodesArrive
  <2>2. /\ call'[r].at \in OfGrant /\ asks' = [asks EXCEPT ![r] = j]
        /\ \A q \in Requests \ {r} : call'[q] = call[q]
        /\ UNCHANGED <<codes, told>>
    BY <2>1 DEF RedeemDeviceCode, ApproveDeviceCode, Begin, NoCall, OfGrant
  <2>3. \A q \in Requests : Bears(q, k)' => Bears(q, k) /\ call'[q].user = call[q].user
    BY <2>2 DEF Bears, OfGrant, Carried
  <2>. QED
    BY <2>2, <2>3, CodeStays
<1>3. ASSUME NEW r \in Requests, ApproveDeviceAuth(r) PROVE CodeKept(k)'
  <2>1. call[r].at = "approve" /\ Over(r) /\ UNCHANGED asks
    BY <1>3 DEF ApproveDeviceAuth
  <2>2. \A q \in Requests : Bears(q, k)' => Bears(q, k) /\ call'[q].user = call[q].user
    BY <2>1, OverMoves, MovedBears
  <2>3. CASE asks[r] = k /\ codes[k].state = "pending" /\ call[r].user \in users
    <3>1. /\ codes'[k].state = "approved" /\ codes'[k].by = call[r].user
          /\ told'[k] = told[k] \cup {call[r].user}
      BY <1>3, <2>3 DEF ApproveDeviceAuth
    <3>2. told[k] = {} /\ \A q \in Requests : ~Bears(q, k)
      BY <2>3 DEF CodeKept
    <3>3. call[r].user \in People
      BY <2>3 DEF Typed, AccountsTypeOK
    <3>. QED
      BY <2>2, <3>1, <3>2, <3>3 DEF CodeKept
  <2>4. CASE ~(asks[r] = k /\ codes[k].state = "pending" /\ call[r].user \in users)
    <3>1. told'[k] = told[k] /\ codes'[k] = codes[k]
      BY <1>3, <2>4 DEF ApproveDeviceAuth
    <3>. QED
      BY <2>2, <3>1, CodeStays
  <2>. QED
    BY <2>3, <2>4
<1>4. ASSUME NEW r \in Requests, RedeemDeviceAuth(r) PROVE CodeKept(k)'
  <2>1. call[r].at = "redeem" /\ UNCHANGED <<asks, told>> /\ asks[r] \in Codes
    BY <1>4 DEF RedeemDeviceAuth, GrantTyped, Asked, OfGrant
  <2>2. CASE codes[asks[r]].state # "approved"
    <3>1. Over(r) /\ UNCHANGED codes
      BY <1>4, <2>2 DEF RedeemDeviceAuth
    <3>. QED
      BY <2>1, <3>1, OverMoves, MovedBears, CodeStays
  <2>3. CASE codes[asks[r]].state = "approved"
    <3>1. /\ codes' = [codes EXCEPT ![asks[r]].state = "redeemed"]
          /\ call' = [call EXCEPT ![r].user = codes[asks[r]].by, ![r].at = "reread"]
      BY <1>4, <2>3 DEF RedeemDeviceAuth
    <3>2. CASE asks[r] = k
      <4>1. codes'[k].state = "redeemed" /\ codes'[k].by = codes[k].by /\ told[k] = {codes[k].by}
        BY <2>3, <3>1, <3>2 DEF CodeKept
      <4>2. \A q \in Requests : ~Bears(q, k)
        BY <2>3, <3>2 DEF CodeKept
      <4>3. call'[r].user = codes[k].by /\ \A q \in Requests \ {r} : call'[q] = call[q]
        <5>1. call[r] \in Call
          BY DEF Typed, AccountsTypeOK
        <5>. QED
          BY <3>1, <3>2, <5>1 DEF Call
      <4>4. \A q \in Requests : Bears(q, k)' => q = r
        BY <2>1, <4>2, <4>3 DEF Bears
      <4>. QED
        BY <2>1, <4>1, <4>3, <4>4 DEF CodeKept
    <3>3. CASE asks[r] # k
      <4>1. codes'[k] = codes[k] /\ \A q \in Requests \ {r} : call'[q] = call[q]
        BY <3>1, <3>3
      <4>2. \A q \in Requests : Bears(q, k)' => Bears(q, k) /\ call'[q].user = call[q].user
        BY <2>1, <3>3, <4>1 DEF Bears
      <4>. QED
        BY <2>1, <4>1, <4>2, CodeStays
    <3>. QED
      BY <3>2, <3>3
  <2>. QED
    BY <2>2, <2>3
<1>5. CASE RevokePairings
  <2>1. UNCHANGED <<asks, told>> /\ (codes'[k] = codes[k] \/ codes'[k] = Gone)
    BY <1>5 DEF RevokePairings
  <2>. QED
    BY <1>5, <2>1, RecheckLeaves, MovedBears, CodeStays DEF Moved
<1>6. ASSUME NEW j \in Codes, StartDeviceAuth(j) \/ Expire(j) PROVE CodeKept(k)'
  <2>1. UNCHANGED <<call, asks, told>>
    BY <1>6 DEF StartDeviceAuth, Expire
  <2>2. CASE codes'[k] = codes[k] \/ codes'[k] = Gone
    BY <2>1, <2>2, MovedBears, CodeStays DEF Moved
  <2>3. CASE codes[k].state = "none" /\ codes'[k].state = "pending" /\ codes'[k].by = codes[k].by
    BY <2>1, <2>3 DEF CodeKept, Bears
  <2>. QED
    BY <1>6, <2>2, <2>3 DEF StartDeviceAuth, Expire
<1>7. CASE UNCHANGED vars
  BY <1>7 DEF CodeKept, Bears, vars, accounts
<1>. QED
  BY <1>1, <1>2, <1>3, <1>4, <1>5, <1>6, <1>7 DEF Next, Proceeds, Rechecks

(* One person approves a code and one request collects it, which signs in  *)
(* that person: it takes the compare and swap of the redemption, and that  *)
(* an approved code has no bearer yet.                                     *)
THEOREM OneCodeOneSession == Spec => []CodeGoesToItsApprover
<1>1. CodesKept => CodeGoesToItsApprover
  <2>. SUFFICES ASSUME NEW k \in Codes, CodeKept(k)
                PROVE  /\ Cardinality(told[k]) <= 1 /\ Cardinality(Collectors(k)) <= 1
                       /\ \A r \in Collectors(k) : told[k] = {call[r].user}
    BY DEF CodesKept, CodeGoesToItsApprover
  <2>1. \A r \in Collectors(k) : r \in Requests /\ Bears(r, k)
    BY DEF Collectors, Bears
  <2>2. Collectors(k) = {} \/ \E r \in Requests : Collectors(k) = {r}
    BY <2>1 DEF CodeKept
  <2>3. Cardinality({}) = 0 /\ \A x : Cardinality({x}) = 1
    BY FS_EmptySet, FS_Singleton
  <2>4. Cardinality(told[k]) \in {0, 1}
    BY <2>3 DEF CodeKept
  <2>5. Cardinality(Collectors(k)) \in {0, 1}
    BY <2>2, <2>3
  <2>6. \A r \in Collectors(k) : told[k] = {call[r].user}
    BY <2>1 DEF CodeKept
  <2>. QED
    BY <2>4, <2>5, <2>6
<1>. QED
  BY <1>1, CodesKeptInit, CodesKeptStep, PTL DEF Spec
==============================================================================
