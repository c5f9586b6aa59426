------------------------------- MODULE Accounts -------------------------------
(***************************************************************************)
(* The people of this Server and how they get in: Local passwords and one  *)
(* Sign-in provider (internal/auth service.go, sign_in.go,                 *)
(* group_mapping.go), their rows (internal/store), the re-check of what    *)
(* the provider's directory says (internal/signin recheck.go), and the     *)
(* provider's uninstall (internal/plugins sign_in_uninstall.go).           *)
(*                                                                         *)
(* Each call of the store is a step of its own; one transaction is one     *)
(* step.  A role stands for the role and the granted Libraries, which are  *)
(* written together.  DeviceGrant completes the specification.             *)
(***************************************************************************)
EXTENDS Naturals, FiniteSets

CONSTANTS Locals,        \* Admins with a Local password
          Guests,        \* people who may hold an External identity from the start
          Subjects,      \* those whom the directory knows
          MaxRequests,   \* bound: requests ever made
          MaxUnverified, \* MaxUnverifiedRechecks
          MaxEvents,     \* bound: requests, changes made elsewhere, failures and
                         \* crashes, together
          Rechecker, None

Requests == 1 .. MaxRequests

\* A User a sign-in creates is named after the request, and so is a session
\* with its Device; a session from before is named after who held it.
People  == Locals \cup Guests \cup Requests
Callers == Requests \cup {Rechecker}

ASSUME AccountConstants ==
    /\ IsFiniteSet(Locals) /\ Locals # {} /\ IsFiniteSet(Guests) /\ IsFiniteSet(Subjects)
    /\ MaxRequests \in Nat /\ MaxUnverified \in Nat \ {0} /\ MaxEvents \in Nat
    /\ Locals \cap Guests = {} /\ (Locals \cup Guests) \cap Requests = {}
    /\ Rechecker \notin Requests
    /\ None \notin People \cup Subjects

VARIABLES
    users,      \* the people with a row in users
    role, password, named, \* its columns: whose directory name the username is
    identity,   \* external_identities
    mapping,    \* the Group mapping has its rule
    installed,  \* the plugin's row; without it stands the uninstalled mark
    files,      \* the plugin's directory, from which the registry is built
    directory,  \* what the provider answers about each
    device, session,
    call,       \* what each request, and the re-check, is about to do
    due,        \* identities this pass of the re-check has still to ask about
    failed,     \* Rechecker.failed
    events

accounts == <<users, role, password, named, identity, mapping, installed, files,
              directory, device, session, call, due, failed, events>>

Roles    == {"member", "admin"}          \* the groups that map to them, too
Answers  == Roles \cup {"gone", "unverified"}
Identity == [user : People, groups : Roles, failures : 0..MaxUnverified]
Steps    == {"new", "done", "in", "find", "record", "create", "whose", "attach", "sync",
             "rules", "apply", "reread", "device", "token", "delete", "confirm", "uninstall",
             "approve", "redeem", "idle", "vouch", "note", "revoke", "pairings", "hear"}
Call     == [at : Steps, user : People \cup {None}, subject : Subjects \cup {None},
             groups : Roles, next : {"reread", "done", "hear", "idle"}, seen : SUBSET People]

ASSUME NoneIsNoIdentity == None \notin Identity

NoCall(at) == [at |-> at, user |-> None, subject |-> None, groups |-> "member",
               next |-> "done", seen |-> {}]

AccountsTypeOK ==
    /\ users \subseteq People /\ password \subseteq People
    /\ role \in [People -> Roles] /\ named \in [People -> Subjects \cup {None}]
    /\ identity \in [Subjects -> Identity \cup {None}]
    /\ mapping \in BOOLEAN /\ installed \in BOOLEAN
    /\ files \in {"here", "aside", "none"}
    /\ directory \in [Subjects -> Answers]
    /\ device \in [People -> People \cup {None}] /\ session \in [People -> People \cup {None}]
    /\ call \in [Callers -> Call]
    /\ due \subseteq [subject : Subjects, user : People]
    /\ failed \subseteq Subjects /\ events \in 0..MaxEvents

Holder(s) == IF identity[s] = None THEN None ELSE identity[s].user
Holds(u)  == {s \in Subjects : Holder(s) = u}

\* Some Guests hold one identity each, with the role their group gives; an
\* Admin among them has been given a Local password since.
AccountsInit ==
    /\ \E h \in [Subjects -> Guests \cup {None}] :
          /\ \A s, t \in Subjects : h[s] = h[t] /\ h[s] # None => s = t
          /\ users = Locals \cup {h[s] : s \in {t \in Subjects : h[t] # None}}
          /\ directory \in [Subjects -> Roles] /\ \A s \in Subjects : h[s] = None => directory[s] = "member"
          /\ identity = [s \in Subjects |-> IF h[s] = None THEN None
                           ELSE [user |-> h[s], groups |-> directory[s], failures |-> 0]]
          /\ named = [u \in People |-> IF \E s \in Subjects : h[s] = u
                                       THEN CHOOSE s \in Subjects : h[s] = u ELSE None]
    /\ role = [u \in People |-> IF u \in Locals \/ \E s \in Holds(u) : directory[s] = "admin"
                               THEN "admin" ELSE "member"]
    /\ password = {u \in users : role[u] = "admin"}
    /\ mapping = TRUE /\ installed = TRUE /\ files = "here"
    /\ device = [u \in People |-> IF u \in users THEN u ELSE None] /\ session = device
    /\ call = [c \in Callers |-> NoCall(IF c = Rechecker THEN "idle" ELSE "new")]
    /\ due = {} /\ failed = {} /\ events = 0

Event == events < MaxEvents /\ events' = events + 1

\* The next request, which is about to take its first step.
Begin(r, first) ==
    /\ call[r].at = "new" /\ \A q \in 1 .. r - 1 : call[q].at # "new"
    /\ Event
    /\ call' = [call EXCEPT ![r] = first]

Over(c) == call' = [call EXCEPT ![c] = NoCall(IF c = Rechecker THEN "idle" ELSE "done")]

Goes(c, at) == IF at \in {"idle", "done"} THEN Over(c) ELSE call' = [call EXCEPT ![c].at = at]

SignedIn(u) == \E x \in People : session[x] = u

-----------------------------------------------------------------------------
(* Signing in with a Local password, and the session everyone gets.        *)

Login(r, u) ==
    /\ u \in users \cap password
    /\ Begin(r, [NoCall("device") EXCEPT !.user = u])
    /\ UNCHANGED <<users, role, password, named, identity, mapping, installed, files,
                   directory, device, session, due, failed>>

UserByID(r) ==
    /\ call[r].at = "reread"
    /\ IF call[r].user \in users
       THEN call' = [call EXCEPT ![r] = [NoCall("device") EXCEPT !.user = call[r].user]]
       ELSE Over(r)
    /\ UNCHANGED <<users, role, password, named, identity, mapping, installed, files,
                   directory, device, session, due, failed, events>>

\* The foreign keys refuse a row for a User, or a Device, that is gone.
UpsertDevice(r) ==
    /\ call[r].at = "device"
    /\ IF call[r].user \in users
       THEN device' = [device EXCEPT ![r] = call[r].user] /\ Goes(r, "token")
       ELSE Over(r) /\ UNCHANGED device
    /\ UNCHANGED <<users, role, password, named, identity, mapping, installed, files,
                   directory, session, due, failed, events>>

InsertToken(r) ==
    /\ call[r].at = "token"
    /\ IF device[r] = call[r].user
       THEN session' = [session EXCEPT ![r] = call[r].user] /\ Goes(r, "in")
       ELSE Over(r) /\ UNCHANGED session
    /\ UNCHANGED <<users, role, password, named, identity, mapping, installed, files,
                   directory, device, due, failed, events>>

-----------------------------------------------------------------------------
(* Signing in through the provider.                                        *)

\* The provider has accepted: what it said is on its way.
SignIn(r, s) ==
    /\ files = "here" /\ directory[s] \in Roles
    /\ Begin(r, [NoCall("find") EXCEPT !.subject = s, !.groups = directory[s], !.next = "reread"])
    /\ UNCHANGED <<users, role, password, named, identity, mapping, installed, files,
                   directory, device, session, due, failed>>

ExternalIdentityUser(r) ==
    /\ call[r].at = "find"
    /\ LET u == Holder(call[r].subject)
       IN  call' = [call EXCEPT ![r].user = u, ![r].at = IF u = None THEN "create" ELSE "record"]
    /\ UNCHANGED <<users, role, password, named, identity, mapping, installed, files,
                   directory, device, session, due, failed, events>>

Answered(c) == [identity EXCEPT ![call[c].subject].groups = call[c].groups,
                                ![call[c].subject].failures = 0]

RecordExternalSignIn(r) ==
    /\ call[r].at = "record"
    /\ IF installed /\ identity[call[r].subject] # None
       THEN identity' = Answered(r) /\ Goes(r, "hear")
       ELSE Over(r) /\ UNCHANGED identity
    /\ UNCHANGED <<users, role, password, named, mapping, installed, files, directory,
                   device, session, due, failed, events>>

\* A username is held if the User who has it is named like the newcomer.
CreateExternalMember(r) ==
    /\ call[r].at = "create"
    /\ LET s == call[r].subject
       IN  IF installed /\ identity[s] = None /\ \A u \in users : named[u] # s
           THEN /\ users' = users \cup {r}
                /\ named' = [named EXCEPT ![r] = s]
                /\ identity' = [identity EXCEPT ![s] = [user |-> r, groups |-> call[r].groups, failures |-> 0]]
                /\ call' = [call EXCEPT ![r].user = r, ![r].at = "sync"]
           ELSE Goes(r, "whose") /\ UNCHANGED <<users, named, identity>>
    /\ UNCHANGED <<role, password, mapping, installed, files, directory, device, session,
                   due, failed, events>>

\* It may have been created by somebody else's sign-in meanwhile.
HeldAfterAll(r) ==
    /\ call[r].at = "whose"
    /\ LET u == Holder(call[r].subject)
       IN  IF u = None THEN Over(r) ELSE call' = [call EXCEPT ![r].user = u, ![r].at = "sync"]
    /\ UNCHANGED <<users, role, password, named, identity, mapping, installed, files,
                   directory, device, session, due, failed, events>>

\* The person, signed in and re-authenticated, adds what the provider accepted.
Attach(r, u, s) ==
    /\ SignedIn(u) /\ files = "here" /\ directory[s] \in Roles
    /\ Begin(r, [NoCall("attach") EXCEPT !.user = u, !.subject = s, !.groups = directory[s]])
    /\ UNCHANGED <<users, role, password, named, identity, mapping, installed, files,
                   directory, device, session, due, failed>>

AttachExternalIdentity(r) ==
    /\ call[r].at = "attach"
    /\ LET s == call[r].subject
           u == call[r].user
       IN  IF installed /\ u \in users /\ Holder(s) \in {None, u}
           THEN /\ identity' = [identity EXCEPT ![s] =
                                  [user |-> u, groups |-> call[r].groups,
                                   failures |-> IF identity[s] = None THEN 0 ELSE identity[s].failures]]
                /\ Goes(r, "sync")
           ELSE Over(r) /\ UNCHANGED identity
    /\ UNCHANGED <<users, role, password, named, mapping, installed, files, directory,
                   device, session, due, failed, events>>

-----------------------------------------------------------------------------
(* The Group mapping, re-applied by a sign-in, an attach or a re-check.    *)

SyncGroupMapping(c) ==
    /\ call[c].at = "sync"
    /\ LET u == call[c].user
           admin == \E s \in Holds(u) : identity[s].groups = "admin"
       IN  IF u \notin users THEN Over(c)
           ELSE IF u \in password \/ Holds(u) = {} THEN Goes(c, call[c].next)
           ELSE call' = [call EXCEPT ![c].at = "rules", ![c].groups = IF admin THEN "admin" ELSE "member"]
    /\ UNCHANGED <<users, role, password, named, identity, mapping, installed, files,
                   directory, device, session, due, failed, events>>

GroupMapping(c) ==
    /\ call[c].at = "rules"
    /\ Goes(c, IF mapping THEN "apply" ELSE call[c].next)
    /\ UNCHANGED <<users, role, password, named, identity, mapping, installed, files,
                   directory, device, session, due, failed, events>>

ApplyMappedAccess(c) ==
    /\ call[c].at = "apply"
    /\ role' = IF call[c].user \in users \ password
               THEN [role EXCEPT ![call[c].user] = call[c].groups] ELSE role
    /\ Goes(c, call[c].next)
    /\ UNCHANGED <<users, password, named, identity, mapping, installed, files,
                   directory, device, session, due, failed, events>>

-----------------------------------------------------------------------------
(* Deleting a User, and uninstalling the provider.                         *)

Admins      == {u \in users : role[u] = "admin"}
LocalAdmins == Admins \cap password
MayGo(u)    == /\ u \in users
               /\ u \in Admins => Cardinality(Admins) > 1
               /\ u \in LocalAdmins => Cardinality(LocalAdmins) > 1
AnAdminAsks == \E a \in Admins : SignedIn(a)

\* The foreign keys take identities, Devices and sessions along.
Remove(gone) ==
    /\ users' = users \ gone /\ password' = password \ gone
    /\ device' = [x \in People |-> IF device[x] \in gone THEN None ELSE device[x]]
    /\ session' = [x \in People |-> IF session[x] \in gone THEN None ELSE session[x]]

Left(gone) == [s \in Subjects |-> IF Holder(s) \in gone THEN None ELSE identity[s]]

\* DeleteUser counts first.
DeleteUser(r, u) ==
    /\ AnAdminAsks /\ MayGo(u)
    /\ Begin(r, [NoCall("delete") EXCEPT !.user = u])
    /\ UNCHANGED <<users, role, password, named, identity, mapping, installed, files,
                   directory, device, session, due, failed>>

\* Mutant of DeleteUserKeepingAnAdmin: the counts that came before are trusted.
DeleteUserOnTheCounts(r) ==
    /\ call[r].at = "delete" /\ Over(r)
    /\ Remove({call[r].user}) /\ identity' = Left({call[r].user})
    /\ UNCHANGED <<role, named, mapping, installed, files, directory, due, failed, events>>

\* The statement that deletes counts again.
DeleteUserKeepingAnAdmin(r) ==
    /\ call[r].at = "delete" /\ Over(r)
    /\ IF MayGo(call[r].user)
       THEN Remove({call[r].user}) /\ identity' = Left({call[r].user})
       ELSE UNCHANGED <<users, password, identity, device, session>>
    /\ UNCHANGED <<role, named, mapping, installed, files, directory, due, failed, events>>

Casualties == {u \in users \ password : Holds(u) # {}}

\* The Manager's lock is held through an uninstall.
Unlocked == \A q \in Requests : call[q].at # "uninstall"

\* The Admin is shown who would be deleted, and confirms that.
UninstallPreview(r) ==
    /\ AnAdminAsks /\ installed /\ Unlocked
    /\ Begin(r, [NoCall("confirm") EXCEPT !.seen = Casualties])
    /\ UNCHANGED <<users, role, password, named, identity, mapping, installed, files,
                   directory, device, session, due, failed>>

UninstallSignIn(r) ==
    /\ call[r].at = "confirm" /\ Unlocked
    /\ IF installed /\ Casualties = call[r].seen
       THEN Goes(r, "uninstall") /\ files' = IF files = "here" THEN "aside" ELSE files
       ELSE Over(r) /\ UNCHANGED files
    /\ UNCHANGED <<users, role, password, named, identity, mapping, installed,
                   directory, device, session, due, failed, events>>

DeleteSignInPlugin(r) ==
    /\ call[r].at = "uninstall" /\ Over(r)
    /\ Casualties = call[r].seen /\ Admins \ call[r].seen # {}
    /\ Remove(call[r].seen) /\ identity' = [s \in Subjects |-> None]
    /\ mapping' = FALSE /\ installed' = FALSE /\ files' = "none"
    /\ UNCHANGED <<role, named, directory, due, failed, events>>

\* The list is another by now, or the rebuild or the transaction failed.
PutBack(r) ==
    /\ call[r].at = "uninstall" /\ Over(r)
    /\ IF Casualties = call[r].seen /\ Admins \ call[r].seen # {} THEN Event ELSE UNCHANGED events
    /\ files' = IF files = "aside" THEN "here" ELSE files
    /\ UNCHANGED <<users, role, password, named, identity, mapping, installed,
                   directory, device, session, due, failed>>

\* Refused while the row stands.  The mark is cleared with the row's insert.
Install ==
    /\ ~installed /\ Event
    /\ installed' = TRUE /\ files' = "here"
    /\ UNCHANGED <<users, role, password, named, identity, mapping, directory,
                   device, session, call, due, failed>>

-----------------------------------------------------------------------------
(* The re-check.                                                           *)

\* A pass: what is on file now, and no flag for what is not.
RunDue ==
    /\ call[Rechecker].at = "idle" /\ due = {}
    /\ LET held == {s \in Subjects : identity[s] # None}
       IN  due' = {[subject |-> s, user |-> identity[s].user] : s \in held} /\ failed' = failed \cap held
    /\ UNCHANGED <<users, role, password, named, identity, mapping, installed, files,
                   directory, device, session, call, events>>

Finds(i, at, next) ==
    call' = [call EXCEPT ![Rechecker] = [NoCall(at) EXCEPT !.user = i.user, !.subject = i.subject, !.next = next,
                !.groups = IF directory[i.subject] \in Roles THEN directory[i.subject] ELSE "member"]]

Recheck(i) ==
    /\ call[Rechecker].at = "idle" /\ due' = due \ {i}
    /\ LET says == directory[i.subject]
       IN  \/ files # "here" /\ UNCHANGED <<call, failed, events>>
           \/ /\ files = "here" /\ UNCHANGED events
              /\ \/ says \in Roles /\ Finds(i, "vouch", "hear") /\ UNCHANGED failed
                 \/ says = "gone" /\ Finds(i, "revoke", "hear") /\ UNCHANGED failed
                 \/ says = "unverified" /\ Finds(i, "note", "idle") /\ failed' = failed \cup {i.subject}
           \/ /\ files = "here" /\ Event   \* nobody answers
              /\ failed' = failed \cup {i.subject} /\ UNCHANGED call
    /\ UNCHANGED <<users, role, password, named, identity, mapping, installed, files,
                   directory, device, session>>

RecordExternalCheck ==
    /\ call[Rechecker].at = "vouch"
    /\ IF identity[call[Rechecker].subject] # None
       THEN identity' = Answered(Rechecker) /\ Goes(Rechecker, "sync")
       ELSE Over(Rechecker) /\ UNCHANGED identity
    /\ UNCHANGED <<users, role, password, named, mapping, installed, files, directory,
                   device, session, due, failed, events>>

\* Counted up to where it revokes.
NoteExternalCheckFailure ==
    /\ call[Rechecker].at = "note"
    /\ LET s == call[Rechecker].subject
           n == IF identity[s].failures < MaxUnverified THEN identity[s].failures + 1 ELSE MaxUnverified
       IN  IF identity[s] = None THEN Over(Rechecker) /\ UNCHANGED identity
           ELSE /\ identity' = [identity EXCEPT ![s].failures = n]
                /\ Goes(Rechecker, IF n < MaxUnverified THEN "idle" ELSE "revoke")
    /\ UNCHANGED <<users, role, password, named, mapping, installed, files, directory,
                   device, session, due, failed, events>>

\* The first statement of DeleteSessionsForUser; each may fail.
RevokeSessions ==
    /\ call[Rechecker].at = "revoke"
    /\ \/ /\ session' = [x \in People |-> IF session[x] = call[Rechecker].user THEN None ELSE session[x]]
          /\ Goes(Rechecker, "pairings") /\ UNCHANGED events
       \/ Over(Rechecker) /\ Event /\ UNCHANGED session
    /\ UNCHANGED <<users, role, password, named, identity, mapping, installed, files,
                   directory, device, due, failed>>

\* answered: by a sign-in before it syncs, by a re-check after it has.
Hear(c) ==
    /\ call[c].at = "hear"
    /\ failed' = failed \ {call[c].subject}
    /\ Goes(c, IF c = Rechecker THEN "idle" ELSE "sync")
    /\ UNCHANGED <<users, role, password, named, identity, mapping, installed, files,
                   directory, device, session, due, events>>

-----------------------------------------------------------------------------
(* What happens elsewhere.                                                 *)

SetUserPassword(u) ==
    /\ u \in users \ password /\ AnAdminAsks /\ Event
    /\ password' = password \cup {u}
    /\ UNCHANGED <<users, role, named, identity, mapping, installed, files, directory,
                   device, session, call, due, failed>>

SetGroupMapping ==
    /\ files = "here" /\ AnAdminAsks /\ Event
    /\ mapping' = ~mapping
    /\ UNCHANGED <<users, role, password, named, identity, installed, files, directory,
                   device, session, call, due, failed>>

DirectoryChanges(s, answer) ==
    /\ directory[s] # answer /\ Event
    /\ directory' = [directory EXCEPT ![s] = answer]
    /\ UNCHANGED <<users, role, password, named, identity, mapping, installed, files,
                   device, session, call, due, failed>>

\* A Device is deleted, by its person or an Admin, and its session with it.
DeleteDevice(x) ==
    /\ device[x] # None /\ Event
    /\ device' = [device EXCEPT ![x] = None] /\ session' = [session EXCEPT ![x] = None]
    /\ UNCHANGED <<users, role, password, named, identity, mapping, installed, files,
                   directory, call, due, failed>>

\* What is in memory is lost, and files set aside stay there.
Crash ==
    /\ Event
    /\ call' = [c \in Callers |-> IF c = Rechecker THEN NoCall("idle")
                                  ELSE IF call[c].at \in {"new", "in"} THEN call[c] ELSE NoCall("done")]
    /\ due' = {} /\ failed' = {} /\ files' = IF files = "aside" THEN "none" ELSE files
    /\ UNCHANGED <<users, role, password, named, identity, mapping, installed, directory,
                   device, session>>

-----------------------------------------------------------------------------
Arrive ==
    \E r \in Requests :
        \/ \E u \in People : Login(r, u) \/ DeleteUser(r, u)
        \/ \E s \in Subjects : SignIn(r, s)
        \/ \E u \in People, s \in Subjects : Attach(r, u, s)
        \/ UninstallPreview(r)

SyncSteps(c) == SyncGroupMapping(c) \/ GroupMapping(c) \/ ApplyMappedAccess(c) \/ Hear(c)

RequestSteps(r) ==
    \/ UserByID(r) \/ UpsertDevice(r) \/ InsertToken(r)
    \/ ExternalIdentityUser(r) \/ RecordExternalSignIn(r) \/ CreateExternalMember(r) \/ HeldAfterAll(r)
    \/ AttachExternalIdentity(r) \/ SyncSteps(r)
    \/ DeleteUserKeepingAnAdmin(r) \/ UninstallSignIn(r) \/ DeleteSignInPlugin(r) \/ PutBack(r)

RecheckSteps ==
    \/ RunDue \/ \E i \in due : Recheck(i)
    \/ RecordExternalCheck \/ NoteExternalCheckFailure \/ RevokeSessions \/ SyncSteps(Rechecker)

Elsewhere ==
    \/ \E u \in People : SetUserPassword(u)
    \/ Install \/ SetGroupMapping \/ Crash
    \/ \E s \in Subjects, answer \in Answers : DirectoryChanges(s, answer)
    \/ \E x \in People : DeleteDevice(x)

-----------------------------------------------------------------------------
(* An Admin with a Local password always remains, and nobody without one   *)
(* is left behind who holds no identity of the installed provider: not by  *)
(* two deletes at once, nor by a sign-in that ends after an uninstall.     *)
EveryoneHasAWayIn ==
    /\ LocalAdmins # {}
    /\ \A u \in users \ password : installed /\ Holds(u) # {}

(* No mapping changes the role of someone with a Local password, not even  *)
(* one that was set after the mapping's caller looked.                     *)
MappingSparesPasswords ==
    [][\A u \in users \cap users' \cap password : role'[u] = role[u]]_accounts
=============================================================================
