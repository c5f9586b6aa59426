----------------------------- MODULE DeviceGrant -----------------------------
(***************************************************************************)
(* Accounts with the Device authorization grant: a TV starts a code, a     *)
(* person signed in on a phone approves it, the TV collects the session    *)
(* (internal/auth device_auth.go, internal/store device_auth.go).          *)
(***************************************************************************)
EXTENDS Accounts

CONSTANTS Codes

ASSUME NoneIsNoCode == IsFiniteSet(Codes) /\ None \notin Codes

VARIABLES
    codes,  \* device_auth_requests
    asks,   \* the code each request is about
    told    \* history: whom the phone told they approved it

vars == <<accounts, codes, asks, told>>

States == {"none", "pending", "approved", "redeemed", "gone"}

TypeOK ==
    /\ AccountsTypeOK
    /\ codes \in [Codes -> [state : States, by : People \cup {None}]]
    /\ asks \in [Requests -> Codes \cup {None}]
    /\ told \in [Codes -> SUBSET People]

Init ==
    /\ AccountsInit
    /\ codes \in [Codes -> {[state |-> "none", by |-> None]}
                            \cup [state : {"approved"}, by : users \ password]]
    /\ asks = [r \in Requests |-> None] /\ told = [k \in Codes |-> {codes[k].by} \ {None}]

\* Expired, swept or deleted: no one can tell which.
Gone == [state |-> "gone", by |-> None]

untouched == <<users, role, password, named, identity, mapping, installed, files,
               directory, device, session, due, failed>>

-----------------------------------------------------------------------------
StartDeviceAuth(k) ==
    /\ codes[k].state = "none" /\ Event
    /\ codes' = [codes EXCEPT ![k].state = "pending"]
    /\ UNCHANGED <<untouched, call, asks, told>>

Expire(k) ==
    /\ codes[k].state \in {"pending", "approved", "redeemed"} /\ Event
    /\ codes' = [codes EXCEPT ![k] = Gone]
    /\ UNCHANGED <<untouched, call, asks, told>>

ApproveDeviceCode(r, u, k) ==
    /\ SignedIn(u) /\ codes[k].state = "pending"
    /\ Begin(r, [NoCall("approve") EXCEPT !.user = u])
    /\ asks' = [asks EXCEPT ![r] = k]
    /\ UNCHANGED <<untouched, codes, told>>

ApproveDeviceAuth(r) ==
    /\ call[r].at = "approve" /\ Over(r)
    /\ LET k == asks[r]
           u == call[r].user
       IN  IF codes[k].state = "pending" /\ u \in users
           THEN /\ codes' = [codes EXCEPT ![k].state = "approved", ![k].by = u]
                /\ told' = [told EXCEPT ![k] = @ \cup {u}]
           ELSE UNCHANGED <<codes, told>>
    /\ UNCHANGED <<untouched, events, asks>>

\* The poll that reads the code as approved.
RedeemDeviceCode(r, k) ==
    /\ codes[k].state = "approved"
    /\ Begin(r, NoCall("redeem"))
    /\ asks' = [asks EXCEPT ![r] = k]
    /\ UNCHANGED <<untouched, codes, told>>

\* Mutant of RedeemDeviceAuth: what was read is trusted.
RedeemAsRead(r) ==
    /\ call[r].at = "redeem"
    /\ codes' = [codes EXCEPT ![asks[r]].state = "redeemed"]
    /\ call' = [call EXCEPT ![r].user = codes[asks[r]].by, ![r].at = "reread"]
    /\ UNCHANGED <<untouched, events, asks, told>>

\* Compare and swap, then UserByID and the session like any other.
RedeemDeviceAuth(r) ==
    /\ call[r].at = "redeem"
    /\ IF codes[asks[r]].state = "approved"
       THEN /\ codes' = [codes EXCEPT ![asks[r]].state = "redeemed"]
            /\ call' = [call EXCEPT ![r].user = codes[asks[r]].by, ![r].at = "reread"]
       ELSE Over(r) /\ UNCHANGED codes
    /\ UNCHANGED <<untouched, events, asks, told>>

\* Mutant of RevokePairings: the sessions in waiting are left.
RevokeNoPairings ==
    /\ call[Rechecker].at = "pairings" /\ Goes(Rechecker, call[Rechecker].next)
    /\ UNCHANGED <<untouched, codes, asks, told, events>>

\* The last statement of DeleteSessionsForUser.
RevokePairings ==
    /\ call[Rechecker].at = "pairings"
    /\ \/ /\ codes' = [k \in Codes |-> IF codes[k].state = "approved" /\ codes[k].by = call[Rechecker].user
                                       THEN Gone ELSE codes[k]]
          /\ Goes(Rechecker, call[Rechecker].next) /\ UNCHANGED events
       \/ Over(Rechecker) /\ Event /\ UNCHANGED codes
    /\ UNCHANGED <<untouched, asks, told>>

\* A User who goes takes the codes they approved along.
Cascade ==
    /\ codes' = [k \in Codes |-> IF codes[k].by \in users' \cup {None} THEN codes[k] ELSE Gone]
    /\ UNCHANGED <<asks, told>>

-----------------------------------------------------------------------------
CodesArrive ==
    \E r \in Requests, k \in Codes : RedeemDeviceCode(r, k) \/ \E u \in People : ApproveDeviceCode(r, u, k)

Proceeds(r) == (RequestSteps(r) /\ Cascade) \/ ApproveDeviceAuth(r) \/ RedeemDeviceAuth(r)
Rechecks    == (RecheckSteps /\ Cascade) \/ RevokePairings

Next ==
    \/ Arrive /\ Cascade
    \/ CodesArrive
    \/ \E r \in Requests : Proceeds(r)
    \/ Rechecks
    \/ Elsewhere /\ Cascade
    \/ \E k \in Codes : StartDeviceAuth(k) \/ Expire(k)

Spec == Init /\ [][Next]_vars

(* A request that has been made goes on, and the re-check's ticker ticks.  *)
Fairness == (\A r \in Requests : WF_vars(Proceeds(r))) /\ WF_vars(Rechecks)

FairSpec == Spec /\ Fairness

-----------------------------------------------------------------------------
(* One person approves a code, one request collects it, and the session is *)
(* that person's, whoever races whom.                                      *)
Collectors(k) == {r \in Requests : asks[r] = k /\ call[r].at = "in"}

CodeGoesToItsApprover ==
    \A k \in Codes :
        /\ Cardinality(told[k]) <= 1 /\ Cardinality(Collectors(k)) <= 1
        /\ \A r \in Collectors(k) : told[k] = {call[r].user}

(* While the provider can be asked, what its directory says comes true:    *)
(* the mapping gives the role, whoever is gone or cannot be verified keeps *)
(* no session and none in waiting, and only they or the unheard are        *)
(* flagged - however sign-ins, collections and failures crossed a re-check.*)
Mapped(u) == mapping /\ u \notin password

Ruled(s) ==
    LET u == Holder(s)
    IN  IF u = None THEN s \notin failed
        ELSE /\ directory[s] \in Roles /\ Mapped(u) /\ Holds(u) = {s} => role[u] = directory[s]
             /\ s \in failed <=> directory[s] = "unverified"
             /\ directory[s] \notin Roles =>
                    /\ ~SignedIn(u)
                    /\ \A k \in Codes : codes[k].by = u => codes[k].state # "approved"

DirectoryRules == \A s \in Subjects : <>[](files # "here" \/ Ruled(s))
=============================================================================
