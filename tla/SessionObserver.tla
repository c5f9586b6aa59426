-------------------------- MODULE SessionObserver --------------------------
(***************************************************************************)
(* What hangs off the lifecycle of a Playback session (internal/app, the   *)
(* observer New installs): the stream tokens that die with it and the      *)
(* events Admins see.  A token is a row of stream_tokens on disk; a        *)
(* session is in memory (PlaybackSessions governs it), so a crash parts    *)
(* the two.                                                                *)
(*                                                                         *)
(* The Manager calls the observer outside its lock, on the goroutine of    *)
(* whichever request or reaper made the transition: every call here is an  *)
(* action, or two for an end, that interleaves with everything else.  So   *)
(* are the two steps of a mint (look the session up, then INSERT).  What a *)
(* media request does with a token is a read, and not modelled.            *)
(***************************************************************************)
EXTENDS Naturals, Sequences, FiniteSets

CONSTANTS SessionIds, Users,
          Tokens,       \* the rows that may ever be inserted
          MaxReports,   \* bound: progress reports of a session
          None          \* no User, no holder

ASSUME ObserverConstants == MaxReports \in Nat

VARIABLES
    users,      \* the rows of users
    session,    \* each session: "new", "live", "ended", "lost" (in a crash)
    owner,      \* the User a session was created for
    calls,      \* calls of the observer that have not published yet
    revoked,    \* ended sessions whose observer call is past the revocation
    feed,       \* what was published of each session
    row,        \* each row: "new", "live", "expired", "deleted"
    holder,     \* the session and the User a row authorises
    minting,    \* rows whose mint is past its session lookup
    unrevoked,  \* history: ended sessions whose revocation failed or was lost
    late        \* history: rows inserted after their session's revocation

rows    == <<row, holder, minting>>
history == <<unrevoked, late>>
observerVars == <<users, session, owner, calls, revoked, feed, rows, history>>

Kinds == {"started", "nowPlaying", "ended"}
Holders == [session : SessionIds, user : Users]

ObserverTypeOK ==
    /\ users \subseteq Users
    /\ session \in [SessionIds -> {"new", "live", "ended", "lost"}]
    /\ owner \in [SessionIds -> Users \cup {None}]
    /\ calls \subseteq [kind : Kinds, of : SessionIds]
    /\ revoked \subseteq SessionIds
    /\ feed \in [SessionIds -> Seq(Kinds)]
    /\ row \in [Tokens -> {"new", "live", "expired", "deleted"}]
    /\ holder \in [Tokens -> Holders \cup {None}]
    /\ minting \subseteq {t \in Tokens : row[t] = "new"}
    /\ unrevoked \subseteq SessionIds /\ late \subseteq Tokens

ObserverInit ==
    /\ users = Users
    /\ session = [s \in SessionIds |-> "new"] /\ owner = [s \in SessionIds |-> None]
    /\ calls = {} /\ revoked = {}
    /\ feed = [s \in SessionIds |-> <<>>]
    /\ row = [t \in Tokens |-> "new"] /\ holder = [t \in Tokens |-> None]
    /\ minting = {}
    /\ unrevoked = {} /\ late = {}

Call(k, s) == [kind |-> k, of |-> s]
Reports(s) == Cardinality({i \in DOMAIN feed[s] : feed[s][i] = "nowPlaying"})

\* The row t has not been used for any mint.
Fresh(t) == row[t] = "new" /\ t \notin minting

-----------------------------------------------------------------------------
(* Sessions and their observer.                                            *)

\* CreateGoverned; the same request then publishes the start and mints.
Negotiate(s, u) ==
    /\ session[s] = "new" /\ u \in users
    /\ session' = [session EXCEPT ![s] = "live"]
    /\ owner' = [owner EXCEPT ![s] = u]
    /\ calls' = calls \cup {Call("started", s)}
    /\ UNCHANGED <<users, revoked, feed, rows, history>>

\* The client knows the id: the negotiation has published the start before it
\* mints and answers.
Answered(s) == session[s] = "live" /\ Call("started", s) \notin calls

\* TouchProgress, up to its unlock.
ReportProgress(s) ==
    /\ Answered(s) /\ Reports(s) < MaxReports
    /\ calls' = calls \cup {Call("nowPlaying", s)}
    /\ UNCHANGED <<users, session, owner, revoked, feed, rows, history>>

\* The DELETE, the reaper, a grace timer or the shutdown removes the session.
End(s) ==
    /\ session[s] = "live"
    /\ session' = [session EXCEPT ![s] = "ended"]
    /\ calls' = calls \cup {Call("ended", s)}
    /\ UNCHANGED <<users, owner, revoked, feed, rows, history>>

TokensOf(s) == {t \in Tokens : row[t] # "new" /\ holder[t].session = s}

Delete(S) == row' = [t \in Tokens |-> IF t \in S THEN "deleted" ELSE row[t]]

\* The observer of an end deletes the session's rows; a failure is only logged.
RevokeStreamTokens(s) ==
    /\ Call("ended", s) \in calls /\ s \notin revoked
    /\ revoked' = revoked \cup {s}
    /\ \/ Delete(TokensOf(s)) /\ UNCHANGED unrevoked
       \/ unrevoked' = unrevoked \cup {s} /\ UNCHANGED row
    /\ UNCHANGED <<users, session, owner, calls, feed, holder, minting, late>>

\* Mutant of Publish: an end is announced whether or not its revocation ran.
PublishEarly(k, s) ==
    /\ Call(k, s) \in calls
    /\ calls' = calls \ {Call(k, s)}
    /\ feed' = [feed EXCEPT ![s] = Append(@, k)]
    /\ UNCHANGED <<users, session, owner, revoked, rows, history>>

\* The observer's last statement.
Publish(k, s) ==
    /\ Call(k, s) \in calls /\ (k = "ended" => s \in revoked)
    /\ calls' = calls \ {Call(k, s)}
    /\ feed' = [feed EXCEPT ![s] = Append(@, k)]
    /\ UNCHANGED <<users, session, owner, revoked, rows, history>>

-----------------------------------------------------------------------------
(* Tokens.                                                                 *)

\* Sessions().Get in handleMintStreamToken, or the negotiation that created s.
MintLookup(t, s, u) ==
    /\ Fresh(t) /\ Answered(s) /\ owner[s] = u
    /\ minting' = minting \cup {t}
    /\ holder' = [holder EXCEPT ![t] = [session |-> s, user |-> u]]
    /\ UNCHANGED <<users, session, owner, calls, revoked, feed, row, history>>

\* InsertStreamToken; the foreign key refuses a User who is gone.
InsertStreamToken(t) ==
    /\ t \in minting
    /\ minting' = minting \ {t}
    /\ row' = [row EXCEPT ![t] = IF holder[t].user \in users THEN "live" ELSE "deleted"]
    /\ late' = IF holder[t].session \in revoked THEN late \cup {t} ELSE late
    /\ UNCHANGED <<users, session, owner, calls, revoked, feed, holder, unrevoked>>

\* streamTokenTTL passes: the row is there and matches no lookup.
Expire(t) ==
    /\ row[t] = "live"
    /\ row' = [row EXCEPT ![t] = "expired"]
    /\ UNCHANGED <<users, session, owner, calls, revoked, feed, holder, minting, history>>

\* Mutant of SweepStreamTokens: it runs when a token is minted, as it once did.
SweepOnMint ==
    /\ minting # {} /\ \E t \in Tokens : row[t] = "expired"
    /\ Delete({t \in Tokens : row[t] = "expired"})
    /\ UNCHANGED <<users, session, owner, calls, revoked, feed, holder, minting, history>>

SweepStreamTokens ==
    /\ \E t \in Tokens : row[t] = "expired"
    /\ Delete({t \in Tokens : row[t] = "expired"})
    /\ UNCHANGED <<users, session, owner, calls, revoked, feed, holder, minting, history>>

\* The delete cascades to the User's rows; nothing ends the User's sessions.
DeleteUser(u) ==
    /\ u \in users
    /\ users' = users \ {u}
    /\ Delete({t \in Tokens : row[t] # "new" /\ holder[t].user = u})
    /\ UNCHANGED <<session, owner, calls, revoked, feed, holder, minting, history>>

-----------------------------------------------------------------------------
\* The process dies: sessions, requests and calls with it; the rows stay.
Crash ==
    /\ \E s \in SessionIds : session[s] = "live" \/ Call("ended", s) \in calls
    /\ session' = [s \in SessionIds |-> IF session[s] = "live" THEN "lost" ELSE session[s]]
    /\ unrevoked' = unrevoked \cup {s \in SessionIds : session[s] = "live"}
                              \cup {s \in SessionIds : Call("ended", s) \in calls /\ s \notin revoked}
    /\ calls' = {} /\ minting' = {}
    /\ row' = [t \in Tokens |-> IF t \in minting THEN "deleted" ELSE row[t]]
    /\ UNCHANGED <<users, owner, revoked, feed, holder, late>>

ObserverNext ==
    \/ \E s \in SessionIds :
          \/ \E u \in Users : Negotiate(s, u)
          \/ \E u \in Users, t \in Tokens : MintLookup(t, s, u)
          \/ ReportProgress(s) \/ End(s) \/ RevokeStreamTokens(s)
          \/ \E k \in Kinds : Publish(k, s)
    \/ \E t \in Tokens : InsertStreamToken(t) \/ Expire(t)
    \/ SweepStreamTokens
    \/ \E u \in Users : DeleteUser(u)
    \/ Crash

ObserverSpec == ObserverInit /\ [][ObserverNext]_observerVars

-----------------------------------------------------------------------------
Announced(s) == \E i \in DOMAIN feed[s] : feed[s][i] = "ended"
Usable(t)    == row[t] \in {"live", "expired"}

(* A session whose end is announced has no row left, but for a revocation  *)
(* that failed or died with the process, and for a mint that was past its  *)
(* lookup: session end IS revocation, whoever ended it.                    *)
EndedIsRevoked ==
    \A s \in SessionIds : Announced(s) \/ session[s] = "lost" =>
        \A t \in TokensOf(s) : Usable(t) => s \in unrevoked \/ t \in late

(* A token only ever authorises its own session for the User the session   *)
(* belongs to: what a media request is served as.                          *)
TokensAreTheOwners ==
    \A t \in Tokens : t \in minting \/ row[t] # "new" =>
        session[holder[t].session] # "new" /\ owner[holder[t].session] = holder[t].user

(* A User who is deleted leaves no usable token behind, a mint that was    *)
(* under way at the time included.                                         *)
DeletedUsersHoldNothing ==
    \A t \in Tokens : Usable(t) => holder[t].user \in users

-----------------------------------------------------------------------------
(* A started call goes on, the sweep comes around, time passes.            *)
ObserverFairness ==
    /\ \A s \in SessionIds : WF_observerVars(RevokeStreamTokens(s))
    /\ \A s \in SessionIds, k \in Kinds : WF_observerVars(Publish(k, s))
    /\ \A t \in Tokens : WF_observerVars(InsertStreamToken(t)) /\ WF_observerVars(Expire(t))
    /\ WF_observerVars(SweepStreamTokens)

ObserverFairSpec == ObserverSpec /\ ObserverFairness

(* Every row is deleted in the end, by the cascade or by the sweep: also   *)
(* the ones a crash or a failed revocation left behind.                    *)
RowsGo == \A t \in Tokens : row[t] = "live" ~> row[t] = "deleted"
=============================================================================
