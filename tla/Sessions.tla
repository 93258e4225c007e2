------------------------------ MODULE Sessions ------------------------------
(***************************************************************************)
(* The login sessions of one account and their refresh tokens              *)
(* (backend/src/modules/auth), between requests of several browsers: log   *)
(* in, refresh, log out, change or reset the password, revoke everything,  *)
(* disable and enable the account, and the cleanup job.                    *)
(*                                                                         *)
(* A transaction is taken apart into its statements.  A statement sees     *)
(* what was committed when it starts and then locks its rows one by one,   *)
(* waiting for those others hold; what it finds once it has them is what   *)
(* is committed by then.  Writes are made at the commit: until then the    *)
(* locks keep everyone from them but readers, who do not see them.         *)
(***************************************************************************)
EXTENDS Integers, Sequences, FiniteSets

CONSTANTS
    Sessions, Tokens,       \* row ids
    Requests,               \* requests under way at a time
    Passwords,
    NoSession, NoPassword,
    Account,                \* the row of app_user, as a thing to lock
    MaxVersion              \* bound on session_version

ASSUME SessionsAssumption ==
    /\ NoSession \notin Sessions
    /\ NoPassword \notin Passwords
    /\ Account \notin Sessions \cup Tokens
    /\ Sessions \cap Tokens = {}
    /\ MaxVersion \in Nat

VARIABLES
    account,        \* row of app_user
    session,        \* session[s]: row of auth_session
    token,          \* token[t]: row of auth_refresh_token
    request,        \* request[r]: a request and how far it is
    want,           \* want[r]: sets of rows its statement has yet to lock, one after the other
    held,           \* held[r]: rows its transaction has locked
    proved,         \* proved[s]: password the login of a live s gave, no column
    overwritten     \* a login has written over a newer password, no column

rows == <<account, session, token, proved, overwritten>>
vars == <<account, session, token, request, want, held, proved, overwritten>>

\* The rows of deleted sessions and their tokens keep their ids.
SessionStatus == {"NONE", "LIVE", "REVOKED", "DELETED"}
TokenStatus == {"NONE", "LIVE", "ROTATED", "REVOKED", "DELETED"}

NoRow(status) == [status |-> status, version |-> 0, expired |-> FALSE]
NoToken(status) == [status |-> status, session |-> NoSession]

Idle == [op |-> "NONE"]

There == {s \in Sessions : session[s].status \in {"LIVE", "REVOKED"}}
TokensOf(S) == {t \in Tokens : token[t].session \in S}

\* What refreshing asks of a session, and requireAuth of an access token.
Usable(s) ==
    /\ session[s].status = "LIVE" /\ ~session[s].expired
    /\ session[s].version = account.version
    /\ account.status = "ACTIVE"

Init ==
    /\ \E p \in Passwords, legacy \in BOOLEAN :
          account = [status |-> "ACTIVE", password |-> p, legacy |-> legacy, version |-> 0]
    /\ session = [s \in Sessions |-> NoRow("NONE")]
    /\ token = [t \in Tokens |-> NoToken("NONE")]
    /\ request = [r \in Requests |-> Idle]
    /\ want = [r \in Requests |-> <<>>]
    /\ held = [r \in Requests |-> {}]
    /\ proved = [s \in Sessions |-> NoPassword]
    /\ overwritten = FALSE
-----------------------------------------------------------------------------
(* Statements and locks. *)

\* A set of rows, in any order.
Each(R) == IF R = {} THEN <<>> ELSE <<R>>

Statement(r, req, rowSets) ==
    /\ request' = [request EXCEPT ![r] = req]
    /\ want' = [want EXCEPT ![r] = rowSets]

Begin(r, req, rowSets) ==
    /\ request[r] = Idle
    /\ Statement(r, req, rowSets)
    /\ UNCHANGED <<rows, held>>

LockedByOther(r, row) == \E q \in Requests \ {r} : row \in held[q]

Lock(r) ==
    /\ want[r] # <<>>
    /\ \E row \in Head(want[r]) :
          /\ ~LockedByOther(r, row)
          /\ held' = [held EXCEPT ![r] = @ \cup {row}]
          /\ want' = [want EXCEPT ![r] =
                IF Head(@) = {row} THEN Tail(@) ELSE <<Head(@) \ {row}>> \o Tail(@)]
    /\ UNCHANGED <<rows, request>>

At(r, op, step) == request[r].op = op /\ request[r].step = step /\ want[r] = <<>>

Finish(r) ==
    /\ request' = [request EXCEPT ![r] = Idle]
    /\ want' = [want EXCEPT ![r] = <<>>]
    /\ held' = [held EXCEPT ![r] = {}]

\* A refusal, a crash, or a deadlock of which the request is the victim.
Abort(r) ==
    /\ request[r] # Idle
    /\ Finish(r)
    /\ UNCHANGED rows

\* Nobody reads more of a revoked session than that it is revoked.
RevokeRows(S, T) ==
    LET over == {s \in S : session[s].status = "LIVE"}
    IN  /\ session' = [s \in Sessions |-> IF s \in over THEN NoRow("REVOKED") ELSE session[s]]
        /\ proved' = [s \in Sessions |-> IF s \in over THEN NoPassword ELSE proved[s]]
        /\ token' = [t \in Tokens |->
              IF t \in T /\ token[t].status = "LIVE" THEN [token[t] EXCEPT !.status = "REVOKED"]
              ELSE token[t]]
-----------------------------------------------------------------------------
(* Log in: statements of their own, no transaction until the session. *)

BeginLogin(r) ==
    /\ account.status = "ACTIVE"
    /\ Begin(r, [op |-> "LOGIN", step |-> "STAMP", saw |-> account], <<>>)

\* Rewriting a password hash of an older scheme, then last_login_at.
StampLogin(r) ==
    /\ At(r, "LOGIN", "STAMP")
    /\ ~LockedByOther(r, Account)
    /\ LET saw == request[r].saw
       IN  /\ account' = IF saw.legacy
                         THEN [account EXCEPT !.password = saw.password, !.legacy = FALSE]
                         ELSE account
           /\ overwritten' = (overwritten \/ (saw.legacy /\ account.password # saw.password))
    /\ request' = [request EXCEPT ![r].step = "OPEN"]
    /\ UNCHANGED <<session, token, proved, want, held>>

OpenSession(r) ==
    /\ At(r, "LOGIN", "OPEN")
    /\ \E s \in Sessions, t \in Tokens :
          /\ session[s].status = "NONE" /\ token[t].status = "NONE"
          /\ session' = [session EXCEPT ![s] =
                [status |-> "LIVE", version |-> request[r].saw.version, expired |-> FALSE]]
          /\ token' = [token EXCEPT ![t] = [status |-> "LIVE", session |-> s]]
          /\ proved' = [proved EXCEPT ![s] = request[r].saw.password]
    /\ Finish(r)
    /\ UNCHANGED <<account, overwritten>>
-----------------------------------------------------------------------------
(* Refresh and log out. *)

RefreshRows_TokenOnly(t) == <<{t}>>

\* FOR UPDATE OF refresh_token, session, app_user.
RefreshRows(t) == <<{t}, {token[t].session}, {Account}>>

\* A token that is revoked already is refused and nothing changes.
BeginRefresh(r, t) ==
    /\ token[t].status \in {"LIVE", "ROTATED"}
    /\ Begin(r, [op |-> "REFRESH", step |-> "READ", token |-> t, session |-> token[t].session],
             RefreshRows(t))

Rotate(r) ==
    LET t == request[r].token
        s == request[r].session
    IN  /\ At(r, "REFRESH", "READ")
        /\ token[t].status = "LIVE" /\ Usable(s)
        /\ \E new \in Tokens :
              /\ token[new].status = "NONE"
              /\ token' = [token EXCEPT ![t].status = "ROTATED",
                                        ![new] = [status |-> "LIVE", session |-> s]]
        /\ Finish(r)
        /\ UNCHANGED <<account, session, proved, overwritten>>

\* A token that was rotated before, or a session that is over.
RefuseRefresh(r) ==
    LET t == request[r].token
        s == request[r].session
    IN  /\ At(r, "REFRESH", "READ")
        /\ \/ token[t].status = "ROTATED"
           \/ token[t].status = "LIVE" /\ ~Usable(s)
        /\ Statement(r, [request[r] EXCEPT !.step = "REVOKE"], Each(TokensOf({s})))
        /\ UNCHANGED <<rows, held>>

LogoutRows_WithToken(t) == <<{t}, {token[t].session}>>

\* FOR UPDATE OF session.
LogoutRows(t) == <<{token[t].session}>>

\* By a token, or by the session's own id (revokeOwnSession).  Revoking what is
\* revoked changes nothing.
BeginLogout(r, t) ==
    /\ token[t].session # NoSession
    /\ session[token[t].session].status = "LIVE"
    /\ Begin(r, [op |-> "LOGOUT", step |-> "READ", session |-> token[t].session], LogoutRows(t))

Logout(r) ==
    /\ At(r, "LOGOUT", "READ")
    /\ request[r].session \in There
    /\ Statement(r, [request[r] EXCEPT !.step = "REVOKE"], Each(TokensOf({request[r].session})))
    /\ UNCHANGED <<rows, held>>

RevokeSession(r) ==
    /\ At(r, "REFRESH", "REVOKE") \/ At(r, "LOGOUT", "REVOKE")
    /\ RevokeRows({request[r].session}, held[r] \cap Tokens)
    /\ Finish(r)
    /\ UNCHANGED <<account, overwritten>>
-----------------------------------------------------------------------------
(* Changes of the account that end its sessions. *)

Changes ==
    [kind : {"PASSWORD", "RESET"}, password : Passwords] \cup
    [kind : {"REVOKE_ALL", "DISABLE", "ENABLE"}, password : {NoPassword}]

\* What a user asks for takes a session, and the current password is verified
\* before the transaction.
BeginChange(r, change) ==
    /\ change.kind \in {"PASSWORD", "REVOKE_ALL"} => \E s \in Sessions : Usable(s)
    /\ change.kind = "PASSWORD" => change.password # account.password
    /\ Begin(r, [op |-> "CHANGE", step |-> "ACCOUNT", change |-> change], <<{Account}>>)

Accepted(change) ==
    CASE change.kind = "RESET" -> account.status = "ACTIVE" /\ change.password # account.password
      [] change.kind = "DISABLE" -> account.status = "ACTIVE"
      [] change.kind = "ENABLE" -> account.status = "DISABLED"
      [] OTHER -> TRUE

Written(change) ==
    LET status == CASE change.kind = "DISABLE" -> "DISABLED"
                    [] change.kind = "ENABLE" -> "ACTIVE"
                    [] OTHER -> account.status
    IN  IF change.password = NoPassword THEN [account EXCEPT !.status = status]
        ELSE [account EXCEPT !.password = change.password, !.legacy = FALSE]

Changed_Passwords(change) ==
    [Written(change) EXCEPT !.version = IF change.kind = "PASSWORD" THEN @ ELSE @ + 1]

Changed_Statuses(change) ==
    [Written(change) EXCEPT !.version =
        IF change.kind \in {"DISABLE", "ENABLE"} THEN @ ELSE @ + 1]

Changed(change) == [Written(change) EXCEPT !.version = @ + 1]

ChangeAccount(r) ==
    /\ At(r, "CHANGE", "ACCOUNT")
    /\ Accepted(request[r].change)
    /\ account.version < MaxVersion
    /\ Statement(r, [request[r] EXCEPT !.step = "SESSIONS"],
                 IF request[r].change.kind = "ENABLE" THEN <<>> ELSE Each(There))
    /\ UNCHANGED <<rows, held>>

ChangeSessions(r) ==
    /\ At(r, "CHANGE", "SESSIONS")
    /\ Statement(r, [request[r] EXCEPT !.step = "TOKENS"],
                 IF request[r].change.kind = "ENABLE" THEN <<>> ELSE Each(TokensOf(There)))
    /\ UNCHANGED <<rows, held>>

ChangeTokens(r) ==
    /\ At(r, "CHANGE", "TOKENS")
    /\ account' = Changed(request[r].change)
    /\ RevokeRows(held[r] \cap Sessions, held[r] \cap Tokens)
    /\ Finish(r)
    /\ UNCHANGED overwritten
-----------------------------------------------------------------------------
(* Time and the cleanup job. *)

Expire(s) ==
    /\ session[s].status = "LIVE" /\ ~session[s].expired
    /\ session' = [session EXCEPT ![s].expired = TRUE]
    /\ UNCHANGED <<account, token, request, want, held, proved, overwritten>>

\* Expired sessions, and those revoked longer ago than any request takes.
BeginCleanup(r) ==
    LET outdated == {s \in There : \/ session[s].expired
                                   \/ /\ session[s].status = "REVOKED"
                                      /\ \A q \in Requests : request[q] = Idle}
    IN  /\ outdated # {}
        /\ Begin(r, [op |-> "CLEANUP", step |-> "SESSIONS"], Each(outdated))

\* ON DELETE CASCADE.
CleanupTokens(r) ==
    /\ At(r, "CLEANUP", "SESSIONS")
    /\ Statement(r, [request[r] EXCEPT !.step = "TOKENS"], Each(TokensOf(held[r])))
    /\ UNCHANGED <<rows, held>>

DeletedTokens_None(S) == token

DeletedTokens(S) ==
    [t \in Tokens |-> IF t \in TokensOf(S) THEN NoToken("DELETED") ELSE token[t]]

Cleanup(r) ==
    LET S == held[r] \cap Sessions
    IN  /\ At(r, "CLEANUP", "TOKENS")
        /\ session' = [s \in Sessions |-> IF s \in S THEN NoRow("DELETED") ELSE session[s]]
        /\ token' = DeletedTokens(S)
        /\ proved' = [s \in Sessions |-> IF s \in S THEN NoPassword ELSE proved[s]]
        /\ Finish(r)
        /\ UNCHANGED <<account, overwritten>>
-----------------------------------------------------------------------------
Next ==
    \/ \E r \in Requests :
          \/ Lock(r) \/ Abort(r)
          \/ BeginLogin(r) \/ StampLogin(r) \/ OpenSession(r)
          \/ Rotate(r) \/ RefuseRefresh(r) \/ Logout(r) \/ RevokeSession(r)
          \/ ChangeAccount(r) \/ ChangeSessions(r) \/ ChangeTokens(r)
          \/ BeginCleanup(r) \/ CleanupTokens(r) \/ Cleanup(r)
          \/ \E t \in Tokens : BeginRefresh(r, t) \/ BeginLogout(r, t)
          \/ \E change \in Changes : BeginChange(r, change)
    \/ \E s \in Sessions : Expire(s)

Spec == Init /\ [][Next]_vars
-----------------------------------------------------------------------------
(* Properties. *)

(***************************************************************************)
(* The rows' columns and foreign keys, and the requests' locks: a row is   *)
(* locked by one transaction at a time, an idle request locks nothing.     *)
(***************************************************************************)
TypeOK ==
    /\ account \in [status : {"ACTIVE", "DISABLED"}, password : Passwords, legacy : BOOLEAN,
                    version : 0..MaxVersion]
    /\ session \in [Sessions -> [status : SessionStatus, version : 0..MaxVersion, expired : BOOLEAN]]
    /\ token \in [Tokens -> [status : TokenStatus, session : Sessions \cup {NoSession}]]
    /\ \A t \in Tokens : token[t].session # NoSession => token[t].session \in There
    /\ held \in [Requests -> SUBSET ({Account} \cup Sessions \cup Tokens)]
    /\ \A r \in Requests : request[r] = Idle => held[r] = {} /\ want[r] = <<>>
    /\ \A q, r \in Requests : q # r => held[q] \cap held[r] = {}
    /\ proved \in [Sessions -> Passwords \cup {NoPassword}]
    /\ overwritten \in BOOLEAN

Live(s) == {t \in TokensOf({s}) : token[t].status = "LIVE"}

(***************************************************************************)
(* A revoked session has no token left that would refresh it, and one that *)
(* is in use has exactly one, whatever refreshed, logged out or changed    *)
(* its password at the same time.                                          *)
(***************************************************************************)
TokensFollowSession ==
    \A s \in Sessions :
        /\ session[s].status = "REVOKED" => Live(s) = {}
        /\ Usable(s) => Cardinality(Live(s)) = 1

(***************************************************************************)
(* A session in use was opened with the password the account has now: a    *)
(* change of the password reaches also the login that is under way.  The   *)
(* exception is a login that rewrites an old hash after the change, and    *)
(* with it the old password.                                               *)
(***************************************************************************)
SessionsProvePassword ==
    \A s \in Sessions : Usable(s) => proved[s] = account.password \/ overwritten

(***************************************************************************)
(* A session is of use from its login or never: enabling an account again  *)
(* brings no session back, neither does anything else.                     *)
(***************************************************************************)
UsableFromTheStart ==
    [][\A s \in Sessions : Usable(s)' => Usable(s) \/ session[s].status = "NONE"]_vars

Waits(q, r) == want[q] # <<>> /\ Head(want[q]) \cap held[r] # {}

(***************************************************************************)
(* Requests that wait for each other have a refresh or a cleanup among     *)
(* them, the two that lock against the order account, session, token.      *)
(***************************************************************************)
DeadlockTakesRefresh ==
    \A R \in SUBSET Requests :
        R # {} /\ (\A q \in R : \E r \in R : Waits(q, r)) =>
            \E r \in R : request[r].op \in {"REFRESH", "CLEANUP"}
=============================================================================
