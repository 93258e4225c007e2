----------------------------- MODULE BrowserTab -----------------------------
(***************************************************************************)
(* One tab of the application and its session: the access token it keeps   *)
(* in memory, the refresh token in its cookie, and what it does when a     *)
(* call is refused (front-end/src/services/apiClient.ts and                *)
(* features/auth/AuthContext.tsx, against the handlers of                  *)
(* backend/src/modules/auth/auth.routes.ts).  The server's side is that of *)
(* module Sessions without its locks: a refresh token is good once, and a  *)
(* second use of it ends the session.                                      *)
(***************************************************************************)
EXTENDS Integers

CONSTANTS
    Calls,          \* calls of apiRequest under way
    MaxSessions,    \* bound on logins
    MaxRotations,   \* bound on refreshes of one session
    MaxFaults,      \* bound on what the tab cannot know of
    None

Page == "PAGE"      \* the refresh AuthProvider makes when the page loads
Ids == Calls \cup {Page}

BrowserTabAssumption ==
    /\ {MaxSessions, MaxRotations, MaxFaults} \subseteq Nat
    /\ Page \notin Calls /\ None \notin Ids /\ None \notin [s : Nat, n : Nat]

VARIABLES
    session,    \* session[s]: status and the number of its newest refresh token
    expired,    \* access tokens that are no longer good
    cookie,     \* the refresh token
    access,     \* the access token
    page,       \* "INIT", "IN" when somebody is logged in, "OUT"
    call,       \* call[c]: step, the access token it was sent with, whether it may retry
    refresh,    \* refresh[d]: a refresh, the cookie it was sent with, its answer
    promise,    \* refreshPromise: the refresh that calls wait for
    logout,     \* a logout, and the cookie it was sent with
    faults,
    crossed     \* ghost: a refresh of an earlier session was answered after a login

vars == <<session, expired, cookie, access, page, call, refresh, promise, logout, faults, crossed>>

SessionIds == 1..MaxSessions
Token == [s : SessionIds, n : 0..MaxRotations]
NoCall == [step |-> "IDLE", token |-> None, retry |-> TRUE, waits |-> None]
NoRefresh == [step |-> "IDLE", cookie |-> None, answer |-> None]
NoLogout == [step |-> "IDLE", cookie |-> None]

Live(s) == session[s].status = "LIVE"
Newest(s) == [s |-> s, n |-> session[s].newest]
Of(s, token) == token # None /\ token.s = s

Sent(token) == [step |-> "SENT", cookie |-> token, answer |-> None]
Busy(d) == refresh[d].step # "IDLE"

\* The page is loaded: nothing of the old page is left, and it refreshes.
Load(token) ==
    /\ page' = "INIT" /\ access' = None
    /\ call' = [c \in Calls |-> NoCall]
    /\ refresh' = [d \in Ids |-> IF d = Page THEN Sent(token) ELSE NoRefresh]
    /\ promise' = Page
    /\ logout' = NoLogout

Init ==
    /\ session = [s \in SessionIds |-> [status |-> "NONE", newest |-> 0]]
    /\ expired = {} /\ cookie = None /\ access = None /\ page = "OUT"
    /\ call = [c \in Calls |-> NoCall]
    /\ refresh = [d \in Ids |-> NoRefresh]
    /\ promise = None /\ logout = NoLogout
    /\ faults = 0 /\ crossed = FALSE

Server == <<session, expired>>
Client == <<cookie, access, page>>
Ghosts == <<faults, crossed>>
-----------------------------------------------------------------------------
(* Calls. *)

\* The form waits for the page's first refresh; the answer sets the cookie.
Login(s) ==
    /\ page = "OUT" /\ session[s].status = "NONE"
    /\ s > 1 => session[s - 1].status # "NONE"
    /\ session' = [session EXCEPT ![s].status = "LIVE"]
    /\ cookie' = [s |-> s, n |-> 0] /\ access' = [s |-> s, n |-> 0] /\ page' = "IN"
    /\ UNCHANGED <<expired, call, refresh, promise, logout, Ghosts>>

Send(c) ==
    /\ page = "IN" /\ call[c].step = "IDLE"
    /\ call' = [call EXCEPT ![c].step = "SENT", ![c].token = access]
    /\ UNCHANGED <<Server, Client, refresh, promise, logout, Ghosts>>

Accepts(token) == token # None /\ Live(token.s) /\ token \notin expired

\* requireAuth.  A call that is accepted, or refused for good, is over.
RequireAuth(c) ==
    /\ call[c].step = "SENT"
    /\ call' = [call EXCEPT ![c] = IF ~Accepts(@.token) /\ @.retry THEN [@ EXCEPT !.step = "REFUSED"]
                                   ELSE NoCall]
    /\ UNCHANGED <<Server, Client, refresh, promise, logout, Ghosts>>

\* Mutant: every call that is refused makes a refresh of its own.
TryRefresh_Own(c) ==
    /\ refresh' = [refresh EXCEPT ![c] = Sent(cookie)]
    /\ promise' = c
    /\ call' = [call EXCEPT ![c].step = "WAITING", ![c].waits = c]

\* One refresh serves all the calls that are refused meanwhile.
TryRefresh(c) ==
    IF promise = None
    THEN /\ refresh' = [refresh EXCEPT ![c] = Sent(cookie)]
         /\ promise' = c
         /\ call' = [call EXCEPT ![c].step = "WAITING", ![c].waits = c]
    ELSE /\ call' = [call EXCEPT ![c].step = "WAITING", ![c].waits = promise]
         /\ UNCHANGED <<refresh, promise>>

Refused(c) ==
    /\ call[c].step = "REFUSED" /\ ~Busy(c)
    /\ TryRefresh(c)
    /\ UNCHANGED <<Server, Client, logout, Ghosts>>
-----------------------------------------------------------------------------
(* A refresh. *)

Answered(d, answer) == [refresh EXCEPT ![d].step = "ANSWERED", ![d].answer = answer]

\* Whatever is wrong, the answer clears the cookie; a token that was used
\* before ends its session as well.
RotateRefreshToken(d) ==
    LET token == refresh[d].cookie
    IN  /\ refresh[d].step = "SENT"
        /\ \/ \E s \in SessionIds :
                 /\ Live(s) /\ token = Newest(s) /\ token.n < MaxRotations
                 /\ session' = [session EXCEPT ![s].newest = @ + 1]
                 /\ refresh' = Answered(d, [token EXCEPT !.n = @ + 1])
           \/ \E s \in SessionIds :
                 /\ Live(s) /\ Of(s, token) /\ token # Newest(s)
                 /\ session' = [session EXCEPT ![s].status = "REVOKED"]
                 /\ refresh' = Answered(d, None)
           \/ /\ ~\E s \in SessionIds : Live(s) /\ Of(s, token)
              /\ session' = session
              /\ refresh' = Answered(d, None)
        /\ UNCHANGED <<expired, Client, call, promise, logout, Ghosts>>

Waiting(d) == {c \in Calls : call[c].step = "WAITING" /\ call[c].waits = d}
Late(token) == \E s \in SessionIds : session[s].status # "NONE" /\ (token = None \/ s > token.s)

\* The tokens are stored before the calls that wait are sent again.
RefreshSucceeds(d) ==
    LET token == refresh[d].answer
    IN  /\ refresh[d].step = "ANSWERED" /\ token # None
        /\ cookie' = token /\ access' = token
        /\ page' = IF page = "INIT" THEN "IN" ELSE page
        /\ call' = [c \in Calls |-> IF c \in Waiting(d)
                        THEN [step |-> "SENT", token |-> token, retry |-> FALSE, waits |-> None]
                        ELSE call[c]]
        /\ refresh' = [refresh EXCEPT ![d] = NoRefresh]
        /\ promise' = None
        /\ crossed' = (crossed \/ Late(token))
        /\ UNCHANGED <<Server, logout, faults>>

\* The first call that waited takes the page to the login form, which loads
\* anew; on the form itself, nothing but the access token is dropped.
RefreshFails(d, kept) ==
    /\ cookie' = kept
    /\ crossed' = (crossed \/ Late(refresh[d].cookie))
    /\ IF page = "IN" /\ Waiting(d) # {}
       THEN Load(kept)
       ELSE /\ access' = IF d = Page \/ Waiting(d) # {} THEN None ELSE access
            /\ page' = IF page = "INIT" THEN "OUT" ELSE page
            /\ call' = [c \in Calls |-> IF c \in Waiting(d) THEN NoCall ELSE call[c]]
            /\ refresh' = [refresh EXCEPT ![d] = NoRefresh]
            /\ promise' = None
            /\ UNCHANGED logout
    /\ UNCHANGED Server

RefreshRefused(d) ==
    /\ refresh[d].step = "ANSWERED" /\ refresh[d].answer = None
    /\ RefreshFails(d, None)
    /\ UNCHANGED faults

Fault == faults < MaxFaults /\ faults' = faults + 1

\* The request or its answer is lost: the cookie stays as it was.
RefreshLost(d) ==
    /\ Busy(d)
    /\ RefreshFails(d, cookie)
    /\ Fault
-----------------------------------------------------------------------------
(* Logging out. *)

BeginLogout ==
    /\ page = "IN" /\ logout = NoLogout
    /\ logout' = [step |-> "SENT", cookie |-> cookie]
    /\ UNCHANGED <<Server, Client, call, refresh, promise, Ghosts>>

\* Mutant: only a token that was not rotated finds its session.
SessionOf_Newest(token) ==
    IF token = None THEN {} ELSE {s \in SessionIds : Live(s) /\ token = Newest(s)}

\* Any token that was ever issued finds its session.
SessionOf(token) == IF token = None THEN {} ELSE {token.s}

RevokeSession ==
    /\ logout.step = "SENT"
    /\ session' = [s \in SessionIds |-> IF s \in SessionOf(logout.cookie)
                                        THEN [session[s] EXCEPT !.status = "REVOKED"] ELSE session[s]]
    /\ logout' = [logout EXCEPT !.step = "ANSWERED"]
    /\ UNCHANGED <<expired, Client, call, refresh, promise, Ghosts>>

\* The calls under way are not stopped.
LoggedOut(kept) ==
    /\ cookie' = kept /\ access' = None /\ page' = "OUT"
    /\ logout' = NoLogout
    /\ UNCHANGED <<Server, call, refresh, promise, crossed>>

LogoutAnswered == logout.step = "ANSWERED" /\ LoggedOut(None) /\ UNCHANGED faults

\* A logout that fails is one to the page.
LogoutLost == logout.step # "IDLE" /\ LoggedOut(cookie) /\ Fault
-----------------------------------------------------------------------------
Expires(token) ==
    /\ token.n <= session[token.s].newest /\ session[token.s].status # "NONE"
    /\ token \notin expired
    /\ expired' = expired \cup {token}
    /\ UNCHANGED <<session, Client, call, refresh, promise, logout, Ghosts>>

\* The user reloads the page, whatever it was doing.
Reload ==
    /\ Load(cookie) /\ Fault
    /\ UNCHANGED <<Server, cookie, crossed>>

\* Another tab that refreshes with the same cookie, an administrator, a
\* change of the password.
RevokedElsewhere(s) ==
    /\ Live(s) /\ Fault
    /\ session' = [session EXCEPT ![s].status = "REVOKED"]
    /\ UNCHANGED <<expired, Client, call, refresh, promise, logout, crossed>>

Next ==
    \/ \E s \in SessionIds : Login(s) \/ RevokedElsewhere(s)
    \/ \E c \in Calls : Send(c) \/ RequireAuth(c) \/ Refused(c)
    \/ \E d \in Ids : RotateRefreshToken(d) \/ RefreshSucceeds(d) \/ RefreshRefused(d) \/ RefreshLost(d)
    \/ BeginLogout \/ RevokeSession \/ LogoutAnswered \/ LogoutLost
    \/ \E token \in Token : Expires(token)
    \/ Reload

Spec == Init /\ [][Next]_vars
-----------------------------------------------------------------------------
(* Properties. *)

(***************************************************************************)
(* Tokens are tokens, at most one refresh is under way, and it is the one  *)
(* the calls wait for.                                                     *)
(***************************************************************************)
TypeOK ==
    /\ session \in [SessionIds -> [status : {"NONE", "LIVE", "REVOKED"}, newest : 0..MaxRotations]]
    /\ expired \subseteq Token /\ {cookie, access} \subseteq Token \cup {None}
    /\ page \in {"INIT", "IN", "OUT"} /\ faults \in 0..MaxFaults
    /\ \A d \in Ids : Busy(d) <=> promise = d
    /\ \A c \in Calls : call[c].step = "WAITING" => call[c].waits = promise /\ promise # None

Undisturbed == faults = 0 /\ ~crossed

(***************************************************************************)
(* A tab by itself never loses its session: however many calls are refused *)
(* at once and whenever their answers come, the cookie of a logged-in page *)
(* is good for the next refresh.  It takes a lost answer, a reload, a      *)
(* second tab, or a refresh from before a logout that is answered after    *)
(* the next login.                                                         *)
(***************************************************************************)
KeepsSession ==
    Undisturbed /\ page = "IN" /\ promise = None /\ logout = NoLogout =>
        cookie # None /\ Live(cookie.s) /\ cookie = Newest(cookie.s)

(***************************************************************************)
(* Logging out ends the session on the server even when a refresh replaces *)
(* the cookie it was sent with, and what a late refresh still stores is    *)
(* worth nothing.                                                          *)
(***************************************************************************)
LogoutEndsSession ==
    Undisturbed /\ page = "OUT" => \A s \in SessionIds : ~Live(s)

(***************************************************************************)
(* Both: a session lasts for as long as its user is logged in.             *)
(***************************************************************************)
SessionLastsUntilLogout == KeepsSession /\ LogoutEndsSession
=============================================================================
