----------------------------- MODULE TwoFactor ------------------------------
(***************************************************************************)
(* The second factor of one manager (backend/src/modules/auth/             *)
(* two-factor.service.ts, and authenticateLogin of auth.service.ts).       *)
(*                                                                         *)
(* Setting up, enabling and disabling lock the account's row, so each is   *)
(* one action; a login reads the account with no lock, asks for a code of  *)
(* the secret it has read, and opens the session with the version it has   *)
(* read.  A call is authorised by its session before it waits for the lock.*)
(***************************************************************************)
EXTENDS Integers

CONSTANTS
    Secrets,        \* what generateSecret may return
    Logins,         \* calls of authenticateLogin under way, and the sessions they open
    MaxVersion,     \* bound on session_version
    None

TwoFactorAssumption == None \notin Secrets /\ MaxVersion \in Nat

VARIABLES
    manager,    \* the row of app_user: enabled, secret, pending secret, session_version
    session,    \* session[n]: a login and the session it opens
    calls       \* sessions with a call of the second factor's routes under way

vars == <<manager, session, calls>>

Secret == Secrets \cup {None}
Manager == [enabled : BOOLEAN, secret : Secret, pending : Secret, version : 0..MaxVersion]

\* "proved" is no column: the secret whose code the login gave.
Session == [state : {"NONE", "LOGIN", "OPEN", "REVOKED"}, version : 0..MaxVersion, proved : Secret]

Init ==
    /\ manager = [enabled |-> FALSE, secret |-> None, pending |-> None, version |-> 0]
    /\ session = [n \in Logins |-> [state |-> "NONE", version |-> 0, proved |-> None]]
    /\ calls = {}

\* requireAuth: the session is open and of the account's version.
Usable(n) == session[n].state = "OPEN" /\ session[n].version = manager.version

Revoked == [n \in Logins |-> IF session[n].state = "OPEN" THEN [session[n] EXCEPT !.state = "REVOKED"]
                                                          ELSE session[n]]
-----------------------------------------------------------------------------
(* Login. *)

\* The code must be one of the secret in force, if the account asks for one.
ReadManager(n) ==
    /\ session[n].state = "NONE"
    /\ session' = [session EXCEPT ![n] = [state |-> "LOGIN", version |-> manager.version,
                                          proved |-> IF manager.enabled THEN manager.secret ELSE None]]
    /\ UNCHANGED <<manager, calls>>

CreateAuthSession(n) ==
    /\ session[n].state = "LOGIN"
    /\ session' = [session EXCEPT ![n].state = "OPEN"]
    /\ UNCHANGED <<manager, calls>>
-----------------------------------------------------------------------------
(* The routes of the second factor: a session is checked, then the account *)
(* is locked.                                                              *)

RequireAuth(n) ==
    /\ n \notin calls /\ Usable(n)
    /\ calls' = calls \cup {n}
    /\ UNCHANGED <<manager, session>>

\* A refusal, a wrong code or password, or a lost connection.
CallRefused(n) ==
    /\ n \in calls
    /\ calls' = calls \ {n}
    /\ UNCHANGED <<manager, session>>

\* A second setup replaces the first.
BeginSetup(n, k) ==
    /\ n \in calls /\ ~manager.enabled
    /\ manager' = [manager EXCEPT !.pending = k]
    /\ calls' = calls \ {n}
    /\ UNCHANGED session

\* Mutant: the version stays, so a login under way opens a session as before.
EnableTwoFactor_SameVersion(n, k) ==
    /\ n \in calls /\ ~manager.enabled
    /\ manager.pending # None /\ k = manager.pending
    /\ manager' = [manager EXCEPT !.enabled = TRUE, !.secret = manager.pending, !.pending = None]
    /\ session' = Revoked
    /\ calls' = calls \ {n}

\* k is the secret of the authenticator the code was read from.
EnableTwoFactor(n, k) ==
    /\ n \in calls /\ ~manager.enabled
    /\ manager.pending # None /\ k = manager.pending
    /\ manager.version < MaxVersion
    /\ manager' = [enabled |-> TRUE, secret |-> manager.pending, pending |-> None,
                   version |-> manager.version + 1]
    /\ session' = Revoked
    /\ calls' = calls \ {n}

DisableTwoFactor(n, k) ==
    /\ n \in calls /\ manager.enabled
    /\ manager.secret # None /\ k = manager.secret
    /\ manager.version < MaxVersion
    /\ manager' = [enabled |-> FALSE, secret |-> None, pending |-> None,
                   version |-> manager.version + 1]
    /\ session' = Revoked
    /\ calls' = calls \ {n}

Next ==
    \E n \in Logins :
        \/ ReadManager(n) \/ CreateAuthSession(n) \/ RequireAuth(n) \/ CallRefused(n)
        \/ \E k \in Secrets : BeginSetup(n, k) \/ EnableTwoFactor(n, k) \/ DisableTwoFactor(n, k)

Spec == Init /\ [][Next]_vars
-----------------------------------------------------------------------------
(* Properties. *)

TypeOK ==
    /\ manager \in Manager
    /\ session \in [Logins -> Session]
    /\ calls \subseteq Logins

(***************************************************************************)
(* Whoever is in has proved the second factor in force: a session of use   *)
(* was opened with a code of the secret the account has now, also one      *)
(* whose login overtook enabling, disabling, or enabling anew with another *)
(* secret.  And a half-made setup never stands beside a secret in force.   *)
(***************************************************************************)
SessionsProveSecret ==
    /\ \A n \in Logins : Usable(n) => session[n].proved = manager.secret
    /\ manager.enabled = (manager.secret # None)
    /\ manager.enabled => manager.pending = None
=============================================================================
