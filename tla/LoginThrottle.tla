--------------------------- MODULE LoginThrottle ---------------------------
(***************************************************************************)
(* What limits attempts to log in (backend/src/modules/auth/               *)
(* login-throttle.service.ts and authenticateLogin of auth.service.ts).    *)
(*                                                                         *)
(* The throttle is read before the password is verified and written in a   *)
(* transaction of its own afterwards: calls made at the same time have all *)
(* read it before any writes it.                                           *)
(***************************************************************************)
EXTENDS Integers, FiniteSets

CONSTANTS
    Identifiers,        \* what is typed as e-mail or user name
    Ips,
    Logins,             \* calls of authenticateLogin under way
    MaxPerIdentifier,   \* LOGIN_FAILURE_MAX_PER_IDENTIFIER
    MaxPerIp,           \* LOGIN_FAILURE_MAX_PER_IP
    MaxFailures         \* bound on failed_count

Keys == Identifiers \cup Ips

LoginThrottleAssumption ==
    /\ Identifiers \cap Ips = {}
    /\ IsFiniteSet(Logins)
    /\ {MaxPerIdentifier, MaxPerIp, MaxFailures} \subseteq Nat \ {0}

VARIABLES
    throttle,   \* throttle[k]: the row of auth_login_throttle
    login,      \* login[n]: the keys of a call that has read the throttle
    since       \* since[k]: failures since a lock of k ended or its count started

vars == <<throttle, login, since>>

\* "old": the window is over.  "locked": locked_until is in the future.
Throttle == [failed : 0..MaxFailures, old : BOOLEAN, locked : BOOLEAN]
NoRow == [failed |-> 0, old |-> FALSE, locked |-> FALSE]

Threshold(k) == IF k \in Identifiers THEN MaxPerIdentifier ELSE MaxPerIp

Init ==
    /\ throttle = [k \in Keys |-> NoRow]
    /\ login = [n \in Logins |-> {}]
    /\ since = [k \in Keys |-> 0]
-----------------------------------------------------------------------------
Busy(n) == login[n] # {}
UnderWay(k) == {n \in Logins : k \in login[n]}
Done(n) == login' = [login EXCEPT ![n] = {}]

\* Mutant: the lock of the address is not looked at.
Throttled_ByIdentifier(i, ip) == throttle[i].locked

Throttled(i, ip) == throttle[i].locked \/ throttle[ip].locked

BeginLogin(n, i, ip) ==
    /\ ~Busy(n)
    /\ ~Throttled(i, ip)
    /\ login' = [login EXCEPT ![n] = {i, ip}]
    /\ UNCHANGED <<throttle, since>>

\* Mutant: locked one failure late.
LockSecondsFor_Late(k, failed) == failed > Threshold(k)

LockSecondsFor(k, failed) == failed >= Threshold(k)

\* The upsert starts a new window if the old one is over; the lock is never
\* shortened.
Failed(k) == IF throttle[k].old THEN 1 ELSE throttle[k].failed + 1
RowAfterFailure(k) ==
    [failed |-> Failed(k), old |-> FALSE,
     locked |-> throttle[k].locked \/ LockSecondsFor(k, Failed(k))]

SinceAfterFailure(k) == IF throttle[k].old THEN 1 ELSE since[k] + 1

\* A wrong password or code, or an account that cannot log in.
RecordLoginFailure(n) ==
    /\ Busy(n)
    /\ \A k \in login[n] : Failed(k) <= MaxFailures
    /\ throttle' = [k \in Keys |-> IF k \in login[n] THEN RowAfterFailure(k) ELSE throttle[k]]
    /\ since' = [k \in Keys |-> IF k \in login[n] THEN SinceAfterFailure(k) ELSE since[k]]
    /\ Done(n)

\* The row of the identifier is deleted, with a lock set meanwhile.
LoginSucceeds(n) ==
    /\ Busy(n)
    /\ throttle' = [k \in Keys |-> IF k \in login[n] \cap Identifiers THEN NoRow ELSE throttle[k]]
    /\ since' = [k \in Keys |-> IF k \in login[n] \cap Identifiers THEN 0 ELSE since[k]]
    /\ Done(n)

\* The code is asked for, the configuration is wrong, the process dies.
LoginAborts(n) ==
    /\ Busy(n)
    /\ Done(n)
    /\ UNCHANGED <<throttle, since>>

WindowPasses(k) ==
    /\ throttle[k].failed > 0 /\ ~throttle[k].old
    /\ throttle' = [throttle EXCEPT ![k].old = TRUE]
    /\ UNCHANGED <<login, since>>

LockPasses(k) ==
    /\ throttle[k].locked
    /\ throttle' = [throttle EXCEPT ![k].locked = FALSE]
    /\ since' = [since EXCEPT ![k] = 0]
    /\ UNCHANGED login
-----------------------------------------------------------------------------
Next ==
    \/ \E n \in Logins :
          \/ \E i \in Identifiers, ip \in Ips : BeginLogin(n, i, ip)
          \/ RecordLoginFailure(n) \/ LoginSucceeds(n) \/ LoginAborts(n)
    \/ \E k \in Keys : WindowPasses(k) \/ LockPasses(k)

Spec == Init /\ [][Next]_vars
-----------------------------------------------------------------------------
(* Properties. *)

(***************************************************************************)
(* The columns, and the failures of a period are among those counted.      *)
(***************************************************************************)
TypeOK ==
    /\ throttle \in [Keys -> Throttle]
    /\ login \in [Logins -> SUBSET Keys]
    /\ since \in [Keys -> 0..MaxFailures]
    /\ \A k \in Keys : since[k] <= throttle[k].failed

(***************************************************************************)
(* How far calls made at the same time get past the limit: with those that *)
(* have read the throttle and not failed yet, no more failures than one    *)
(* less than the limit and one for each call that can be under way.  So a  *)
(* lock that is set holds for all but the calls it overtook.               *)
(***************************************************************************)
FailuresBounded ==
    \A k \in Keys :
        since[k] + Cardinality(UnderWay(k)) <= Threshold(k) - 1 + Cardinality(Logins)
=============================================================================
