---------------------------- MODULE ResetLimits ----------------------------
(***************************************************************************)
(* The limit on requests for a password reset: two advisory locks, a count *)
(* and an insert in one transaction (requestPasswordReset of               *)
(* backend/src/modules/auth/password-reset.service.ts), step by step.      *)
(***************************************************************************)
EXTENDS Integers, FiniteSets

CONSTANTS
    Identifiers,        \* e-mail addresses asked for
    Ips,
    Resets,             \* calls, each made once; its row is that of the call
    MaxResets,          \* PASSWORD_RESET_MAX_PER_IDENTIFIER
    MaxResetsPerIp      \* PASSWORD_RESET_MAX_PER_IP

ResetLimitsAssumption ==
    /\ Identifiers \cap Ips = {}
    /\ IsFiniteSet(Resets)
    /\ {MaxResets, MaxResetsPerIp} \subseteq Nat \ {0}

VARIABLE reset  \* reset[n]: a call, and when it is done its row of the window

Underway == {"IP_LOCKED", "LOCKED", "PASSED", "LIMITED"}
Step == {"NEW", "ACCEPTED", "REFUSED"} \cup Underway
Keys == Identifiers \cup Ips
Reset == [step : Step, keys : SUBSET Keys, recent : BOOLEAN]
NoReset == [step |-> "NEW", keys |-> {}, recent |-> FALSE]

Init == reset = [n \in Resets |-> NoReset]
-----------------------------------------------------------------------------
Goes(n, step) == reset' = [reset EXCEPT ![n].step = step]

\* Who holds the advisory lock of a key: that of the address is taken first.
Holds(n, k) ==
    \/ k \in Ips /\ k \in reset[n].keys /\ reset[n].step \in Underway
    \/ k \in Identifiers /\ k \in reset[n].keys /\ reset[n].step \in Underway \ {"IP_LOCKED"}

Recent(k) == {n \in Resets : k \in reset[n].keys /\ reset[n].recent}
Accepted(k) == {n \in Recent(k) : reset[n].step = "ACCEPTED"}

LockIp(n, i, ip) ==
    /\ reset[n].step = "NEW"
    /\ ~\E q \in Resets : Holds(q, ip)
    /\ reset' = [reset EXCEPT ![n].step = "IP_LOCKED", ![n].keys = {i, ip}]

\* Mutant: the second advisory lock is not taken.
LockIdentifier_Unlocked(n) ==
    /\ reset[n].step = "IP_LOCKED"
    /\ Goes(n, "LOCKED")

LockIdentifier(n) ==
    /\ reset[n].step = "IP_LOCKED"
    /\ ~\E q \in Resets, i \in Identifiers \cap reset[n].keys : Holds(q, i)
    /\ Goes(n, "LOCKED")

Limit(k) == IF k \in Identifiers THEN MaxResets ELSE MaxResetsPerIp

\* Counts the requests of the window, refused ones too.
RateLimited(n) == \E k \in reset[n].keys : Cardinality(Recent(k)) >= Limit(k)

RequestReset(n) ==
    /\ reset[n].step = "LOCKED"
    /\ Goes(n, IF RateLimited(n) THEN "LIMITED" ELSE "PASSED")

\* The inserted row is seen, and the locks are released.
CommitReset(n) ==
    /\ reset[n].step \in {"PASSED", "LIMITED"}
    /\ reset' = [reset EXCEPT ![n].step = IF @ = "PASSED" THEN "ACCEPTED" ELSE "REFUSED",
                              ![n].recent = TRUE]

AbortReset(n) ==
    /\ reset[n].step \in Underway
    /\ reset' = [reset EXCEPT ![n] = NoReset]

RequestAges(n) ==
    /\ reset[n].recent
    /\ reset' = [reset EXCEPT ![n].recent = FALSE]
-----------------------------------------------------------------------------
Next ==
    \E n \in Resets :
        \/ \E i \in Identifiers, ip \in Ips : LockIp(n, i, ip)
        \/ LockIdentifier(n) \/ RequestReset(n) \/ CommitReset(n) \/ AbortReset(n) \/ RequestAges(n)

Spec == Init /\ [][Next]_reset
-----------------------------------------------------------------------------
(* Properties. *)

(***************************************************************************)
(* A call and its row.                                                     *)
(***************************************************************************)
TypeOK == reset \in [Resets -> Reset]

(***************************************************************************)
(* Within the window no address is sent more links than the limit, and no  *)
(* client has more requests accepted than its own, however many calls for  *)
(* either are made at once.                                                *)
(***************************************************************************)
ResetsWithinLimit == \A k \in Keys : Cardinality(Accepted(k)) <= Limit(k)
=============================================================================
