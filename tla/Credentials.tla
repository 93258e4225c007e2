---------------------------- MODULE Credentials ----------------------------
(***************************************************************************)
(* The login account of one tenant and the links mailed for it: invitation *)
(* and activation, change of address, password reset and change, disabling *)
(* and deletion (backend/src/modules/auth/account-activation.service.ts,   *)
(* password-reset.service.ts, auth.service.ts, modules/tenants).           *)
(*                                                                         *)
(* What writes the links locks the account's row first, so a transaction   *)
(* is one action, but for two: the update of a tenant reads the account    *)
(* under the lock of the tenant's row only, and a change of password reads *)
(* it with no lock at all.                                                 *)
(***************************************************************************)
EXTENDS Integers, FiniteSets

CONSTANTS
    Tokens,     \* rows of account_activation_token and password_reset_token
    Emails,
    Passwords,
    Changes,    \* calls of changePassword under way
    None

CredentialsAssumption == None \notin Emails /\ None \notin Passwords

VARIABLES
    account,    \* the row of app_user
    token,      \* token[t]
    update,     \* the tenant's update under way, which holds the tenant's row
    change      \* change[c]: the password a change has verified

vars == <<account, token, update, change>>

AccountStatus == {"NONE", "PENDING_ACTIVATION", "ACTIVE", "DISABLED", "DELETED"}
Account == [status : AccountStatus, email : Emails \cup {None}, password : Passwords \cup {None}]
NoAccount == [status |-> "NONE", email |-> None, password |-> None]

\* "to" is the address the link was mailed to, which no column keeps.
Token == [kind : {"ACTIVATION", "RESET"}, state : {"NONE", "OPEN", "USED", "REVOKED"},
          expired : BOOLEAN, to : Emails \cup {None}]
NoToken == [kind |-> "ACTIVATION", state |-> "NONE", expired |-> FALSE, to |-> None]

Idle == [status |-> "NONE", email |-> None, next |-> None]

Init ==
    /\ account = NoAccount
    /\ token = [t \in Tokens |-> NoToken]
    /\ update = Idle
    /\ change = [c \in Changes |-> None]
-----------------------------------------------------------------------------
(* Links. *)

Open(t, kind) == token[t].state = "OPEN" /\ token[t].kind = kind
Usable(t, kind) == Open(t, kind) /\ ~token[t].expired

\* Mutant: only links that could still be used are revoked.
Revoked_Unexpired(kind) ==
    [t \in Tokens |-> IF Usable(t, kind) THEN [token[t] EXCEPT !.state = "REVOKED"] ELSE token[t]]

\* used_at IS NULL AND revoked_at IS NULL, whether expired or not
Revoked(kind) ==
    [t \in Tokens |-> IF Open(t, kind) THEN [token[t] EXCEPT !.state = "REVOKED"] ELSE token[t]]

\* The older links are revoked and a new one is inserted.
Issue(t, kind, to) ==
    /\ token[t].state = "NONE"
    /\ token' = [Revoked(kind) EXCEPT ![t] = [kind |-> kind, state |-> "OPEN",
                                              expired |-> FALSE, to |-> to]]

Redeem(t, kind) == token' = [Revoked(kind) EXCEPT ![t] = [token[t] EXCEPT !.state = "USED"]]

Expire(t) ==
    /\ token[t].state = "OPEN" /\ ~token[t].expired
    /\ token' = [token EXCEPT ![t].expired = TRUE]
    /\ UNCHANGED <<account, update, change>>
-----------------------------------------------------------------------------
(* Invitation. *)

CreateTenant(t, e) ==
    /\ account.status = "NONE"
    /\ account' = [status |-> "PENDING_ACTIVATION", email |-> e, password |-> None]
    /\ Issue(t, "ACTIVATION", e)
    /\ UNCHANGED <<update, change>>

\* Locks the account, not the tenant.
ResendActivation(t) ==
    /\ account.status = "PENDING_ACTIVATION"
    /\ Issue(t, "ACTIVATION", account.email)
    /\ UNCHANGED <<account, update, change>>

ActivateAccount(t, p) ==
    /\ Usable(t, "ACTIVATION") /\ account.status = "PENDING_ACTIVATION"
    /\ account' = [account EXCEPT !.status = "ACTIVE", !.password = p]
    /\ Redeem(t, "ACTIVATION")
    /\ UNCHANGED <<update, change>>
-----------------------------------------------------------------------------
(* The manager's operations on the tenant. *)

TenantLocked == update # Idle

UpdateBegin(e) ==
    /\ account.status \notin {"NONE", "DELETED"} /\ ~TenantLocked
    /\ update' = [status |-> account.status, email |-> account.email, next |-> e]
    /\ UNCHANGED <<account, token, change>>

\* Mutant: the links mailed to the old address stay open.
UpdateCommit_LinksStay ==
    /\ TenantLocked
    /\ account' = [account EXCEPT !.email = update.next]
    /\ update' = Idle
    /\ UNCHANGED <<token, change>>

\* Decides from what was read; the account's row is locked by its UPDATE.
UpdateCommit ==
    /\ TenantLocked
    /\ \/ /\ update.next = update.email
          /\ UNCHANGED <<account, token>>
       \/ /\ update.next # update.email
          /\ account' = [account EXCEPT !.email = update.next]
          /\ token' = IF update.status = "PENDING_ACTIVATION" THEN Revoked("ACTIVATION") ELSE token
    /\ update' = Idle
    /\ UNCHANGED change

UpdateAbort ==
    /\ TenantLocked
    /\ update' = Idle
    /\ UNCHANGED <<account, token, change>>

SetAccountStatus(s) ==
    /\ ~TenantLocked
    /\ account.status \in {"ACTIVE", "DISABLED"} \ {s} /\ s \in {"ACTIVE", "DISABLED"}
    /\ account' = [account EXCEPT !.status = s]
    /\ UNCHANGED <<token, update, change>>

\* The rows of the links go with the account's (ON DELETE CASCADE).
DeleteTenant ==
    /\ ~TenantLocked
    /\ account.status \notin {"NONE", "DELETED"}
    /\ account' = [NoAccount EXCEPT !.status = "DELETED"]
    /\ token' = [t \in Tokens |-> IF token[t].state = "NONE" THEN token[t]
                                  ELSE [NoToken EXCEPT !.state = "REVOKED"]]
    /\ UNCHANGED <<update, change>>
-----------------------------------------------------------------------------
(* Passwords. *)

RequestPasswordReset(t) ==
    /\ account.status = "ACTIVE"
    /\ Issue(t, "RESET", account.email)
    /\ UNCHANGED <<account, update, change>>

ConfirmPasswordReset(t, p) ==
    /\ Usable(t, "RESET") /\ account.status = "ACTIVE" /\ account.password # p
    /\ account' = [account EXCEPT !.password = p]
    /\ Redeem(t, "RESET")
    /\ UNCHANGED <<update, change>>

BeginChange(c) ==
    /\ change[c] = None /\ account.status = "ACTIVE"
    /\ change' = [change EXCEPT ![c] = account.password]
    /\ UNCHANGED <<account, token, update>>

\* UPDATE ... WHERE id: of an account deleted meanwhile there is no row.
CommitChange(c, p) ==
    /\ change[c] # None /\ p # change[c]
    /\ account' = IF account.status = "DELETED" THEN account ELSE [account EXCEPT !.password = p]
    /\ change' = [change EXCEPT ![c] = None]
    /\ UNCHANGED <<token, update>>
-----------------------------------------------------------------------------
Next ==
    \/ \E t \in Tokens :
          \/ \E e \in Emails : CreateTenant(t, e)
          \/ \E p \in Passwords : ActivateAccount(t, p) \/ ConfirmPasswordReset(t, p)
          \/ ResendActivation(t) \/ RequestPasswordReset(t) \/ Expire(t)
    \/ \E e \in Emails : UpdateBegin(e)
    \/ UpdateCommit \/ UpdateAbort \/ DeleteTenant
    \/ \E s \in AccountStatus : SetAccountStatus(s)
    \/ \E c \in Changes : BeginChange(c) \/ \E p \in Passwords : CommitChange(c, p)

Spec == Init /\ [][Next]_vars
-----------------------------------------------------------------------------
(* Properties. *)

(***************************************************************************)
(* The columns of app_user and of the two tables of links; an account      *)
(* without a password is not activated, or gone.                           *)
(***************************************************************************)
TypeOK ==
    /\ account \in Account
    /\ token \in [Tokens -> Token]
    /\ update \in [status : AccountStatus, email : Emails \cup {None}, next : Emails \cup {None}]
    /\ change \in [Changes -> Passwords \cup {None}]
    /\ account.password = None <=> account.status \in {"NONE", "PENDING_ACTIVATION", "DELETED"}

(***************************************************************************)
(* At most one link of a kind is open (the partial unique indexes), and    *)
(* an invitation that still works was mailed to the address the account    *)
(* has now: no order of resending, changing the address and activating     *)
(* leaves one at an address that was given up, or after the activation.    *)
(* Nothing of the kind is said of resets: a change of address revokes the  *)
(* invitations of a pending account only, so the reset link of an active   *)
(* one stays open at the address it was mailed to, until it is used,       *)
(* expires, or another is asked for; of a disabled one, it is refused.     *)
(***************************************************************************)
OneOpenLink ==
    \A t, u \in Tokens, kind \in {"ACTIVATION", "RESET"} :
        Open(t, kind) /\ Open(u, kind) => t = u

InvitationGoesToOwner ==
    \A t \in Tokens : Open(t, "ACTIVATION") =>
        account.status = "PENDING_ACTIVATION" /\ token[t].to = account.email

InvitationsAreCurrent == OneOpenLink /\ InvitationGoesToOwner
=============================================================================
