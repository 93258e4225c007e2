---------------------------- MODULE Office_proofs ----------------------------
(***************************************************************************)
(* Theorems about the parts of the server and the tab that MCOffice brings *)
(* together, for any links, calls, limits and so on: each keeps an         *)
(* invariant of its own, and what MCOffice does is what one of them does   *)
(* or a page does.                                                         *)
(***************************************************************************)
EXTENDS Pages_proofs

\* The instances have their own names for what is one definition.
LEMMA SameSets ==
  /\ \A S : (L!IsFiniteSet(S) <=> IsFiniteSet(S)) /\ L!Cardinality(S) = Cardinality(S)
  /\ \A S : (R!IsFiniteSet(S) <=> IsFiniteSet(S)) /\ R!Cardinality(S) = Cardinality(S)
  /\ \A S : (J!IsFiniteSet(S) <=> IsFiniteSet(S)) /\ J!Cardinality(S) = Cardinality(S)
  /\ \A S : I!Cardinality(S) = Cardinality(S)
BY Zenon DEF L!IsFiniteSet, L!Cardinality, R!IsFiniteSet, R!Cardinality, J!IsFiniteSet, J!Cardinality,
             I!IsFiniteSet, I!Cardinality, IsFiniteSet, Cardinality
-----------------------------------------------------------------------------
(* The links that activate an account and reset its password. *)
\* The update of a tenant decides from the account it read.  Its decision
\* holds, because the tenant's lock keeps the account from being deleted and
\* no account ever waits for its activation again.
UpdateStillHolds ==
    C!TenantLocked =>
        /\ account.status \notin {"NONE", "DELETED"}
        /\ account.status = "PENDING_ACTIVATION" => update.status = "PENDING_ACTIVATION"

\* Only accounts that were active have changes of password under way.
ChangesOfActive ==
    \A c \in Changes : change[c] # None => account.status \in {"ACTIVE", "DISABLED", "DELETED"}

LinksInv == C!TypeOK /\ UpdateStillHolds /\ ChangesOfActive /\ C!OneOpenLink /\ C!InvitationGoesToOwner
-----------------------------------------------------------------------------
(* Links. *)

\* Revoking leaves no link of the kind open, and none of another kind changes.
LEMMA RevokedFacts ==
  ASSUME C!TypeOK, NEW kind
  PROVE  /\ C!Revoked(kind) \in [Links -> C!Token]
         /\ \A t \in Links : /\ C!Revoked(kind)[t].state = "OPEN" =>
                                    token[t].kind # kind /\ C!Revoked(kind)[t] = token[t]
BY DEF C!TypeOK, C!Token, C!Revoked, C!Open

\* After a new link is issued it is the only open one of its kind.
LEMMA IssueFacts ==
  ASSUME C!TypeOK, NEW t \in Links, NEW kind \in {"ACTIVATION", "RESET"}, NEW to \in Emails \cup {None},
         C!Issue(t, kind, to)
  PROVE  /\ token' \in [Links -> C!Token]
         /\ token'[t] = [kind |-> kind, state |-> "OPEN", expired |-> FALSE, to |-> to]
         /\ \A u \in Links \ {t} : token'[u].state = "OPEN" =>
               token[u].kind # kind /\ token'[u] = token[u]
<1> DEFINE link == [kind |-> kind, state |-> "OPEN", expired |-> FALSE, to |-> to]
<1>1. link \in C!Token
  BY DEF C!Token
<1> HIDE DEF link
<1>2. token' = [C!Revoked(kind) EXCEPT ![t] = link]
  BY DEF C!Issue, link
<1>3. token' \in [Links -> C!Token] /\ token'[t] = link
  BY <1>1, <1>2, RevokedFacts
<1>4. \A u \in Links \ {t} : token'[u] = C!Revoked(kind)[u]
  BY <1>2, RevokedFacts
<1> QED BY <1>3, <1>4, RevokedFacts DEF link

\* After one is redeemed no other of its kind is open.
LEMMA RedeemFacts ==
  ASSUME C!TypeOK, NEW t \in Links, NEW kind, token[t].kind = kind, C!Redeem(t, kind)
  PROVE  /\ token' \in [Links -> C!Token]
         /\ \A u \in Links : token'[u].state = "OPEN" =>
               token[u].kind # kind /\ token'[u] = token[u]
<1> DEFINE link == [token[t] EXCEPT !.state = "USED"]
<1>1. link \in C!Token /\ link.state = "USED"
  BY DEF C!TypeOK, C!Token
<1> HIDE DEF link
<1>2. token' = [C!Revoked(kind) EXCEPT ![t] = link]
  BY DEF C!Redeem, link
<1>3. token' \in [Links -> C!Token] /\ token'[t] = link
  BY <1>1, <1>2, RevokedFacts
<1>4. \A u \in Links \ {t} : token'[u] = C!Revoked(kind)[u]
  BY <1>2, RevokedFacts
<1> QED BY <1>1, <1>3, <1>4, RevokedFacts

\* A step after which every open link was open before, of an account that is
\* as it was to invitations, keeps what is said of the links.
LEMMA FewerLinks ==
  ASSUME LinksInv, \A u \in Links : token'[u].state = "OPEN" => token'[u].kind = token[u].kind
                                    /\ token'[u].to = token[u].to /\ token[u].state = "OPEN",
         \/ account'.status = account.status /\ account'.email = account.email
         \/ \A u \in Links : token'[u].state = "OPEN" => token'[u].kind # "ACTIVATION"
  PROVE  C!OneOpenLink' /\ C!InvitationGoesToOwner'
BY DEF LinksInv, C!OneOpenLink, C!InvitationGoesToOwner, C!Open
-----------------------------------------------------------------------------
(* One lemma per operation. *)

LEMMA LinksInitInv == ASSUME C!CredentialsAssumption, C!Init PROVE LinksInv
<1>1. C!TypeOK
  BY DEF C!Init, C!TypeOK, C!Account, C!AccountStatus, C!NoAccount, C!Token, C!NoToken, C!Idle
<1>2. UpdateStillHolds /\ ChangesOfActive
  BY DEF C!Init, UpdateStillHolds, C!TenantLocked, ChangesOfActive
<1>3. C!OneOpenLink /\ C!InvitationGoesToOwner
  BY DEF C!Init, C!OneOpenLink, C!InvitationGoesToOwner, C!Open, C!NoToken
<1> QED BY <1>1, <1>2, <1>3 DEF LinksInv

\* What the new link was mailed for is the account as it is now.
LEMMA IssueKeepsLinks ==
  ASSUME LinksInv, NEW t \in Links, NEW kind \in {"ACTIVATION", "RESET"}, NEW to \in Emails \cup {None},
         C!Issue(t, kind, to),
         kind = "ACTIVATION" => account'.status = "PENDING_ACTIVATION" /\ account'.email = to,
         kind = "RESET" => account' = account
  PROVE  C!OneOpenLink' /\ C!InvitationGoesToOwner'
<1>1. /\ token'[t] = [kind |-> kind, state |-> "OPEN", expired |-> FALSE, to |-> to]
      /\ \A u \in Links \ {t} : token'[u].state = "OPEN" =>
            token[u].kind # kind /\ token'[u] = token[u]
  BY IssueFacts DEF LinksInv
<1>2. C!OneOpenLink'
  BY <1>1 DEF LinksInv, C!OneOpenLink, C!Open
<1>3. C!InvitationGoesToOwner'
  BY <1>1 DEF LinksInv, C!InvitationGoesToOwner, C!Open
<1> QED BY <1>2, <1>3

LEMMA CreateTenantKeepsInv ==
  ASSUME C!CredentialsAssumption, LinksInv, NEW t \in Links, NEW e \in Emails, C!CreateTenant(t, e)
  PROVE  LinksInv'
<1>1. /\ account' \in C!Account
      /\ account'.status = "PENDING_ACTIVATION" /\ account'.email = e /\ account'.password = None
  BY DEF C!CreateTenant, C!Account, C!AccountStatus
<1>2. token' \in [Links -> C!Token]
  BY IssueFacts DEF LinksInv, C!CreateTenant
<1>3. C!TypeOK'
  BY <1>1, <1>2 DEF LinksInv, C!TypeOK, C!CreateTenant
<1>4. C!OneOpenLink' /\ C!InvitationGoesToOwner'
  BY <1>1, IssueKeepsLinks DEF C!CreateTenant
<1>5. UpdateStillHolds' /\ ChangesOfActive'
  BY DEF LinksInv, UpdateStillHolds, ChangesOfActive, C!TenantLocked, C!CreateTenant
<1> QED BY <1>3, <1>4, <1>5 DEF LinksInv

\* A link issued for an account that stays as it is.
LEMMA LinkIssuedKeepsInv ==
  ASSUME C!CredentialsAssumption, LinksInv, NEW t \in Links, C!ResendActivation(t) \/ C!RequestPasswordReset(t)
  PROVE  LinksInv'
<1>1. account.email \in Emails \cup {None}
  BY DEF LinksInv, C!TypeOK, C!Account
<1>2. token' \in [Links -> C!Token] /\ C!OneOpenLink' /\ C!InvitationGoesToOwner'
  BY <1>1, IssueFacts, IssueKeepsLinks DEF LinksInv, C!ResendActivation, C!RequestPasswordReset
<1>3. UNCHANGED <<account, update, change>>
  BY DEF C!ResendActivation, C!RequestPasswordReset
<1> QED BY <1>2, <1>3 DEF LinksInv, C!TypeOK, UpdateStillHolds, ChangesOfActive, C!TenantLocked

LEMMA ActivateAccountKeepsInv ==
  ASSUME C!CredentialsAssumption, LinksInv, NEW t \in Links, NEW p \in Passwords, C!ActivateAccount(t, p)
  PROVE  LinksInv'
<1>1. /\ account' \in C!Account
      /\ account'.status = "ACTIVE" /\ account'.password = p
  BY DEF LinksInv, C!TypeOK, C!ActivateAccount, C!Account, C!AccountStatus
<1>2. /\ token' \in [Links -> C!Token]
      /\ \A u \in Links : token'[u].state = "OPEN" =>
            token[u].kind # "ACTIVATION" /\ token'[u] = token[u]
  BY RedeemFacts DEF LinksInv, C!ActivateAccount, C!Usable, C!Open
<1>3. C!TypeOK'
  BY <1>1, <1>2 DEF LinksInv, C!TypeOK, C!ActivateAccount, C!CredentialsAssumption
<1>4. C!OneOpenLink' /\ C!InvitationGoesToOwner'
  BY <1>2, FewerLinks
<1>5. UpdateStillHolds' /\ ChangesOfActive'
  BY <1>1 DEF LinksInv, UpdateStillHolds, ChangesOfActive, C!TenantLocked, C!ActivateAccount
<1> QED BY <1>3, <1>4, <1>5 DEF LinksInv

LEMMA ConfirmPasswordResetKeepsInv ==
  ASSUME C!CredentialsAssumption, LinksInv, NEW t \in Links, NEW p \in Passwords,
         C!ConfirmPasswordReset(t, p)
  PROVE  LinksInv'
<1>1. /\ account' \in C!Account
      /\ account'.status = "ACTIVE" /\ account.status = "ACTIVE"
      /\ account'.email = account.email /\ account'.password = p
  BY DEF LinksInv, C!TypeOK, C!ConfirmPasswordReset, C!Account
<1>2. /\ token' \in [Links -> C!Token]
      /\ \A u \in Links : token'[u].state = "OPEN" =>
            token[u].kind # "RESET" /\ token'[u] = token[u]
  BY RedeemFacts DEF LinksInv, C!ConfirmPasswordReset, C!Usable, C!Open
<1>3. C!TypeOK'
  BY <1>1, <1>2 DEF LinksInv, C!TypeOK, C!ConfirmPasswordReset, C!CredentialsAssumption
<1>4. C!OneOpenLink' /\ C!InvitationGoesToOwner'
  BY <1>1, <1>2, FewerLinks
<1>5. UpdateStillHolds' /\ ChangesOfActive'
  BY <1>1 DEF LinksInv, UpdateStillHolds, ChangesOfActive, C!TenantLocked, C!ConfirmPasswordReset
<1> QED BY <1>3, <1>4, <1>5 DEF LinksInv

LEMMA ExpireKeepsInv ==
  ASSUME LinksInv, NEW t \in Links, C!Expire(t)
  PROVE  LinksInv'
<1> DEFINE link == [token[t] EXCEPT !.expired = TRUE]
<1>1. /\ link \in C!Token /\ link.state = token[t].state
      /\ link.kind = token[t].kind /\ link.to = token[t].to
  BY DEF LinksInv, C!TypeOK, C!Token
<1>2. token' = [token EXCEPT ![t] = link] /\ UNCHANGED <<account, update, change>>
  BY DEF C!Expire
<1> HIDE DEF link
<1>3. C!TypeOK'
  BY <1>1, <1>2 DEF LinksInv, C!TypeOK
<1>4. \A u \in Links : /\ token'[u].state = token[u].state
                        /\ token'[u].kind = token[u].kind /\ token'[u].to = token[u].to
  BY <1>1, <1>2 DEF LinksInv, C!TypeOK
<1>5. C!OneOpenLink' /\ C!InvitationGoesToOwner'
  BY <1>2, <1>4, FewerLinks
<1> QED BY <1>2, <1>3, <1>5 DEF LinksInv, UpdateStillHolds, ChangesOfActive, C!TenantLocked

LEMMA UpdateBeginKeepsInv ==
  ASSUME LinksInv, NEW e \in Emails, C!UpdateBegin(e)
  PROVE  LinksInv'
<1> DEFINE read == [status |-> account.status, email |-> account.email, next |-> e]
<1>1. /\ read \in [status : C!AccountStatus, email : Emails \cup {None}, next : Emails \cup {None}]
      /\ read.status = account.status
  BY DEF LinksInv, C!TypeOK, C!Account
<1>2. update' = read /\ UNCHANGED <<account, token, change>>
  BY DEF C!UpdateBegin
<1> HIDE DEF read
<1>3. C!TypeOK' /\ ChangesOfActive' /\ C!OneOpenLink' /\ C!InvitationGoesToOwner'
  BY <1>1, <1>2 DEF LinksInv, C!TypeOK, ChangesOfActive, C!OneOpenLink, C!InvitationGoesToOwner, C!Open
<1>4. UpdateStillHolds'
  BY <1>1, <1>2 DEF C!UpdateBegin, UpdateStillHolds
<1> QED BY <1>3, <1>4 DEF LinksInv

\* The address moves; an invitation that is open was open when the account was
\* read, and is revoked.
LEMMA UpdateCommitKeepsInv ==
  ASSUME LinksInv, C!UpdateCommit
  PROVE  LinksInv'
<1>1. C!Idle \in [status : C!AccountStatus, email : Emails \cup {None}, next : Emails \cup {None}]
  BY DEF C!Idle, C!AccountStatus
<1>2. update' = C!Idle /\ change' = change /\ C!TenantLocked
  BY DEF C!UpdateCommit
<1>3. CASE UNCHANGED <<account, token>>
  BY <1>1, <1>2, <1>3 DEF LinksInv, C!TypeOK, UpdateStillHolds, C!TenantLocked, ChangesOfActive,
                          C!OneOpenLink, C!InvitationGoesToOwner, C!Open
<1>4. CASE /\ account' = [account EXCEPT !.email = update.next]
           /\ token' = IF update.status = "PENDING_ACTIVATION" THEN C!Revoked("ACTIVATION") ELSE token
  <2>1. /\ account' \in C!Account
        /\ account'.status = account.status /\ account'.password = account.password
    BY <1>4 DEF LinksInv, C!TypeOK, C!Account
  <2>2. token' \in [Links -> C!Token]
        /\ \A u \in Links : token'[u].state = "OPEN" => token'[u] = token[u]
    BY <1>4, RevokedFacts DEF LinksInv, C!TypeOK
  <2>3. C!TypeOK'
    BY <1>1, <1>2, <2>1, <2>2 DEF LinksInv, C!TypeOK
  <2>4. \A u \in Links : token'[u].state = "OPEN" => token'[u].kind # "ACTIVATION"
    <3>1. CASE update.status = "PENDING_ACTIVATION"
      BY <1>4, <2>2, <3>1, RevokedFacts DEF LinksInv
    <3>2. CASE update.status # "PENDING_ACTIVATION"
      <4>1. account.status # "PENDING_ACTIVATION"
        BY <1>2, <3>2 DEF LinksInv, UpdateStillHolds
      <4> QED BY <2>2, <4>1 DEF LinksInv, C!InvitationGoesToOwner, C!Open
    <3> QED BY <3>1, <3>2
  <2>5. C!OneOpenLink' /\ C!InvitationGoesToOwner'
    BY <2>2, <2>4, FewerLinks
  <2>6. UpdateStillHolds' /\ ChangesOfActive'
    BY <1>2, <2>1 DEF LinksInv, UpdateStillHolds, C!TenantLocked, ChangesOfActive
  <2> QED BY <2>3, <2>5, <2>6 DEF LinksInv
<1> QED BY <1>3, <1>4 DEF C!UpdateCommit

LEMMA UpdateAbortKeepsInv ==
  ASSUME LinksInv, C!UpdateAbort
  PROVE  LinksInv'
<1>1. C!Idle \in [status : C!AccountStatus, email : Emails \cup {None}, next : Emails \cup {None}]
  BY DEF C!Idle, C!AccountStatus
<1> QED BY <1>1 DEF C!UpdateAbort, LinksInv, C!TypeOK, UpdateStillHolds, C!TenantLocked, ChangesOfActive,
                    C!OneOpenLink, C!InvitationGoesToOwner, C!Open

LEMMA SetAccountStatusKeepsInv ==
  ASSUME LinksInv, NEW s \in C!AccountStatus, C!SetAccountStatus(s)
  PROVE  LinksInv'
<1>1. /\ account' \in C!Account /\ account'.password = account.password
      /\ account'.status \in {"ACTIVE", "DISABLED"} /\ account.status \in {"ACTIVE", "DISABLED"}
  BY DEF LinksInv, C!TypeOK, C!Account, C!SetAccountStatus
<1>2. ~C!TenantLocked /\ UNCHANGED <<token, update, change>>
  BY DEF C!SetAccountStatus
<1>3. C!TypeOK'
  BY <1>1, <1>2 DEF LinksInv, C!TypeOK
<1>4. \A u \in Links : token'[u].state = "OPEN" => token'[u].kind # "ACTIVATION"
  BY <1>1, <1>2 DEF LinksInv, C!InvitationGoesToOwner, C!Open
<1>5. C!OneOpenLink' /\ C!InvitationGoesToOwner'
  BY <1>2, <1>4, FewerLinks
<1> QED BY <1>1, <1>2, <1>3, <1>5 DEF LinksInv, UpdateStillHolds, C!TenantLocked, ChangesOfActive

LEMMA DeleteTenantKeepsInv ==
  ASSUME LinksInv, C!DeleteTenant
  PROVE  LinksInv'
<1>1. account' \in C!Account /\ account'.status = "DELETED" /\ account'.password = None
  BY DEF C!DeleteTenant, C!NoAccount, C!Account, C!AccountStatus
<1>2. ~C!TenantLocked /\ UNCHANGED <<update, change>>
  BY DEF C!DeleteTenant
<1>3. token' \in [Links -> C!Token] /\ \A u \in Links : token'[u].state # "OPEN"
  BY DEF LinksInv, C!TypeOK, C!DeleteTenant, C!NoToken, C!Token
<1>4. C!TypeOK'
  BY <1>1, <1>2, <1>3 DEF LinksInv, C!TypeOK
<1>5. C!OneOpenLink' /\ C!InvitationGoesToOwner'
  BY <1>3 DEF C!OneOpenLink, C!InvitationGoesToOwner, C!Open
<1> QED BY <1>1, <1>2, <1>4, <1>5 DEF LinksInv, UpdateStillHolds, C!TenantLocked, ChangesOfActive

LEMMA BeginChangeKeepsInv ==
  ASSUME C!CredentialsAssumption, LinksInv, NEW c \in Changes, C!BeginChange(c)
  PROVE  LinksInv'
<1>1. account.password \in Passwords \cup {None} /\ account.status = "ACTIVE"
  BY DEF LinksInv, C!TypeOK, C!Account, C!BeginChange
<1>2. change' = [change EXCEPT ![c] = account.password] /\ UNCHANGED <<account, token, update>>
  BY DEF C!BeginChange
<1>3. C!TypeOK'
  BY <1>1, <1>2 DEF LinksInv, C!TypeOK
<1>4. ChangesOfActive'
  BY <1>1, <1>2 DEF ChangesOfActive
<1>5. UpdateStillHolds' /\ C!OneOpenLink' /\ C!InvitationGoesToOwner'
  BY <1>2 DEF LinksInv, UpdateStillHolds, C!TenantLocked, C!OneOpenLink, C!InvitationGoesToOwner, C!Open
<1> QED BY <1>3, <1>4, <1>5 DEF LinksInv

LEMMA CommitChangeKeepsInv ==
  ASSUME C!CredentialsAssumption, LinksInv, NEW c \in Changes, NEW p \in Passwords, C!CommitChange(c, p)
  PROVE  LinksInv'
<1>1. account.status \in {"ACTIVE", "DISABLED", "DELETED"}
  BY DEF LinksInv, ChangesOfActive, C!CommitChange
<1>2. /\ account' \in C!Account
      /\ account'.status = account.status /\ account'.email = account.email
      /\ account'.password = None <=> account.status = "DELETED"
  <2>1. CASE account.status = "DELETED"
    BY <2>1 DEF LinksInv, C!TypeOK, C!CommitChange
  <2>2. CASE account.status # "DELETED"
    BY <2>2 DEF LinksInv, C!TypeOK, C!Account, C!CommitChange, C!CredentialsAssumption
  <2> QED BY <2>1, <2>2
<1>3. change' = [change EXCEPT ![c] = None] /\ UNCHANGED <<token, update>>
  BY DEF C!CommitChange
<1>4. C!TypeOK'
  BY <1>1, <1>2, <1>3 DEF LinksInv, C!TypeOK
<1>5. C!OneOpenLink' /\ C!InvitationGoesToOwner'
  BY <1>2, <1>3, FewerLinks
<1>6. UpdateStillHolds' /\ ChangesOfActive'
  BY <1>1, <1>2, <1>3 DEF LinksInv, UpdateStillHolds, C!TenantLocked, ChangesOfActive
<1> QED BY <1>4, <1>5, <1>6 DEF LinksInv

LEMMA LinksStepInv == ASSUME C!CredentialsAssumption, LinksInv, [C!Next]_(C!vars) PROVE LinksInv'
<1>1. ASSUME NEW t \in Links, NEW e \in Emails, C!CreateTenant(t, e) PROVE LinksInv'
  BY <1>1, CreateTenantKeepsInv
<1>2. ASSUME NEW t \in Links, NEW p \in Passwords, C!ActivateAccount(t, p) PROVE LinksInv'
  BY <1>2, ActivateAccountKeepsInv
<1>3. ASSUME NEW t \in Links, NEW p \in Passwords, C!ConfirmPasswordReset(t, p) PROVE LinksInv'
  BY <1>3, ConfirmPasswordResetKeepsInv
<1>4. ASSUME NEW t \in Links, C!ResendActivation(t) \/ C!RequestPasswordReset(t) PROVE LinksInv'
  BY <1>4, LinkIssuedKeepsInv
<1>5. ASSUME NEW t \in Links, C!Expire(t) PROVE LinksInv'
  BY <1>5, ExpireKeepsInv
<1>6. ASSUME NEW e \in Emails, C!UpdateBegin(e) PROVE LinksInv'
  BY <1>6, UpdateBeginKeepsInv
<1>7. ASSUME C!UpdateCommit \/ C!UpdateAbort \/ C!DeleteTenant PROVE LinksInv'
  BY <1>7, UpdateCommitKeepsInv, UpdateAbortKeepsInv, DeleteTenantKeepsInv
<1>8. ASSUME NEW s \in C!AccountStatus, C!SetAccountStatus(s) PROVE LinksInv'
  BY <1>8, SetAccountStatusKeepsInv
<1>9. ASSUME NEW c \in Changes, C!BeginChange(c) PROVE LinksInv'
  BY <1>9, BeginChangeKeepsInv
<1>10. ASSUME NEW c \in Changes, NEW p \in Passwords, C!CommitChange(c, p) PROVE LinksInv'
  BY <1>10, CommitChangeKeepsInv
<1>11. ASSUME UNCHANGED C!vars PROVE LinksInv'
  BY <1>11 DEF C!vars, LinksInv, C!TypeOK, UpdateStillHolds, C!TenantLocked, ChangesOfActive, C!OneOpenLink,
               C!InvitationGoesToOwner, C!Open
<1> QED
  BY <1>1, <1>2, <1>3, <1>4, <1>5, <1>6, <1>7, <1>8, <1>9, <1>10, <1>11 DEF C!Next
-----------------------------------------------------------------------------
\* The invariant that carries the theorems below holds in every reachable state.
THEOREM LinksInvariance == ASSUME C!CredentialsAssumption PROVE C!Spec => []LinksInv
BY LinksInitInv, LinksStepInv, PTL DEF C!Spec

\* Rows keep their columns, and an account has a password exactly from its
\* activation to its deletion, with a change of it under way at any time.
THEOREM LinksTypeCorrect == ASSUME C!CredentialsAssumption PROVE C!Spec => []C!TypeOK
<1>1. LinksInv => C!TypeOK
  BY DEF LinksInv
<1> QED BY <1>1, LinksInvariance, PTL

\* No interleaving of invitations, changes of address and activations leaves
\* two links of a kind open, or an invitation at an address the account has
\* given up, or for an account that no longer waits for it.
THEOREM InvitationsCurrent == ASSUME C!CredentialsAssumption PROVE C!Spec => []C!InvitationsAreCurrent
<1>1. LinksInv => C!InvitationsAreCurrent
  BY DEF LinksInv, C!InvitationsAreCurrent
<1> QED BY <1>1, LinksInvariance, PTL
-----------------------------------------------------------------------------
(* The throttle of logins. *)
\* The bound is inductive only with what an open lock says: the failures that
\* were not locked for are fewer than the limit, so whoever begins now adds to
\* less than that.
UnlockedIsBelow == \A k \in L!Keys : ~throttle[k].locked => since[k] <= L!Threshold(k) - 1

ThrottleInv == L!TypeOK /\ UnlockedIsBelow /\ L!FailuresBounded
-----------------------------------------------------------------------------
(* Calls under way. *)

LEMMA LimitsAreNumbers ==
  ASSUME L!LoginThrottleAssumption, NEW k \in L!Keys
  PROVE  L!Threshold(k) \in Nat /\ L!Threshold(k) >= 1 /\ MaxFailures \in Nat /\ MaxFailures >= 1
BY SameSets DEF L!LoginThrottleAssumption, L!Threshold

LEMMA UnderWayCounts ==
  ASSUME L!LoginThrottleAssumption, NEW S, S \subseteq Logins
  PROVE  /\ IsFiniteSet(S) /\ Cardinality(S) \in Nat
         /\ Cardinality(Logins) \in Nat /\ Cardinality(S) <= Cardinality(Logins)
BY SameSets, FS_Subset, FS_CardinalityType DEF L!LoginThrottleAssumption

\* A call that is done leaves those under way, once.
LEMMA DoneCounts ==
  ASSUME L!LoginThrottleAssumption, L!TypeOK, NEW n \in Logins, L!Done(n), NEW k \in L!Keys
  PROVE  /\ Cardinality(L!UnderWay(k)) \in Nat /\ Cardinality(L!UnderWay(k)') \in Nat
         /\ Cardinality(L!UnderWay(k)') =
               Cardinality(L!UnderWay(k)) - (IF k \in login[n] THEN 1 ELSE 0)
         /\ login' \in [Logins -> SUBSET L!Keys]
<1>1. login' \in [Logins -> SUBSET L!Keys]
  BY DEF L!TypeOK, L!Done
<1>2. L!UnderWay(k)' = L!UnderWay(k) \ {n}
  BY DEF L!TypeOK, L!Done, L!UnderWay
<1>3. n \in L!UnderWay(k) <=> k \in login[n]
  BY DEF L!UnderWay
<1>4. IsFiniteSet(L!UnderWay(k)) /\ Cardinality(L!UnderWay(k)) \in Nat
  <2>1. L!UnderWay(k) \subseteq Logins
    BY DEF L!UnderWay
  <2> QED BY <2>1, UnderWayCounts
<1>5. Cardinality(L!UnderWay(k) \ {n}) =
        IF n \in L!UnderWay(k) THEN Cardinality(L!UnderWay(k)) - 1 ELSE Cardinality(L!UnderWay(k))
  BY <1>4, FS_RemoveElement
<1>6. Cardinality(L!UnderWay(k)') \in Nat
  <2>1. L!UnderWay(k)' \subseteq Logins
    BY DEF L!UnderWay
  <2> QED BY <2>1, UnderWayCounts
<1> QED BY <1>1, <1>2, <1>3, <1>4, <1>5, <1>6
-----------------------------------------------------------------------------
(* One lemma per operation. *)

LEMMA ThrottleInitInv == ASSUME L!LoginThrottleAssumption, L!Init PROVE ThrottleInv
<1>1. L!TypeOK
  BY SameSets DEF L!Init, L!TypeOK, L!Throttle, L!NoRow, L!LoginThrottleAssumption
<1>2. ASSUME NEW k \in L!Keys
      PROVE  /\ since[k] <= L!Threshold(k) - 1
             /\ since[k] + Cardinality(L!UnderWay(k)) <= L!Threshold(k) - 1 + Cardinality(Logins)
  <2>1. since[k] = 0
    BY DEF L!Init
  <2>2. L!UnderWay(k) = {}
    BY DEF L!Init, L!UnderWay
  <2>3. Cardinality(L!UnderWay(k)) = 0
    BY <2>2, FS_EmptySet
  <2>4. Cardinality(Logins) \in Nat
    BY UnderWayCounts
  <2> QED BY <2>1, <2>3, <2>4, LimitsAreNumbers
<1> QED BY SameSets, <1>1, <1>2 DEF ThrottleInv, UnlockedIsBelow, L!FailuresBounded

\* A call begins where nothing is locked.
LEMMA BeginLoginKeepsInv ==
  ASSUME L!LoginThrottleAssumption, ThrottleInv, NEW n \in Logins, NEW i \in Identifiers, NEW ip \in Gateways,
         L!BeginLogin(n, i, ip)
  PROVE  ThrottleInv'
<1>1. L!TypeOK'
  BY DEF ThrottleInv, L!TypeOK, L!BeginLogin, L!Keys
<1>2. UnlockedIsBelow'
  BY DEF ThrottleInv, UnlockedIsBelow, L!BeginLogin
<1>3. ASSUME NEW k \in L!Keys
      PROVE  since'[k] + Cardinality(L!UnderWay(k)') <= L!Threshold(k) - 1 + Cardinality(Logins)
  <2>1. since' = since
    BY DEF L!BeginLogin
  <2>2. CASE k \in {i, ip}
    <3>1. ~throttle[k].locked
      BY <2>2 DEF L!BeginLogin, L!Throttled
    <3>2. since[k] <= L!Threshold(k) - 1 /\ since[k] \in Nat
      BY <3>1 DEF ThrottleInv, UnlockedIsBelow, L!TypeOK
    <3>3. L!UnderWay(k)' \subseteq Logins
      BY DEF L!UnderWay
    <3>4. /\ Cardinality(L!UnderWay(k)') \in Nat /\ Cardinality(Logins) \in Nat
          /\ Cardinality(L!UnderWay(k)') <= Cardinality(Logins)
      BY <3>3, UnderWayCounts
    <3> QED BY <2>1, <3>2, <3>4, LimitsAreNumbers
  <2>3. CASE k \notin {i, ip}
    <3>1. L!UnderWay(k)' = L!UnderWay(k)
      BY <2>3 DEF ThrottleInv, L!TypeOK, L!BeginLogin, L!Busy, L!UnderWay
    <3> QED BY SameSets, <2>1, <3>1 DEF ThrottleInv, L!FailuresBounded
  <2> QED BY <2>2, <2>3
<1> QED BY SameSets, <1>1, <1>2, <1>3 DEF ThrottleInv, L!FailuresBounded

\* A failure is one call less under way and at most one failure more.
LEMMA RecordLoginFailureKeepsInv ==
  ASSUME L!LoginThrottleAssumption, ThrottleInv, NEW n \in Logins, L!RecordLoginFailure(n)
  PROVE  ThrottleInv'
<1> USE DEF ThrottleInv
<1>1. ASSUME NEW k \in L!Keys
      PROVE  /\ throttle'[k] \in L!Throttle /\ since'[k] \in 0..MaxFailures
             /\ since'[k] <= throttle'[k].failed
             /\ ~throttle'[k].locked => since'[k] <= L!Threshold(k) - 1
             /\ since'[k] <= since[k] + IF k \in login[n] THEN 1 ELSE 0
  <2>1. /\ throttle[k] \in L!Throttle /\ since[k] \in 0..MaxFailures
        /\ since[k] <= throttle[k].failed
        /\ ~throttle[k].locked => since[k] <= L!Threshold(k) - 1
    BY DEF L!TypeOK, UnlockedIsBelow
  <2>2. CASE k \notin login[n]
    <3>1. throttle'[k] = throttle[k] /\ since'[k] = since[k]
      BY <2>2 DEF L!RecordLoginFailure
    <3> QED BY <2>1, <2>2, <3>1
  <2>3. CASE k \in login[n]
    <3>1. /\ throttle'[k] = L!RowAfterFailure(k)
          /\ L!Failed(k) <= MaxFailures
          /\ since'[k] = IF throttle[k].old THEN 1 ELSE since[k] + 1
      BY <2>3 DEF L!RecordLoginFailure, L!SinceAfterFailure
    <3>2. L!Failed(k) \in 0..MaxFailures /\ since'[k] <= L!Failed(k)
      BY <2>1, <3>1, LimitsAreNumbers DEF L!Failed, L!Throttle
    <3>3. /\ throttle'[k] \in L!Throttle
          /\ throttle'[k].failed = L!Failed(k)
          /\ ~throttle'[k].locked => L!Failed(k) < L!Threshold(k)
      <4> DEFINE locks == throttle[k].locked \/ L!LockSecondsFor(k, L!Failed(k))
      <4>1. throttle'[k] = [failed |-> L!Failed(k), old |-> FALSE, locked |-> locks]
        BY <3>1 DEF L!RowAfterFailure
      <4>2. locks \in BOOLEAN
        OBVIOUS
      <4>3. ~locks => L!Failed(k) < L!Threshold(k)
        BY <3>2, LimitsAreNumbers DEF L!LockSecondsFor
      <4> HIDE DEF locks
      <4>4. throttle'[k] \in L!Throttle
        BY <3>2, <4>1, <4>2 DEF L!Throttle
      <4>5. throttle'[k].failed = L!Failed(k) /\ throttle'[k].locked = locks
        BY <4>1
      <4> QED BY <4>3, <4>4, <4>5
    <3> QED BY <2>1, <2>3, <3>1, <3>2, <3>3, LimitsAreNumbers DEF L!Throttle
  <2> QED BY <2>2, <2>3
<1>2. L!Done(n)
  BY DEF L!RecordLoginFailure
<1>3. L!TypeOK'
  <2>1. throttle' \in [L!Keys -> L!Throttle] /\ since' \in [L!Keys -> 0..MaxFailures]
    BY <1>1 DEF L!RecordLoginFailure
  <2>2. login' \in [Logins -> SUBSET L!Keys]
    BY <1>2 DEF L!TypeOK, L!Done
  <2> QED BY <1>1, <2>1, <2>2 DEF L!TypeOK
<1>4. L!FailuresBounded'
  <2> SUFFICES ASSUME NEW k \in L!Keys
               PROVE  since'[k] + Cardinality(L!UnderWay(k)') <= L!Threshold(k) - 1 + Cardinality(Logins)
    BY SameSets DEF L!FailuresBounded
  <2>1. since[k] + Cardinality(L!UnderWay(k)) <= L!Threshold(k) - 1 + Cardinality(Logins)
    BY SameSets DEF L!FailuresBounded
  <2>2. since[k] \in Nat /\ since'[k] \in Nat
    BY <1>1 DEF L!TypeOK
  <2>3. Cardinality(Logins) \in Nat
    BY UnderWayCounts
  <2> QED BY <1>1, <1>2, <2>1, <2>2, <2>3, DoneCounts, LimitsAreNumbers
<1> QED BY <1>1, <1>3, <1>4 DEF UnlockedIsBelow

\* Whatever ends a call otherwise adds no failure.
LEMMA CallEndsKeepsInv ==
  ASSUME L!LoginThrottleAssumption, ThrottleInv, NEW n \in Logins, L!LoginSucceeds(n) \/ L!LoginAborts(n)
  PROVE  ThrottleInv'
<1> USE DEF ThrottleInv
<1>1. ASSUME NEW k \in L!Keys
      PROVE  /\ throttle'[k] \in L!Throttle /\ since'[k] \in 0..MaxFailures
             /\ since'[k] <= throttle'[k].failed
             /\ ~throttle'[k].locked => since'[k] <= L!Threshold(k) - 1
             /\ since'[k] <= since[k]
  <2>1. /\ throttle[k] \in L!Throttle /\ since[k] \in 0..MaxFailures
        /\ since[k] <= throttle[k].failed
        /\ ~throttle[k].locked => since[k] <= L!Threshold(k) - 1
    BY DEF L!TypeOK, UnlockedIsBelow
  <2>2. \/ throttle'[k] = throttle[k] /\ since'[k] = since[k]
        \/ throttle'[k] = L!NoRow /\ since'[k] = 0
    BY DEF L!LoginSucceeds, L!LoginAborts
  <2>3. /\ L!Threshold(k) \in Nat /\ L!Threshold(k) >= 1 /\ MaxFailures \in Nat
    BY LimitsAreNumbers
  <2>4. CASE throttle'[k] = throttle[k] /\ since'[k] = since[k]
    BY <2>1, <2>3, <2>4
  <2>5. CASE throttle'[k] = L!NoRow /\ since'[k] = 0
    <3>1. L!NoRow \in L!Throttle /\ L!NoRow.failed = 0
      BY <2>3 DEF L!NoRow, L!Throttle
    <3> QED BY <2>1, <2>3, <2>5, <3>1
  <2> QED BY <2>2, <2>4, <2>5
<1>2. L!Done(n)
  BY DEF L!LoginSucceeds, L!LoginAborts
<1>3. L!TypeOK'
  <2>1. throttle' \in [L!Keys -> L!Throttle] /\ since' \in [L!Keys -> 0..MaxFailures]
    BY <1>1 DEF L!TypeOK, L!LoginSucceeds, L!LoginAborts
  <2>2. login' \in [Logins -> SUBSET L!Keys]
    BY <1>2 DEF L!TypeOK, L!Done
  <2> QED BY <1>1, <2>1, <2>2 DEF L!TypeOK
<1>4. L!FailuresBounded'
  <2> SUFFICES ASSUME NEW k \in L!Keys
               PROVE  since'[k] + Cardinality(L!UnderWay(k)') <= L!Threshold(k) - 1 + Cardinality(Logins)
    BY SameSets DEF L!FailuresBounded
  <2>1. since[k] + Cardinality(L!UnderWay(k)) <= L!Threshold(k) - 1 + Cardinality(Logins)
    BY SameSets DEF L!FailuresBounded
  <2>2. since[k] \in Nat /\ since'[k] \in Nat
    BY <1>1 DEF L!TypeOK
  <2>3. Cardinality(Logins) \in Nat
    BY UnderWayCounts
  <2> QED BY <1>1, <1>2, <2>1, <2>2, <2>3, DoneCounts, LimitsAreNumbers
<1> QED BY <1>1, <1>3, <1>4 DEF UnlockedIsBelow

\* Time ends windows and locks; the end of a lock starts the count anew.
LEMMA TimeKeepsInv ==
  ASSUME L!LoginThrottleAssumption, ThrottleInv, NEW q \in L!Keys, L!WindowPasses(q) \/ L!LockPasses(q)
  PROVE  ThrottleInv'
<1> USE DEF ThrottleInv
<1>1. ASSUME NEW k \in L!Keys
      PROVE  /\ throttle'[k] \in L!Throttle /\ since'[k] \in 0..MaxFailures
             /\ since'[k] <= throttle'[k].failed
             /\ ~throttle'[k].locked => since'[k] <= L!Threshold(k) - 1
             /\ since'[k] <= since[k]
  <2>1. /\ throttle[k] \in L!Throttle /\ since[k] \in 0..MaxFailures
        /\ since[k] <= throttle[k].failed
        /\ ~throttle[k].locked => since[k] <= L!Threshold(k) - 1
    BY DEF L!TypeOK, UnlockedIsBelow
  <2>2. \/ throttle'[k] = throttle[k] /\ since'[k] = since[k]
        \/ throttle'[k] = [throttle[k] EXCEPT !.old = TRUE] /\ since'[k] = since[k]
        \/ throttle'[k] = [throttle[k] EXCEPT !.locked = FALSE] /\ since'[k] = 0
    BY DEF L!TypeOK, L!WindowPasses, L!LockPasses
  <2>3. /\ L!Threshold(k) \in Nat /\ L!Threshold(k) >= 1 /\ MaxFailures \in Nat
    BY LimitsAreNumbers
  <2>4. CASE throttle'[k] = throttle[k] /\ since'[k] = since[k]
    BY <2>1, <2>3, <2>4
  <2>5. CASE throttle'[k] = [throttle[k] EXCEPT !.old = TRUE] /\ since'[k] = since[k]
    <3>1. /\ throttle'[k] \in L!Throttle
          /\ throttle'[k].failed = throttle[k].failed
          /\ throttle'[k].locked = throttle[k].locked
      BY <2>1, <2>5 DEF L!Throttle
    <3> QED BY <2>1, <2>3, <2>5, <3>1
  <2>6. CASE throttle'[k] = [throttle[k] EXCEPT !.locked = FALSE] /\ since'[k] = 0
    <3>1. throttle'[k] \in L!Throttle
      BY <2>1, <2>6 DEF L!Throttle
    <3>2. throttle'[k].failed \in Nat
      BY <2>3, <3>1 DEF L!Throttle
    <3> QED BY <2>1, <2>3, <2>6, <3>1, <3>2
  <2> QED BY <2>2, <2>4, <2>5, <2>6
<1>2. login' = login
  BY DEF L!WindowPasses, L!LockPasses
<1>3. L!TypeOK'
  <2>1. throttle' \in [L!Keys -> L!Throttle] /\ since' \in [L!Keys -> 0..MaxFailures]
    BY <1>1 DEF L!TypeOK, L!WindowPasses, L!LockPasses
  <2> QED BY <1>1, <1>2, <2>1 DEF L!TypeOK
<1>4. L!FailuresBounded'
  <2> SUFFICES ASSUME NEW k \in L!Keys
               PROVE  since'[k] + Cardinality(L!UnderWay(k)') <= L!Threshold(k) - 1 + Cardinality(Logins)
    BY SameSets DEF L!FailuresBounded
  <2>1. since[k] + Cardinality(L!UnderWay(k)) <= L!Threshold(k) - 1 + Cardinality(Logins)
    BY SameSets DEF L!FailuresBounded
  <2>2. L!UnderWay(k)' = L!UnderWay(k) /\ L!UnderWay(k) \subseteq Logins
    BY <1>2 DEF L!UnderWay
  <2>3. Cardinality(L!UnderWay(k)) \in Nat /\ Cardinality(Logins) \in Nat
    BY <2>2, UnderWayCounts
  <2>4. since[k] \in Nat /\ since'[k] \in Nat
    BY <1>1 DEF L!TypeOK
  <2> QED BY <1>1, <2>1, <2>2, <2>3, <2>4, LimitsAreNumbers
<1> QED BY <1>1, <1>3, <1>4 DEF UnlockedIsBelow

LEMMA ThrottleStepInv == ASSUME L!LoginThrottleAssumption, ThrottleInv, [L!Next]_(L!vars) PROVE ThrottleInv'
<1>1. ASSUME NEW n \in Logins, NEW i \in Identifiers, NEW ip \in Gateways, L!BeginLogin(n, i, ip)
      PROVE  ThrottleInv'
  BY <1>1, BeginLoginKeepsInv
<1>2. ASSUME NEW n \in Logins, L!RecordLoginFailure(n) PROVE ThrottleInv'
  BY <1>2, RecordLoginFailureKeepsInv
<1>3. ASSUME NEW n \in Logins, L!LoginSucceeds(n) \/ L!LoginAborts(n) PROVE ThrottleInv'
  BY <1>3, CallEndsKeepsInv
<1>4. ASSUME NEW k \in L!Keys, L!WindowPasses(k) \/ L!LockPasses(k) PROVE ThrottleInv'
  BY <1>4, TimeKeepsInv
<1>5. ASSUME UNCHANGED L!vars PROVE ThrottleInv'
  BY SameSets, <1>5 DEF L!vars, ThrottleInv, L!TypeOK, UnlockedIsBelow, L!FailuresBounded, L!UnderWay
<1> QED BY <1>1, <1>2, <1>3, <1>4, <1>5 DEF L!Next
-----------------------------------------------------------------------------
\* The invariant that carries the theorems below holds in every reachable state.
THEOREM ThrottleInvariance == ASSUME L!LoginThrottleAssumption PROVE L!Spec => []ThrottleInv
BY ThrottleInitInv, ThrottleStepInv, PTL DEF L!Spec

\* The rows keep their columns and count every failure of their period.
THEOREM ThrottleTypeCorrect == ASSUME L!LoginThrottleAssumption PROVE L!Spec => []L!TypeOK
<1>1. ThrottleInv => L!TypeOK
  BY DEF ThrottleInv
<1> QED BY <1>1, ThrottleInvariance, PTL

\* However many calls read the throttle before any of them has failed, an
\* identifier or address sees fewer failures between two locks than its limit
\* and the number of calls that can be under way together.
THEOREM Bounded == ASSUME L!LoginThrottleAssumption PROVE L!Spec => []L!FailuresBounded
<1>1. ThrottleInv => L!FailuresBounded
  BY DEF ThrottleInv
<1> QED BY <1>1, ThrottleInvariance, PTL
-----------------------------------------------------------------------------
(* The limit on requests for a reset. *)
\* A row is there once its call is done.
RowsOfDone == \A n \in Resets : reset[n].recent => reset[n].step \in {"ACCEPTED", "REFUSED"}

Exclusive == \A n, q \in Resets, k \in R!Keys : R!Holds(n, k) /\ R!Holds(q, k) => n = q

\* What a call has counted is still true when it commits: that takes the locks.
CountStillHolds ==
    \A n \in Resets : reset[n].step = "PASSED" =>
        \A k \in reset[n].keys : Cardinality(R!Recent(k)) <= R!Limit(k) - 1

ResetsInv == R!TypeOK /\ RowsOfDone /\ Exclusive /\ CountStillHolds /\ R!ResetsWithinLimit
-----------------------------------------------------------------------------
(* Rows and locks. *)

LEMMA LimitIsNumber ==
  ASSUME R!ResetLimitsAssumption, NEW k
  PROVE  R!Limit(k) \in Nat /\ R!Limit(k) >= 1
BY SameSets DEF R!ResetLimitsAssumption, R!Limit

LEMMA RowCounts ==
  ASSUME R!ResetLimitsAssumption, NEW k
  PROVE  /\ IsFiniteSet(R!Recent(k)) /\ Cardinality(R!Recent(k)) \in Nat
         /\ Cardinality(R!Accepted(k)) \in Nat
         /\ Cardinality(R!Accepted(k)) <= Cardinality(R!Recent(k))
<1>1. R!Recent(k) \subseteq Resets /\ R!Accepted(k) \subseteq R!Recent(k)
  BY DEF R!Recent, R!Accepted
<1>2. IsFiniteSet(R!Recent(k))
  BY SameSets, <1>1, FS_Subset DEF R!ResetLimitsAssumption
<1>3. IsFiniteSet(R!Accepted(k)) /\ Cardinality(R!Accepted(k)) <= Cardinality(R!Recent(k))
  BY <1>1, <1>2, FS_Subset
<1> QED BY <1>2, <1>3, FS_CardinalityType

\* A call that has passed holds the locks of both its keys.
LEMMA PassedHolds ==
  ASSUME R!TypeOK, NEW n \in Resets, reset[n].step \in {"PASSED", "LIMITED"}, NEW k \in reset[n].keys
  PROVE  k \in R!Keys /\ R!Holds(n, k)
BY DEF R!TypeOK, R!Reset, R!Keys, R!Holds, R!Underway

\* A step that changes one call, which has no row before or after it.
LEMMA NoRowChanges ==
  ASSUME ResetsInv, NEW n \in Resets, NEW entry \in R!Reset, reset' = [reset EXCEPT ![n] = entry],
         ~reset[n].recent, ~entry.recent
  PROVE  /\ R!TypeOK' /\ RowsOfDone' /\ R!ResetsWithinLimit'
         /\ \A k : R!Recent(k)' = R!Recent(k)
<1>1. R!TypeOK'
  BY DEF ResetsInv, R!TypeOK
<1>2. RowsOfDone'
  BY DEF ResetsInv, R!TypeOK, RowsOfDone
<1>3. ASSUME NEW k PROVE R!Recent(k)' = R!Recent(k) /\ R!Accepted(k)' = R!Accepted(k)
  <2>1. \A q \in Resets : k \in reset'[q].keys /\ reset'[q].recent
                            <=> k \in reset[q].keys /\ reset[q].recent
    BY DEF ResetsInv, R!TypeOK
  <2>2. R!Recent(k)' = R!Recent(k)
    BY <2>1 DEF R!Recent
  <2>3. \A q \in R!Recent(k) : reset'[q] = reset[q]
    BY DEF ResetsInv, R!TypeOK, R!Recent
  <2> QED BY <2>2, <2>3 DEF R!Accepted
<1>4. R!ResetsWithinLimit'
  BY SameSets, <1>3 DEF ResetsInv, R!ResetsWithinLimit
<1> QED BY <1>1, <1>2, <1>3, <1>4

\* A step after which a call holds no more than before keeps the locks apart.
LEMMA StaysExclusive ==
  ASSUME ResetsInv, NEW n \in Resets, NEW entry, reset' = [reset EXCEPT ![n] = entry],
         \A k \in R!Keys : R!Holds(n, k)' => R!Holds(n, k) \/ \A q \in Resets : ~R!Holds(q, k)
  PROVE  Exclusive'
<1>1. \A q \in Resets, k \in R!Keys : q # n => (R!Holds(q, k)' <=> R!Holds(q, k))
  BY DEF ResetsInv, R!TypeOK, R!Holds
<1> QED BY <1>1 DEF ResetsInv, Exclusive
-----------------------------------------------------------------------------
(* One lemma per operation. *)

LEMMA ResetsInitInv == ASSUME R!ResetLimitsAssumption, R!Init PROVE ResetsInv
<1>1. R!TypeOK
  BY DEF R!Init, R!TypeOK, R!Reset, R!NoReset, R!Step
<1>2. RowsOfDone /\ CountStillHolds
  BY DEF R!Init, RowsOfDone, CountStillHolds, R!NoReset
<1>3. Exclusive
  BY DEF R!Init, Exclusive, R!Holds, R!NoReset
<1>4. ASSUME NEW k \in R!Keys PROVE Cardinality(R!Accepted(k)) <= R!Limit(k)
  <2>1. R!Accepted(k) = {}
    BY DEF R!Init, R!Accepted, R!Recent, R!NoReset
  <2>2. Cardinality(R!Accepted(k)) = 0
    BY <2>1, FS_EmptySet
  <2> QED BY <2>2, LimitIsNumber
<1> QED BY SameSets, <1>1, <1>2, <1>3, <1>4 DEF ResetsInv, R!ResetsWithinLimit

\* The address's lock is taken when nobody holds it.
LEMMA LockIpKeepsInv ==
  ASSUME R!ResetLimitsAssumption, ResetsInv, NEW n \in Resets, NEW i \in Identifiers, NEW ip \in Ips,
         R!LockIp(n, i, ip)
  PROVE  ResetsInv'
<1> DEFINE entry == [reset[n] EXCEPT !.step = "IP_LOCKED", !.keys = {i, ip}]
<1>1. /\ entry \in R!Reset /\ reset' = [reset EXCEPT ![n] = entry]
      /\ entry.step = "IP_LOCKED" /\ entry.keys = {i, ip} /\ entry.recent = reset[n].recent
  BY DEF ResetsInv, R!TypeOK, R!Reset, R!Step, R!Underway, R!Keys, R!LockIp
<1> HIDE DEF entry
<1>2. ~reset[n].recent /\ ~entry.recent
  BY <1>1 DEF ResetsInv, RowsOfDone, R!LockIp
<1>3. R!TypeOK' /\ RowsOfDone' /\ R!ResetsWithinLimit' /\ \A k : R!Recent(k)' = R!Recent(k)
  BY <1>1, <1>2, NoRowChanges
<1>4. reset'[n] = entry
  BY <1>1 DEF ResetsInv, R!TypeOK
<1>5. Exclusive'
  <2>1. ASSUME NEW k \in R!Keys, R!Holds(n, k)' PROVE k = ip
    BY SameSets, <1>1, <1>4, <2>1 DEF R!Holds, R!ResetLimitsAssumption
  <2>2. \A q \in Resets : ~R!Holds(q, ip)
    BY DEF R!LockIp
  <2> QED BY <1>1, <2>1, <2>2, StaysExclusive
<1>6. CountStillHolds'
  BY <1>1, <1>3, <1>4 DEF ResetsInv, R!TypeOK, CountStillHolds
<1> QED BY <1>3, <1>5, <1>6 DEF ResetsInv

\* So is the identifier's.
LEMMA LockIdentifierKeepsInv ==
  ASSUME R!ResetLimitsAssumption, ResetsInv, NEW n \in Resets, R!LockIdentifier(n)
  PROVE  ResetsInv'
<1> DEFINE entry == [reset[n] EXCEPT !.step = "LOCKED"]
<1>1. /\ entry \in R!Reset /\ reset' = [reset EXCEPT ![n] = entry]
      /\ entry.step = "LOCKED" /\ entry.keys = reset[n].keys /\ entry.recent = reset[n].recent
  BY DEF ResetsInv, R!TypeOK, R!Reset, R!Step, R!Underway, R!LockIdentifier, R!Goes
<1> HIDE DEF entry
<1>2. ~reset[n].recent /\ ~entry.recent
  BY <1>1 DEF ResetsInv, RowsOfDone, R!LockIdentifier
<1>3. R!TypeOK' /\ RowsOfDone' /\ R!ResetsWithinLimit' /\ \A k : R!Recent(k)' = R!Recent(k)
  BY <1>1, <1>2, NoRowChanges
<1>4. reset'[n] = entry
  BY <1>1 DEF ResetsInv, R!TypeOK
<1>5. Exclusive'
  <2>1. ASSUME NEW k \in R!Keys, R!Holds(n, k)' PROVE R!Holds(n, k) \/ \A q \in Resets : ~R!Holds(q, k)
    <3>1. k \in reset[n].keys
      BY <1>1, <1>4, <2>1 DEF R!Holds
    <3>2. CASE k \in Ips
      BY <3>1, <3>2 DEF R!LockIdentifier, R!Holds, R!Underway
    <3>3. CASE k \in Identifiers
      BY <3>1, <3>3 DEF R!LockIdentifier
    <3> QED BY <3>2, <3>3 DEF R!Keys
  <2> QED BY <1>1, <2>1, StaysExclusive
<1>6. CountStillHolds'
  BY <1>1, <1>3, <1>4 DEF ResetsInv, R!TypeOK, CountStillHolds
<1> QED BY <1>3, <1>5, <1>6 DEF ResetsInv

\* The count is made under both locks.
LEMMA RequestResetKeepsInv ==
  ASSUME R!ResetLimitsAssumption, ResetsInv, NEW n \in Resets, R!RequestReset(n)
  PROVE  ResetsInv'
<1> DEFINE step == IF R!RateLimited(n) THEN "LIMITED" ELSE "PASSED"
           entry == [reset[n] EXCEPT !.step = step]
<1>1. /\ entry \in R!Reset /\ reset' = [reset EXCEPT ![n] = entry]
      /\ entry.step = step /\ entry.keys = reset[n].keys /\ entry.recent = reset[n].recent
  BY DEF ResetsInv, R!TypeOK, R!Reset, R!Step, R!Underway, R!RequestReset, R!Goes
<1> HIDE DEF entry
<1>2. ~reset[n].recent /\ ~entry.recent
  BY <1>1 DEF ResetsInv, RowsOfDone, R!RequestReset
<1>3. R!TypeOK' /\ RowsOfDone' /\ R!ResetsWithinLimit' /\ \A k : R!Recent(k)' = R!Recent(k)
  BY <1>1, <1>2, NoRowChanges
<1>4. reset'[n] = entry
  BY <1>1 DEF ResetsInv, R!TypeOK
<1>5. Exclusive'
  <2>1. ASSUME NEW k \in R!Keys, R!Holds(n, k)' PROVE R!Holds(n, k)
    BY <1>1, <1>4, <2>1 DEF R!Holds, R!Underway, R!RequestReset
  <2> QED BY <1>1, <2>1, StaysExclusive
<1>6. CountStillHolds'
  <2> SUFFICES ASSUME NEW q \in Resets, reset'[q].step = "PASSED", NEW k \in reset'[q].keys
               PROVE  Cardinality(R!Recent(k)) <= R!Limit(k) - 1
    BY <1>3 DEF CountStillHolds
  <2>1. CASE q # n
    BY <1>1, <2>1 DEF ResetsInv, R!TypeOK, CountStillHolds
  <2>2. CASE q = n
    <3>1. ~R!RateLimited(n) /\ k \in reset[n].keys
      BY <1>1, <1>4, <2>2
    <3>2. ~(Cardinality(R!Recent(k)) >= R!Limit(k))
      BY SameSets, <3>1 DEF R!RateLimited
    <3> QED BY <3>2, RowCounts, LimitIsNumber
  <2> QED BY <2>1, <2>2
<1> QED BY <1>3, <1>5, <1>6 DEF ResetsInv

\* The row is added under both locks, so to no count that somebody relies on.
LEMMA CommitResetKeepsInv ==
  ASSUME R!ResetLimitsAssumption, ResetsInv, NEW n \in Resets, R!CommitReset(n)
  PROVE  ResetsInv'
<1> DEFINE step == IF reset[n].step = "PASSED" THEN "ACCEPTED" ELSE "REFUSED"
           entry == [reset[n] EXCEPT !.step = step, !.recent = TRUE]
<1>1. /\ entry \in R!Reset /\ reset' = [reset EXCEPT ![n] = entry]
      /\ entry.step = step /\ entry.keys = reset[n].keys /\ entry.recent
  BY DEF ResetsInv, R!TypeOK, R!Reset, R!Step, R!CommitReset
<1> HIDE DEF entry
<1>2. reset'[n] = entry /\ \A q \in Resets : q # n => reset'[q] = reset[q]
  BY <1>1 DEF ResetsInv, R!TypeOK
<1>3. R!TypeOK'
  BY <1>1 DEF ResetsInv, R!TypeOK
<1>4. RowsOfDone'
  BY <1>1, <1>2 DEF ResetsInv, RowsOfDone
<1>5. Exclusive'
  <2>1. ASSUME NEW k \in R!Keys PROVE ~R!Holds(n, k)'
    BY <1>1, <1>2 DEF R!Holds, R!Underway
  <2> QED BY <1>1, <2>1, StaysExclusive
<1>6. CountStillHolds'
  <2> SUFFICES ASSUME NEW q \in Resets, reset'[q].step = "PASSED", NEW k \in reset'[q].keys
               PROVE  Cardinality(R!Recent(k)') <= R!Limit(k) - 1
    BY DEF CountStillHolds
  <2>1. q # n /\ reset[q].step = "PASSED" /\ k \in reset[q].keys
    BY <1>1, <1>2
  <2>2. k \notin reset[n].keys
    <3>1. k \in R!Keys /\ R!Holds(q, k)
      BY <2>1, PassedHolds DEF ResetsInv
    <3>2. ~R!Holds(n, k)
      BY <2>1, <3>1 DEF ResetsInv, Exclusive
    <3> QED BY <3>2, PassedHolds DEF ResetsInv, R!CommitReset
  <2>3. R!Recent(k)' = R!Recent(k)
    BY <1>1, <1>2, <2>2 DEF R!Recent
  <2> QED BY <2>1, <2>3 DEF ResetsInv, CountStillHolds
<1>7. R!ResetsWithinLimit'
  <2> SUFFICES ASSUME NEW k \in R!Keys
               PROVE  Cardinality(R!Accepted(k)') <= R!Limit(k)
    BY SameSets DEF R!ResetsWithinLimit
  <2>1. CASE reset[n].step = "PASSED" /\ k \in reset[n].keys
    <3>1. R!Accepted(k)' \subseteq R!Recent(k) \cup {n}
      BY <1>2 DEF R!Accepted, R!Recent
    <3>2. IsFiniteSet(R!Recent(k)) /\ Cardinality(R!Recent(k)) \in Nat
      BY RowCounts
    <3>3. /\ IsFiniteSet(R!Recent(k) \cup {n})
          /\ Cardinality(R!Recent(k) \cup {n}) \in Nat
          /\ Cardinality(R!Recent(k) \cup {n}) <= Cardinality(R!Recent(k)) + 1
      <4>1. /\ IsFiniteSet(R!Recent(k) \cup {n})
            /\ Cardinality(R!Recent(k) \cup {n}) =
                  IF n \in R!Recent(k) THEN Cardinality(R!Recent(k)) ELSE Cardinality(R!Recent(k)) + 1
        BY <3>2, FS_AddElement
      <4> QED BY <3>2, <4>1
    <3>4. Cardinality(R!Accepted(k)') <= Cardinality(R!Recent(k) \cup {n})
          /\ Cardinality(R!Accepted(k)') \in Nat
      BY <3>1, <3>3, FS_Subset, FS_CardinalityType
    <3>5. Cardinality(R!Recent(k)) <= R!Limit(k) - 1
      BY <2>1 DEF ResetsInv, CountStillHolds
    <3> QED BY <3>2, <3>3, <3>4, <3>5, LimitIsNumber
  <2>2. CASE ~(reset[n].step = "PASSED" /\ k \in reset[n].keys)
    <3>1. R!Accepted(k)' = R!Accepted(k)
      <4>1. ~reset[n].recent
        BY DEF ResetsInv, RowsOfDone, R!CommitReset
      <4>2. n \notin R!Accepted(k) /\ n \notin R!Accepted(k)'
        BY <1>1, <1>2, <2>2, <4>1 DEF R!Accepted, R!Recent
      <4> QED BY <1>2, <4>2 DEF R!Accepted, R!Recent
    <3> QED BY SameSets, <3>1 DEF ResetsInv, R!ResetsWithinLimit
  <2> QED BY <2>1, <2>2
<1> QED BY <1>3, <1>4, <1>5, <1>6, <1>7 DEF ResetsInv

\* A transaction that is rolled back leaves nothing behind.
LEMMA AbortResetKeepsInv ==
  ASSUME R!ResetLimitsAssumption, ResetsInv, NEW n \in Resets, R!AbortReset(n)
  PROVE  ResetsInv'
<1>1. R!NoReset \in R!Reset /\ reset' = [reset EXCEPT ![n] = R!NoReset]
  BY DEF R!NoReset, R!Reset, R!Step, R!AbortReset
<1>2. ~reset[n].recent /\ ~R!NoReset.recent
  BY DEF ResetsInv, RowsOfDone, R!AbortReset, R!Underway, R!NoReset
<1>3. R!TypeOK' /\ RowsOfDone' /\ R!ResetsWithinLimit' /\ \A k : R!Recent(k)' = R!Recent(k)
  BY <1>1, <1>2, NoRowChanges
<1>4. reset'[n] = R!NoReset
  BY <1>1 DEF ResetsInv, R!TypeOK
<1>5. Exclusive'
  <2>1. ASSUME NEW k \in R!Keys PROVE ~R!Holds(n, k)'
    BY <1>4 DEF R!Holds, R!Underway, R!NoReset
  <2> QED BY <1>1, <2>1, StaysExclusive
<1>6. CountStillHolds'
  BY <1>1, <1>3, <1>4 DEF ResetsInv, R!TypeOK, CountStillHolds, R!NoReset
<1> QED BY <1>3, <1>5, <1>6 DEF ResetsInv

\* A row that leaves the window only makes counts smaller.
LEMMA RequestAgesKeepsInv ==
  ASSUME R!ResetLimitsAssumption, ResetsInv, NEW n \in Resets, R!RequestAges(n)
  PROVE  ResetsInv'
<1> DEFINE entry == [reset[n] EXCEPT !.recent = FALSE]
<1>1. /\ entry \in R!Reset /\ reset' = [reset EXCEPT ![n] = entry]
      /\ entry.step = reset[n].step /\ entry.keys = reset[n].keys /\ ~entry.recent
  BY DEF ResetsInv, R!TypeOK, R!Reset, R!RequestAges
<1> HIDE DEF entry
<1>2. reset'[n] = entry /\ \A q \in Resets : q # n => reset'[q] = reset[q]
  BY <1>1 DEF ResetsInv, R!TypeOK
<1>3. R!TypeOK' /\ RowsOfDone'
  BY <1>1, <1>2 DEF ResetsInv, R!TypeOK, RowsOfDone
<1>4. Exclusive'
  <2>1. ASSUME NEW k \in R!Keys, R!Holds(n, k)' PROVE R!Holds(n, k)
    BY <1>1, <1>2, <2>1 DEF R!Holds
  <2> QED BY <1>1, <2>1, StaysExclusive
<1>5. ASSUME NEW k
      PROVE  /\ Cardinality(R!Recent(k)') <= Cardinality(R!Recent(k))
             /\ Cardinality(R!Accepted(k)') <= Cardinality(R!Accepted(k))
             /\ Cardinality(R!Recent(k)') \in Nat /\ Cardinality(R!Accepted(k)') \in Nat
             /\ Cardinality(R!Recent(k)) \in Nat /\ Cardinality(R!Accepted(k)) \in Nat
  <2>1. R!Recent(k)' \subseteq R!Recent(k) /\ R!Accepted(k)' \subseteq R!Accepted(k)
    BY <1>1, <1>2 DEF R!Recent, R!Accepted
  <2>2. IsFiniteSet(R!Recent(k)) /\ IsFiniteSet(R!Accepted(k))
    <3>1. R!Accepted(k) \subseteq R!Recent(k)
      BY DEF R!Accepted
    <3> QED BY <3>1, RowCounts, FS_Subset
  <2> QED BY <2>1, <2>2, FS_Subset, FS_CardinalityType
<1>6. CountStillHolds'
  <2> SUFFICES ASSUME NEW q \in Resets, reset'[q].step = "PASSED", NEW k \in reset'[q].keys
               PROVE  Cardinality(R!Recent(k)') <= R!Limit(k) - 1
    BY DEF CountStillHolds
  <2>1. Cardinality(R!Recent(k)) <= R!Limit(k) - 1
    BY <1>1, <1>2 DEF ResetsInv, CountStillHolds
  <2> QED BY <1>5, <2>1, LimitIsNumber
<1>7. R!ResetsWithinLimit'
  <2> SUFFICES ASSUME NEW k \in R!Keys PROVE Cardinality(R!Accepted(k)') <= R!Limit(k)
    BY SameSets DEF R!ResetsWithinLimit
  <2>1. Cardinality(R!Accepted(k)) <= R!Limit(k)
    BY SameSets DEF ResetsInv, R!ResetsWithinLimit
  <2> QED BY <1>5, <2>1, LimitIsNumber
<1> QED BY <1>3, <1>4, <1>6, <1>7 DEF ResetsInv

LEMMA ResetsStepInv == ASSUME R!ResetLimitsAssumption, ResetsInv, [R!Next]_reset PROVE ResetsInv'
<1>1. ASSUME NEW n \in Resets, NEW i \in Identifiers, NEW ip \in Ips, R!LockIp(n, i, ip) PROVE ResetsInv'
  BY <1>1, LockIpKeepsInv
<1>2. ASSUME NEW n \in Resets, R!LockIdentifier(n) PROVE ResetsInv'
  BY <1>2, LockIdentifierKeepsInv
<1>3. ASSUME NEW n \in Resets, R!RequestReset(n) PROVE ResetsInv'
  BY <1>3, RequestResetKeepsInv
<1>4. ASSUME NEW n \in Resets, R!CommitReset(n) PROVE ResetsInv'
  BY <1>4, CommitResetKeepsInv
<1>5. ASSUME NEW n \in Resets, R!AbortReset(n) PROVE ResetsInv'
  BY <1>5, AbortResetKeepsInv
<1>6. ASSUME NEW n \in Resets, R!RequestAges(n) PROVE ResetsInv'
  BY <1>6, RequestAgesKeepsInv
<1>7. ASSUME UNCHANGED reset PROVE ResetsInv'
  BY <1>7 DEF ResetsInv, R!TypeOK, RowsOfDone, Exclusive, R!Holds, CountStillHolds, R!Recent, R!Accepted,
              R!ResetsWithinLimit
<1> QED BY <1>1, <1>2, <1>3, <1>4, <1>5, <1>6, <1>7 DEF R!Next
-----------------------------------------------------------------------------
\* The invariant that carries the theorems below holds in every reachable state.
THEOREM ResetsInvariance == ASSUME R!ResetLimitsAssumption PROVE R!Spec => []ResetsInv
BY ResetsInitInv, ResetsStepInv, PTL DEF R!Spec

\* Every call is at a step of the transaction, with its keys.
THEOREM ResetsTypeCorrect == ASSUME R!ResetLimitsAssumption PROVE R!Spec => []R!TypeOK
<1>1. ResetsInv => R!TypeOK
  BY DEF ResetsInv
<1> QED BY <1>1, ResetsInvariance, PTL

\* However many requests for an address or from a client are made at once,
\* those accepted within a window stay within the limit.
THEOREM WithinLimit == ASSUME R!ResetLimitsAssumption PROVE R!Spec => []R!ResetsWithinLimit
<1>1. ResetsInv => R!ResetsWithinLimit
  BY DEF ResetsInv
<1> QED BY <1>1, ResetsInvariance, PTL
-----------------------------------------------------------------------------
(* The second factor. *)

\* What a login or an open session has proved was the secret of its version,
\* and a version has one secret.
SecondFactorInv ==
    /\ T!TypeOK
    /\ manager.enabled = (manager.secret # None)
    /\ manager.enabled => manager.pending = None
    /\ \A n \in SignIns : signed[n].state \in {"LOGIN", "OPEN"} =>
          /\ signed[n].version <= manager.version
          /\ signed[n].version = manager.version => signed[n].proved = manager.secret

LEMMA SecondFactorInitInv == ASSUME T!TwoFactorAssumption, T!Init PROVE SecondFactorInv
<1>1. /\ manager = [enabled |-> FALSE, secret |-> None, pending |-> None, version |-> 0]
      /\ signed = [n \in SignIns |-> [state |-> "NONE", version |-> 0, proved |-> None]] /\ checking = {}
  BY DEF T!Init
<1>2. MaxVersion \in Nat /\ 0 \in 0..MaxVersion
  BY DEF T!TwoFactorAssumption
<1>3. manager \in T!Manager
  BY <1>1, <1>2 DEF T!Manager, T!Secret
<1>4. [state |-> "NONE", version |-> 0, proved |-> None] \in T!Session
  BY <1>2 DEF T!Session, T!Secret
<1>5. T!TypeOK
  BY <1>1, <1>3, <1>4 DEF T!TypeOK
<1> QED BY <1>1, <1>5 DEF SecondFactorInv

\* A session's row changes alone.
LEMMA SignInKeepsInv ==
  ASSUME T!TwoFactorAssumption, SecondFactorInv, NEW n \in SignIns,
         T!ReadManager(n) \/ T!CreateAuthSession(n)
  PROVE  SecondFactorInv'
<1>1. /\ manager' = manager /\ checking' = checking /\ T!TypeOK
      /\ manager \in T!Manager /\ signed \in [SignIns -> T!Session] /\ signed[n] \in T!Session
  BY DEF T!ReadManager, T!CreateAuthSession, SecondFactorInv, T!TypeOK
<1> DEFINE read == [state |-> "LOGIN", version |-> manager.version,
                    proved |-> IF manager.enabled THEN manager.secret ELSE None]
           opened == [signed[n] EXCEPT !.state = "OPEN"]
<1>2. /\ read \in T!Session /\ read.version = manager.version /\ read.proved = manager.secret
  BY <1>1 DEF T!Session, T!Manager, T!Secret, SecondFactorInv
<1>3. /\ opened \in T!Session /\ opened.version = signed[n].version /\ opened.proved = signed[n].proved
  BY <1>1 DEF T!Session
<1>4. \/ signed' = [signed EXCEPT ![n] = read]
      \/ signed[n].state = "LOGIN" /\ signed' = [signed EXCEPT ![n] = opened]
  BY <1>1 DEF T!ReadManager, T!CreateAuthSession
<1> HIDE DEF read, opened
<1>5. signed' \in [SignIns -> T!Session] /\ \A q \in SignIns \ {n} : signed'[q] = signed[q]
  BY <1>1, <1>2, <1>3, <1>4
<1>6. T!TypeOK'
  BY <1>1, <1>5 DEF T!TypeOK
<1>7. \/ signed'[n] = read
      \/ signed[n].state = "LOGIN" /\ signed'[n] = opened
  BY <1>1, <1>4
<1>8. manager.version \in Nat
  BY <1>1 DEF T!Manager
<1>9. /\ signed'[n].version <= manager.version
      /\ signed'[n].version = manager.version => signed'[n].proved = manager.secret
  BY <1>2, <1>3, <1>7, <1>8 DEF SecondFactorInv
<1> QED BY <1>1, <1>5, <1>6, <1>9 DEF SecondFactorInv

LEMMA CallKeepsInv ==
  ASSUME T!TwoFactorAssumption, SecondFactorInv, NEW n \in SignIns,
         T!RequireAuth(n) \/ T!CallRefused(n) \/ \E k \in Secrets : T!BeginSetup(n, k)
  PROVE  SecondFactorInv'
<1>1. /\ signed' = signed /\ checking' \subseteq SignIns
      /\ manager' = manager \/ (~manager.enabled /\ \E k \in Secrets : manager' = [manager EXCEPT !.pending = k])
  BY DEF T!RequireAuth, T!CallRefused, T!BeginSetup, SecondFactorInv, T!TypeOK
<1>2. manager \in T!Manager
  BY DEF SecondFactorInv, T!TypeOK
<1>3. /\ manager' \in T!Manager
      /\ manager'.enabled = manager.enabled /\ manager'.secret = manager.secret
      /\ manager'.version = manager.version
      /\ manager.enabled => manager'.pending = manager.pending
  <2>1. CASE manager' = manager
    BY <1>2, <2>1
  <2>2. CASE ~manager.enabled /\ \E k \in Secrets : manager' = [manager EXCEPT !.pending = k]
    BY <1>2, <2>2 DEF T!Manager, T!Secret
  <2> QED BY <1>1, <2>1, <2>2
<1>4. T!TypeOK'
  BY <1>1, <1>3 DEF SecondFactorInv, T!TypeOK
<1> QED BY <1>1, <1>3, <1>4 DEF SecondFactorInv

\* The version moves on and no session of it is open or will be opened unproved.
LEMMA FactorKeepsInv ==
  ASSUME T!TwoFactorAssumption, SecondFactorInv, NEW n \in SignIns, NEW k \in Secrets,
         T!EnableTwoFactor(n, k) \/ T!DisableTwoFactor(n, k)
  PROVE  SecondFactorInv'
<1>1. manager \in T!Manager /\ signed \in [SignIns -> T!Session] /\ checking \subseteq SignIns
  BY DEF SecondFactorInv, T!TypeOK
<1>2. /\ manager.version < MaxVersion /\ signed' = T!Revoked /\ checking' \subseteq checking
      /\ \/ /\ manager.pending # None
            /\ manager' = [enabled |-> TRUE, secret |-> manager.pending, pending |-> None,
                           version |-> manager.version + 1]
         \/ manager' = [enabled |-> FALSE, secret |-> None, pending |-> None, version |-> manager.version + 1]
  BY DEF T!EnableTwoFactor, T!DisableTwoFactor
<1>3. manager.version \in Nat /\ MaxVersion \in Nat /\ manager.version + 1 \in 0..MaxVersion
  BY <1>1, <1>2 DEF T!Manager, T!TwoFactorAssumption
<1>4. /\ manager' \in T!Manager /\ manager'.version = manager.version + 1
      /\ manager'.enabled = (manager'.secret # None) /\ manager'.pending = None
  <2> DEFINE on == [enabled |-> TRUE, secret |-> manager.pending, pending |-> None,
                    version |-> manager.version + 1]
             off == [enabled |-> FALSE, secret |-> None, pending |-> None, version |-> manager.version + 1]
  <2>1. manager.pending \in T!Secret /\ None \in T!Secret
    BY <1>1 DEF T!Manager, T!Secret
  <2>2. CASE manager.pending # None /\ manager' = on
    <3>1. on \in T!Manager
      BY <1>3, <2>1 DEF T!Manager
    <3>2. on.version = manager.version + 1 /\ on.pending = None /\ on.enabled = TRUE /\ on.secret # None
      BY <2>2
    <3> HIDE DEF on
    <3> QED BY <2>2, <3>1, <3>2
  <2>3. CASE manager' = off
    <3>1. off \in T!Manager
      BY <1>3, <2>1 DEF T!Manager
    <3>2. off.version = manager.version + 1 /\ off.pending = None /\ off.enabled = FALSE /\ off.secret = None
      OBVIOUS
    <3> HIDE DEF off
    <3> QED BY <2>3, <3>1, <3>2
  <2> QED BY <1>2, <2>2, <2>3
<1>5. \A q \in SignIns : /\ T!Revoked[q] \in T!Session
                         /\ T!Revoked[q].version = signed[q].version
                         /\ T!Revoked[q].state \in {"LOGIN", "OPEN"} => signed[q].state \in {"LOGIN", "OPEN"}
  <2> TAKE q \in SignIns
  <2>1. signed[q] \in T!Session
    BY <1>1
  <2>2. T!Revoked[q] = IF signed[q].state = "OPEN" THEN [signed[q] EXCEPT !.state = "REVOKED"] ELSE signed[q]
    BY DEF T!Revoked
  <2> QED BY <2>1, <2>2 DEF T!Session
<1>6. T!Revoked \in [SignIns -> T!Session]
  <2>1. T!Revoked = [q \in SignIns |-> T!Revoked[q]]
    BY DEF T!Revoked
  <2> QED BY <1>5, <2>1
<1>7. T!TypeOK'
  BY <1>1, <1>2, <1>4, <1>6 DEF T!TypeOK
<1>8. ASSUME NEW q \in SignIns, signed'[q].state \in {"LOGIN", "OPEN"}
      PROVE  signed'[q].version < manager'.version
  <2>1. signed[q].version \in Nat /\ signed[q].version <= manager.version
    BY <1>1, <1>2, <1>5, <1>8 DEF SecondFactorInv, T!Session
  <2> QED BY <1>2, <1>3, <1>4, <1>5, <2>1
<1>9. \A q \in SignIns : signed'[q].version \in Nat
  BY <1>2, <1>5 DEF T!Session
<1>10. manager'.version \in Nat
  BY <1>3, <1>4
<1> QED BY <1>4, <1>7, <1>8, <1>9, <1>10 DEF SecondFactorInv

LEMMA SecondFactorStepInv ==
  ASSUME T!TwoFactorAssumption, SecondFactorInv, [T!Next]_(T!vars) PROVE SecondFactorInv'
<1>1. CASE UNCHANGED T!vars
  BY <1>1 DEF T!vars, SecondFactorInv, T!TypeOK
<1>2. CASE T!Next
  BY <1>2, SignInKeepsInv, CallKeepsInv, FactorKeepsInv DEF T!Next
<1> QED BY <1>1, <1>2
-----------------------------------------------------------------------------
\* What is known of the second factor holds in every reachable state: a session
\* of the present version has proved the secret in force.
THEOREM SecondFactorInvariance == ASSUME T!TwoFactorAssumption PROVE T!Spec => []SecondFactorInv
BY SecondFactorInitInv, SecondFactorStepInv, PTL DEF T!Spec

\* A session that passes requireAuth was opened with a code of the secret in
\* force, whatever login, enabling or disabling overtook another.
THEOREM SessionsProve == ASSUME T!TwoFactorAssumption PROVE T!Spec => []T!SessionsProveSecret
<1>1. SecondFactorInv => T!SessionsProveSecret
  BY DEF SecondFactorInv, T!SessionsProveSecret, T!Usable
<1> QED BY <1>1, SecondFactorInvariance, PTL
-----------------------------------------------------------------------------
(* Migrations: what a run read in the ledger is still there, for rows are  *)
(* only added; a row that is inserted is inserted by one run, and its      *)
(* version was not committed.                                              *)

ReadTrue(r) == \A v \in M!Versions : run[r].applied[v] # None => run[r].applied[v] = schema_migrations[v]

ApplyingSound(r) ==
    run[r].step \in {"APPLIED", "INSERTED"} =>
        run[r].next \in M!Versions /\ run[r].mode = "APPLY" /\ run[r].files[run[r].next] # None

InsertedByOne ==
    \A r \in Calls : run[r].step = "INSERTED" =>
        /\ schema_migrations[run[r].next] = None
        /\ \A q \in Calls \ {r} : run[q].step = "INSERTED" => run[q].next # run[r].next

BehindIsApplied(r) ==
    run[r].mode # "DRY" =>
        \A v \in 1..(run[r].next - 1) : run[r].files[v] \in {None, schema_migrations[v]}

LedgerInv ==
    /\ M!TypeOK
    /\ \A v \in M!Versions : effect[v] = IF schema_migrations[v] = None THEN 0 ELSE 1
    /\ \A r \in Calls : ReadTrue(r)
    /\ \A r \in Calls : ApplyingSound(r)
    /\ \A r \in Calls : BehindIsApplied(r)
    /\ InsertedByOne

LEMMA LedgerInitInv == ASSUME M!MigrationsAssumption, M!Init PROVE LedgerInv
<1>1. 1 \in 1..MaxMigration + 1
  BY DEF M!MigrationsAssumption
<1>2. M!NoRows \in M!Rows /\ \A v \in M!Versions : M!NoRows[v] = None
  BY DEF M!NoRows, M!Rows
<1>3. M!Idle \in [step : {"IDLE", "READ", "APPLIED", "INSERTED", "FAILED"},
                  mode : M!Modes, files : M!Rows, applied : M!Rows, next : 1..MaxMigration + 1]
  BY <1>1, <1>2 DEF M!Idle, M!Modes
<1>4. run \in [Calls -> {M!Idle}] /\ \A r \in Calls : run[r] = M!Idle
  BY DEF M!Init
<1>5. M!Idle.step = "IDLE" /\ M!Idle.applied = M!NoRows /\ M!Idle.next = 1
  BY DEF M!Idle
<1>6. M!TypeOK
  BY <1>2, <1>3, <1>4 DEF M!TypeOK, M!Init
<1>7. \A v \in M!Versions : effect[v] = 0 /\ schema_migrations[v] = None
  BY <1>2 DEF M!Init
<1>8. \A r \in Calls : ReadTrue(r) /\ ApplyingSound(r) /\ BehindIsApplied(r)
  BY <1>2, <1>4, <1>5, <1>7 DEF ReadTrue, ApplyingSound, BehindIsApplied
<1>9. InsertedByOne
  BY <1>4, <1>5 DEF InsertedByOne
<1> QED BY <1>6, <1>7, <1>8, <1>9 DEF LedgerInv

\* A step of one run that leaves the ledger as it is.
LEMMA RunMoves ==
  ASSUME M!MigrationsAssumption, LedgerInv, NEW r \in Calls,
         UNCHANGED <<schema_migrations, effect>>,
         NEW moved \in [step : {"IDLE", "READ", "APPLIED", "INSERTED", "FAILED"},
                        mode : M!Modes, files : M!Rows, applied : M!Rows, next : 1..MaxMigration + 1],
         run' = [run EXCEPT ![r] = moved],
         \A v \in M!Versions : moved.applied[v] # None => moved.applied[v] = schema_migrations[v],
         moved.step \in {"APPLIED", "INSERTED"} =>
            moved.next \in M!Versions /\ moved.mode = "APPLY" /\ moved.files[moved.next] # None,
         moved.mode # "DRY" => \A v \in 1..(moved.next - 1) : moved.files[v] \in {None, schema_migrations[v]},
         moved.step = "INSERTED" =>
            /\ schema_migrations[moved.next] = None
            /\ \A q \in Calls \ {r} : run[q].step = "INSERTED" => run[q].next # moved.next
  PROVE  LedgerInv'
<1>1. run'[r] = moved /\ \A q \in Calls \ {r} : run'[q] = run[q]
  BY DEF LedgerInv, M!TypeOK
<1>2. M!TypeOK'
  BY DEF LedgerInv, M!TypeOK
<1>3. \A v \in M!Versions : effect'[v] = IF schema_migrations'[v] = None THEN 0 ELSE 1
  BY DEF LedgerInv
<1>4. \A q \in Calls : ReadTrue(q)'
  BY <1>1 DEF LedgerInv, ReadTrue
<1>5. \A q \in Calls : ApplyingSound(q)'
  BY <1>1 DEF LedgerInv, ApplyingSound
<1>6. \A q \in Calls : BehindIsApplied(q)'
  <2> TAKE q \in Calls
  <2>1. CASE q = r
    BY <1>1, <2>1 DEF BehindIsApplied
  <2>2. CASE q # r
    BY <1>1, <2>2 DEF BehindIsApplied, LedgerInv
  <2> QED BY <2>1, <2>2
<1>7. InsertedByOne'
  BY <1>1 DEF LedgerInv, InsertedByOne
<1> QED BY <1>2, <1>3, <1>4, <1>5, <1>6, <1>7 DEF LedgerInv

LEMMA ReadingKeepsInv ==
  ASSUME M!MigrationsAssumption, LedgerInv, NEW r \in Calls,
         \/ \E files \in M!Rows, mode \in M!Modes : M!GetApplied(r, files, mode)
         \/ M!SkipFile(r) \/ M!CountPending(r)
  PROVE  LedgerInv'
<1> DEFINE Run == [step : {"IDLE", "READ", "APPLIED", "INSERTED", "FAILED"},
                   mode : M!Modes, files : M!Rows, applied : M!Rows, next : 1..MaxMigration + 1]
<1>1. run[r] \in Run /\ MaxMigration \in Nat /\ schema_migrations \in M!Rows /\ run \in [Calls -> Run]
  BY DEF LedgerInv, M!TypeOK, M!MigrationsAssumption
<1>2. CASE \E files \in M!Rows, mode \in M!Modes : M!GetApplied(r, files, mode)
  <2> PICK files \in M!Rows, mode \in M!Modes : M!GetApplied(r, files, mode)
    BY <1>2
  <2> DEFINE moved == [step |-> "READ", mode |-> mode, files |-> files, applied |-> schema_migrations, next |-> 1]
  <2>1. moved \in Run /\ run' = [run EXCEPT ![r] = moved] /\ UNCHANGED <<schema_migrations, effect>>
    BY <1>1 DEF M!GetApplied
  <2>2. moved.step = "READ" /\ moved.applied = schema_migrations /\ moved.next = 1
    OBVIOUS
  <2>3. \A v \in 1..(moved.next - 1) : moved.files[v] \in {None, schema_migrations[v]}
    BY <2>2
  <2>4. \A v \in M!Versions : moved.applied[v] # None => moved.applied[v] = schema_migrations[v]
    BY <2>2
  <2>5. moved.step \notin {"APPLIED", "INSERTED"}
    BY <2>2
  <2> HIDE DEF moved
  <2> QED BY <2>1, <2>3, <2>4, <2>5, RunMoves
<1>3. CASE M!SkipFile(r) \/ M!CountPending(r)
  <2> DEFINE moved == [run[r] EXCEPT !.next = @ + 1, !.step = "READ"]
  <2>1. M!Looking(r) /\ UNCHANGED <<schema_migrations, effect>> /\ M!Advance(r)
    BY <1>3 DEF M!SkipFile, M!CountPending
  <2>2. run[r].next \in 1..MaxMigration /\ run[r].step = "READ"
    BY <2>1 DEF M!Looking, M!At, M!Versions
  <2>3. moved \in Run
    <3>1. [run[r] EXCEPT !.next = @ + 1] \in Run
      BY <1>1, <2>2
    <3>2. moved = [[run[r] EXCEPT !.next = @ + 1] EXCEPT !.step = "READ"]
      BY <1>1
    <3> QED BY <3>1, <3>2
  <2>4. run' = [run EXCEPT ![r] = moved]
    BY <1>1, <2>1 DEF M!Advance
  <2>5. moved.step = "READ" /\ moved.next = run[r].next + 1 /\ moved.files = run[r].files
        /\ moved.applied = run[r].applied /\ moved.mode = run[r].mode
    BY <1>1 DEF M!Rows, M!Modes
  <2>6. ReadTrue(r) /\ BehindIsApplied(r)
    BY DEF LedgerInv
  <2>7. moved.mode # "DRY" => run[r].files[run[r].next] \in {None, schema_migrations[run[r].next]}
    <3>1. CASE M!SkipFile(r)
      BY <3>1, <2>2, <2>6 DEF M!SkipFile, M!File, M!Row, ReadTrue, M!Versions
    <3>2. CASE M!CountPending(r)
      BY <3>2, <2>5 DEF M!CountPending
    <3> QED BY <1>3, <3>1, <3>2
  <2>8. moved.mode # "DRY" => \A v \in 1..(moved.next - 1) : moved.files[v] \in {None, schema_migrations[v]}
    <3> SUFFICES ASSUME moved.mode # "DRY", NEW v \in 1..run[r].next
                 PROVE  run[r].files[v] \in {None, schema_migrations[v]}
      BY <2>2, <2>5
    <3>1. CASE v = run[r].next
      BY <2>7, <3>1
    <3>2. CASE v # run[r].next
      <4>1. v \in 1..(run[r].next - 1)
        BY <2>2, <3>2
      <4> QED BY <4>1, <2>5, <2>6 DEF BehindIsApplied
    <3> QED BY <3>1, <3>2
  <2>9. \A v \in M!Versions : moved.applied[v] # None => moved.applied[v] = schema_migrations[v]
    BY <2>5, <2>6 DEF ReadTrue
  <2> HIDE DEF moved, Run
  <2> QED BY <2>1, <2>3, <2>4, <2>5, <2>8, <2>9, RunMoves DEF Run
<1> QED BY <1>2, <1>3

LEMMA WritingKeepsInv ==
  ASSUME M!MigrationsAssumption, LedgerInv, NEW r \in Calls,
         M!Refuse(r) \/ M!ApplyFile(r) \/ M!InsertRow(r) \/ M!RollbackFile(r) \/ M!Restart(r)
  PROVE  LedgerInv'
<1> DEFINE Steps == {"IDLE", "READ", "APPLIED", "INSERTED", "FAILED"}
           Run == [step : Steps, mode : M!Modes, files : M!Rows, applied : M!Rows, next : 1..MaxMigration + 1]
<1>1. run[r] \in Run /\ MaxMigration \in Nat /\ schema_migrations \in M!Rows /\ run \in [Calls -> Run]
  BY DEF LedgerInv, M!TypeOK, M!MigrationsAssumption
<1>2. ReadTrue(r) /\ BehindIsApplied(r) /\ ApplyingSound(r)
  BY DEF LedgerInv
<1>3. UNCHANGED <<schema_migrations, effect>>
  BY DEF M!Refuse, M!ApplyFile, M!InsertRow, M!RollbackFile, M!Restart
<1>4. CASE M!Restart(r)
  <2>1. 1 \in 1..MaxMigration + 1
    BY <1>1
  <2>2. M!NoRows \in M!Rows /\ \A v \in M!Versions : M!NoRows[v] = None
    BY DEF M!NoRows, M!Rows
  <2>3. M!Idle \in Run
    BY <2>1, <2>2 DEF M!Idle, M!Modes
  <2>4. M!Idle.step = "IDLE" /\ M!Idle.applied = M!NoRows /\ M!Idle.next = 1
    BY DEF M!Idle
  <2>5. run' = [run EXCEPT ![r] = M!Idle]
    BY <1>4 DEF M!Restart
  <2>6. \A v \in 1..(M!Idle.next - 1) : M!Idle.files[v] \in {None, schema_migrations[v]}
    BY <2>4
  <2>7. \A v \in M!Versions : M!Idle.applied[v] # None => M!Idle.applied[v] = schema_migrations[v]
    BY <2>2, <2>4
  <2>8. M!Idle.step \notin {"APPLIED", "INSERTED"}
    BY <2>4
  <2> QED BY <1>3, <2>3, <2>5, <2>6, <2>7, <2>8, RunMoves
<1>5. ASSUME NEW s \in Steps, M!Step(r, s),
             s \in {"APPLIED", "INSERTED"} => run[r].next \in M!Versions /\ run[r].mode = "APPLY"
                                              /\ run[r].files[run[r].next] # None,
             s = "INSERTED" => M!Insertable(r)
      PROVE  LedgerInv'
  <2> DEFINE moved == [run[r] EXCEPT !.step = s]
  <2>1. moved \in Run
    BY <1>1
  <2>2. run' = [run EXCEPT ![r] = moved]
    BY <1>1, <1>5 DEF M!Step
  <2>3. moved.step = s /\ moved.next = run[r].next /\ moved.files = run[r].files
        /\ moved.applied = run[r].applied /\ moved.mode = run[r].mode
    BY <1>1
  <2>4. \A v \in M!Versions : moved.applied[v] # None => moved.applied[v] = schema_migrations[v]
    BY <1>2, <2>3 DEF ReadTrue
  <2>5. moved.mode # "DRY" => \A v \in 1..(moved.next - 1) : moved.files[v] \in {None, schema_migrations[v]}
    BY <1>2, <2>3 DEF BehindIsApplied
  <2>6. moved.step = "INSERTED" =>
            /\ schema_migrations[moved.next] = None
            /\ \A q \in Calls \ {r} : run[q].step = "INSERTED" => run[q].next # moved.next
    BY <1>5, <2>3 DEF M!Insertable, M!At
  <2>7. moved.step \in {"APPLIED", "INSERTED"} =>
            moved.next \in M!Versions /\ moved.mode = "APPLY" /\ moved.files[moved.next] # None
    BY <1>5, <2>3
  <2> HIDE DEF moved
  <2> QED BY <1>3, <2>1, <2>2, <2>4, <2>5, <2>6, <2>7, RunMoves
<1>6. CASE M!Refuse(r)
  BY <1>6, <1>5 DEF M!Refuse
<1>7. CASE M!ApplyFile(r)
  BY <1>7, <1>5 DEF M!ApplyFile, M!Looking, M!File
<1>8. CASE M!InsertRow(r)
  BY <1>8, <1>5, <1>2 DEF M!InsertRow, M!At, ApplyingSound
<1>9. CASE M!RollbackFile(r)
  BY <1>9, <1>5 DEF M!RollbackFile
<1> QED BY <1>4, <1>6, <1>7, <1>8, <1>9

LEMMA CommitFileKeepsInv ==
  ASSUME M!MigrationsAssumption, LedgerInv, NEW r \in Calls, M!CommitFile(r) PROVE LedgerInv'
<1> DEFINE Run == [step : {"IDLE", "READ", "APPLIED", "INSERTED", "FAILED"},
                   mode : M!Modes, files : M!Rows, applied : M!Rows, next : 1..MaxMigration + 1]
           n == run[r].next
           file == run[r].files[n]
           moved == [run[r] EXCEPT !.next = @ + 1, !.step = "READ"]
<1>1. run[r] \in Run /\ MaxMigration \in Nat /\ schema_migrations \in M!Rows /\ run \in [Calls -> Run]
      /\ effect \in [M!Versions -> Nat]
  BY DEF LedgerInv, M!TypeOK, M!MigrationsAssumption
<1>2. run[r].step = "INSERTED" /\ n \in 1..MaxMigration /\ n \in M!Versions /\ file # None
      /\ schema_migrations[n] = None /\ run[r].mode = "APPLY"
      /\ \A q \in Calls \ {r} : run[q].step = "INSERTED" => run[q].next # n
  BY DEF LedgerInv, ApplyingSound, InsertedByOne, M!CommitFile, M!At, M!Versions
<1>3. moved \in Run /\ moved.step = "READ" /\ moved.next = n + 1 /\ moved.files = run[r].files
      /\ moved.applied = run[r].applied /\ moved.mode = run[r].mode
  <2>1. [run[r] EXCEPT !.next = @ + 1] \in Run
    BY <1>1, <1>2
  <2>2. moved = [[run[r] EXCEPT !.next = @ + 1] EXCEPT !.step = "READ"]
    BY <1>1
  <2> QED BY <1>1, <2>1, <2>2
<1>4. run' = [run EXCEPT ![r] = moved]
  BY <1>1 DEF M!CommitFile, M!Advance
<1>5. run'[r] = moved /\ \A q \in Calls \ {r} : run'[q] = run[q]
  BY <1>1, <1>4
<1>6. file \in Sums
  BY <1>1, <1>2 DEF M!Rows
<1>7. schema_migrations' = [schema_migrations EXCEPT ![n] = file] /\ effect' = [effect EXCEPT ![n] = @ + 1]
  BY DEF M!CommitFile, M!File
<1>8. schema_migrations'[n] = file /\ (\A v \in M!Versions \ {n} : schema_migrations'[v] = schema_migrations[v])
      /\ schema_migrations' \in M!Rows
  BY <1>1, <1>2, <1>6, <1>7 DEF M!Rows
<1>9. effect'[n] = effect[n] + 1 /\ (\A v \in M!Versions \ {n} : effect'[v] = effect[v])
      /\ effect' \in [M!Versions -> Nat]
  BY <1>1, <1>2, <1>7
<1>10. M!TypeOK'
  <2>1. run' \in [Calls -> Run]
    BY <1>1, <1>3, <1>4
  <2> QED BY <2>1, <1>8, <1>9 DEF M!TypeOK
<1> HIDE DEF moved
<1>11. ASSUME NEW v \in M!Versions PROVE effect'[v] = IF schema_migrations'[v] = None THEN 0 ELSE 1
  <2>1. effect[v] = IF schema_migrations[v] = None THEN 0 ELSE 1
    BY DEF LedgerInv
  <2> QED BY <2>1, <1>2, <1>8, <1>9
<1>12. ASSUME NEW v \in M!Versions, schema_migrations[v] # None PROVE schema_migrations'[v] = schema_migrations[v]
  BY <1>2, <1>8, <1>12
<1>13. \A q \in Calls : ReadTrue(q)'
  <2> SUFFICES ASSUME NEW q \in Calls, NEW v \in M!Versions, run'[q].applied[v] # None
               PROVE  run'[q].applied[v] = schema_migrations'[v]
    BY DEF ReadTrue
  <2>1. run'[q].applied = run[q].applied
    BY <1>3, <1>5
  <2>2. run[q].applied[v] = schema_migrations[v]
    BY <2>1 DEF LedgerInv, ReadTrue
  <2> QED BY <1>12, <2>1, <2>2
<1>14. \A q \in Calls : ApplyingSound(q)'
  BY <1>3, <1>5 DEF LedgerInv, ApplyingSound
<1>15. \A q \in Calls : BehindIsApplied(q)'
  <2> SUFFICES ASSUME NEW q \in Calls, run'[q].mode # "DRY", NEW v \in 1..(run'[q].next - 1)
               PROVE  run'[q].files[v] \in {None, schema_migrations'[v]}
    BY DEF BehindIsApplied
  <2>1. run'[q].files = run[q].files /\ run'[q].mode = run[q].mode
    BY <1>3, <1>5
  <2>2. CASE q = r /\ v = n
    BY <1>8, <2>1, <2>2
  <2>3. CASE ~(q = r /\ v = n)
    <3>1. v \in 1..(run[q].next - 1)
      BY <1>2, <1>3, <1>5, <2>3
    <3>2. run[q].files[v] \in {None, schema_migrations[v]}
      BY <2>1, <3>1 DEF LedgerInv, BehindIsApplied
    <3>3. run[q].next \in 1..MaxMigration + 1
      BY <1>1
    <3>4. v \in M!Versions
      BY <1>1, <3>1, <3>3 DEF M!Versions
    <3> QED BY <1>12, <2>1, <3>2, <3>4
  <2> QED BY <2>2, <2>3
<1>16. InsertedByOne'
  <2> SUFFICES ASSUME NEW q \in Calls, run'[q].step = "INSERTED"
               PROVE  /\ schema_migrations'[run'[q].next] = None
                      /\ \A p \in Calls \ {q} : run'[p].step = "INSERTED" => run'[p].next # run'[q].next
    BY DEF InsertedByOne
  <2>1. q # r /\ run'[q] = run[q]
    BY <1>3, <1>5
  <2>2. run[q].next # n /\ run[q].next \in M!Versions /\ schema_migrations[run[q].next] = None
    BY <1>2, <2>1 DEF LedgerInv, InsertedByOne, ApplyingSound
  <2>3. \A p \in Calls \ {q} : run'[p].step = "INSERTED" => p # r /\ run'[p] = run[p]
    BY <1>3, <1>5
  <2> QED BY <1>8, <2>1, <2>2, <2>3 DEF LedgerInv, InsertedByOne
<1> QED BY <1>10, <1>11, <1>13, <1>14, <1>15, <1>16 DEF LedgerInv

LEMMA LedgerStepInv ==
  ASSUME M!MigrationsAssumption, LedgerInv, [M!Next]_(M!vars) PROVE LedgerInv'
<1>1. CASE UNCHANGED M!vars
  BY <1>1 DEF M!vars, LedgerInv, M!TypeOK, ReadTrue, ApplyingSound, BehindIsApplied, InsertedByOne
<1>2. CASE M!Next
  BY <1>2, ReadingKeepsInv, WritingKeepsInv, CommitFileKeepsInv DEF M!Next
<1> QED BY <1>1, <1>2
-----------------------------------------------------------------------------
\* What is known of the applied migrations holds in every reachable state.
THEOREM LedgerInvariance == ASSUME M!MigrationsAssumption PROVE M!Spec => []LedgerInv
BY LedgerInitInv, LedgerStepInv, PTL DEF M!Spec

\* A migration takes effect once, as the ledger has it, and a run that goes
\* on or verifies has nothing behind it but what is applied.
THEOREM MigrationsApplyOnce == ASSUME M!MigrationsAssumption PROVE M!Spec => []M!AppliedOnce
<1>1. LedgerInv => M!AppliedOnce
  BY DEF LedgerInv, M!AppliedOnce, BehindIsApplied
<1> QED BY <1>1, LedgerInvariance, PTL
-----------------------------------------------------------------------------
(* Imports: unless a row was written by hand or an import began while      *)
(* another was inserting, one import inserts at a time, and the rows it    *)
(* has before it are neither in the table nor behind it, whatever the case.*)

RowsBelong ==
    /\ \A c \in Calls : import[c].at \in Nat \ {0} /\ import[c].rows \cap stored = {}
    /\ \A c \in Calls : ~(I!Inserting(c) /\ I!Together(import[c].entity)) => import[c].rows = {}
    /\ \A c, d \in Calls : c # d => import[c].rows \cap import[d].rows = {}

BehindIsHeld(c) ==
    I!Together(import[c].entity) =>
        /\ import[c].step = "INSERT" =>
              \A k \in 1..Len(import[c].file) : k < import[c].at => import[c].file[k] \in import[c].rows
        /\ import[c].step = "DONE" => I!RowsOf(import[c].file) \subseteq stored

\* No two rows of a set are one when their case is left aside.
Distinct(S) == \A r, s \in S : Folded[r] = Folded[s] => r = s

AheadIsNew(c) ==
    I!Inserting(c) =>
        /\ Distinct(stored \cup import[c].rows)
        /\ \A k \in 1..Len(import[c].file) : \A r \in stored \cup import[c].rows :
              k >= import[c].at => Folded[import[c].file[k]] # Folded[r]
        /\ \A k, l \in 1..Len(import[c].file) :
              Folded[import[c].file[k]] = Folded[import[c].file[l]] => k = l

Undisturbed ==
    causes = {} =>
        /\ Distinct(stored)
        /\ \A c, d \in Calls : I!Inserting(c) /\ I!Inserting(d) => c = d
        /\ \A c \in Calls : AheadIsNew(c)

ImportInv == I!TypeOK /\ RowsBelong /\ (\A c \in Calls : BehindIsHeld(c)) /\ Undisturbed

ImportRecord == [step : {"NONE", "INSERT", "DONE"}, entity : I!Entities,
                 file : CsvFiles \cup {<<>>}, at : Nat, rows : SUBSET Spellings]

LEMMA ImportFacts ==
  ASSUME I!ImportsAssumption, I!TypeOK
  PROVE  /\ import \in [Calls -> ImportRecord]
         /\ \A c \in Calls : import[c] \in ImportRecord /\ import[c].file \in Seq(Spellings)
<1>1. import \in [Calls -> ImportRecord]
  BY DEF I!TypeOK, ImportRecord
<1>2. ASSUME NEW c \in Calls PROVE import[c] \in ImportRecord /\ import[c].file \in Seq(Spellings)
  <2>1. import[c] \in ImportRecord
    BY <1>1
  <2>2. import[c].file \in CsvFiles \cup {<<>>}
    BY <2>1 DEF ImportRecord
  <2>3. <<>> \in Seq(Spellings) /\ CsvFiles \subseteq Seq(Spellings)
    BY DEF I!ImportsAssumption
  <2> QED BY <2>1, <2>2, <2>3
<1> QED BY <1>1, <1>2

LEMMA ReadyFacts ==
  /\ I!Ready \in ImportRecord /\ I!Ready.step = "NONE" /\ I!Ready.rows = {} /\ I!Ready.at = 1
BY DEF I!Ready, ImportRecord, I!Entities

\* A file is accepted if its rows differ by more than their case.
LEMMA AcceptedRows ==
  ASSUME I!ImportsAssumption, NEW file \in CsvFiles, I!Accepted(file)
  PROVE  /\ \A k, l \in 1..Len(file) : Folded[file[k]] = Folded[file[l]] => k = l
         /\ \A k \in 1..Len(file) : \A r \in stored : Folded[file[k]] # Folded[r]
<1> DEFINE n == Len(file)
           folded == [k \in 1..n |-> Folded[file[k]]]
           found == I!FoldedAll(I!RowsOf(file))
<1>1. file \in Seq(Spellings) /\ n \in Nat /\ DOMAIN file = 1..n
  BY DEF I!ImportsAssumption
<1>2. found = {Folded[file[k]] : k \in 1..n}
  BY <1>1 DEF I!FoldedAll, I!RowsOf
<1>3. folded \in Surjection(1..n, found)
  <2>1. folded \in [1..n -> found]
    BY <1>2
  <2>2. \A t \in found : \E k \in 1..n : folded[k] = t
    BY <1>2
  <2> QED BY <2>1, <2>2 DEF Surjection
<1>4. IsFiniteSet(1..n) /\ Cardinality(1..n) = n
  <2>1. 1 \in Int /\ n \in Int /\ n >= 0
    BY <1>1
  <2> HIDE DEF n
  <2>2. IsFiniteSet(1..n) /\ Cardinality(1..n) = IF 1 > n THEN 0 ELSE n - 1 + 1
    BY ONLY <2>1, FS_Interval
  <2> QED BY <2>1, <2>2
<1>5. Cardinality(found) = n
  <2>1. I!Cardinality(found) = n
    BY DEF I!Accepted
  <2> QED BY <2>1, SameSets
<1>6. folded \in Injection(1..n, found)
  <2> HIDE DEF folded, found, n
  <2> QED BY <1>3, <1>4, <1>5, FS_Surjection
<1>7. \A k, l \in 1..n : folded[k] = folded[l] => k = l
  BY <1>6 DEF Injection, IsInjective
<1>8. \A k \in 1..n : \A r \in stored : Folded[file[k]] # Folded[r]
  <2> SUFFICES ASSUME NEW k \in 1..n, NEW r \in stored, Folded[file[k]] = Folded[r] PROVE FALSE
    OBVIOUS
  <2>1. Folded[r] \in I!FoldedAll(stored) /\ Folded[r] \in found
    BY <1>2 DEF I!FoldedAll
  <2> QED BY <2>1 DEF I!Accepted
<1> QED BY <1>7, <1>8

LEMMA ImportInitInv == ASSUME I!ImportsAssumption, I!Init PROVE ImportInv
<1>1. import \in [Calls -> ImportRecord] /\ \A c \in Calls : import[c] = I!Ready
  BY ReadyFacts DEF I!Init
<1>2. I!TypeOK
  BY <1>1 DEF I!Init, I!TypeOK, ImportRecord
<1>3. \A c \in Calls : import[c].step = "NONE" /\ import[c].rows = {} /\ import[c].at = 1
  BY <1>1, ReadyFacts
<1>4. RowsBelong
  BY <1>3 DEF RowsBelong
<1>5. \A c \in Calls : BehindIsHeld(c)
  BY <1>3 DEF BehindIsHeld
<1>6. Undisturbed
  BY <1>3 DEF Undisturbed, AheadIsNew, Distinct, I!Inserting, I!Init
<1> QED BY <1>2, <1>4, <1>5, <1>6 DEF ImportInv

\* What one call does changes its record only.
LEMMA CallMoves ==
  ASSUME I!ImportsAssumption, I!TypeOK, NEW c \in Calls, NEW moved \in ImportRecord,
         import' = [import EXCEPT ![c] = moved], stored' \subseteq Spellings, causes' \subseteq {"RACE", "HAND"}
  PROVE  I!TypeOK' /\ import'[c] = moved /\ \A d \in Calls \ {c} : import'[d] = import[d]
BY DEF I!TypeOK, ImportRecord

LEMMA CommitImportKeepsInv ==
  ASSUME I!ImportsAssumption, ImportInv, NEW c \in Calls, NEW entity \in I!Entities, NEW file \in CsvFiles,
         I!CommitImport(c, entity, file)
  PROVE  ImportInv'
<1> DEFINE moved == [I!Ready EXCEPT !.step = "INSERT", !.entity = entity, !.file = file]
<1>1. I!Ready \in ImportRecord /\ I!Ready.rows = {} /\ I!Ready.at = 1
  BY ReadyFacts
<1>2. moved \in ImportRecord /\ moved.step = "INSERT" /\ moved.file = file /\ moved.at = 1 /\ moved.rows = {}
  <2>1. [I!Ready EXCEPT !.step = "INSERT"] \in ImportRecord
    BY <1>1 DEF ImportRecord
  <2>2. [[I!Ready EXCEPT !.step = "INSERT"] EXCEPT !.entity = entity] \in ImportRecord
    BY <2>1 DEF ImportRecord
  <2>3. moved = [[[I!Ready EXCEPT !.step = "INSERT"] EXCEPT !.entity = entity] EXCEPT !.file = file]
    BY <1>1 DEF ImportRecord
  <2>4. moved \in ImportRecord
    BY <2>2, <2>3 DEF ImportRecord
  <2>5. moved.step = "INSERT" /\ moved.file = file /\ moved.at = 1 /\ moved.rows = {}
    BY <1>1 DEF ImportRecord
  <2> QED BY <2>4, <2>5
<1>3. import' = [import EXCEPT ![c] = moved] /\ stored' = stored /\ I!Accepted(file)
      /\ causes' = causes \cup (IF \E d \in Calls : I!Inserting(d) THEN {"RACE"} ELSE {})
  BY DEF I!CommitImport
<1> HIDE DEF moved
<1>4. I!TypeOK' /\ import'[c] = moved /\ \A d \in Calls \ {c} : import'[d] = import[d]
  <2>1. stored' \subseteq Spellings /\ causes' \subseteq {"RACE", "HAND"} /\ I!TypeOK
    BY <1>3 DEF ImportInv, I!TypeOK
  <2> QED BY <2>1, <1>2, <1>3, CallMoves
<1>5. RowsBelong'
  BY <1>2, <1>3, <1>4 DEF ImportInv, RowsBelong, I!Inserting
<1>6. \A d \in Calls : BehindIsHeld(d)'
  BY <1>2, <1>3, <1>4 DEF ImportInv, BehindIsHeld
<1>7. Undisturbed'
  <2> SUFFICES ASSUME causes' = {}
               PROVE  /\ Distinct(stored')
                      /\ \A d, e \in Calls : I!Inserting(d)' /\ I!Inserting(e)' => d = e
                      /\ \A d \in Calls : AheadIsNew(d)'
    BY DEF Undisturbed, Distinct
  <2>1. causes = {} /\ \A d \in Calls : ~I!Inserting(d)
    BY <1>3
  <2>2. Distinct(stored)
    BY <2>1 DEF ImportInv, Undisturbed
  <2>3. \A d \in Calls : I!Inserting(d)' => d = c
    BY <1>4, <2>1 DEF I!Inserting
  <2>4. AheadIsNew(c)'
    BY <1>2, <1>3, <1>4, <2>2, AcceptedRows DEF AheadIsNew, Distinct
  <2>5. \A d \in Calls : AheadIsNew(d)'
    BY <2>3, <2>4 DEF AheadIsNew
  <2> QED BY <1>3, <2>2, <2>3, <2>5
<1> QED BY <1>4, <1>5, <1>6, <1>7 DEF ImportInv

\* The row a call is at becomes one of its own, or of the table.
LEMMA InsertTogetherKeepsInv ==
  ASSUME I!ImportsAssumption, ImportInv, NEW c \in Calls, I!InsertTogether(c) PROVE ImportInv'
<1> DEFINE moved == [import[c] EXCEPT !.at = @ + 1, !.rows = @ \cup {I!Row(c)}]
           k == import[c].at
           s == import[c].file[k]
<1>1. import[c] \in ImportRecord /\ import[c].file \in Seq(Spellings) /\ import \in [Calls -> ImportRecord]
  BY ImportFacts DEF ImportInv
<1>2. import[c].step = "INSERT" /\ k \in 1..Len(import[c].file) /\ k \in Nat /\ I!Together(import[c].entity)
  BY <1>1 DEF I!InsertTogether, I!HasRow, I!Inserting, ImportInv, RowsBelong
<1>3. s \in Spellings /\ s = I!Row(c) /\ s \notin stored /\ \A d \in Calls \ {c} : s \notin import[d].rows
  BY <1>1, <1>2 DEF I!InsertTogether, I!Row, I!Held
<1>4. import' = [import EXCEPT ![c] = moved] /\ stored' = stored /\ causes' = causes
  BY <1>1 DEF I!InsertTogether
<1>5. moved \in ImportRecord
  <2>1. [import[c] EXCEPT !.at = @ + 1] \in ImportRecord
    BY <1>1, <1>2 DEF ImportRecord
  <2>2. moved = [[import[c] EXCEPT !.at = @ + 1] EXCEPT !.rows = import[c].rows \cup {s}]
    BY <1>1, <1>3 DEF ImportRecord
  <2>3. import[c].rows \cup {s} \in SUBSET Spellings
    BY <1>1, <1>3 DEF ImportRecord
  <2> QED BY <2>1, <2>2, <2>3 DEF ImportRecord
<1>6. moved.step = "INSERT" /\ moved.file = import[c].file /\ moved.at = k + 1
      /\ moved.rows = import[c].rows \cup {s} /\ moved.entity = import[c].entity
  BY <1>1, <1>2, <1>3 DEF ImportRecord
<1> HIDE DEF moved
<1>7. I!TypeOK' /\ import'[c] = moved /\ \A d \in Calls \ {c} : import'[d] = import[d]
  <2>1. stored' \subseteq Spellings /\ causes' \subseteq {"RACE", "HAND"} /\ I!TypeOK
    BY <1>4 DEF ImportInv, I!TypeOK
  <2> QED BY <2>1, <1>4, <1>5, CallMoves
<1>8. RowsBelong'
  <2>1. \A d \in Calls : import'[d].at \in Nat \ {0} /\ import'[d].rows \cap stored' = {}
    BY <1>2, <1>3, <1>4, <1>6, <1>7 DEF ImportInv, RowsBelong
  <2>2. \A d \in Calls : ~(I!Inserting(d)' /\ I!Together(import'[d].entity)) => import'[d].rows = {}
    BY <1>2, <1>6, <1>7 DEF ImportInv, RowsBelong, I!Inserting
  <2>3. \A d, e \in Calls : d # e => import'[d].rows \cap import'[e].rows = {}
    <3> SUFFICES ASSUME NEW d \in Calls, NEW e \in Calls, d # e PROVE import'[d].rows \cap import'[e].rows = {}
      OBVIOUS
    <3>1. import[d].rows \cap import[e].rows = {}
      BY DEF ImportInv, RowsBelong
    <3> QED BY <1>3, <1>6, <1>7, <3>1
  <2> QED BY <2>1, <2>2, <2>3 DEF RowsBelong, I!Inserting, I!Together
<1>9. \A d \in Calls : BehindIsHeld(d)'
  <2> TAKE d \in Calls
  <2>1. CASE d # c
    BY <1>4, <1>7, <2>1 DEF ImportInv, BehindIsHeld
  <2>2. CASE d = c
    <3> SUFFICES ASSUME NEW l \in 1..Len(import[c].file), l < k + 1
                 PROVE  import[c].file[l] \in import[c].rows \cup {s}
      BY <1>6, <1>7, <2>2 DEF BehindIsHeld
    <3>1. CASE l = k
      BY <3>1
    <3>2. CASE l # k
      <4>1. l < k /\ l \in 1..Len(import[c].file)
        BY <1>1, <1>2, <3>2
      <4> QED BY <1>2, <4>1 DEF ImportInv, BehindIsHeld
    <3> QED BY <3>1, <3>2
  <2> QED BY <2>1, <2>2
<1>10. Undisturbed'
  <2> SUFFICES ASSUME causes = {}
               PROVE  /\ Distinct(stored)
                      /\ \A d, e \in Calls : I!Inserting(d)' /\ I!Inserting(e)' => d = e
                      /\ \A d \in Calls : AheadIsNew(d)'
    BY <1>4 DEF Undisturbed, Distinct
  <2>1. Distinct(stored) /\ (\A d, e \in Calls : I!Inserting(d) /\ I!Inserting(e) => d = e) /\ AheadIsNew(c)
    BY DEF ImportInv, Undisturbed
  <2>2. \A d \in Calls : I!Inserting(d)' => d = c
    BY <1>2, <1>7, <2>1 DEF I!Inserting
  <2>3. AheadIsNew(c)'
    <3>1. Distinct(stored \cup import[c].rows)
          /\ (\A l \in 1..Len(import[c].file) : \A r \in stored \cup import[c].rows :
                 l >= k => Folded[import[c].file[l]] # Folded[r])
          /\ (\A l, m \in 1..Len(import[c].file) : Folded[import[c].file[l]] = Folded[import[c].file[m]] => l = m)
      BY <1>2, <2>1 DEF AheadIsNew, I!Inserting
    <3>2. \A r \in stored \cup import[c].rows : Folded[s] # Folded[r]
      BY <1>2, <3>1
    <3>3. Distinct(stored \cup (import[c].rows \cup {s}))
      BY <3>1, <3>2 DEF Distinct
    <3>4. \A l \in 1..Len(import[c].file) : \A r \in stored \cup (import[c].rows \cup {s}) :
             l >= k + 1 => Folded[import[c].file[l]] # Folded[r]
      <4> SUFFICES ASSUME NEW l \in 1..Len(import[c].file), NEW r \in stored \cup (import[c].rows \cup {s}), l >= k + 1
                   PROVE  Folded[import[c].file[l]] # Folded[r]
        OBVIOUS
      <4>1. l >= k /\ l # k
        BY <1>2
      <4>2. CASE r = s
        BY <1>2, <3>1, <4>1, <4>2
      <4>3. CASE r # s
        BY <3>1, <4>1, <4>3
      <4> QED BY <4>2, <4>3
    <3>5. import'[c].file = import[c].file /\ import'[c].at = k + 1 /\ stored' = stored
          /\ import'[c].rows = import[c].rows \cup {s}
      BY <1>4, <1>6, <1>7
    <3> QED BY <3>1, <3>3, <3>4, <3>5 DEF AheadIsNew, Distinct
  <2>4. \A d \in Calls : AheadIsNew(d)'
    BY <2>2, <2>3 DEF AheadIsNew
  <2> QED BY <2>1, <2>2, <2>4
<1> QED BY <1>7, <1>8, <1>9, <1>10 DEF ImportInv

LEMMA CreateManagedTenantKeepsInv ==
  ASSUME I!ImportsAssumption, ImportInv, NEW c \in Calls, I!CreateManagedTenant(c) PROVE ImportInv'
<1> DEFINE moved == [import[c] EXCEPT !.at = @ + 1]
           k == import[c].at
           s == import[c].file[k]
<1>1. import[c] \in ImportRecord /\ import[c].file \in Seq(Spellings) /\ import \in [Calls -> ImportRecord]
  BY ImportFacts DEF ImportInv
<1>2. import[c].step = "INSERT" /\ k \in 1..Len(import[c].file) /\ k \in Nat /\ ~I!Together(import[c].entity)
      /\ import[c].rows = {}
  BY <1>1 DEF I!CreateManagedTenant, I!HasRow, I!Inserting, ImportInv, RowsBelong
<1>3. s \in Spellings /\ s = I!Row(c) /\ s \notin stored /\ \A d \in Calls \ {c} : s \notin import[d].rows
  BY <1>1, <1>2 DEF I!CreateManagedTenant, I!Row, I!Held
<1>4. import' = [import EXCEPT ![c] = moved] /\ stored' = stored \cup {s} /\ causes' = causes
  BY <1>1, <1>3 DEF I!CreateManagedTenant
<1>5. moved \in ImportRecord
  BY <1>1, <1>2 DEF ImportRecord
<1>6. moved.step = "INSERT" /\ moved.file = import[c].file /\ moved.at = k + 1
      /\ moved.rows = {} /\ moved.entity = import[c].entity
  BY <1>1, <1>2 DEF ImportRecord
<1> HIDE DEF moved
<1>7. I!TypeOK' /\ import'[c] = moved /\ \A d \in Calls \ {c} : import'[d] = import[d]
  <2>1. stored' \subseteq Spellings /\ causes' \subseteq {"RACE", "HAND"} /\ I!TypeOK
    BY <1>3, <1>4 DEF ImportInv, I!TypeOK
  <2> QED BY <2>1, <1>4, <1>5, CallMoves
<1>8. RowsBelong'
  BY <1>2, <1>3, <1>4, <1>6, <1>7 DEF ImportInv, RowsBelong, I!Inserting, I!Together
<1>9. \A d \in Calls : BehindIsHeld(d)'
  <2> TAKE d \in Calls
  <2>1. CASE d # c
    BY <1>4, <1>7, <2>1 DEF ImportInv, BehindIsHeld
  <2>2. CASE d = c
    BY <1>2, <1>6, <1>7, <2>2 DEF BehindIsHeld, I!Together
  <2> QED BY <2>1, <2>2
<1>10. Undisturbed'
  <2> SUFFICES ASSUME causes = {}
               PROVE  /\ Distinct(stored')
                      /\ \A d, e \in Calls : I!Inserting(d)' /\ I!Inserting(e)' => d = e
                      /\ \A d \in Calls : AheadIsNew(d)'
    BY <1>4 DEF Undisturbed, Distinct
  <2>1. (\A d, e \in Calls : I!Inserting(d) /\ I!Inserting(e) => d = e) /\ AheadIsNew(c)
    BY DEF ImportInv, Undisturbed
  <2>2. \A d \in Calls : I!Inserting(d)' => d = c
    BY <1>2, <1>7, <2>1 DEF I!Inserting
  <2>3. Distinct(stored')  /\ AheadIsNew(c)'
    <3>1. Distinct(stored)
          /\ (\A l \in 1..Len(import[c].file) : \A r \in stored :
                 l >= k => Folded[import[c].file[l]] # Folded[r])
          /\ (\A l, m \in 1..Len(import[c].file) : Folded[import[c].file[l]] = Folded[import[c].file[m]] => l = m)
      BY <1>2, <2>1 DEF AheadIsNew, I!Inserting, Distinct
    <3>2. \A r \in stored : Folded[s] # Folded[r]
      BY <1>2, <3>1
    <3>3. Distinct(stored \cup {s})
      BY <3>1, <3>2 DEF Distinct
    <3>4. \A l \in 1..Len(import[c].file) : \A r \in stored \cup {s} :
             l >= k + 1 => Folded[import[c].file[l]] # Folded[r]
      <4> SUFFICES ASSUME NEW l \in 1..Len(import[c].file), NEW r \in stored \cup {s}, l >= k + 1
                   PROVE  Folded[import[c].file[l]] # Folded[r]
        OBVIOUS
      <4>1. l >= k /\ l # k
        BY <1>2
      <4>2. CASE r = s
        BY <1>2, <3>1, <4>1, <4>2
      <4>3. CASE r # s
        BY <3>1, <4>1, <4>3
      <4> QED BY <4>2, <4>3
    <3>5. import'[c].file = import[c].file /\ import'[c].at = k + 1 /\ stored' = stored \cup {s}
          /\ import'[c].rows = {}
      BY <1>4, <1>6, <1>7
    <3> QED BY <3>1, <3>3, <3>4, <3>5 DEF AheadIsNew, Distinct
  <2>4. \A d \in Calls : AheadIsNew(d)'
    BY <2>2, <2>3 DEF AheadIsNew
  <2>5. \A d, e \in Calls : I!Inserting(d)' /\ I!Inserting(e)' => d = e
    BY <2>2
  <2> QED BY <2>3, <2>4, <2>5
<1> QED BY <1>7, <1>8, <1>9, <1>10 DEF ImportInv

LEMMA TenantFailsKeepsInv ==
  ASSUME I!ImportsAssumption, ImportInv, NEW c \in Calls, I!TenantFails(c) PROVE ImportInv'
<1> DEFINE moved == [import[c] EXCEPT !.at = @ + 1]
           k == import[c].at
<1>1. import[c] \in ImportRecord /\ import[c].file \in Seq(Spellings) /\ import \in [Calls -> ImportRecord]
  BY ImportFacts DEF ImportInv
<1>2. import[c].step = "INSERT" /\ k \in Nat \ {0} /\ ~I!Together(import[c].entity) /\ import[c].rows = {}
  BY <1>1 DEF I!TenantFails, I!HasRow, I!Inserting, ImportInv, RowsBelong
<1>3. import' = [import EXCEPT ![c] = moved] /\ stored' = stored /\ causes' = causes
  BY <1>1 DEF I!TenantFails
<1>4. moved \in ImportRecord
  BY <1>1, <1>2 DEF ImportRecord
<1>5. moved.step = "INSERT" /\ moved.file = import[c].file /\ moved.at = k + 1
      /\ moved.rows = {} /\ moved.entity = import[c].entity
  BY <1>1, <1>2 DEF ImportRecord
<1> HIDE DEF moved
<1>6. I!TypeOK' /\ import'[c] = moved /\ \A d \in Calls \ {c} : import'[d] = import[d]
  <2>1. stored' \subseteq Spellings /\ causes' \subseteq {"RACE", "HAND"} /\ I!TypeOK
    BY <1>3 DEF ImportInv, I!TypeOK
  <2> QED BY <2>1, <1>3, <1>4, CallMoves
<1>7. RowsBelong'
  BY <1>2, <1>3, <1>5, <1>6 DEF ImportInv, RowsBelong, I!Inserting, I!Together
<1>8. \A d \in Calls : BehindIsHeld(d)'
  <2> TAKE d \in Calls
  <2>1. CASE d # c
    BY <1>3, <1>6, <2>1 DEF ImportInv, BehindIsHeld
  <2>2. CASE d = c
    BY <1>2, <1>5, <1>6, <2>2 DEF BehindIsHeld, I!Together
  <2> QED BY <2>1, <2>2
<1>9. Undisturbed'
  <2> SUFFICES ASSUME causes = {}
               PROVE  /\ Distinct(stored)
                      /\ \A d, e \in Calls : I!Inserting(d)' /\ I!Inserting(e)' => d = e
                      /\ \A d \in Calls : AheadIsNew(d)'
    BY <1>3 DEF Undisturbed, Distinct
  <2>1. (\A d, e \in Calls : I!Inserting(d) /\ I!Inserting(e) => d = e) /\ AheadIsNew(c) /\ Distinct(stored)
    BY DEF ImportInv, Undisturbed
  <2>2. \A d \in Calls : I!Inserting(d)' => d = c
    BY <1>2, <1>6, <2>1 DEF I!Inserting
  <2>3. AheadIsNew(c)'
    BY <1>2, <1>3, <1>5, <1>6, <2>1 DEF AheadIsNew, Distinct, I!Inserting
  <2>4. \A d \in Calls : AheadIsNew(d)'
    BY <2>2, <2>3 DEF AheadIsNew
  <2> QED BY <2>1, <2>2, <2>4
<1> QED BY <1>6, <1>7, <1>8, <1>9 DEF ImportInv

LEMMA CommitRowsKeepsInv ==
  ASSUME I!ImportsAssumption, ImportInv, NEW c \in Calls, I!CommitRows(c) PROVE ImportInv'
<1> DEFINE moved == [import[c] EXCEPT !.step = "DONE", !.rows = {}]
           k == import[c].at
<1>1. import[c] \in ImportRecord /\ import[c].file \in Seq(Spellings) /\ import \in [Calls -> ImportRecord]
  BY ImportFacts DEF ImportInv
<1>2. import[c].step = "INSERT" /\ k \in Nat \ {0} /\ ~(k <= Len(import[c].file))
  BY <1>1 DEF I!CommitRows, I!HasRow, I!Inserting, ImportInv, RowsBelong
<1>3. import' = [import EXCEPT ![c] = moved] /\ stored' = stored \cup import[c].rows /\ causes' = causes
  BY <1>1 DEF I!CommitRows
<1>4. moved \in ImportRecord
  <2>1. [import[c] EXCEPT !.step = "DONE"] \in ImportRecord
    BY <1>1 DEF ImportRecord
  <2>2. moved = [[import[c] EXCEPT !.step = "DONE"] EXCEPT !.rows = {}]
    BY <1>1 DEF ImportRecord
  <2> QED BY <2>1, <2>2 DEF ImportRecord
<1>5. moved.step = "DONE" /\ moved.file = import[c].file /\ moved.at = k
      /\ moved.rows = {} /\ moved.entity = import[c].entity
  BY <1>1 DEF ImportRecord
<1> HIDE DEF moved
<1>6. I!TypeOK' /\ import'[c] = moved /\ \A d \in Calls \ {c} : import'[d] = import[d]
  <2>1. import[c].rows \subseteq Spellings
    BY <1>1 DEF ImportRecord
  <2>2. stored' \subseteq Spellings /\ causes' \subseteq {"RACE", "HAND"} /\ I!TypeOK
    BY <1>3, <2>1 DEF ImportInv, I!TypeOK
  <2> QED BY <2>2, <1>3, <1>4, CallMoves
<1>7. RowsBelong'
  BY <1>2, <1>3, <1>5, <1>6 DEF ImportInv, RowsBelong, I!Inserting, I!Together
<1>8. \A d \in Calls : BehindIsHeld(d)'
  <2> TAKE d \in Calls
  <2>1. CASE d # c
    BY <1>3, <1>6, <2>1 DEF ImportInv, BehindIsHeld
  <2>2. CASE d = c
    <3> SUFFICES ASSUME I!Together(import[c].entity), NEW l \in 1..Len(import[c].file)
                 PROVE  import[c].file[l] \in import[c].rows
      BY <1>1, <1>3, <1>5, <1>6, <2>2 DEF BehindIsHeld, I!RowsOf, I!Together
    <3>1. l < k
      BY <1>1, <1>2
    <3> QED BY <1>2, <3>1 DEF ImportInv, BehindIsHeld
  <2> QED BY <2>1, <2>2
<1>9. Undisturbed'
  <2> SUFFICES ASSUME causes = {}
               PROVE  /\ Distinct(stored')
                      /\ \A d, e \in Calls : I!Inserting(d)' /\ I!Inserting(e)' => d = e
                      /\ \A d \in Calls : AheadIsNew(d)'
    BY <1>3 DEF Undisturbed, Distinct
  <2>1. (\A d, e \in Calls : I!Inserting(d) /\ I!Inserting(e) => d = e) /\ Distinct(stored \cup import[c].rows)
    BY <1>2 DEF ImportInv, Undisturbed, AheadIsNew, I!Inserting
  <2>2. \A d \in Calls : ~I!Inserting(d)'
    BY <1>2, <1>5, <1>6, <2>1 DEF I!Inserting
  <2> QED BY <1>3, <2>1, <2>2 DEF AheadIsNew
<1> QED BY <1>6, <1>7, <1>8, <1>9 DEF ImportInv

LEMMA ImportEndsKeepsInv ==
  ASSUME I!ImportsAssumption, ImportInv, NEW c \in Calls, I!AbortImport(c) \/ I!Answered(c) PROVE ImportInv'
<1>1. import \in [Calls -> ImportRecord]
  BY ImportFacts DEF ImportInv
<1>2. import' = [import EXCEPT ![c] = I!Ready] /\ stored' = stored /\ causes' = causes
  BY DEF I!AbortImport, I!Answered
<1>3. I!TypeOK' /\ import'[c] = I!Ready /\ \A d \in Calls \ {c} : import'[d] = import[d]
  <2>1. stored' \subseteq Spellings /\ causes' \subseteq {"RACE", "HAND"} /\ I!TypeOK
    BY <1>2 DEF ImportInv, I!TypeOK
  <2> QED BY <2>1, <1>2, ReadyFacts, CallMoves
<1>4. import'[c].step = "NONE" /\ import'[c].rows = {} /\ import'[c].at = 1
  BY <1>3, ReadyFacts
<1>5. RowsBelong'
  BY <1>2, <1>3, <1>4 DEF ImportInv, RowsBelong, I!Inserting, I!Together
<1>6. \A d \in Calls : BehindIsHeld(d)'
  BY <1>2, <1>3, <1>4 DEF ImportInv, BehindIsHeld
<1>7. Undisturbed'
  BY <1>2, <1>3, <1>4 DEF ImportInv, Undisturbed, AheadIsNew, Distinct, I!Inserting
<1> QED BY <1>3, <1>5, <1>6, <1>7 DEF ImportInv

LEMMA CreateByHandKeepsInv ==
  ASSUME I!ImportsAssumption, ImportInv, NEW s \in Spellings, I!CreateByHand(s) PROVE ImportInv'
<1>1. stored' = stored \cup {s} /\ causes' = causes \cup {"HAND"} /\ import' = import /\ \A c \in Calls : s \notin import[c].rows
  BY DEF I!CreateByHand
<1>2. I!TypeOK'
  BY <1>1 DEF ImportInv, I!TypeOK
<1>3. RowsBelong'
  BY <1>1 DEF ImportInv, RowsBelong, I!Inserting, I!Together
<1>4. \A d \in Calls : BehindIsHeld(d)'
  BY <1>1 DEF ImportInv, BehindIsHeld
<1>5. Undisturbed'
  BY <1>1 DEF Undisturbed
<1> QED BY <1>2, <1>3, <1>4, <1>5 DEF ImportInv

LEMMA ImportStepInv ==
  ASSUME I!ImportsAssumption, ImportInv, [I!Next]_(I!vars) PROVE ImportInv'
<1>1. CASE UNCHANGED I!vars
  BY <1>1 DEF I!vars, ImportInv, I!TypeOK, RowsBelong, BehindIsHeld, Undisturbed, AheadIsNew, Distinct, I!Inserting
<1>2. CASE I!Next
  BY <1>2, CommitImportKeepsInv, InsertTogetherKeepsInv, CreateManagedTenantKeepsInv, TenantFailsKeepsInv,
     CommitRowsKeepsInv, ImportEndsKeepsInv, CreateByHandKeepsInv DEF I!Next
<1> QED BY <1>1, <1>2
-----------------------------------------------------------------------------
\* What is known of the imports under way holds in every reachable state.
THEOREM ImportInvariance == ASSUME I!ImportsAssumption PROVE I!Spec => []ImportInv
BY ImportInitInv, ImportStepInv, PTL DEF I!Spec

\* One code has two rows only by hand or by two imports at once, and a file
\* that is answered for is stored as a whole.
THEOREM RowsImportedOnce == ASSUME I!ImportsAssumption PROVE I!Spec => []I!ImportedOnce
<1>1. ImportInv => I!ImportedOnce
  BY DEF ImportInv, I!ImportedOnce, RowsBelong, BehindIsHeld, Undisturbed, Distinct
<1> QED BY <1>1, ImportInvariance, PTL
-----------------------------------------------------------------------------
(* Scheduled jobs: a cycle has the advisory lock until that is lost, one   *)
(* worker is on a bucket, and it is on it until it has done the job.       *)

Cycles ==
    \A w \in Workers :
        /\ worker[w].job # None => worker[w].cycle
        /\ worker[w].cycle /\ "LOCK" \notin failures => lock = w

OnIt ==
    \A w \in Workers : worker[w].job # None =>
        /\ runs[worker[w].job].status # "NONE"
        /\ done[worker[w].job] = 0
        /\ runs[worker[w].job].status # "RUNNING" => J!Overtaken(worker[w].job)
        /\ \A v \in Workers \ {w} : worker[v].job # worker[w].job

RowIsTrue(b) ==
    /\ done[b] <= 1
    /\ runs[b].status = "NONE" => done[b] = 0
    /\ runs[b].status = "SUCCEEDED" => done[b] = 1
    /\ runs[b].status = "FAILED" /\ done[b] = 1 => failures \cap {"RECORD", "CRASH"} # {} \/ J!Overtaken(b)
    /\ runs[b].status = "RUNNING" => (\E w \in Workers : worker[w].job = b) \/ "CRASH" \in failures

JobsInv == J!TypeOK /\ Cycles /\ OnIt /\ \A b \in J!Buckets : RowIsTrue(b)

WorkerRecord == [cycle : BOOLEAN, now : 0..MaxTime, todo : SUBSET Intervals, job : J!Buckets \cup {None}]
RunRecord == [status : {"NONE", "RUNNING", "SUCCEEDED", "FAILED"}, old : BOOLEAN]

LEMMA BucketFacts ==
  ASSUME J!JobRunsAssumption
  PROVE  None \notin J!Buckets /\ \A j \in Intervals, t \in 0..MaxTime : <<j, J!GetScheduleBucket(t, j)>> \in J!Buckets
<1>1. ASSUME NEW j \in Intervals, NEW t \in 0..MaxTime PROVE <<j, J!GetScheduleBucket(t, j)>> \in Intervals \X Int
  <2>1. j \in Nat \ {0} /\ t \in Nat
    BY DEF J!JobRunsAssumption
  <2>2. t \div j \in Int
    BY <2>1
  <2>3. (t \div j) * j \in Int
    BY <2>1, <2>2
  <2> QED BY <2>3 DEF J!GetScheduleBucket
<1>2. J!Buckets \subseteq Intervals \X Int
  BY <1>1 DEF J!Buckets
<1>3. None \notin Intervals \X Int
  BY DEF J!JobRunsAssumption
<1>4. \A j \in Intervals, t \in 0..MaxTime : <<j, J!GetScheduleBucket(t, j)>> \in J!Buckets
  BY DEF J!Buckets
<1> QED BY <1>2, <1>3, <1>4

LEMMA JobTypes ==
  J!TypeOK <=> /\ clock \in 0..MaxTime /\ lock \in Workers \cup {None}
               /\ worker \in [Workers -> WorkerRecord]
               /\ runs \in [J!Buckets -> RunRecord]
               /\ done \in [J!Buckets -> Nat]
               /\ failures \subseteq {"RECORD", "CRASH", "LOCK"}
BY DEF J!TypeOK, WorkerRecord, RunRecord

LEMMA JobsInitInv == ASSUME J!JobRunsAssumption, J!Init PROVE JobsInv
<1>1. J!Idle \in WorkerRecord /\ J!Idle.job = None /\ J!Idle.cycle = FALSE
  BY DEF J!Idle, WorkerRecord, J!JobRunsAssumption
<1>2. J!NoRow \in RunRecord /\ J!NoRow.status = "NONE"
  BY DEF J!NoRow, RunRecord
<1>3. worker = [w \in Workers |-> J!Idle] /\ runs = [b \in J!Buckets |-> J!NoRow] /\ done = [b \in J!Buckets |-> 0]
      /\ clock = 0 /\ lock = None /\ failures = {}
  BY DEF J!Init
<1>4. J!TypeOK
  BY <1>1, <1>2, <1>3, JobTypes DEF J!JobRunsAssumption
<1>5. \A w \in Workers : worker[w].job = None /\ worker[w].cycle = FALSE
  BY <1>1, <1>3
<1>6. \A b \in J!Buckets : runs[b].status = "NONE" /\ done[b] = 0
  BY <1>2, <1>3
<1>7. \A b \in J!Buckets : RowIsTrue(b)
  BY <1>6 DEF RowIsTrue
<1> QED BY <1>4, <1>5, <1>7 DEF JobsInv, Cycles, OnIt

\* What a step makes of one worker, whoever has the lock.
LEMMA WorkerMoves ==
  ASSUME J!TypeOK, NEW w \in Workers, NEW moved \in WorkerRecord, worker' = [worker EXCEPT ![w] = moved]
  PROVE  /\ worker' \in [Workers -> WorkerRecord]
         /\ worker'[w] = moved
         /\ \A v \in Workers \ {w} : worker'[v] = worker[v]
BY JobTypes

LEMMA BeginCycleKeepsInv ==
  ASSUME J!JobRunsAssumption, JobsInv, NEW w \in Workers, NEW now \in 0..MaxTime, J!BeginCycle(w, now)
  PROVE  JobsInv'
<1> DEFINE moved == [cycle |-> TRUE, now |-> now, todo |-> Intervals, job |-> None]
<1>1. ~worker[w].cycle /\ lock = None /\ lock' = w /\ UNCHANGED <<clock, done, failures>>
      /\ worker' = [worker EXCEPT ![w] = moved]
  BY DEF J!BeginCycle
<1>2. moved \in WorkerRecord /\ moved.cycle = TRUE /\ moved.job = None
  BY DEF WorkerRecord
<1> HIDE DEF moved
<1>3. worker' \in [Workers -> WorkerRecord] /\ worker'[w] = moved /\ \A v \in Workers \ {w} : worker'[v] = worker[v]
  BY <1>1, <1>2, WorkerMoves DEF JobsInv
<1>4. \A b \in J!Buckets : runs[b] \in RunRecord
  BY JobTypes DEF JobsInv
<1>5. runs' = [b \in J!Buckets |-> IF runs[b].status = "RUNNING" /\ runs[b].old
                                   THEN [runs[b] EXCEPT !.status = "FAILED"] ELSE runs[b]]
  BY DEF J!BeginCycle, J!Recovered
<1>6. \A b \in J!Buckets :
        /\ runs'[b] \in RunRecord /\ runs'[b].old = runs[b].old
        /\ \/ runs'[b].status = runs[b].status
           \/ runs[b].status = "RUNNING" /\ runs[b].old /\ runs'[b].status = "FAILED"
  <2> TAKE b \in J!Buckets
  <2>1. runs'[b] = IF runs[b].status = "RUNNING" /\ runs[b].old
                   THEN [runs[b] EXCEPT !.status = "FAILED"] ELSE runs[b]
    BY <1>5
  <2> QED BY <1>4, <2>1 DEF RunRecord
<1>7. runs' \in [J!Buckets -> RunRecord]
  <2>1. runs' = [b \in J!Buckets |-> runs'[b]]
    BY <1>5
  <2> QED BY <1>6, <2>1
<1>8. J!TypeOK'
  BY <1>1, <1>3, <1>7, JobTypes DEF JobsInv, J!TypeOK, WorkerRecord, RunRecord
<1>9. worker[w].job = None
  BY <1>1 DEF JobsInv, Cycles
<1>10. \A v \in Workers : worker'[v].job = worker[v].job
  BY <1>2, <1>3, <1>9
<1>11. \A v \in Workers : worker[v].cycle => "LOCK" \in failures
  BY <1>1 DEF JobsInv, Cycles, J!JobRunsAssumption
<1>12. Cycles'
  BY <1>1, <1>2, <1>3, <1>11 DEF JobsInv, Cycles
<1>13. OnIt'
  <2> SUFFICES ASSUME NEW v \in Workers, worker[v].job # None
               PROVE  /\ runs'[worker[v].job].status # "NONE"
                      /\ done[worker[v].job] = 0
                      /\ runs'[worker[v].job].status # "RUNNING" => ("LOCK" \in failures' /\ runs'[worker[v].job].old)
                      /\ \A u \in Workers \ {v} : worker[u].job # worker[v].job
    BY <1>1, <1>10 DEF OnIt, J!Overtaken
  <2>1. worker[v].job \in J!Buckets
    BY JobTypes DEF JobsInv, WorkerRecord
  <2>2. "LOCK" \in failures
    BY <1>11 DEF JobsInv, Cycles
  <2>3. /\ runs[worker[v].job].status # "NONE" /\ done[worker[v].job] = 0
        /\ runs[worker[v].job].status # "RUNNING" => J!Overtaken(worker[v].job)
        /\ \A u \in Workers \ {v} : worker[u].job # worker[v].job
    BY DEF JobsInv, OnIt
  <2> QED BY <1>1, <1>6, <1>10, <2>1, <2>2, <2>3 DEF J!Overtaken
<1>14. \A b \in J!Buckets : RowIsTrue(b)'
  <2> TAKE b \in J!Buckets
  <2>1. RowIsTrue(b)
    BY DEF JobsInv
  <2>2. (\E v \in Workers : worker[v].job = b) => \E v \in Workers : worker'[v].job = b
    BY <1>10
  <2>3. CASE runs'[b].status = runs[b].status
    BY <1>1, <1>6, <2>1, <2>2, <2>3 DEF RowIsTrue, J!Overtaken
  <2>4. CASE runs[b].status = "RUNNING" /\ runs[b].old /\ runs'[b].status = "FAILED"
    <3>1. ASSUME done[b] = 1 PROVE "CRASH" \in failures
      <4>1. ~\E v \in Workers : worker[v].job = b
        BY <3>1, BucketFacts DEF JobsInv, OnIt
      <4> QED BY <2>1, <2>4, <4>1 DEF RowIsTrue
    <3> QED BY <1>1, <2>1, <2>4, <3>1 DEF RowIsTrue
  <2> QED BY <1>6, <2>3, <2>4
<1> QED BY <1>8, <1>12, <1>13, <1>14 DEF JobsInv

\* A step that leaves the rows as they are: it is on no other job, and loses
\* the one it is on only by a crash.
LEMMA CycleMovesKeepsInv ==
  ASSUME J!JobRunsAssumption, JobsInv, NEW w \in Workers,
         J!EndCycle(w) \/ (\E j \in Intervals : J!SkipJob(w, j)) \/ J!LoseLock(w)
  PROVE  JobsInv'
<1>1. UNCHANGED <<clock, runs, done>>
  BY DEF J!EndCycle, J!SkipJob, J!LoseLock
<1>2. failures \subseteq failures' /\ failures' \subseteq {"RECORD", "CRASH", "LOCK"}
  BY DEF J!EndCycle, J!SkipJob, J!LoseLock, J!Fault, JobsInv, J!TypeOK
<1>3. lock' \in Workers \cup {None}
  BY DEF J!EndCycle, J!SkipJob, J!LoseLock, J!Freed, JobsInv, J!TypeOK
<1>4. /\ worker' \in [Workers -> WorkerRecord]
      /\ \A v \in Workers : worker'[v].job = worker[v].job /\ (worker'[v].cycle => worker[v].cycle)
      /\ Cycles'
  <2>1. CASE J!EndCycle(w)
    <3>1. J!Idle \in WorkerRecord /\ J!Idle.job = None /\ J!Idle.cycle = FALSE
      BY DEF J!Idle, WorkerRecord, J!JobRunsAssumption
    <3>2. worker' = [worker EXCEPT ![w] = J!Idle] /\ worker[w].job = None /\ lock' = J!Freed(w) /\ failures' = failures
      BY <2>1 DEF J!EndCycle, J!Between
    <3>3. worker' \in [Workers -> WorkerRecord] /\ worker'[w] = J!Idle /\ \A v \in Workers \ {w} : worker'[v] = worker[v]
      BY <3>1, <3>2, WorkerMoves DEF JobsInv
    <3> QED BY <3>1, <3>2, <3>3 DEF J!Freed, JobsInv, Cycles
  <2>2. ASSUME NEW j \in Intervals, J!SkipJob(w, j)
        PROVE  /\ worker' \in [Workers -> WorkerRecord]
               /\ \A v \in Workers : worker'[v].job = worker[v].job /\ (worker'[v].cycle => worker[v].cycle)
               /\ Cycles'
    <3> DEFINE moved == [worker[w] EXCEPT !.todo = @ \ {j}]
    <3>1. worker[w] \in WorkerRecord /\ worker \in [Workers -> WorkerRecord]
      BY JobTypes DEF JobsInv
    <3>2. moved \in WorkerRecord /\ moved.job = worker[w].job /\ moved.cycle = worker[w].cycle
      BY <3>1 DEF WorkerRecord
    <3>3. worker' = [worker EXCEPT ![w] = moved] /\ lock' = lock /\ failures' = failures
      BY <2>2, <3>1 DEF J!SkipJob
    <3> HIDE DEF moved
    <3>4. worker' \in [Workers -> WorkerRecord] /\ worker'[w] = moved /\ \A v \in Workers \ {w} : worker'[v] = worker[v]
      BY <3>2, <3>3, WorkerMoves DEF JobsInv
    <3> QED BY <3>2, <3>3, <3>4 DEF JobsInv, Cycles
  <2>3. CASE J!LoseLock(w)
    BY <2>3, JobTypes DEF J!LoseLock, J!Fault, JobsInv, Cycles
  <2> QED BY <2>1, <2>2, <2>3
<1>5. J!TypeOK'
  BY <1>1, <1>2, <1>3, <1>4 DEF JobsInv, J!TypeOK, WorkerRecord
<1>6. \A b \in J!Buckets : J!Overtaken(b) => J!Overtaken(b)'
  BY <1>1, <1>2 DEF J!Overtaken
<1>7. OnIt'
  <2> SUFFICES ASSUME NEW v \in Workers, worker[v].job # None
               PROVE  /\ runs[worker[v].job].status # "NONE"
                      /\ done[worker[v].job] = 0
                      /\ runs[worker[v].job].status # "RUNNING" => ("LOCK" \in failures' /\ runs'[worker[v].job].old)
                      /\ \A u \in Workers \ {v} : worker[u].job # worker[v].job
    BY <1>1, <1>4 DEF OnIt, J!Overtaken
  <2>1. worker[v].job \in J!Buckets
    BY JobTypes DEF JobsInv, WorkerRecord
  <2> QED BY <1>1, <1>2, <1>4, <2>1 DEF JobsInv, OnIt, J!Overtaken
<1>8. \A b \in J!Buckets : RowIsTrue(b)'
  BY <1>1, <1>2, <1>4 DEF JobsInv, RowIsTrue, J!Overtaken
<1> QED BY <1>4, <1>5, <1>7, <1>8 DEF JobsInv

LEMMA InsertRunKeepsInv ==
  ASSUME J!JobRunsAssumption, JobsInv, NEW w \in Workers, NEW j \in Intervals, J!InsertRun(w, j) PROVE JobsInv'
<1> DEFINE b == <<j, J!GetScheduleBucket(worker[w].now, j)>>
           left == [worker[w] EXCEPT !.todo = @ \ {j}]
           moved == [left EXCEPT !.job = b]
<1>1. worker[w] \in WorkerRecord /\ worker \in [Workers -> WorkerRecord] /\ runs \in [J!Buckets -> RunRecord]
  BY JobTypes DEF JobsInv
<1>2. b \in J!Buckets /\ b # None /\ b = J!Bucket(w, j)
  BY <1>1, BucketFacts DEF J!Bucket, WorkerRecord
<1> HIDE DEF b
<1>3. runs[b].status = "NONE" /\ worker[w].cycle /\ worker[w].job = None
      /\ runs' = [runs EXCEPT ![b].status = "RUNNING"] /\ UNCHANGED <<clock, lock, done, failures>>
  BY <1>2 DEF J!InsertRun, J!Between
<1>4. left \in WorkerRecord /\ left.cycle = worker[w].cycle
  BY <1>1 DEF WorkerRecord
<1>5. moved \in WorkerRecord /\ moved.cycle = TRUE /\ moved.job = b
  BY <1>2, <1>3, <1>4 DEF WorkerRecord
<1>6. worker' = [worker EXCEPT ![w] = moved]
  BY <1>1, <1>2 DEF J!InsertRun
<1> HIDE DEF moved, left
<1>7. worker' \in [Workers -> WorkerRecord] /\ worker'[w] = moved /\ \A v \in Workers \ {w} : worker'[v] = worker[v]
  BY <1>5, <1>6, WorkerMoves DEF JobsInv
<1>8. runs[b] \in RunRecord /\ [runs[b] EXCEPT !.status = "RUNNING"] \in RunRecord
  BY <1>1, <1>2 DEF RunRecord
<1>9. runs' \in [J!Buckets -> RunRecord] /\ runs'[b].status = "RUNNING" /\ \A c \in J!Buckets \ {b} : runs'[c] = runs[c]
  BY <1>1, <1>2, <1>3, <1>8 DEF RunRecord
<1>10. J!TypeOK'
  BY <1>3, <1>7, <1>9 DEF JobsInv, J!TypeOK, WorkerRecord, RunRecord
<1>11. Cycles'
  BY <1>3, <1>5, <1>7 DEF JobsInv, Cycles
<1>12. \A v \in Workers : worker[v].job # b
  BY <1>2, <1>3 DEF JobsInv, OnIt
<1>13. OnIt'
  <2> SUFFICES ASSUME NEW v \in Workers, worker'[v].job # None
               PROVE  /\ runs'[worker'[v].job].status # "NONE"
                      /\ done[worker'[v].job] = 0
                      /\ runs'[worker'[v].job].status # "RUNNING" =>
                            "LOCK" \in failures /\ runs'[worker'[v].job].old
                      /\ \A u \in Workers \ {v} : worker'[u].job # worker'[v].job
    BY <1>3 DEF OnIt, J!Overtaken
  <2>1. CASE v = w
    BY <1>2, <1>3, <1>5, <1>7, <1>9, <1>12, <2>1 DEF JobsInv, RowIsTrue
  <2>2. CASE v # w
    <3>1. worker'[v] = worker[v] /\ worker[v].job # b /\ worker[v].job \in J!Buckets
      BY <1>1, <1>7, <1>12, <2>2 DEF WorkerRecord
    <3>2. runs'[worker[v].job] = runs[worker[v].job]
      BY <1>9, <3>1
    <3>3. \A u \in Workers \ {v} : worker'[u].job # worker[v].job
      BY <1>5, <1>7, <3>1 DEF JobsInv, OnIt
    <3> QED BY <3>1, <3>2, <3>3 DEF JobsInv, OnIt, J!Overtaken
  <2> QED BY <2>1, <2>2
<1>14. \A c \in J!Buckets : RowIsTrue(c)'
  <2> TAKE c \in J!Buckets
  <2>1. RowIsTrue(c)
    BY DEF JobsInv
  <2>2. CASE c = b
    BY <1>3, <1>5, <1>7, <1>9, <2>1, <2>2 DEF RowIsTrue
  <2>3. CASE c # b
    <3>1. (\E v \in Workers : worker[v].job = c) => \E v \in Workers : worker'[v].job = c
      BY <1>3, <1>7, BucketFacts
    <3> QED BY <1>3, <1>9, <2>1, <2>3, <3>1 DEF RowIsTrue, J!Overtaken
  <2> QED BY <2>2, <2>3
<1> QED BY <1>10, <1>11, <1>13, <1>14 DEF JobsInv

\* The job a worker is on ends, and its row is written if it still runs.
LEMMA JobEndsKeepsInv ==
  ASSUME J!JobRunsAssumption, JobsInv, NEW w \in Workers,
         J!JobSucceeds(w) \/ J!JobFails(w) \/ J!RecordFails(w)
  PROVE  JobsInv'
<1> DEFINE b == worker[w].job
           moved == [worker[w] EXCEPT !.job = None]
<1>1. worker[w] \in WorkerRecord /\ worker \in [Workers -> WorkerRecord] /\ runs \in [J!Buckets -> RunRecord]
      /\ done \in [J!Buckets -> Nat]
  BY JobTypes DEF JobsInv
<1>2. worker[w].cycle /\ b # None /\ b \in J!Buckets
  BY <1>1 DEF J!JobSucceeds, J!JobFails, J!RecordFails, J!Running, WorkerRecord
<1>3. moved \in WorkerRecord /\ moved.cycle = TRUE /\ moved.job = None
  BY <1>1, <1>2 DEF WorkerRecord
<1>4. worker' = [worker EXCEPT ![w] = moved] /\ UNCHANGED <<clock, lock>>
  BY <1>1 DEF J!JobSucceeds, J!JobFails, J!RecordFails, J!Leaves
<1> HIDE DEF moved
<1>5. worker' \in [Workers -> WorkerRecord] /\ worker'[w] = moved /\ \A v \in Workers \ {w} : worker'[v] = worker[v]
  BY <1>3, <1>4, WorkerMoves DEF JobsInv
<1>6. PICK s \in {"SUCCEEDED", "FAILED"} : /\ runs' = J!RecordedAs(w, s)
                                           /\ \/ s = "SUCCEEDED" /\ done' = [done EXCEPT ![b] = @ + 1] /\ failures' = failures
                                              \/ s = "FAILED" /\ done' = done /\ failures' = failures
                                              \/ s = "FAILED" /\ done' = [done EXCEPT ![b] = @ + 1]
                                                 /\ failures' = failures \cup {"RECORD"}
  <2>1. CASE J!JobSucceeds(w)
    BY <2>1 DEF J!JobSucceeds
  <2>2. CASE J!JobFails(w)
    BY <2>2 DEF J!JobFails
  <2>3. CASE J!RecordFails(w)
    BY <2>3 DEF J!RecordFails, J!Fault
  <2> QED BY <2>1, <2>2, <2>3
<1>7. failures \subseteq failures' /\ failures' \subseteq {"RECORD", "CRASH", "LOCK"}
      /\ ("LOCK" \in failures' <=> "LOCK" \in failures)
  BY <1>6 DEF JobsInv, J!TypeOK
<1>8. /\ runs[b].status # "NONE" /\ done[b] = 0 /\ (runs[b].status # "RUNNING" => J!Overtaken(b))
      /\ \A v \in Workers \ {w} : worker[v].job # b
  BY <1>2 DEF JobsInv, OnIt
<1>9. runs[b] \in RunRecord /\ \A t \in {"SUCCEEDED", "FAILED"} : [runs[b] EXCEPT !.status = IF @ = "RUNNING" THEN t ELSE @] \in RunRecord
  BY <1>1, <1>2 DEF RunRecord
<1>10. runs' = [runs EXCEPT ![b] = [runs[b] EXCEPT !.status = IF @ = "RUNNING" THEN s ELSE @]]
  BY <1>1, <1>2, <1>6 DEF J!RecordedAs
<1> HIDE DEF b
<1>11. /\ runs' \in [J!Buckets -> RunRecord] /\ \A c \in J!Buckets \ {b} : runs'[c] = runs[c]
       /\ runs'[b] = [runs[b] EXCEPT !.status = IF @ = "RUNNING" THEN s ELSE @]
  BY <1>1, <1>2, <1>9, <1>10
<1>12. runs'[b].status = (IF runs[b].status = "RUNNING" THEN s ELSE runs[b].status) /\ runs'[b].old = runs[b].old
  BY <1>9, <1>11 DEF RunRecord
<1>13. done' \in [J!Buckets -> Nat] /\ (\A c \in J!Buckets \ {b} : done'[c] = done[c])
       /\ (done'[b] = 1 \/ done'[b] = 0)
       /\ (s = "SUCCEEDED" => done'[b] = 1)
       /\ (s = "FAILED" /\ done'[b] = 1 => "RECORD" \in failures')
  BY <1>1, <1>2, <1>6, <1>8
<1>14. J!TypeOK'
  BY <1>4, <1>5, <1>7, <1>11, <1>13 DEF JobsInv, J!TypeOK, WorkerRecord, RunRecord
<1>15. Cycles'
  BY <1>2, <1>3, <1>4, <1>5, <1>7 DEF JobsInv, Cycles
<1>16. OnIt'
  <2> SUFFICES ASSUME NEW v \in Workers, worker'[v].job # None
               PROVE  /\ runs'[worker'[v].job].status # "NONE"
                      /\ done'[worker'[v].job] = 0
                      /\ runs'[worker'[v].job].status # "RUNNING" =>
                            "LOCK" \in failures' /\ runs'[worker'[v].job].old
                      /\ \A u \in Workers \ {v} : worker'[u].job # worker'[v].job
    BY DEF OnIt, J!Overtaken
  <2>1. v # w /\ worker'[v] = worker[v] /\ worker[v].job # b /\ worker[v].job \in J!Buckets
    BY <1>1, <1>3, <1>5, <1>8 DEF WorkerRecord
  <2>2. runs'[worker[v].job] = runs[worker[v].job] /\ done'[worker[v].job] = done[worker[v].job]
    BY <1>11, <1>13, <2>1
  <2>3. \A u \in Workers \ {v} : worker'[u].job # worker[v].job
    BY <1>3, <1>5, <2>1 DEF JobsInv, OnIt
  <2> QED BY <1>7, <2>1, <2>2, <2>3 DEF JobsInv, OnIt, J!Overtaken
<1>17. \A c \in J!Buckets : RowIsTrue(c)'
  <2> TAKE c \in J!Buckets
  <2>1. RowIsTrue(c)
    BY DEF JobsInv
  <2>2. CASE c = b
    <3>1. done'[c] <= 1
      BY <1>13, <2>2
    <3>2. runs'[c].status \notin {"NONE", "RUNNING"}
      BY <1>8, <1>12, <2>2
    <3>3. runs'[c].status = "SUCCEEDED" => done'[c] = 1
      BY <1>8, <1>12, <1>13, <2>1, <2>2 DEF RowIsTrue
    <3>4. runs'[c].status = "FAILED" /\ done'[c] = 1 => failures' \cap {"RECORD", "CRASH"} # {} \/ ("LOCK" \in failures' /\ runs'[c].old)
      <4>1. CASE runs[b].status = "RUNNING"
        BY <1>12, <1>13, <2>2, <4>1
      <4>2. CASE runs[b].status # "RUNNING"
        BY <1>7, <1>8, <1>12, <2>2, <4>2 DEF J!Overtaken
      <4> QED BY <4>1, <4>2
    <3> QED BY <3>1, <3>2, <3>3, <3>4 DEF RowIsTrue, J!Overtaken
  <2>3. CASE c # b
    <3>1. (\E v \in Workers : worker[v].job = c) => \E v \in Workers : worker'[v].job = c
      <4> SUFFICES ASSUME NEW v \in Workers, worker[v].job = c PROVE worker'[v].job = c
        OBVIOUS
      <4> QED BY <1>5, <2>3 DEF b
    <3> QED BY <1>7, <1>11, <1>13, <2>1, <2>3, <3>1 DEF RowIsTrue, J!Overtaken
  <2> QED BY <2>2, <2>3
<1> QED BY <1>14, <1>15, <1>16, <1>17 DEF JobsInv

LEMMA CrashKeepsInv ==
  ASSUME J!JobRunsAssumption, JobsInv, NEW w \in Workers, J!Crash(w) PROVE JobsInv'
<1> DEFINE b == worker[w].job
<1>1. worker[w] \in WorkerRecord /\ worker \in [Workers -> WorkerRecord] /\ done \in [J!Buckets -> Nat]
  BY JobTypes DEF JobsInv
<1>2. J!Idle \in WorkerRecord /\ J!Idle.job = None /\ J!Idle.cycle = FALSE
  BY DEF J!Idle, WorkerRecord, J!JobRunsAssumption
<1>3. worker' = [worker EXCEPT ![w] = J!Idle] /\ failures' = failures \cup {"CRASH"} /\ lock' = J!Freed(w)
      /\ UNCHANGED <<clock, runs>>
      /\ (done' = done \/ (b # None /\ done' = [done EXCEPT ![b] = @ + 1]))
  BY DEF J!Crash, J!Fault, J!Running
<1>4. worker' \in [Workers -> WorkerRecord] /\ worker'[w] = J!Idle /\ \A v \in Workers \ {w} : worker'[v] = worker[v]
  BY <1>2, <1>3, WorkerMoves DEF JobsInv
<1>5. b # None => /\ b \in J!Buckets /\ runs[b].status # "NONE" /\ done[b] = 0
                  /\ \A v \in Workers \ {w} : worker[v].job # b
  BY <1>1 DEF JobsInv, OnIt, WorkerRecord
<1>6. /\ done' \in [J!Buckets -> Nat]
      /\ \A c \in J!Buckets : done'[c] = done[c] \/ (c = b /\ b # None /\ done[c] = 0 /\ done'[c] = 1)
  BY <1>1, <1>3, <1>5
<1>7. failures' \subseteq {"RECORD", "CRASH", "LOCK"} /\ lock' \in Workers \cup {None}
  BY <1>3 DEF JobsInv, J!TypeOK, J!Freed
<1>8. J!TypeOK'
  BY <1>3, <1>4, <1>6, <1>7 DEF JobsInv, J!TypeOK, WorkerRecord
<1>9. Cycles'
  BY <1>2, <1>3, <1>4 DEF JobsInv, Cycles, J!Freed
<1>10. OnIt'
  <2> SUFFICES ASSUME NEW v \in Workers, worker'[v].job # None
               PROVE  /\ runs[worker'[v].job].status # "NONE"
                      /\ done'[worker'[v].job] = 0
                      /\ runs[worker'[v].job].status # "RUNNING" =>
                            "LOCK" \in failures' /\ runs[worker'[v].job].old
                      /\ \A u \in Workers \ {v} : worker'[u].job # worker'[v].job
    BY <1>3 DEF OnIt, J!Overtaken
  <2>1. v # w /\ worker'[v] = worker[v] /\ worker[v].job \in J!Buckets
    BY <1>1, <1>2, <1>4 DEF WorkerRecord
  <2>2. worker[v].job # b
    BY <1>5, <2>1
  <2>3. done'[worker[v].job] = done[worker[v].job]
    BY <1>6, <2>1, <2>2
  <2>4. \A u \in Workers \ {v} : worker'[u].job # worker[v].job
    BY <1>2, <1>4, <2>1 DEF JobsInv, OnIt
  <2> QED BY <1>3, <2>1, <2>3, <2>4 DEF JobsInv, OnIt, J!Overtaken
<1>11. \A c \in J!Buckets : RowIsTrue(c)'
  <2> TAKE c \in J!Buckets
  <2>1. RowIsTrue(c)
    BY DEF JobsInv
  <2>2. done'[c] <= 1 /\ (done[c] = 1 => done'[c] = 1) /\ (done'[c] = 1 /\ done[c] # 1 => runs[c].status # "NONE")
    BY <1>5, <1>6, <2>1 DEF RowIsTrue
  <2>3. "CRASH" \in failures'
    BY <1>3
  <2>4. runs[c].status = "NONE" => done'[c] = 0
    BY <1>5, <1>6, <2>1 DEF RowIsTrue
  <2> QED BY <1>3, <2>1, <2>2, <2>3, <2>4 DEF RowIsTrue
<1> QED BY <1>8, <1>9, <1>10, <1>11 DEF JobsInv

LEMMA TimePassesKeepsInv ==
  ASSUME J!JobRunsAssumption, JobsInv, J!Tick \/ \E b \in J!Buckets : J!RunAges(b) PROVE JobsInv'
<1>1. CASE J!Tick
  <2>1. UNCHANGED <<lock, worker, runs, done, failures>> /\ clock' \in 0..MaxTime
    BY <1>1 DEF J!Tick, JobsInv, J!TypeOK, J!JobRunsAssumption
  <2>2. J!TypeOK'
    BY <2>1, JobTypes DEF JobsInv, J!TypeOK
  <2> QED BY <2>1, <2>2 DEF JobsInv, Cycles, OnIt, RowIsTrue, J!Overtaken
<1>2. ASSUME NEW b \in J!Buckets, J!RunAges(b) PROVE JobsInv'
  <2>1. runs \in [J!Buckets -> RunRecord]
    BY JobTypes DEF JobsInv
  <2>2. runs[b].status = "RUNNING" /\ runs' = [runs EXCEPT ![b].old = TRUE]
        /\ UNCHANGED <<clock, lock, worker, done, failures>>
    BY <1>2 DEF J!RunAges
  <2>3. runs[b] \in RunRecord /\ [runs[b] EXCEPT !.old = TRUE] \in RunRecord
    BY <2>1 DEF RunRecord
  <2>4. runs' \in [J!Buckets -> RunRecord] /\ runs'[b] = [runs[b] EXCEPT !.old = TRUE]
        /\ \A c \in J!Buckets \ {b} : runs'[c] = runs[c]
    BY <2>1, <2>2, <2>3
  <2>5. \A c \in J!Buckets : runs'[c].status = runs[c].status /\ (runs[c].old => runs'[c].old)
    BY <2>3, <2>4 DEF RunRecord
  <2>6. J!TypeOK'
    BY <2>2, <2>4 DEF JobsInv, J!TypeOK, RunRecord
  <2>7. Cycles'
    BY <2>2 DEF JobsInv, Cycles
  <2>8. \A c \in J!Buckets : RowIsTrue(c)'
    BY <2>2, <2>5 DEF JobsInv, RowIsTrue, J!Overtaken
  <2>9. OnIt'
    <3> SUFFICES ASSUME NEW v \in Workers, worker[v].job # None
                 PROVE  /\ runs'[worker[v].job].status # "NONE"
                        /\ done[worker[v].job] = 0
                        /\ runs'[worker[v].job].status # "RUNNING" =>
                              "LOCK" \in failures /\ runs'[worker[v].job].old
                        /\ \A u \in Workers \ {v} : worker[u].job # worker[v].job
      BY <2>2 DEF OnIt, J!Overtaken
    <3>1. worker[v].job \in J!Buckets
      BY JobTypes DEF JobsInv, WorkerRecord
    <3> QED BY <2>5, <3>1 DEF JobsInv, OnIt, J!Overtaken
  <2> QED BY <2>6, <2>7, <2>8, <2>9 DEF JobsInv
<1> QED BY <1>1, <1>2

LEMMA JobsStepInv == ASSUME J!JobRunsAssumption, JobsInv, [J!Next]_(J!vars) PROVE JobsInv'
<1>1. CASE UNCHANGED J!vars
  BY <1>1 DEF J!vars, JobsInv, J!TypeOK, Cycles, OnIt, RowIsTrue, J!Overtaken
<1>2. CASE J!Next
  BY <1>2, BeginCycleKeepsInv, CycleMovesKeepsInv, InsertRunKeepsInv, JobEndsKeepsInv, CrashKeepsInv,
     TimePassesKeepsInv DEF J!Next
<1> QED BY <1>1, <1>2
-----------------------------------------------------------------------------
\* What is known of cycles and job runs holds in every reachable state.
THEOREM JobsInvariance == ASSUME J!JobRunsAssumption PROVE J!Spec => []JobsInv
BY JobsInitInv, JobsStepInv, PTL DEF J!Spec

\* What background_job_run says of a job is true, whatever crashes and
\* whichever lock is lost.
THEOREM JobRowsAreTrue == ASSUME J!JobRunsAssumption PROVE J!Spec => []J!RunsAreTrue
<1>1. ASSUME J!JobRunsAssumption, JobsInv PROVE J!RunsAreTrue
  <2>1. \A b \in J!Buckets : \A w \in Workers : worker[w].job = b /\ runs[b].status # "RUNNING" => J!Overtaken(b)
    BY <1>1, BucketFacts DEF JobsInv, OnIt
  <2>2. \A v, w \in Workers : J!Running(v) /\ J!Running(w) /\ v # w => "LOCK" \in failures
    BY <1>1 DEF JobsInv, Cycles, J!Running
  <2> QED BY <1>1, <2>1, <2>2 DEF JobsInv, RowIsTrue, J!RunsAreTrue
<1> QED BY <1>1, JobsInvariance, PTL
-----------------------------------------------------------------------------
(* The browser's tab: as long as nothing disturbs it, what it sends to be  *)
(* refreshed is the newest token of the one session that lives, or of one  *)
(* that has ended.                                                         *)

Issued(bearer) == bearer # None => bearer \in B!Token /\ session[bearer.s].status # "NONE"

SessionRecord == [status : {"NONE", "LIVE", "REVOKED"}, newest : 0..MaxRotations]
CallRecord == [step : {"IDLE", "SENT", "REFUSED", "WAITING"}, token : B!Token \cup {None}, retry : BOOLEAN,
               waits : B!Ids \cup {None}]
RefreshRecord == [step : {"IDLE", "SENT", "ANSWERED"}, cookie : B!Token \cup {None}, answer : B!Token \cup {None}]
LogoutRecord == [step : {"IDLE", "SENT", "ANSWERED"}, cookie : B!Token \cup {None}]

Shapes ==
    /\ session \in [B!SessionIds -> SessionRecord]
    /\ expired \subseteq B!Token /\ cookie \in B!Token \cup {None} /\ access \in B!Token \cup {None}
    /\ page \in {"INIT", "IN", "OUT"} /\ faults \in 0..MaxFaults /\ crossed \in BOOLEAN
    /\ call \in [Calls -> CallRecord] /\ refresh \in [B!Ids -> RefreshRecord] /\ logout \in LogoutRecord
    /\ promise \in B!Ids \cup {None}

\* Who waits for whom.
Whereabouts ==
    /\ \A d \in B!Ids : refresh[d].step # "IDLE" <=> promise = d
    /\ \A c \in Calls : call[c].step = "WAITING" => call[c].waits = promise /\ promise # None
    /\ promise \in Calls => call[promise].step = "WAITING"
    /\ promise = B!Page <=> page = "INIT"
    /\ logout.step = "IDLE" => logout = B!NoLogout
    /\ logout.step # "IDLE" => page = "IN"

SessionsInOrder ==
    /\ \A s, t \in B!SessionIds : s < t /\ session[t].status # "NONE" => session[s].status # "NONE"
    /\ \A s \in B!SessionIds : session[s].status = "NONE" => session[s].newest = 0

TokensIssued ==
    /\ Issued(cookie) /\ Issued(logout.cookie)
    /\ \A d \in B!Ids : Issued(refresh[d].cookie) /\ Issued(refresh[d].answer)

RefreshTrue(d) ==
    /\ refresh[d].step = "SENT" /\ refresh[d].cookie # None /\ B!Live(refresh[d].cookie.s) =>
          refresh[d].cookie = B!Newest(refresh[d].cookie.s)
    /\ refresh[d].step = "ANSWERED" /\ refresh[d].answer # None =>
          /\ refresh[d].cookie # None /\ refresh[d].answer.s = refresh[d].cookie.s
          /\ B!Live(refresh[d].answer.s) => refresh[d].answer = B!Newest(refresh[d].answer.s)
    /\ refresh[d].step = "ANSWERED" /\ refresh[d].answer = None /\ refresh[d].cookie # None =>
          ~B!Live(refresh[d].cookie.s)

InTab ==
    /\ cookie # None
    /\ \A s \in B!SessionIds : s > cookie.s => session[s].status = "NONE"
    /\ \A s \in B!SessionIds : session[s].status = "LIVE" <=> s = cookie.s /\ logout.step # "ANSWERED"
    /\ promise = None /\ session[cookie.s].status = "LIVE" => cookie = B!Newest(cookie.s)
    /\ logout.step = "SENT" => logout.cookie # None /\ logout.cookie.s = cookie.s

OutTab == \A s \in B!SessionIds : session[s].status # "LIVE"

InitTab ==
    /\ refresh[B!Page].cookie = None /\ refresh[B!Page].answer = None
    /\ \E s \in B!SessionIds : session[s].status # "NONE"

TabSound ==
    B!Undisturbed =>
        /\ \A d \in B!Ids : RefreshTrue(d)
        /\ page = "IN" => InTab
        /\ page # "IN" => OutTab
        /\ page = "INIT" => InitTab

TabInv == Shapes /\ Whereabouts /\ SessionsInOrder /\ TokensIssued /\ TabSound

LEMMA TabTypes == Shapes /\ Whereabouts => B!TypeOK
BY DEF Shapes, Whereabouts, SessionRecord, B!TypeOK, B!Busy

LEMMA TabFacts ==
  ASSUME B!BrowserTabAssumption, Shapes
  PROVE  /\ None \notin B!Token /\ None \notin B!Ids /\ B!Page \in B!Ids /\ B!Page \notin Calls /\ Calls \subseteq B!Ids
         /\ B!Ids = Calls \cup {B!Page}
         /\ \A t \in B!Token : t.s \in B!SessionIds /\ t.n \in 0..MaxRotations /\ t = [s |-> t.s, n |-> t.n]
         /\ \A s \in B!SessionIds : B!Newest(s) \in B!Token /\ B!Newest(s).s = s /\ B!Newest(s).n = session[s].newest
         /\ \A s \in B!SessionIds : s \in Nat /\ session[s] \in SessionRecord
         /\ MaxRotations \in Nat
<1>1. None \notin B!Ids /\ B!Page \in B!Ids /\ B!Page \notin Calls /\ B!Ids = Calls \cup {B!Page}
      /\ MaxSessions \in Nat /\ MaxRotations \in Nat
  BY DEF B!BrowserTabAssumption, B!Ids
<1>2. \A s \in B!SessionIds : s \in Nat
  BY <1>1 DEF B!SessionIds
<1>3. B!Token \subseteq [s : Nat, n : Nat]
  BY <1>1, <1>2 DEF B!Token
<1>4. None \notin B!Token
  BY <1>3 DEF B!BrowserTabAssumption
<1>5. \A t \in B!Token : t.s \in B!SessionIds /\ t.n \in 0..MaxRotations /\ t = [s |-> t.s, n |-> t.n]
  BY DEF B!Token
<1>6. \A s \in B!SessionIds : session[s] \in SessionRecord
  BY DEF Shapes
<1>7. \A s \in B!SessionIds : B!Newest(s) \in B!Token /\ B!Newest(s).s = s /\ B!Newest(s).n = session[s].newest
  BY <1>6 DEF SessionRecord, B!Newest, B!Token
<1> QED BY <1>1, <1>2, <1>4, <1>5, <1>6, <1>7

LEMMA RecordFacts ==
  ASSUME B!BrowserTabAssumption
  PROVE  /\ B!NoCall \in CallRecord /\ B!NoCall.step = "IDLE"
         /\ B!NoRefresh \in RefreshRecord /\ B!NoRefresh.step = "IDLE" /\ B!NoRefresh.cookie = None /\ B!NoRefresh.answer = None
         /\ B!NoLogout \in LogoutRecord /\ B!NoLogout.step = "IDLE" /\ B!NoLogout.cookie = None
         /\ \A t \in B!Token \cup {None} : /\ B!Sent(t) \in RefreshRecord /\ B!Sent(t).step = "SENT"
                                           /\ B!Sent(t).cookie = t /\ B!Sent(t).answer = None
BY DEF B!NoCall, B!NoRefresh, B!NoLogout, B!Sent, CallRecord, RefreshRecord, LogoutRecord

LEMMA TabInitInv == ASSUME B!BrowserTabAssumption, B!Init PROVE TabInv
<1> DEFINE none == [status |-> "NONE", newest |-> 0]
<1>1. none \in SessionRecord /\ none.status = "NONE" /\ none.newest = 0
  BY DEF SessionRecord, B!BrowserTabAssumption
<1>2. session = [s \in B!SessionIds |-> none] /\ \A s \in B!SessionIds : session[s] = none
  BY DEF B!Init
<1> HIDE DEF none
<1>3. refresh = [d \in B!Ids |-> B!NoRefresh] /\ call = [c \in Calls |-> B!NoCall] /\ logout = B!NoLogout
      /\ expired = {} /\ cookie = None /\ access = None /\ page = "OUT" /\ promise = None /\ faults = 0 /\ crossed = FALSE
  BY DEF B!Init
<1>4. 0 \in 0..MaxFaults
  BY DEF B!BrowserTabAssumption
<1>5. Shapes
  BY <1>1, <1>2, <1>3, <1>4, RecordFacts DEF Shapes
<1>6. (\A d \in B!Ids : refresh[d] = B!NoRefresh) /\ \A c \in Calls : call[c] = B!NoCall
  BY <1>3
<1>7. Whereabouts
  BY <1>3, <1>5, <1>6, RecordFacts, TabFacts DEF Whereabouts
<1>8. SessionsInOrder
  BY <1>1, <1>2 DEF SessionsInOrder
<1>9. TokensIssued
  BY <1>3, <1>6, RecordFacts DEF TokensIssued, Issued
<1>10. TabSound
  BY <1>1, <1>2, <1>3, <1>6, RecordFacts DEF TabSound, RefreshTrue, OutTab
<1> QED BY <1>5, <1>7, <1>8, <1>9, <1>10 DEF TabInv

\* Steps of a call that neither wait for a refresh nor end waiting for one.
LEMMA QuietStep ==
  ASSUME TabInv, UNCHANGED <<session, cookie, access, page, refresh, promise, logout, faults, crossed>>,
         expired' \subseteq B!Token, call' \in [Calls -> CallRecord],
         \A c \in Calls : /\ call'[c].step = "WAITING" <=> call[c].step = "WAITING"
                          /\ call[c].step = "WAITING" => call'[c].waits = call[c].waits
  PROVE  TabInv'
<1>1. Shapes'
  BY DEF TabInv, Shapes
<1>2. Whereabouts'
  BY DEF TabInv, Whereabouts
<1>3. SessionsInOrder' /\ TokensIssued'
  BY DEF TabInv, SessionsInOrder, TokensIssued, Issued
<1>4. TabSound'
  BY DEF TabInv, TabSound, B!Undisturbed, RefreshTrue, InTab, OutTab, InitTab, B!Live, B!Newest
<1> QED BY <1>1, <1>2, <1>3, <1>4 DEF TabInv

LEMMA QuietKeepsInv ==
  ASSUME B!BrowserTabAssumption, TabInv,
         \/ \E c \in Calls : B!Send(c) \/ B!RequireAuth(c)
         \/ \E bearer \in B!Token : B!Expires(bearer)
  PROVE  TabInv'
<1>1. call \in [Calls -> CallRecord] /\ access \in B!Token \cup {None} /\ expired \subseteq B!Token
  BY DEF TabInv, Shapes
<1>2. ASSUME NEW c \in Calls, B!Send(c) PROVE TabInv'
  <2> DEFINE sent == [[call[c] EXCEPT !.step = "SENT"] EXCEPT !.token = access]
  <2>1. [call[c] EXCEPT !.step = "SENT"] \in CallRecord
    BY <1>1 DEF CallRecord
  <2>2. sent \in CallRecord /\ sent.step = "SENT"
    BY <1>1, <2>1 DEF CallRecord
  <2>3. call' = [call EXCEPT ![c] = sent] /\ call[c].step = "IDLE"
    BY <1>1, <1>2 DEF B!Send, CallRecord
  <2>4. UNCHANGED <<session, cookie, access, page, refresh, promise, logout, faults, crossed>> /\ expired' = expired
    BY <1>2 DEF B!Send, B!Server, B!Client, B!Ghosts
  <2> HIDE DEF sent
  <2>5. call' \in [Calls -> CallRecord] /\ call'[c] = sent /\ \A e \in Calls \ {c} : call'[e] = call[e]
    BY <1>1, <2>2, <2>3
  <2> QED BY <1>1, <2>2, <2>3, <2>4, <2>5, QuietStep
<1>3. ASSUME NEW c \in Calls, B!RequireAuth(c) PROVE TabInv'
  <2> DEFINE refused == [call[c] EXCEPT !.step = "REFUSED"]
  <2>1. refused \in CallRecord /\ refused.step = "REFUSED"
    BY <1>1 DEF CallRecord
  <2>2. (call' = [call EXCEPT ![c] = refused] \/ call' = [call EXCEPT ![c] = B!NoCall]) /\ call[c].step = "SENT"
    BY <1>1, <1>3 DEF B!RequireAuth
  <2>3. UNCHANGED <<session, cookie, access, page, refresh, promise, logout, faults, crossed>> /\ expired' = expired
    BY <1>3 DEF B!RequireAuth, B!Server, B!Client, B!Ghosts
  <2> HIDE DEF refused
  <2>4. /\ call' \in [Calls -> CallRecord] /\ call'[c].step # "WAITING"
        /\ \A e \in Calls \ {c} : call'[e] = call[e]
    BY <1>1, <2>1, <2>2, RecordFacts
  <2> QED BY <1>1, <2>2, <2>3, <2>4, QuietStep
<1>4. ASSUME NEW bearer \in B!Token, B!Expires(bearer) PROVE TabInv'
  BY <1>1, <1>4, QuietStep DEF B!Expires, B!Server, B!Client, B!Ghosts
<1> QED BY <1>2, <1>3, <1>4

LEMMA LoginKeepsInv ==
  ASSUME B!BrowserTabAssumption, TabInv, NEW s \in B!SessionIds, B!Login(s) PROVE TabInv'
<1> DEFINE first == [s |-> s, n |-> 0]
<1>1. /\ page = "OUT" /\ session[s].status = "NONE" /\ (s > 1 => session[s - 1].status # "NONE")
      /\ session' = [session EXCEPT ![s].status = "LIVE"]
      /\ cookie' = first /\ access' = first /\ page' = "IN"
      /\ UNCHANGED <<expired, call, refresh, promise, logout, faults, crossed>>
  BY DEF B!Login, B!Ghosts
<1>2. first \in B!Token /\ first.s = s /\ first.n = 0
  BY DEF B!Token, B!BrowserTabAssumption
<1> HIDE DEF first
<1>3. session \in [B!SessionIds -> SessionRecord] /\ session[s] \in SessionRecord /\ session[s].newest = 0
  BY <1>1 DEF TabInv, Shapes, SessionsInOrder
<1>4. /\ session' \in [B!SessionIds -> SessionRecord]
      /\ session'[s].status = "LIVE" /\ session'[s].newest = 0
      /\ \A t \in B!SessionIds \ {s} : session'[t] = session[t]
  <2>1. [session[s] EXCEPT !.status = "LIVE"] \in SessionRecord
    BY <1>3 DEF SessionRecord
  <2> QED BY <1>1, <1>3, <2>1 DEF SessionRecord
<1>5. Shapes'
  BY <1>1, <1>2, <1>4 DEF TabInv, Shapes
<1>6. logout.step = "IDLE" /\ logout = B!NoLogout /\ promise # B!Page
  BY <1>1, RecordFacts DEF TabInv, Whereabouts, Shapes, LogoutRecord
<1>7. Whereabouts'
  BY <1>1, <1>6 DEF TabInv, Whereabouts
<1>8. \A t \in B!SessionIds : (t < s => session[t].status # "NONE") /\ (t > s => session[t].status = "NONE")
  <2> TAKE t \in B!SessionIds
  <2>1. s \in Nat /\ t \in Nat /\ s >= 1 /\ t >= 1 /\ s - 1 \in Int
    BY DEF B!SessionIds
  <2>2. CASE t < s
    <3>1. s - 1 \in B!SessionIds /\ s > 1
      BY <2>1, <2>2 DEF B!SessionIds, B!BrowserTabAssumption
    <3>2. t = s - 1 \/ t < s - 1
      BY <2>1, <2>2
    <3> QED BY <1>1, <2>2, <3>1, <3>2, <2>1 DEF TabInv, SessionsInOrder
  <2>3. CASE t > s
    BY <1>1, <2>3, <2>1 DEF TabInv, SessionsInOrder
  <2> QED BY <2>1, <2>2, <2>3
<1>9. SessionsInOrder'
  <2>1. \A t \in B!SessionIds : t \in Nat
    BY <1>5, <1>3, TabFacts DEF TabInv
  <2> QED BY <1>4, <1>8, <2>1 DEF TabInv, SessionsInOrder
<1>10. TokensIssued'
  <2>1. ASSUME NEW t, Issued(t) PROVE t # None => t \in B!Token /\ session'[t.s].status # "NONE"
    BY <1>1, <1>4, <2>1, TabFacts DEF Issued, TabInv
  <2> QED BY <1>1, <1>2, <1>4, <2>1 DEF TabInv, TokensIssued, Issued
<1>11. TabSound'
  <2> SUFFICES ASSUME B!Undisturbed
               PROVE  (\A d \in B!Ids : RefreshTrue(d)') /\ InTab'
    BY <1>1 DEF TabSound, B!Undisturbed
  <2>1. OutTab /\ \A d \in B!Ids : RefreshTrue(d)
    BY <1>1 DEF TabInv, TabSound
  <2>2. \A t : Issued(t) /\ t # None => t.s # s /\ session'[t.s] = session[t.s]
    BY <1>1, <1>4, TabFacts DEF Issued, TabInv
  <2>3. \A d \in B!Ids : RefreshTrue(d)'
    <3> TAKE d \in B!Ids
    <3>1. Issued(refresh[d].cookie) /\ Issued(refresh[d].answer) /\ RefreshTrue(d)
      BY <2>1 DEF TabInv, TokensIssued
    <3>2. refresh[d].cookie # None => session'[refresh[d].cookie.s] = session[refresh[d].cookie.s]
      BY <2>2, <3>1
    <3>3. refresh[d].answer # None => session'[refresh[d].answer.s] = session[refresh[d].answer.s]
      BY <2>2, <3>1
    <3> QED BY <1>1, <3>1, <3>2, <3>3 DEF RefreshTrue, B!Live, B!Newest
  <2>4. InTab'
    <3>1. \A t \in B!SessionIds : t > s => session'[t].status = "NONE"
      <4>1. \A t \in B!SessionIds : t > s => t # s
        BY <1>3, TabFacts DEF TabInv
      <4> QED BY <1>4, <1>8, <4>1
    <3>2. \A t \in B!SessionIds : session'[t].status = "LIVE" <=> t = s
      BY <1>4, <2>1 DEF OutTab
    <3>3. first = [s |-> s, n |-> session'[s].newest]
      BY <1>4 DEF first
    <3>4. cookie' = first /\ cookie' # None /\ cookie'.s = s /\ logout'.step = "IDLE"
      BY <1>1, <1>2, <1>6, TabFacts DEF TabInv
    <3> QED BY <3>1, <3>2, <3>3, <3>4 DEF InTab, B!Newest
  <2> QED BY <2>3, <2>4
<1> QED BY <1>5, <1>7, <1>9, <1>10, <1>11 DEF TabInv

LEMMA RefusedKeepsInv ==
  ASSUME B!BrowserTabAssumption, TabInv, NEW c \in Calls, B!Refused(c) PROVE TabInv'
<1> DEFINE waits(d) == [[call[c] EXCEPT !.step = "WAITING"] EXCEPT !.waits = d]
<1>1. /\ call[c].step = "REFUSED" /\ refresh[c].step = "IDLE" /\ B!TryRefresh(c)
      /\ UNCHANGED <<session, expired, cookie, access, page, logout, faults, crossed>>
  BY DEF B!Refused, B!Busy, B!Server, B!Client, B!Ghosts
<1>2. /\ call \in [Calls -> CallRecord] /\ refresh \in [B!Ids -> RefreshRecord] /\ cookie \in B!Token \cup {None}
      /\ c \in B!Ids /\ c # None /\ c # B!Page /\ promise \in B!Ids \cup {None}
  BY TabFacts DEF TabInv, Shapes
<1>3. \A d \in B!Ids : waits(d) \in CallRecord /\ waits(d).step = "WAITING" /\ waits(d).waits = d
  <2>1. ASSUME NEW d \in B!Ids
        PROVE  waits(d) \in CallRecord /\ waits(d).step = "WAITING" /\ waits(d).waits = d
    <3>1. [call[c] EXCEPT !.step = "WAITING"] \in CallRecord
      BY <1>2 DEF CallRecord
    <3> QED BY <2>1, <3>1 DEF CallRecord
  <2> HIDE DEF waits
  <2> QED BY <2>1
<1>4. SessionsInOrder'
  BY <1>1 DEF TabInv, SessionsInOrder
<1>5. CASE promise = None
  <2>1. refresh' = [refresh EXCEPT ![c] = B!Sent(cookie)] /\ promise' = c /\ call' = [call EXCEPT ![c] = waits(c)]
    BY <1>1, <1>2, <1>5 DEF B!TryRefresh, CallRecord
  <2> HIDE DEF waits
  <2>2. call' \in [Calls -> CallRecord] /\ call'[c] = waits(c) /\ \A e \in Calls \ {c} : call'[e] = call[e]
    BY <1>2, <1>3, <2>1
  <2>3. refresh' \in [B!Ids -> RefreshRecord] /\ refresh'[c] = B!Sent(cookie)
        /\ (\A d \in B!Ids \ {c} : refresh'[d] = refresh[d])
    BY <1>2, <2>1, RecordFacts
  <2>4. B!Sent(cookie).step = "SENT" /\ B!Sent(cookie).cookie = cookie /\ B!Sent(cookie).answer = None
    BY <1>2, RecordFacts
  <2>5. Shapes'
    BY <1>1, <1>2, <2>1, <2>2, <2>3 DEF TabInv, Shapes
  <2>6. Whereabouts'
    <3>1. \A d \in B!Ids : refresh'[d].step # "IDLE" <=> promise' = d
      BY <1>2, <1>5, <2>1, <2>3, <2>4, TabFacts DEF TabInv, Whereabouts
    <3>2. \A e \in Calls : call'[e].step = "WAITING" => call'[e].waits = promise' /\ promise' # None
      BY <1>2, <1>3, <1>5, <2>1, <2>2 DEF TabInv, Whereabouts
    <3>3. call'[promise'].step = "WAITING"
      BY <1>2, <1>3, <2>1, <2>2
    <3>4. promise # B!Page
      BY <1>2, <1>5 DEF B!BrowserTabAssumption, B!Ids
    <3> QED BY <1>1, <1>2, <2>1, <3>1, <3>2, <3>3, <3>4 DEF TabInv, Whereabouts
  <2>7. TokensIssued'
    BY <1>1, <1>2, <2>3, <2>4 DEF TabInv, TokensIssued, Issued
  <2>8. TabSound'
    <3> SUFFICES ASSUME B!Undisturbed
                 PROVE  /\ \A d \in B!Ids : RefreshTrue(d)'
                        /\ page = "IN" => InTab'
                        /\ page # "IN" => OutTab'
                        /\ page = "INIT" => InitTab'
      BY <1>1 DEF TabSound, B!Undisturbed
    <3>1. page # "INIT"
      BY <1>2, <1>5 DEF TabInv, Whereabouts, B!BrowserTabAssumption, B!Ids
    <3>2. (page = "IN" => InTab) /\ (page # "IN" => OutTab) /\ \A d \in B!Ids : RefreshTrue(d)
      BY DEF TabInv, TabSound
    <3>3. page = "IN" => InTab'
      BY <1>1, <1>2, <2>1, <3>2 DEF InTab, B!Newest
    <3>4. page # "IN" => OutTab'
      BY <1>1, <3>2 DEF OutTab
    <3>5. \A d \in B!Ids : RefreshTrue(d)'
      <4> TAKE d \in B!Ids
      <4>1. CASE d # c
        BY <1>1, <2>3, <3>2, <4>1 DEF RefreshTrue, B!Live, B!Newest
      <4>2. CASE d = c
        <5>1. cookie # None /\ B!Live(cookie.s) => cookie = B!Newest(cookie.s)
          <6>1. cookie # None => cookie.s \in B!SessionIds
            BY <1>2, TabFacts DEF TabInv
          <6> QED BY <1>5, <3>2, <6>1 DEF InTab, OutTab, B!Live
        <5> QED BY <1>1, <2>3, <2>4, <4>2, <5>1 DEF RefreshTrue, B!Live, B!Newest
      <4> QED BY <4>1, <4>2
    <3> QED BY <3>1, <3>3, <3>4, <3>5
  <2> QED BY <1>4, <2>5, <2>6, <2>7, <2>8 DEF TabInv
<1>6. CASE promise # None
  <2>1. refresh' = refresh /\ promise' = promise /\ call' = [call EXCEPT ![c] = waits(promise)]
    BY <1>1, <1>2, <1>6 DEF B!TryRefresh, CallRecord
  <2> HIDE DEF waits
  <2>2. call' \in [Calls -> CallRecord] /\ call'[c] = waits(promise) /\ \A e \in Calls \ {c} : call'[e] = call[e]
    BY <1>2, <1>3, <1>6, <2>1
  <2>3. Shapes'
    BY <1>1, <1>2, <2>1, <2>2 DEF TabInv, Shapes
  <2>4. Whereabouts'
    BY <1>1, <1>2, <1>3, <1>6, <2>1, <2>2 DEF TabInv, Whereabouts
  <2>5. TokensIssued'
    BY <1>1, <2>1 DEF TabInv, TokensIssued, Issued
  <2>6. TabSound'
    BY <1>1, <2>1 DEF TabInv, TabSound, B!Undisturbed, RefreshTrue, InTab, OutTab, InitTab, B!Live, B!Newest
  <2> QED BY <1>4, <2>3, <2>4, <2>5, <2>6 DEF TabInv
<1> QED BY <1>5, <1>6

LEMMA RotateKeepsInv ==
  ASSUME B!BrowserTabAssumption, TabInv, NEW d \in B!Ids, B!RotateRefreshToken(d) PROVE TabInv'
<1> DEFINE bearer == refresh[d].cookie
           answered(a) == [[refresh[d] EXCEPT !.step = "ANSWERED"] EXCEPT !.answer = a]
<1>1. /\ refresh[d].step = "SENT" /\ promise = d
      /\ UNCHANGED <<expired, cookie, access, page, call, promise, logout, faults, crossed>>
  BY DEF B!RotateRefreshToken, B!Client, B!Ghosts, TabInv, Whereabouts
<1>2. /\ session \in [B!SessionIds -> SessionRecord] /\ refresh \in [B!Ids -> RefreshRecord] /\ refresh[d] \in RefreshRecord
      /\ bearer \in B!Token \cup {None} /\ Issued(bearer) /\ d # None
  BY TabFacts DEF TabInv, Shapes, RefreshRecord, TokensIssued
<1>3. \A a \in B!Token \cup {None} : /\ answered(a) \in RefreshRecord /\ answered(a).step = "ANSWERED"
                                     /\ answered(a).answer = a /\ answered(a).cookie = bearer
  <2>1. ASSUME NEW a \in B!Token \cup {None}
        PROVE  /\ answered(a) \in RefreshRecord /\ answered(a).step = "ANSWERED"
               /\ answered(a).answer = a /\ answered(a).cookie = bearer
    <3>1. [refresh[d] EXCEPT !.step = "ANSWERED"] \in RefreshRecord
      BY <1>2 DEF RefreshRecord
    <3> QED BY <1>2, <2>1, <3>1 DEF RefreshRecord
  <2> HIDE DEF answered
  <2> QED BY <2>1
<1>4. \A a : B!Answered(d, a) = [refresh EXCEPT ![d] = answered(a)]
  BY <1>2 DEF B!Answered, RefreshRecord
<1> HIDE DEF answered
\* What the refresh is answered, and what becomes of the one session it may touch.
<1>5. ASSUME NEW a \in B!Token \cup {None}, refresh' = B!Answered(d, a), session' \in [B!SessionIds -> SessionRecord],
             \A s \in B!SessionIds : session'[s].status = "NONE" <=> session[s].status = "NONE",
             \A s \in B!SessionIds : session[s].status = "NONE" => session'[s].newest = session[s].newest,
             a # None => session[a.s].status # "NONE",
             B!Undisturbed => /\ \A s \in B!SessionIds : session'[s].status = "LIVE" <=> session[s].status = "LIVE"
                              /\ page = "INIT" => a = None
                              /\ a # None => bearer # None /\ a.s = bearer.s /\ a = [s |-> a.s, n |-> session'[a.s].newest]
                              /\ a = None /\ bearer # None => session[bearer.s].status # "LIVE"
      PROVE  TabInv'
  <2>1. refresh' \in [B!Ids -> RefreshRecord] /\ refresh'[d] = answered(a) /\ \A e \in B!Ids \ {d} : refresh'[e] = refresh[e]
    BY <1>2, <1>3, <1>4, <1>5
  <2>2. Shapes'
    BY <1>1, <1>5, <2>1 DEF TabInv, Shapes
  <2>3. Whereabouts'
    BY <1>1, <1>3, <1>5, <2>1 DEF TabInv, Whereabouts
  <2>4. SessionsInOrder'
    BY <1>5 DEF TabInv, SessionsInOrder
  <2>5. \A t : Issued(t) => t = None \/ (t \in B!Token /\ session'[t.s].status # "NONE")
    BY <1>5, TabFacts DEF Issued, TabInv
  <2>6. \A e \in B!Ids : Issued(refresh[e].cookie) /\ Issued(refresh[e].answer)
    BY DEF TabInv, TokensIssued
  <2>7. a = None \/ (a \in B!Token /\ session'[a.s].status # "NONE")
    BY <1>5, TabFacts DEF TabInv
  <2>8. TokensIssued'
    BY <1>1, <1>2, <1>3, <1>5, <2>1, <2>5, <2>6, <2>7 DEF TabInv, TokensIssued, Issued
  <2>9. TabSound'
    <3> SUFFICES ASSUME B!Undisturbed
                 PROVE  /\ \A e \in B!Ids : RefreshTrue(e)'
                        /\ page = "IN" => InTab'
                        /\ page # "IN" => OutTab'
                        /\ page = "INIT" => InitTab'
      BY <1>1 DEF TabSound, B!Undisturbed
    <3>1. /\ page = "IN" => InTab
          /\ page # "IN" => OutTab
          /\ page = "INIT" => InitTab
      BY DEF TabInv, TabSound
    <3>2. \A e \in B!Ids : RefreshTrue(e)'
      <4> TAKE e \in B!Ids
      <4>1. CASE e # d
        <5>1. refresh'[e].step = "IDLE"
          BY <1>1, <2>1, <4>1 DEF TabInv, Whereabouts
        <5> QED BY <5>1 DEF RefreshTrue
      <4>2. CASE e = d
        <5>1. refresh'[e].step = "ANSWERED" /\ refresh'[e].answer = a /\ refresh'[e].cookie = bearer
          BY <1>3, <1>5, <2>1, <4>2
        <5>2. a = None /\ bearer # None => session'[bearer.s].status # "LIVE"
          BY <1>2, <1>5, TabFacts DEF TabInv
        <5> QED BY <1>5, <5>1, <5>2 DEF RefreshTrue, B!Live, B!Newest
      <4> QED BY <4>1, <4>2
    <3>3. page = "IN" => InTab'
      BY <1>1, <1>2, <1>5, <3>1 DEF InTab
    <3>4. page # "IN" => OutTab'
      BY <1>5, <3>1 DEF OutTab
    <3>5. page = "INIT" => InitTab'
      <4> SUFFICES ASSUME page = "INIT" PROVE InitTab'
        OBVIOUS
      <4>1. d = B!Page
        BY <1>1 DEF TabInv, Whereabouts
      <4>2. a = None /\ bearer = None
        BY <1>5, <3>1, <4>1 DEF InitTab
      <4>3. refresh'[d].cookie = None /\ refresh'[d].answer = None
        BY <1>3, <2>1, <4>2
      <4> QED BY <1>5, <3>1, <4>1, <4>3 DEF InitTab
    <3> QED BY <3>2, <3>3, <3>4, <3>5
  <2> QED BY <2>2, <2>3, <2>4, <2>8, <2>9 DEF TabInv
<1>6. ASSUME NEW s \in B!SessionIds, B!Live(s), bearer = B!Newest(s), bearer.n < MaxRotations,
             session' = [session EXCEPT ![s].newest = @ + 1],
             refresh' = B!Answered(d, [bearer EXCEPT !.n = @ + 1])
      PROVE  TabInv'
  <2> DEFINE a == [bearer EXCEPT !.n = @ + 1]
             new == [session[s] EXCEPT !.newest = @ + 1]
  <2>1. session[s] \in SessionRecord /\ session[s].newest \in Nat /\ bearer \in B!Token /\ bearer # None /\ bearer.s = s
        /\ bearer.n = session[s].newest /\ MaxRotations \in Nat /\ session[s].status = "LIVE"
    BY <1>2, <1>6, TabFacts DEF SessionRecord, TabInv, B!Live
  <2>2. session[s].newest + 1 \in 0..MaxRotations
    BY <1>6, <2>1
  <2>3. a \in B!Token /\ a.s = s /\ a.n = session[s].newest + 1
    BY <2>1, <2>2 DEF B!Token
  <2>4. new \in SessionRecord /\ new.status = "LIVE" /\ new.newest = session[s].newest + 1
    BY <2>1, <2>2 DEF SessionRecord
  <2>5. session' = [session EXCEPT ![s] = new]
    BY <1>2, <1>6
  <2> HIDE DEF new
  <2>6. session' \in [B!SessionIds -> SessionRecord] /\ session'[s] = new /\ \A t \in B!SessionIds \ {s} : session'[t] = session[t]
    BY <1>2, <2>4, <2>5
  <2>7. a # None /\ a = [s |-> a.s, n |-> session'[a.s].newest]
    BY <2>3, <2>4, <2>6, TabFacts DEF TabInv
  <2>8. refresh' = B!Answered(d, a)
    BY <1>6
  <2>9. B!Undisturbed => page # "INIT"
    BY <1>6, <2>1 DEF TabInv, TabSound, OutTab
  <2> HIDE DEF a
  <2> QED BY <1>5, <2>1, <2>3, <2>4, <2>6, <2>7, <2>8, <2>9
<1>7. ASSUME NEW s \in B!SessionIds, B!Live(s), B!Of(s, bearer), bearer # B!Newest(s),
             session' = [session EXCEPT ![s].status = "REVOKED"],
             refresh' = B!Answered(d, None)
      PROVE  TabInv'
  <2> DEFINE new == [session[s] EXCEPT !.status = "REVOKED"]
  <2>1. session[s] \in SessionRecord /\ bearer # None /\ bearer.s = s /\ session[s].status = "LIVE"
    BY <1>2, <1>7 DEF B!Live, B!Of
  <2>2. new \in SessionRecord /\ new.status = "REVOKED" /\ new.newest = session[s].newest
    BY <2>1 DEF SessionRecord
  <2>3. session' = [session EXCEPT ![s] = new]
    BY <1>2, <1>7
  <2> HIDE DEF new
  <2>4. session' \in [B!SessionIds -> SessionRecord] /\ session'[s] = new /\ \A t \in B!SessionIds \ {s} : session'[t] = session[t]
    BY <1>2, <2>2, <2>3
  <2>5. ~B!Undisturbed
    BY <1>1, <1>7, <2>1 DEF TabInv, TabSound, RefreshTrue
  <2> QED BY <1>5, <1>7, <2>1, <2>2, <2>4, <2>5
<1>8. ASSUME ~\E s \in B!SessionIds : B!Live(s) /\ B!Of(s, bearer), session' = session, refresh' = B!Answered(d, None)
      PROVE  TabInv'
  <2>1. bearer # None => session[bearer.s].status # "LIVE"
    BY <1>2, <1>8, TabFacts DEF TabInv, B!Live, B!Of
  <2> QED BY <1>2, <1>5, <1>8, <2>1
<1> QED BY <1>6, <1>7, <1>8 DEF B!RotateRefreshToken

\* A refresh is over, and the page stays where it is.
LEMMA RefreshEnds ==
  ASSUME B!BrowserTabAssumption, TabInv, NEW d \in B!Ids, refresh[d].step # "IDLE",
         NEW moved \in CallRecord, moved.step # "WAITING",
         call' = [c \in Calls |-> IF c \in B!Waiting(d) THEN moved ELSE call[c]],
         refresh' = [refresh EXCEPT ![d] = B!NoRefresh], promise' = None,
         cookie' \in B!Token \cup {None}, access' \in B!Token \cup {None}, Issued(cookie'),
         page' \in {"IN", "OUT"}, page # "INIT" => page' = page,
         faults' \in 0..MaxFaults, crossed' \in BOOLEAN,
         UNCHANGED <<session, expired, logout>>
  PROVE  /\ Shapes' /\ Whereabouts' /\ SessionsInOrder' /\ TokensIssued'
         /\ \A e \in B!Ids : RefreshTrue(e)'
<1>1. promise = d /\ d # None
  BY TabFacts DEF TabInv, Whereabouts
<1>2. refresh' \in [B!Ids -> RefreshRecord] /\ refresh'[d] = B!NoRefresh /\ \A e \in B!Ids \ {d} : refresh'[e] = refresh[e]
  BY RecordFacts DEF TabInv, Shapes
<1>3. \A e \in B!Ids : refresh'[e].step = "IDLE"
  BY <1>1, <1>2, RecordFacts DEF TabInv, Whereabouts
<1>4. call \in [Calls -> CallRecord]
  BY DEF TabInv, Shapes
<1>5. call' \in [Calls -> CallRecord] /\ \A c \in Calls : call'[c].step # "WAITING"
  <2>1. \A c \in Calls : call'[c] = IF c \in B!Waiting(d) THEN moved ELSE call[c]
    OBVIOUS
  <2>2. \A c \in Calls : call'[c].step # "WAITING"
    BY <1>1, <2>1 DEF TabInv, Whereabouts, B!Waiting
  <2> QED BY <1>4, <2>2
<1>6. Shapes'
  BY <1>2, <1>5 DEF TabInv, Shapes
<1>7. Whereabouts'
  <2>1. \A e \in B!Ids : refresh'[e].step # "IDLE" <=> promise' = e
    BY <1>3, TabFacts DEF TabInv
  <2>2. promise' \notin Calls /\ promise' # B!Page
    BY TabFacts DEF TabInv
  <2>3. logout.step # "IDLE" => page' = "IN"
    BY DEF TabInv, Whereabouts
  <2>4. page' # "INIT"
    OBVIOUS
  <2>5. logout'.step = "IDLE" => logout' = B!NoLogout
    BY DEF TabInv, Whereabouts
  <2> QED BY <1>5, <2>1, <2>2, <2>3, <2>4, <2>5 DEF Whereabouts
<1>8. SessionsInOrder'
  BY DEF TabInv, SessionsInOrder
<1>9. TokensIssued'
  BY <1>2, RecordFacts DEF TabInv, TokensIssued, Issued
<1>10. \A e \in B!Ids : RefreshTrue(e)'
  BY <1>3 DEF RefreshTrue
<1> QED BY <1>6, <1>7, <1>8, <1>9, <1>10

\* The page is loaded anew.
LEMMA PageLoads ==
  ASSUME B!BrowserTabAssumption, TabInv, NEW bearer \in B!Token \cup {None}, B!Load(bearer), cookie' = bearer,
         Issued(bearer), faults' \in 0..MaxFaults, crossed' \in BOOLEAN, UNCHANGED <<session, expired>>
  PROVE  /\ Shapes' /\ Whereabouts' /\ SessionsInOrder' /\ TokensIssued' /\ page' = "INIT"
         /\ refresh'[B!Page] = B!Sent(bearer) /\ \A e \in B!Ids \ {B!Page} : refresh'[e] = B!NoRefresh
<1>1. /\ page' = "INIT" /\ access' = None /\ promise' = B!Page /\ logout' = B!NoLogout
      /\ call' = [c \in Calls |-> B!NoCall]
      /\ refresh' = [d \in B!Ids |-> IF d = B!Page THEN B!Sent(bearer) ELSE B!NoRefresh]
  BY DEF B!Load
<1>2. \A c \in Calls : call'[c].step = "IDLE"
  BY <1>1, RecordFacts
<1>3. refresh'[B!Page] = B!Sent(bearer) /\ \A e \in B!Ids \ {B!Page} : refresh'[e] = B!NoRefresh
  BY <1>1, TabFacts DEF TabInv
<1>4. Shapes'
  BY <1>1, RecordFacts, TabFacts DEF TabInv, Shapes
<1>5. Whereabouts'
  BY <1>1, <1>2, <1>3, RecordFacts, TabFacts DEF TabInv, Whereabouts
<1>6. SessionsInOrder'
  BY DEF TabInv, SessionsInOrder
<1>7. TokensIssued'
  BY <1>1, <1>3, RecordFacts DEF TabInv, TokensIssued, Issued
<1> QED BY <1>1, <1>3, <1>4, <1>5, <1>6, <1>7

LEMMA RefreshSucceedsKeepsInv ==
  ASSUME B!BrowserTabAssumption, TabInv, NEW d \in B!Ids, B!RefreshSucceeds(d) PROVE TabInv'
<1> DEFINE bearer == refresh[d].answer
           again == [step |-> "SENT", token |-> bearer, retry |-> FALSE, waits |-> None]
<1>1. /\ refresh[d].step = "ANSWERED" /\ bearer # None
      /\ cookie' = bearer /\ access' = bearer /\ page' = (IF page = "INIT" THEN "IN" ELSE page)
      /\ call' = [c \in Calls |-> IF c \in B!Waiting(d) THEN again ELSE call[c]]
      /\ refresh' = [refresh EXCEPT ![d] = B!NoRefresh] /\ promise' = None
      /\ crossed' = (crossed \/ B!Late(bearer))
      /\ UNCHANGED <<session, expired, logout, faults>>
  BY DEF B!RefreshSucceeds, B!Server
<1>2. bearer \in B!Token /\ Issued(bearer) /\ page \in {"INIT", "IN", "OUT"} /\ faults \in 0..MaxFaults
  BY <1>1 DEF TabInv, Shapes, RefreshRecord, TokensIssued
<1>3. again \in CallRecord /\ again.step = "SENT"
  BY <1>2 DEF CallRecord
<1>4. crossed' \in BOOLEAN
  BY <1>1
<1> HIDE DEF again
<1>5. Shapes' /\ Whereabouts' /\ SessionsInOrder' /\ TokensIssued' /\ \A e \in B!Ids : RefreshTrue(e)'
  <2>1. refresh[d].step # "IDLE" /\ again.step # "WAITING" /\ cookie' \in B!Token \cup {None} /\ access' \in B!Token \cup {None}
        /\ page' \in {"IN", "OUT"} /\ (page # "INIT" => page' = page) /\ faults' \in 0..MaxFaults
    BY <1>1, <1>2, <1>3
  <2>2. Issued(cookie')
    BY <1>1, <1>2
  <2> QED BY <1>1, <1>3, <1>4, <2>1, <2>2, RefreshEnds
<1>6. TabSound'
  <2> SUFFICES ASSUME B!Undisturbed, ~B!Late(bearer)
               PROVE  /\ page' = "IN" => InTab'
                      /\ page' # "IN" => OutTab'
                      /\ page' = "INIT" => InitTab'
    BY <1>1, <1>5 DEF TabSound, B!Undisturbed
  <2>1. RefreshTrue(d) /\ (page = "IN" => InTab) /\ (page # "IN" => OutTab) /\ (page = "INIT" => InitTab)
    BY DEF TabInv, TabSound
  <2>2. page # "INIT"
    <3>1. page = "INIT" => d = B!Page
      BY <1>1 DEF TabInv, Whereabouts
    <3> QED BY <1>1, <2>1, <3>1 DEF InitTab
  <2>3. CASE page = "OUT"
    BY <1>1, <2>1, <2>3 DEF OutTab
  <2>4. CASE page = "IN"
    <3>1. cookie # None /\ Issued(cookie) /\ cookie \in B!Token
      BY <2>1, <2>4 DEF InTab, TabInv, TokensIssued, Issued
    <3>2. bearer.s \in B!SessionIds /\ cookie.s \in B!SessionIds /\ bearer.s \in Nat /\ cookie.s \in Nat
      BY <1>2, <3>1, TabFacts DEF TabInv
    <3>3. ~(cookie.s > bearer.s)
      BY <1>1, <3>1, <3>2 DEF B!Late, Issued
    <3>4. ~(bearer.s > cookie.s)
      BY <1>1, <1>2, <2>1, <2>4, <3>2 DEF InTab, Issued
    <3>5. bearer.s = cookie.s
      BY <3>2, <3>3, <3>4
    <3>6. session[bearer.s].status = "LIVE" => bearer = [s |-> bearer.s, n |-> session[bearer.s].newest]
      BY <1>1, <2>1 DEF RefreshTrue, B!Live, B!Newest
    <3> QED BY <1>1, <2>1, <2>4, <3>5, <3>6 DEF InTab, B!Newest
  <2> QED BY <1>1, <1>2, <2>2, <2>3, <2>4
<1> QED BY <1>5, <1>6 DEF TabInv

LEMMA RefreshFailsKeepsInv ==
  ASSUME B!BrowserTabAssumption, TabInv, NEW d \in B!Ids, B!RefreshRefused(d) \/ B!RefreshLost(d) PROVE TabInv'
<1>1. PICK kept \in {None, cookie} :
         /\ B!RefreshFails(d, kept) /\ refresh[d].step # "IDLE"
         /\ \/ kept = None /\ refresh[d].step = "ANSWERED" /\ refresh[d].answer = None /\ faults' = faults
            \/ kept = cookie /\ faults < MaxFaults /\ faults' = faults + 1
  <2>1. CASE B!RefreshRefused(d)
    BY <2>1 DEF B!RefreshRefused
  <2>2. CASE B!RefreshLost(d)
    BY <2>2 DEF B!RefreshLost, B!Busy, B!Fault
  <2> QED BY <2>1, <2>2
<1> DEFINE late == B!Late(refresh[d].cookie)
<1>2. cookie' = kept /\ crossed' = (crossed \/ late) /\ UNCHANGED <<session, expired>>
  BY <1>1 DEF B!RefreshFails, B!Server
<1>3. kept \in B!Token \cup {None} /\ Issued(kept) /\ crossed' \in BOOLEAN /\ faults' \in 0..MaxFaults /\ faults \in Nat
  BY <1>1, <1>2 DEF TabInv, Shapes, TokensIssued, Issued, B!BrowserTabAssumption
<1>4. B!Undisturbed' => /\ B!Undisturbed /\ ~late /\ kept = None
                        /\ refresh[d].step = "ANSWERED" /\ refresh[d].answer = None
  <2> SUFFICES ASSUME faults' = 0, ~crossed'
               PROVE  /\ faults = 0 /\ ~crossed /\ ~late /\ kept = None
                      /\ refresh[d].step = "ANSWERED" /\ refresh[d].answer = None
    BY DEF B!Undisturbed
  <2>1. ~crossed /\ ~late
    <3> HIDE DEF late
    <3> QED BY <1>2, Zenon
  <2>2. ~(faults' = faults + 1)
    BY <1>3
  <2> QED BY <1>1, <2>1, <2>2
<1>5. CASE page = "IN" /\ B!Waiting(d) # {}
  <2>1. B!Load(kept)
    BY <1>1, <1>5 DEF B!RefreshFails
  <2>2. /\ Shapes' /\ Whereabouts' /\ SessionsInOrder' /\ TokensIssued' /\ page' = "INIT"
        /\ refresh'[B!Page] = B!Sent(kept) /\ \A e \in B!Ids \ {B!Page} : refresh'[e] = B!NoRefresh
    BY <1>2, <1>3, <2>1, PageLoads
  <2>3. TabSound'
    <3> SUFFICES ASSUME B!Undisturbed, ~late, kept = None, refresh[d].step = "ANSWERED", refresh[d].answer = None
                 PROVE  (\A e \in B!Ids : RefreshTrue(e)') /\ OutTab' /\ InitTab'
      BY <1>4, <2>2 DEF TabSound
    <3>1. InTab /\ RefreshTrue(d)
      BY <1>5 DEF TabInv, TabSound
    <3>2. cookie # None /\ cookie \in B!Token /\ session[cookie.s].status # "NONE" /\ cookie.s \in B!SessionIds /\ cookie.s \in Nat
      BY <3>1, TabFacts DEF InTab, TabInv, TokensIssued, Issued
    <3>3. refresh[d].cookie # None
      BY <3>2 DEF B!Late
    <3>4. LET sent == refresh[d].cookie
          IN  sent.s \in B!SessionIds /\ sent.s \in Nat /\ session[sent.s].status # "NONE"
      BY <3>3, TabFacts DEF TabInv, TokensIssued, Issued
    <3>5. refresh[d].cookie.s = cookie.s
      BY <3>1, <3>2, <3>3, <3>4 DEF B!Late, InTab
    <3>6. session[cookie.s].status # "LIVE"
      BY <3>1, <3>3, <3>5 DEF RefreshTrue, B!Live
    <3>7. OutTab'
      BY <1>2, <3>1, <3>6 DEF InTab, OutTab
    <3>8. refresh'[B!Page].cookie = None /\ refresh'[B!Page].answer = None
      BY <2>2, RecordFacts
    <3>9. InitTab'
      BY <1>2, <3>2, <3>8 DEF InitTab
    <3>10. \A e \in B!Ids : RefreshTrue(e)'
      <4> TAKE e \in B!Ids
      <4>1. CASE e = B!Page
        BY <2>2, <3>8, <4>1, RecordFacts DEF RefreshTrue
      <4>2. CASE e # B!Page
        BY <2>2, <4>2, RecordFacts DEF RefreshTrue
      <4> QED BY <4>1, <4>2
    <3> QED BY <3>7, <3>9, <3>10
  <2> QED BY <2>2, <2>3 DEF TabInv
<1>6. CASE ~(page = "IN" /\ B!Waiting(d) # {})
  <2>1. /\ access' = (IF d = B!Page \/ B!Waiting(d) # {} THEN None ELSE access)
        /\ page' = (IF page = "INIT" THEN "OUT" ELSE page)
        /\ call' = [c \in Calls |-> IF c \in B!Waiting(d) THEN B!NoCall ELSE call[c]]
        /\ refresh' = [refresh EXCEPT ![d] = B!NoRefresh] /\ promise' = None /\ UNCHANGED logout
    BY <1>1, <1>6 DEF B!RefreshFails
  <2>2. /\ access' \in B!Token \cup {None} /\ page' \in {"IN", "OUT"} /\ (page # "INIT" => page' = page)
        /\ B!NoCall \in CallRecord /\ B!NoCall.step # "WAITING" /\ Issued(cookie')
    BY <1>2, <1>3, <2>1, RecordFacts DEF TabInv, Shapes
  <2>3. Shapes' /\ Whereabouts' /\ SessionsInOrder' /\ TokensIssued' /\ \A e \in B!Ids : RefreshTrue(e)'
    BY <1>1, <1>2, <1>3, <2>1, <2>2, RefreshEnds
  <2>4. page = "IN" => d \notin Calls /\ d = B!Page
    <3>1. promise = d
      BY <1>1 DEF TabInv, Whereabouts
    <3>2. d \in Calls => d \in B!Waiting(d)
      BY <3>1 DEF TabInv, Whereabouts, B!Waiting
    <3> QED BY <1>6, <3>2, TabFacts DEF TabInv
  <2>5. page # "IN"
    BY <1>1, <2>4 DEF TabInv, Whereabouts
  <2>6. TabSound'
    BY <1>2, <1>4, <2>1, <2>3, <2>5 DEF TabInv, TabSound, OutTab
  <2> QED BY <2>3, <2>6 DEF TabInv
<1> QED BY <1>5, <1>6

LEMMA LogoutKeepsInv ==
  ASSUME B!BrowserTabAssumption, TabInv, B!BeginLogout \/ B!RevokeSession PROVE TabInv'
<1>0. logout \in LogoutRecord /\ session \in [B!SessionIds -> SessionRecord]
  BY DEF TabInv, Shapes
<1>1. CASE B!BeginLogout
  <2> DEFINE sent == [step |-> "SENT", cookie |-> cookie]
  <2>1. page = "IN" /\ logout = B!NoLogout /\ logout' = sent
        /\ UNCHANGED <<session, expired, cookie, access, page, call, refresh, promise, faults, crossed>>
    BY <1>1 DEF B!BeginLogout, B!Server, B!Client, B!Ghosts
  <2>2. sent \in LogoutRecord /\ sent.step = "SENT" /\ sent.cookie = cookie /\ logout.step = "IDLE"
    BY <2>1, RecordFacts DEF LogoutRecord, TabInv, Shapes
  <2> HIDE DEF sent
  <2>3. Shapes' /\ Whereabouts'
    BY <2>1, <2>2 DEF TabInv, Shapes, Whereabouts
  <2>4. SessionsInOrder' /\ TokensIssued'
    BY <2>1, <2>2 DEF TabInv, SessionsInOrder, TokensIssued, Issued
  <2>5. TabSound'
    BY <2>1, <2>2 DEF TabInv, TabSound, B!Undisturbed, RefreshTrue, InTab, OutTab, InitTab, B!Live, B!Newest
  <2> QED BY <2>3, <2>4, <2>5 DEF TabInv
<1>2. CASE B!RevokeSession
  <2> DEFINE answered == [logout EXCEPT !.step = "ANSWERED"]
  <2>1. logout.step = "SENT" /\ logout' = answered /\ page = "IN"
        /\ UNCHANGED <<expired, cookie, access, page, call, refresh, promise, faults, crossed>>
    BY <1>2 DEF B!RevokeSession, B!Client, B!Ghosts, TabInv, Whereabouts
  <2>2. answered \in LogoutRecord /\ answered.step = "ANSWERED" /\ answered.cookie = logout.cookie
    BY <1>0 DEF LogoutRecord
  <2> HIDE DEF answered
  <2>3. session' = [s \in B!SessionIds |-> IF s \in B!SessionOf(logout.cookie)
                                           THEN [session[s] EXCEPT !.status = "REVOKED"] ELSE session[s]]
    BY <1>2 DEF B!RevokeSession
  <2>4. logout.cookie # None => logout.cookie.s \in B!SessionIds /\ session[logout.cookie.s].status # "NONE"
    BY TabFacts DEF TabInv, TokensIssued, Issued
  <2>5. ASSUME NEW s \in B!SessionIds
        PROVE  /\ session'[s] \in SessionRecord /\ session'[s].newest = session[s].newest
               /\ session'[s].status = "NONE" <=> session[s].status = "NONE"
               /\ session'[s].status = "LIVE" <=>
                     session[s].status = "LIVE" /\ ~(logout.cookie # None /\ s = logout.cookie.s)
    <3>1. session[s] \in SessionRecord
      BY <1>0
    <3>2. s \in B!SessionOf(logout.cookie) <=> logout.cookie # None /\ s = logout.cookie.s
      BY DEF B!SessionOf
    <3>3. session'[s] = IF logout.cookie # None /\ s = logout.cookie.s
                        THEN [session[s] EXCEPT !.status = "REVOKED"] ELSE session[s]
      BY <2>3, <3>2
    <3> QED BY <2>4, <3>1, <3>3 DEF SessionRecord
  <2>6. session' \in [B!SessionIds -> SessionRecord]
    <3>1. session' = [s \in B!SessionIds |-> session'[s]]
      BY <2>3
    <3> QED BY <2>5, <3>1
  <2>7. Shapes' /\ Whereabouts'
    BY <2>1, <2>2, <2>6 DEF TabInv, Shapes, Whereabouts
  <2>8. SessionsInOrder'
    BY <2>5 DEF TabInv, SessionsInOrder
  <2>9. TokensIssued'
    <3>1. \A t : Issued(t) => (t # None => t \in B!Token /\ session'[t.s].status # "NONE")
      BY <2>5, TabFacts DEF Issued, TabInv
    <3>2. Issued(cookie) /\ Issued(logout.cookie) /\ \A e \in B!Ids : Issued(refresh[e].cookie) /\ Issued(refresh[e].answer)
      BY DEF TabInv, TokensIssued
    <3> QED BY <2>1, <2>2, <3>1, <3>2 DEF TokensIssued, Issued
  <2>10. TabSound'
    <3> SUFFICES ASSUME B!Undisturbed PROVE (\A d \in B!Ids : RefreshTrue(d)') /\ InTab'
      BY <2>1 DEF TabSound, B!Undisturbed
    <3>1. InTab /\ \A d \in B!Ids : RefreshTrue(d)
      BY <2>1 DEF TabInv, TabSound
    <3>2. \A d \in B!Ids : RefreshTrue(d)'
      <4> TAKE d \in B!Ids
      <4>1. /\ refresh[d].cookie # None => refresh[d].cookie.s \in B!SessionIds
            /\ refresh[d].answer # None => refresh[d].answer.s \in B!SessionIds
        BY TabFacts DEF TabInv, TokensIssued, Issued
      <4>2. RefreshTrue(d)
        BY <3>1
      <4> QED BY <2>1, <2>5, <4>1, <4>2 DEF RefreshTrue, B!Live, B!Newest
    <3>3. logout.cookie # None /\ logout.cookie.s = cookie.s /\ cookie # None /\ cookie.s \in B!SessionIds
      BY <2>1, <2>4, <3>1 DEF InTab
    <3>4. InTab'
      BY <2>1, <2>2, <2>5, <3>1, <3>3 DEF InTab
    <3> QED BY <3>2, <3>4
  <2> QED BY <2>7, <2>8, <2>9, <2>10 DEF TabInv
<1> QED BY <1>1, <1>2

LEMMA LoggedOutKeepsInv ==
  ASSUME B!BrowserTabAssumption, TabInv, B!LogoutAnswered \/ B!LogoutLost PROVE TabInv'
<1>1. /\ logout.step # "IDLE" /\ access' = None /\ page' = "OUT" /\ logout' = B!NoLogout /\ cookie' \in {None, cookie}
      /\ UNCHANGED <<session, expired, call, refresh, promise, crossed>>
      /\ \/ logout.step = "ANSWERED" /\ faults' = faults
         \/ faults < MaxFaults /\ faults' = faults + 1
  <2>1. CASE B!LogoutAnswered
    BY <2>1 DEF B!LogoutAnswered, B!LoggedOut, B!Server
  <2>2. CASE B!LogoutLost
    BY <2>2 DEF B!LogoutLost, B!LoggedOut, B!Server, B!Fault
  <2> QED BY <2>1, <2>2
<1>2. page = "IN" /\ promise # B!Page /\ faults \in Nat /\ faults' \in 0..MaxFaults
  BY <1>1 DEF TabInv, Shapes, Whereabouts, B!BrowserTabAssumption
<1>3. Shapes'
  BY <1>1, <1>2, RecordFacts DEF TabInv, Shapes
<1>4. Whereabouts'
  BY <1>1, <1>2, RecordFacts DEF TabInv, Whereabouts
<1>5. SessionsInOrder' /\ TokensIssued'
  BY <1>1, RecordFacts DEF TabInv, SessionsInOrder, TokensIssued, Issued
<1>6. TabSound'
  BY <1>1, <1>2 DEF TabInv, TabSound, B!Undisturbed, RefreshTrue, InTab, OutTab, B!Live, B!Newest
<1> QED BY <1>3, <1>4, <1>5, <1>6 DEF TabInv

LEMMA DisturbanceKeepsInv ==
  ASSUME B!BrowserTabAssumption, TabInv, B!Reload \/ \E s \in B!SessionIds : B!RevokedElsewhere(s) PROVE TabInv'
<1>1. faults' \in 0..MaxFaults /\ ~B!Undisturbed'
  BY DEF B!Reload, B!RevokedElsewhere, B!Fault, TabInv, Shapes, B!BrowserTabAssumption, B!Undisturbed
<1>2. TabSound'
  BY <1>1 DEF TabSound
<1>3. CASE B!Reload
  <2>1. B!Load(cookie) /\ UNCHANGED <<session, expired, cookie, crossed>>
    BY <1>3 DEF B!Reload, B!Server
  <2>2. cookie \in B!Token \cup {None} /\ Issued(cookie) /\ crossed' \in BOOLEAN
    BY <2>1 DEF TabInv, Shapes, TokensIssued
  <2> QED BY <1>1, <1>2, <2>1, <2>2, PageLoads DEF TabInv
<1>4. ASSUME NEW s \in B!SessionIds, B!RevokedElsewhere(s) PROVE TabInv'
  <2> DEFINE new == [session[s] EXCEPT !.status = "REVOKED"]
  <2>1. session[s].status = "LIVE" /\ session' = [session EXCEPT ![s] = new]
        /\ UNCHANGED <<expired, cookie, access, page, call, refresh, promise, logout, crossed>>
    BY <1>4 DEF B!RevokedElsewhere, B!Live, B!Client, TabInv, Shapes
  <2>2. session \in [B!SessionIds -> SessionRecord] /\ new \in SessionRecord /\ new.status = "REVOKED"
    BY DEF TabInv, Shapes, SessionRecord
  <2> HIDE DEF new
  <2>3. session' \in [B!SessionIds -> SessionRecord] /\ session'[s] = new /\ \A t \in B!SessionIds \ {s} : session'[t] = session[t]
    BY <2>1, <2>2
  <2>4. \A t \in B!SessionIds : session'[t].status = "NONE" <=> session[t].status = "NONE"
    BY <2>1, <2>2, <2>3
  <2>5. Shapes' /\ Whereabouts'
    BY <1>1, <2>1, <2>3 DEF TabInv, Shapes, Whereabouts
  <2>6. SessionsInOrder'
    BY <2>2, <2>3, <2>4 DEF TabInv, SessionsInOrder
  <2>7. TokensIssued'
    <3>1. \A t : Issued(t) => (t # None => t \in B!Token /\ session'[t.s].status # "NONE")
      BY <2>4, TabFacts DEF Issued, TabInv
    <3>2. Issued(cookie) /\ Issued(logout.cookie) /\ \A e \in B!Ids : Issued(refresh[e].cookie) /\ Issued(refresh[e].answer)
      BY DEF TabInv, TokensIssued
    <3> QED BY <2>1, <3>1, <3>2 DEF TokensIssued, Issued
  <2> QED BY <1>2, <2>5, <2>6, <2>7 DEF TabInv
<1> QED BY <1>3, <1>4

LEMMA TabStepInv == ASSUME B!BrowserTabAssumption, TabInv, [B!Next]_(B!vars) PROVE TabInv'
<1>1. CASE UNCHANGED B!vars
  <2>1. UNCHANGED <<session, cookie, access, page, refresh, promise, logout, faults, crossed>> /\ call' = call /\ expired' = expired
    BY <1>1 DEF B!vars
  <2> QED BY <2>1, QuietStep DEF TabInv, Shapes
<1>2. CASE B!Next
  BY <1>2, QuietKeepsInv, LoginKeepsInv, RefusedKeepsInv, RotateKeepsInv, RefreshSucceedsKeepsInv,
     RefreshFailsKeepsInv, LogoutKeepsInv, LoggedOutKeepsInv, DisturbanceKeepsInv DEF B!Next
<1> QED BY <1>1, <1>2
-----------------------------------------------------------------------------
\* What is known of the tab and its session holds in every reachable state.
THEOREM TabInvariance == ASSUME B!BrowserTabAssumption PROVE B!Spec => []TabInv
BY TabInitInv, TabStepInv, PTL DEF B!Spec

\* Tokens are tokens, and the one refresh under way is what calls wait for.
THEOREM TabTypeCorrect == ASSUME B!BrowserTabAssumption PROVE B!Spec => []B!TypeOK
<1>1. TabInv => B!TypeOK
  BY TabTypes DEF TabInv
<1> QED BY <1>1, TabInvariance, PTL

\* A tab that nothing disturbs has a session as long as somebody is logged
\* in, and the server has none that lives when nobody is.
THEOREM SessionLasts == ASSUME B!BrowserTabAssumption PROVE B!Spec => []B!SessionLastsUntilLogout
<1>1. ASSUME B!BrowserTabAssumption, TabInv PROVE B!SessionLastsUntilLogout
  <2>1. B!KeepsSession
    <3> SUFFICES ASSUME B!Undisturbed, page = "IN", promise = None, logout = B!NoLogout
                 PROVE  cookie # None /\ B!Live(cookie.s) /\ cookie = B!Newest(cookie.s)
      BY DEF B!KeepsSession
    <3>1. InTab /\ cookie # None
      BY <1>1 DEF TabInv, TabSound, InTab
    <3>2. cookie.s \in B!SessionIds /\ logout.step = "IDLE"
      BY <1>1, <3>1, TabFacts, RecordFacts DEF TabInv, TokensIssued, Issued
    <3> QED BY <3>1, <3>2 DEF InTab, B!Live
  <2>2. B!LogoutEndsSession
    BY <1>1 DEF TabInv, TabSound, OutTab, B!LogoutEndsSession, B!Live
  <2> QED BY <2>1, <2>2 DEF B!SessionLastsUntilLogout
<1> QED BY <1>1, TabInvariance, PTL
-----------------------------------------------------------------------------
(* The prices of an invoice. *)

\* A row is of a charge the catalogue has.
RowsHaveCharge ==
    \A l \in P!Levels, c \in Fees, d \in Dates : row[l][c][d] # None => catalog[c] # None

\* While the invoice is made, what is in force now has been in force.
SeenIsNow ==
    /\ P!OrNone(P!RateInForce) \subseteq seen.rates
    /\ \A c \in Fees : P!OrNone(P!InForce(c)) \subseteq seen.prices[c]
    /\ extra \in seen.extras /\ people \in seen.people

\* What the invoice has read so far was in force.
ReadIsSeen ==
    /\ invoice.step \in {"NEW", "RATE", "EXTRA", "PEOPLE", "ROWS", "DONE"}
    /\ invoice.step \in {"EXTRA", "PEOPLE", "ROWS", "DONE"} => invoice.rate \in seen.rates \ {None}
    /\ invoice.step \in {"PEOPLE", "ROWS"} =>
          invoice.extra \in seen.extras /\ invoice.extra \in P!Extra \cup {None}
    /\ invoice.step = "ROWS" => invoice.people \in seen.people /\ invoice.people \in P!Counts

ChargesInv ==
    P!TypeOK /\ RowsHaveCharge /\ (P!UnderWay => SeenIsNow) /\ ReadIsSeen /\ P!InvoicesWhatWasInForce

\* A finite set of numbers has a largest.
LEMMA LargestExists ==
  ASSUME NEW S, S \subseteq Nat, IsFiniteSet(S), S # {}
  PROVE  P!Max(S) \in S /\ \A x \in S : P!Max(S) >= x
<1> DEFINE Greatest(U, m) == m \in U /\ \A x \in U : m >= x
           Bad == {U \in SUBSET S : U # {} /\ ~ \E m \in U : Greatest(U, m)}
<1>1. \E m \in S : Greatest(S, m)
  <2> SUFFICES ASSUME S \in Bad PROVE FALSE
    OBVIOUS
  <2>1. IsWellFoundedOn(StrictSubsetOrdering(S), SUBSET S)
    BY FS_StrictSubsetOrderingWellFounded, FS_FiniteSubsetsOfFinite
  <2>2. Bad \subseteq SUBSET S /\ Bad # {}
    OBVIOUS
  <2>3. \E U \in Bad : \A V \in Bad : ~(<<V, U>> \in StrictSubsetOrdering(S))
    <3> HIDE DEF Bad
    <3> QED BY <2>1, <2>2, WFMin
  <2>4. PICK U \in Bad : \A V \in Bad : ~(<<V, U>> \in StrictSubsetOrdering(S))
    BY <2>3
  <2>5. PICK x : x \in U
    BY <2>4
  <2>6. U \ {x} \in SUBSET S /\ U \ {x} # U /\ U \ {x} \subseteq U /\ U \in SUBSET S
    BY <2>4, <2>5
  <2>7. U \ {x} \notin Bad
    <3> HIDE DEF Bad
    <3> QED BY <2>4, <2>6 DEF StrictSubsetOrdering
  <2>8. CASE U \ {x} = {}
    <3>1. U = {x} /\ x \in Nat
      BY <2>5, <2>6, <2>8
    <3>2. Greatest(U, x)
      BY <3>1
    <3> QED BY <2>4, <2>5, <3>2
  <2>9. CASE U \ {x} # {}
    <3>1. PICK m \in U \ {x} : Greatest(U \ {x}, m)
      BY <2>6, <2>7, <2>9
    <3>2. m \in Nat /\ x \in Nat /\ \A y \in U : y \in Nat
      BY <2>5, <2>6, <3>1
    <3>3. Greatest(U, IF m >= x THEN m ELSE x)
      BY <2>5, <3>1, <3>2
    <3> QED BY <2>4, <2>5, <3>1, <3>3
  <2> QED BY <2>8, <2>9
<1> QED BY <1>1 DEF P!Max

LEMMA ChargeConstants ==
  ASSUME P!ChargesAssumption
  PROVE  /\ Dates \subseteq Nat /\ IsFiniteSet(Dates) /\ BilledMonth \in Nat /\ BilledMonth \in Dates
         /\ P!Max(Prices) \in Prices /\ Prices \subseteq Nat
         /\ None \notin Dates /\ None \notin Prices /\ None \notin P!Counts
         /\ MaxCount \in Nat /\ 1 \in P!Counts
<1>1. \A S : P!IsFiniteSet(S) <=> IsFiniteSet(S)
  BY Zenon DEF P!IsFiniteSet, IsFiniteSet
<1>2. /\ Dates \subseteq Nat /\ IsFiniteSet(Dates) /\ BilledMonth \in Nat /\ BilledMonth \in Dates
      /\ Prices \subseteq Nat /\ IsFiniteSet(Prices) /\ Prices # {} /\ MaxCount \in Nat \ {0} /\ None \notin Nat
  BY <1>1 DEF P!ChargesAssumption
<1>3. P!Max(Prices) \in Prices
  BY <1>2, LargestExists
<1>4. None \notin P!Counts /\ 1 \in P!Counts
  BY <1>2 DEF P!Counts
<1> QED BY <1>2, <1>3, <1>4

\* The latest of some days is one of them.
LEMMA LatestDay ==
  ASSUME P!ChargesAssumption, NEW S, S \subseteq Dates, S # {}
  PROVE  P!Max(S) \in S /\ \A d \in S : P!Max(S) >= d
BY ChargeConstants, FS_Subset, LargestExists

\* What the statements find is what is in force when they look.
LEMMA RateIsInForce ==
  ASSUME P!ChargesAssumption
  PROVE  P!RateNow \in P!OrNone(P!RateInForce)
<1> DEFINE found == {d \in Dates : rate[d] # None /\ d <= BilledMonth}
<1>1. CASE found = {}
  BY <1>1 DEF P!RateNow, P!RateInForce, P!OrNone
<1>2. CASE found # {}
  <2>1. P!Max(found) \in found /\ \A d \in found : P!Max(found) >= d
    BY <1>2, LatestDay
  <2>2. P!RateNow = rate[P!Max(found)]
    BY <1>2 DEF P!RateNow
  <2> DEFINE m == P!Max(found)
  <2>3. m \in Dates /\ rate[m] # None /\ m <= BilledMonth
    BY <2>1
  <2>4. \A f \in Dates : f > m /\ f <= BilledMonth => rate[f] = None
    BY <2>1, ChargeConstants
  <2> HIDE DEF m
  <2>5. rate[m] \in P!RateInForce
    BY <2>3, <2>4 DEF P!RateInForce
  <2> QED BY <2>2, <2>5 DEF P!OrNone, m
<1> QED BY <1>1, <1>2

LEMMA AppliesStarts ==
  ASSUME P!ChargesAssumption, P!TypeOK, NEW l \in P!Levels, NEW c \in Fees
  PROVE  /\ P!Starts(l, c) \subseteq Dates
         /\ \A d \in Dates : d \in P!Starts(l, c) <=> P!Applies(l, c, d)
         /\ P!Starts(l, c) # {} => P!Max(P!Starts(l, c)) \in P!Starts(l, c)
                                   /\ \A d \in P!Starts(l, c) : P!Max(P!Starts(l, c)) >= d
<1>1. P!Starts(l, c) \subseteq Dates
  BY DEF P!Starts
<1>2. ASSUME NEW d \in Dates PROVE d \in P!Starts(l, c) <=> P!Applies(l, c, d)
  <2>1. row[l][c][d] # None => row[l][c][d].to \in Dates \cup {None}
    BY DEF P!TypeOK, P!Row
  <2> QED BY <2>1, ChargeConstants DEF P!Starts, P!Applies
<1> QED BY <1>1, <1>2, LatestDay

LEMMA RowChosen ==
  ASSUME P!ChargesAssumption, P!TypeOK, NEW c \in Fees
  PROVE  \/ /\ P!ChosenRow(c) = None
            /\ \A l \in P!Levels, d \in Dates : ~P!Applies(l, c, d)
         \/ \E l \in P!Levels, d \in Dates :
               /\ P!ChosenRow(c) = row[l][c][d] /\ row[l][c][d] # None /\ P!Prevails(l, c, d)
               /\ \A k \in P!Levels, e \in Dates : P!Prevails(k, c, e) => k = l /\ e = d
<1> DEFINE S(l) == P!Starts(l, c)
           day(l) == P!Max(P!Starts(l, c))
<1>1. P!Levels = {"CONTRACT", "ROOM", "BUILDING"}
      /\ P!Rank("CONTRACT") = 3 /\ P!Rank("ROOM") = 2 /\ P!Rank("BUILDING") = 1
  BY DEF P!Levels, P!Rank
<1>2. ASSUME NEW l \in P!Levels, S(l) # {}
      PROVE  /\ day(l) \in Dates /\ P!Applies(l, c, day(l)) /\ row[l][c][day(l)] # None
             /\ P!Newest(l, c) = row[l][c][day(l)]
             /\ \A e \in Dates : P!Applies(l, c, e) => e <= day(l)
  <2>1. day(l) \in Dates /\ P!Applies(l, c, day(l)) /\ \A e \in Dates : P!Applies(l, c, e) => day(l) >= e
    BY <1>2, AppliesStarts
  <2> HIDE DEF day
  <2>2. row[l][c][day(l)] # None
    BY <2>1 DEF P!Applies
  <2>3. P!Newest(l, c) = row[l][c][day(l)]
    BY <1>2 DEF P!Newest, day
  <2> QED BY <2>1, <2>2, <2>3, ChargeConstants
<1>3. ASSUME NEW l \in P!Levels, S(l) = {}
      PROVE  P!Newest(l, c) = None /\ \A e \in Dates : ~P!Applies(l, c, e)
  BY <1>3, AppliesStarts DEF P!Newest
<1>4. ASSUME NEW l \in P!Levels, S(l) # {}, P!ChosenRow(c) = row[l][c][day(l)],
             \A k \in P!Levels : P!Rank(k) > P!Rank(l) => S(k) = {}
      PROVE  \E m \in P!Levels, d \in Dates :
               /\ P!ChosenRow(c) = row[m][c][d] /\ row[m][c][d] # None /\ P!Prevails(m, c, d)
               /\ \A k \in P!Levels, e \in Dates : P!Prevails(k, c, e) => k = m /\ e = d
  <2>1. /\ day(l) \in Dates /\ P!Applies(l, c, day(l)) /\ row[l][c][day(l)] # None
        /\ \A e \in Dates : P!Applies(l, c, e) => e <= day(l)
    BY <1>2, <1>4
  <2>2. PICK d \in Dates : d = day(l)
    BY <2>1
  <2>3. \A k \in P!Levels, e \in Dates : P!Applies(k, c, e) => P!Rank(k) < P!Rank(l) \/ (k = l /\ e <= d)
    <3> SUFFICES ASSUME NEW k \in P!Levels, NEW e \in Dates, P!Applies(k, c, e)
                 PROVE  P!Rank(k) < P!Rank(l) \/ (k = l /\ e <= d)
      OBVIOUS
    <3>1. ~(P!Rank(k) > P!Rank(l))
      BY <1>3, <1>4
    <3>2. P!Rank(k) < P!Rank(l) \/ k = l
      BY <1>1, <3>1
    <3> QED BY <2>1, <2>2, <3>2
  <2>4. P!Prevails(l, c, d)
    BY <2>1, <2>2, <2>3 DEF P!Prevails
  <2>5. ASSUME NEW k \in P!Levels, NEW e \in Dates, P!Prevails(k, c, e) PROVE k = l /\ e = d
    <3>1. P!Applies(k, c, e) /\ P!Applies(l, c, d)
      BY <2>4, <2>5 DEF P!Prevails
    <3>2. P!Rank(k) < P!Rank(l) \/ (k = l /\ e <= d)
      BY <2>3, <3>1
    <3>3. P!Rank(l) < P!Rank(k) \/ (l = k /\ d <= e)
      BY <2>5, <3>1 DEF P!Prevails
    <3>4. ~(P!Rank(l) < P!Rank(k) /\ P!Rank(k) < P!Rank(l)) /\ ~(P!Rank(l) < P!Rank(l))
      BY <1>1
    <3> QED BY <3>2, <3>3, <3>4, ChargeConstants
  <2> QED BY <1>4, <2>1, <2>2, <2>4, <2>5
<1>5. CASE S("CONTRACT") # {}
  <2>1. P!ChosenRow(c) = row["CONTRACT"][c][day("CONTRACT")]
    BY <1>1, <1>2, <1>5 DEF P!ChosenRow
  <2>2. \A k \in P!Levels : P!Rank(k) > P!Rank("CONTRACT") => S(k) = {}
    BY <1>1
  <2> QED BY <1>1, <1>4, <1>5, <2>1, <2>2
<1>6. CASE S("CONTRACT") = {} /\ S("ROOM") # {}
  <2>1. P!ChosenRow(c) = row["ROOM"][c][day("ROOM")]
    BY <1>1, <1>2, <1>3, <1>6 DEF P!ChosenRow
  <2>2. \A k \in P!Levels : P!Rank(k) > P!Rank("ROOM") => S(k) = {}
    BY <1>1, <1>6
  <2> QED BY <1>1, <1>4, <1>6, <2>1, <2>2
<1>7. CASE S("CONTRACT") = {} /\ S("ROOM") = {} /\ S("BUILDING") # {}
  <2>1. P!ChosenRow(c) = row["BUILDING"][c][day("BUILDING")]
    BY <1>1, <1>2, <1>3, <1>7 DEF P!ChosenRow
  <2>2. \A k \in P!Levels : P!Rank(k) > P!Rank("BUILDING") => S(k) = {}
    BY <1>1, <1>7
  <2> QED BY <1>1, <1>4, <1>7, <2>1, <2>2
<1>8. CASE S("CONTRACT") = {} /\ S("ROOM") = {} /\ S("BUILDING") = {}
  BY <1>1, <1>3, <1>8 DEF P!ChosenRow
<1> QED BY <1>5, <1>6, <1>7, <1>8

\* What the resolution of a charge gives is in force, or nothing is.
LEMMA ResolvedIsInForce ==
  ASSUME P!ChargesAssumption, P!TypeOK, RowsHaveCharge, NEW c \in Fees
  PROVE  /\ P!Resolved(c) \in P!OrNone(P!InForce(c))
         /\ P!Resolved(c) = None \/ P!Resolved(c) \in [type : P!ChargeType, price : Prices]
<1>1. CASE P!ChosenRow(c) = None /\ \A l \in P!Levels, d \in Dates : ~P!Applies(l, c, d)
  <2>1. P!InForce(c) = {}
    BY <1>1, Zenon DEF P!InForce, P!Prevails
  <2> QED BY <1>1, <2>1 DEF P!Resolved, P!OrNone
<1>2. ASSUME NEW l \in P!Levels, NEW d \in Dates,
             P!ChosenRow(c) = row[l][c][d], row[l][c][d] # None, P!Prevails(l, c, d),
             \A k \in P!Levels, e \in Dates : P!Prevails(k, c, e) => k = l /\ e = d
      PROVE  /\ P!Resolved(c) \in P!OrNone(P!InForce(c))
             /\ P!Resolved(c) = None \/ P!Resolved(c) \in [type : P!ChargeType, price : Prices]
  <2>1. catalog[c] # None /\ catalog[c] \in P!Catalog /\ row[l][c][d] \in P!Row
    BY <1>2 DEF RowsHaveCharge, P!TypeOK
  <2>2. CASE catalog[c].active /\ row[l][c][d].active
    <3> DEFINE charge == [type |-> catalog[c].type, price |-> row[l][c][d].price]
    <3>1. P!Resolved(c) = charge
      BY <1>2, <2>1, <2>2 DEF P!Resolved
    <3>2. charge \in P!InForce(c)
      <4> DEFINE p == <<l, d>>
      <4>1. p \in P!Levels \X Dates /\ p[1] = l /\ p[2] = d
        OBVIOUS
      <4> HIDE DEF p
      <4>2. p \in {q \in P!Levels \X Dates : /\ P!Prevails(q[1], c, q[2])
                                            /\ catalog[c].active /\ row[q[1]][c][q[2]].active}
        BY <1>2, <2>2, <4>1
      <4> QED BY <4>1, <4>2 DEF P!InForce
    <3>3. charge \in [type : P!ChargeType, price : Prices]
      BY <2>1 DEF P!Catalog, P!Row
    <3> HIDE DEF charge
    <3> QED BY <3>1, <3>2, <3>3 DEF P!OrNone
  <2>3. CASE ~(catalog[c].active /\ row[l][c][d].active)
    <3>1. P!Resolved(c) = None
      BY <1>2, <2>3 DEF P!Resolved
    <3>2. ASSUME NEW q \in P!Levels \X Dates, P!Prevails(q[1], c, q[2]), catalog[c].active, row[q[1]][c][q[2]].active
          PROVE  FALSE
      BY <1>2, <2>3, <3>2
    <3>3. P!InForce(c) = {}
      BY <3>2, Zenon DEF P!InForce
    <3> QED BY <3>1, <3>3 DEF P!OrNone
  <2> QED BY <2>2, <2>3
<1> QED BY <1>1, <1>2, RowChosen

\* The day a statement is made, its item is one of the invoice's.
LEMMA ItemTypes ==
  ASSUME P!ChargesAssumption, NEW charge, charge = None \/ charge \in [type : P!ChargeType, price : Prices],
         NEW x \in P!Extra \cup {None}, NEW n \in P!Counts
  PROVE  P!InvoiceItem(charge, x, n) \in P!Item \cup {None}
<1>1. P!Quantity(charge.type, x, n) \in P!Counts \cup {1}
  <2>1. P!PersonsCount(x, n) \in P!Counts
    BY DEF P!PersonsCount, P!Extra
  <2>2. 0 \in P!Counts
    BY ChargeConstants DEF P!Counts
  <2>3. P!VehiclesCount(x) \in P!Counts
    BY <2>2 DEF P!VehiclesCount, P!Extra
  <2> QED BY <2>1, <2>3 DEF P!Quantity
<1>2. CASE charge # None
  BY <1>1, <1>2 DEF P!InvoiceItem, P!Item
<1> QED BY <1>2 DEF P!InvoiceItem

LEMMA ChargesInitInv == ASSUME P!ChargesAssumption, P!Init PROVE ChargesInv
<1>1. invoice = [step |-> "NEW"] /\ invoice.step = "NEW"
  BY DEF P!Init
<1>2. catalog \in [Fees -> P!Catalog \cup {None}]
  <2>1. [type |-> "FLAT", active |-> TRUE] \in P!Catalog
    BY DEF P!Catalog, P!ChargeType
  <2> QED BY <2>1 DEF P!Init
<1>3. PICK default \in SUBSET {c \in Fees : catalog[c] # None} :
        row = [l \in P!Levels |-> [c \in Fees |-> [d \in Dates |->
                   IF l = "BUILDING" /\ d = P!Min(Dates) /\ c \in default
                   THEN [price |-> P!Max(Prices), active |-> TRUE, to |-> None] ELSE None]]]
  BY DEF P!Init
<1>4. [price |-> P!Max(Prices), active |-> TRUE, to |-> None] \in P!Row
  BY ChargeConstants DEF P!Row
<1>5. row \in [P!Levels -> [Fees -> [Dates -> P!Row \cup {None}]]]
  BY <1>3, <1>4
<1>6. \A l \in P!Levels, c \in Fees, d \in Dates :
        row[l][c][d] # None => row[l][c][d].to = None /\ catalog[c] # None
  BY <1>3
<1>7. rate \in [Dates -> Prices \cup {None}]
  BY ChargeConstants DEF P!Init
<1>8. extra = None /\ people \in P!Counts
  BY ChargeConstants DEF P!Init
<1>9. P!TypeOK
  BY <1>1, <1>2, <1>5, <1>6, <1>7, <1>8 DEF P!TypeOK
<1> QED BY <1>1, <1>6, <1>9 DEF ChargesInv, RowsHaveCharge, ReadIsSeen, P!UnderWay, P!InvoicesWhatWasInForce

\* A tariff: the columns of its tables, and no row without its charge.
TariffTyped ==
    /\ catalog \in [Fees -> P!Catalog \cup {None}]
    /\ row \in [P!Levels -> [Fees -> [Dates -> P!Row \cup {None}]]]
    /\ \A l \in P!Levels, c \in Fees, d \in Dates :
          row[l][c][d] # None /\ row[l][c][d].to # None => row[l][c][d].to >= d
    /\ extra \in P!Extra \cup {None} /\ people \in P!Counts
    /\ rate \in [Dates -> Prices \cup {None}]

\* A change of the tariff adds what it puts in force to what has been.
LEMMA EditKeepsInv ==
  ASSUME P!ChargesAssumption, ChargesInv, P!Edit, invoice.step # "DONE", TariffTyped', RowsHaveCharge'
  PROVE  ChargesInv'
<1>1. invoice' = invoice /\ invoice'.step = invoice.step
  BY DEF P!Edit
<1>2. P!TypeOK'
  BY <1>1 DEF TariffTyped, P!TypeOK
<1>3. seen' = IF P!UnderWay THEN P!Join(seen, P!Now') ELSE seen
  BY DEF P!Edit
<1>4. P!InvoicesWhatWasInForce'
  BY <1>1 DEF P!InvoicesWhatWasInForce
<1>5. CASE ~P!UnderWay
  <2>1. invoice.step = "NEW" /\ ~P!UnderWay'
    BY <1>1, <1>5 DEF P!UnderWay
  <2>2. ReadIsSeen'
    BY <1>1, <2>1 DEF ReadIsSeen
  <2> QED BY <1>2, <1>4, <2>1, <2>2 DEF ChargesInv
<1>6. CASE P!UnderWay
  <2>1. /\ seen'.rates = seen.rates \cup P!OrNone(P!RateInForce)'
        /\ \A c \in Fees : seen'.prices[c] = seen.prices[c] \cup P!OrNone(P!InForce(c))'
        /\ seen'.extras = seen.extras \cup {extra'} /\ seen'.people = seen.people \cup {people'}
    BY <1>3, <1>6 DEF P!Join, P!Now
  <2>2. SeenIsNow'
    BY <2>1 DEF SeenIsNow
  <2>3. ReadIsSeen'
    BY <1>1, <2>1 DEF ChargesInv, ReadIsSeen
  <2> QED BY <1>2, <1>4, <2>2, <2>3 DEF ChargesInv
<1> QED BY <1>5, <1>6

\* One row is set, to a price or to none.
LEMMA RowSet ==
  ASSUME NEW f, f \in [P!Levels -> [Fees -> [Dates -> P!Row \cup {None}]]],
         NEW l \in P!Levels, NEW c \in Fees, NEW d \in Dates, NEW r \in P!Row \cup {None}, NEW g,
         g = [f EXCEPT ![l][c][d] = r]
  PROVE  /\ g \in [P!Levels -> [Fees -> [Dates -> P!Row \cup {None}]]]
         /\ g[l][c][d] = r
         /\ \A k \in P!Levels, b \in Fees, e \in Dates : k # l \/ b # c \/ e # d => g[k][b][e] = f[k][b][e]
<1>1. [f[l][c] EXCEPT ![d] = r] \in [Dates -> P!Row \cup {None}]
  OBVIOUS
<1>2. [f[l] EXCEPT ![c] = [f[l][c] EXCEPT ![d] = r]] \in [Fees -> [Dates -> P!Row \cup {None}]]
  BY <1>1
<1>3. g = [f EXCEPT ![l] = [f[l] EXCEPT ![c] = [f[l][c] EXCEPT ![d] = r]]]
  OBVIOUS
<1>4. g \in [P!Levels -> [Fees -> [Dates -> P!Row \cup {None}]]]
  BY <1>2, <1>3
<1>5. g[l] = [f[l] EXCEPT ![c] = [f[l][c] EXCEPT ![d] = r]] /\ \A k \in P!Levels \ {l} : g[k] = f[k]
  BY <1>3
<1>6. g[l][c] = [f[l][c] EXCEPT ![d] = r] /\ \A b \in Fees \ {c} : g[l][b] = f[l][b]
  BY <1>5
<1>7. g[l][c][d] = r /\ \A e \in Dates \ {d} : g[l][c][e] = f[l][c][e]
  BY <1>6
<1> QED BY <1>4, <1>5, <1>6, <1>7

\* A row that may be stored: a price of its charge that ends no sooner than
\* it starts.
Storable(d, r) == r \in P!Row /\ (r.to # None => r.to >= d)

LEMMA CreateKeepsInv ==
  ASSUME P!ChargesAssumption, ChargesInv, invoice.step # "DONE",
         NEW l \in P!Levels, NEW c \in Fees, NEW d \in Dates, NEW r, Storable(d, r), P!Create(l, c, d, r)
  PROVE  ChargesInv'
<1>1. catalog[c] # None /\ row' = [row EXCEPT ![l][c][d] = r] /\ UNCHANGED <<catalog, extra, people, rate>> /\ P!Edit
  BY DEF P!Create, P!SetRow
<1>2. row \in [P!Levels -> [Fees -> [Dates -> P!Row \cup {None}]]] /\ r \in P!Row \cup {None}
  BY DEF ChargesInv, P!TypeOK, Storable
<1>3. /\ row' \in [P!Levels -> [Fees -> [Dates -> P!Row \cup {None}]]]
      /\ row'[l][c][d] = r
      /\ \A k \in P!Levels, b \in Fees, e \in Dates : k # l \/ b # c \/ e # d => row'[k][b][e] = row[k][b][e]
  BY <1>1, <1>2, RowSet
<1>4. TariffTyped'
  BY <1>1, <1>3 DEF ChargesInv, P!TypeOK, TariffTyped, Storable
<1>5. RowsHaveCharge'
  BY <1>1, <1>3 DEF ChargesInv, RowsHaveCharge
<1> QED BY <1>1, <1>4, <1>5, EditKeepsInv

LEMMA UpdateKeepsInv ==
  ASSUME P!ChargesAssumption, ChargesInv, invoice.step # "DONE",
         NEW l \in P!Levels, NEW c \in Fees, NEW d \in Dates, NEW b \in Fees, NEW e \in Dates,
         NEW r, Storable(e, r), P!Update(l, c, d, b, e, r)
  PROVE  ChargesInv'
<1> DEFINE cleared == [row EXCEPT ![l][c][d] = None]
<1>1. catalog[b] # None /\ row' = [cleared EXCEPT ![l][b][e] = r] /\ UNCHANGED <<catalog, extra, people, rate>> /\ P!Edit
  BY DEF P!Update
<1>2. row \in [P!Levels -> [Fees -> [Dates -> P!Row \cup {None}]]] /\ r \in P!Row \cup {None}
  BY DEF ChargesInv, P!TypeOK, Storable
<1>3. /\ cleared \in [P!Levels -> [Fees -> [Dates -> P!Row \cup {None}]]]
      /\ cleared[l][c][d] = None
      /\ \A k \in P!Levels, a \in Fees, f \in Dates : k # l \/ a # c \/ f # d => cleared[k][a][f] = row[k][a][f]
  BY <1>2, RowSet
<1> HIDE DEF cleared
<1>4. /\ row' \in [P!Levels -> [Fees -> [Dates -> P!Row \cup {None}]]]
      /\ row'[l][b][e] = r
      /\ \A k \in P!Levels, a \in Fees, f \in Dates : k # l \/ a # b \/ f # e => row'[k][a][f] = cleared[k][a][f]
  BY <1>1, <1>2, <1>3, RowSet
<1>5. \A k \in P!Levels, a \in Fees, f \in Dates :
         \/ row'[k][a][f] \in {None, row[k][a][f]}
         \/ a = b /\ f = e /\ row'[k][a][f] = r
  <2> SUFFICES ASSUME NEW k \in P!Levels, NEW a \in Fees, NEW f \in Dates
               PROVE  row'[k][a][f] \in {None, row[k][a][f]} \/ (a = b /\ f = e /\ row'[k][a][f] = r)
    OBVIOUS
  <2>1. cleared[k][a][f] \in {None, row[k][a][f]}
    <3>1. CASE k = l /\ a = c /\ f = d
      BY ONLY <1>3, <3>1
    <3>2. CASE k # l \/ a # c \/ f # d
      BY ONLY <1>3, <3>2, k \in P!Levels, a \in Fees, f \in Dates
    <3> QED BY <3>1, <3>2
  <2>2. CASE k = l /\ a = b /\ f = e
    BY ONLY <1>4, <2>2
  <2>3. CASE k # l \/ a # b \/ f # e
    <3>1. row'[k][a][f] = cleared[k][a][f]
      BY ONLY <1>4, <2>3, k \in P!Levels, a \in Fees, f \in Dates
    <3> QED BY <2>1, <3>1
  <2> QED BY <2>2, <2>3
<1>6. TariffTyped'
  BY <1>1, <1>4, <1>5 DEF ChargesInv, P!TypeOK, TariffTyped, Storable
<1>7. RowsHaveCharge'
  BY <1>1, <1>5 DEF ChargesInv, RowsHaveCharge
<1> QED BY <1>1, <1>6, <1>7, EditKeepsInv

LEMMA DeleteKeepsInv ==
  ASSUME P!ChargesAssumption, ChargesInv, invoice.step # "DONE",
         NEW l \in P!Levels, NEW c \in Fees, NEW d \in Dates, P!Delete(l, c, d)
  PROVE  ChargesInv'
<1>1. row' = [row EXCEPT ![l][c][d] = None] /\ UNCHANGED <<catalog, extra, people, rate>> /\ P!Edit
  BY DEF P!Delete, P!SetRow
<1>2. row \in [P!Levels -> [Fees -> [Dates -> P!Row \cup {None}]]]
  BY DEF ChargesInv, P!TypeOK
<1>3. /\ row' \in [P!Levels -> [Fees -> [Dates -> P!Row \cup {None}]]]
      /\ row'[l][c][d] = None
      /\ \A k \in P!Levels, b \in Fees, e \in Dates : k # l \/ b # c \/ e # d => row'[k][b][e] = row[k][b][e]
  BY <1>1, <1>2, RowSet
<1>4. TariffTyped'
  BY <1>1, <1>3 DEF ChargesInv, P!TypeOK, TariffTyped
<1>5. RowsHaveCharge'
  BY <1>1, <1>3 DEF ChargesInv, RowsHaveCharge
<1> QED BY <1>1, <1>4, <1>5, EditKeepsInv

LEMMA RowEditsKeepInv ==
  ASSUME P!ChargesAssumption, ChargesInv, invoice.step # "DONE", NEW c \in Fees, NEW d \in Dates,
         \/ \E p \in Prices, a \in BOOLEAN :
               \/ P!CreateBuildingCharge(c, d, p, a) \/ P!CreateRoomChargeOverride(c, d, p, a)
               \/ \E to \in Dates \cup {None} : P!CreateContractChargeOverride(c, d, p, a, to)
               \/ \E b \in Fees, e \in Dates :
                     \/ P!UpdateBuildingCharge(c, d, b, e, p, a)
                     \/ P!UpdateRoomChargeOverride(c, d, b, e, p, a)
                     \/ \E to \in Dates \cup {None} : P!UpdateContractChargeOverride(c, d, b, e, p, a, to)
         \/ P!DeleteBuildingCharge(c, d) \/ P!DeleteRoomChargeOverride(c, d)
         \/ P!DeleteContractChargeOverride(c, d)
  PROVE  ChargesInv'
<1>1. "CONTRACT" \in P!Levels /\ "ROOM" \in P!Levels /\ "BUILDING" \in P!Levels
  BY DEF P!Levels
<1>2. ASSUME NEW p \in Prices, NEW a \in BOOLEAN, NEW e \in Dates PROVE Storable(e, P!Plain(p, a))
  BY DEF Storable, P!Plain, P!Row
<1>3. ASSUME NEW p \in Prices, NEW a \in BOOLEAN, NEW e \in Dates, NEW to \in Dates \cup {None}, P!DateRange(e, to)
      PROVE  Storable(e, [price |-> p, active |-> a, to |-> to])
  BY <1>3 DEF Storable, P!Row, P!DateRange
<1>4. ASSUME NEW p \in Prices, NEW a \in BOOLEAN,
             \/ P!CreateBuildingCharge(c, d, p, a) \/ P!CreateRoomChargeOverride(c, d, p, a)
             \/ \E to \in Dates \cup {None} : P!CreateContractChargeOverride(c, d, p, a, to)
      PROVE  ChargesInv'
  <2>1. CASE P!CreateBuildingCharge(c, d, p, a) \/ P!CreateRoomChargeOverride(c, d, p, a)
    BY <1>1, <1>2, <2>1, CreateKeepsInv DEF P!CreateBuildingCharge, P!CreateRoomChargeOverride
  <2>2. ASSUME NEW to \in Dates \cup {None}, P!CreateContractChargeOverride(c, d, p, a, to) PROVE ChargesInv'
    <3>1. Storable(d, [price |-> p, active |-> a, to |-> to])
      BY <1>3, <2>2 DEF P!CreateContractChargeOverride
    <3> QED BY <1>1, <2>2, <3>1, CreateKeepsInv DEF P!CreateContractChargeOverride
  <2> QED BY <1>4, <2>1, <2>2
<1>5. ASSUME NEW p \in Prices, NEW a \in BOOLEAN, NEW b \in Fees, NEW e \in Dates,
             \/ P!UpdateBuildingCharge(c, d, b, e, p, a)
             \/ P!UpdateRoomChargeOverride(c, d, b, e, p, a)
             \/ \E to \in Dates \cup {None} : P!UpdateContractChargeOverride(c, d, b, e, p, a, to)
      PROVE  ChargesInv'
  <2>1. CASE P!UpdateBuildingCharge(c, d, b, e, p, a) \/ P!UpdateRoomChargeOverride(c, d, b, e, p, a)
    BY <1>1, <1>2, <2>1, UpdateKeepsInv DEF P!UpdateBuildingCharge, P!UpdateRoomChargeOverride
  <2>2. ASSUME NEW to \in Dates \cup {None}, P!UpdateContractChargeOverride(c, d, b, e, p, a, to) PROVE ChargesInv'
    <3>1. Storable(e, [price |-> p, active |-> a, to |-> to])
      BY <1>3, <2>2 DEF P!UpdateContractChargeOverride
    <3> QED BY <1>1, <2>2, <3>1, UpdateKeepsInv DEF P!UpdateContractChargeOverride
  <2> QED BY <1>5, <2>1, <2>2
<1>6. CASE P!DeleteBuildingCharge(c, d) \/ P!DeleteRoomChargeOverride(c, d) \/ P!DeleteContractChargeOverride(c, d)
  BY <1>1, <1>6, DeleteKeepsInv DEF P!DeleteBuildingCharge, P!DeleteRoomChargeOverride, P!DeleteContractChargeOverride
<1> QED BY <1>4, <1>5, <1>6

LEMMA CatalogEditsKeepInv ==
  ASSUME P!ChargesAssumption, ChargesInv, invoice.step # "DONE", NEW c \in Fees,
         \/ \E type \in P!ChargeType, a \in BOOLEAN : P!CreateChargeCatalog(c, type, a) \/ P!UpdateChargeCatalog(c, type, a)
         \/ P!DeleteChargeCatalog(c)
  PROVE  ChargesInv'
<1>1. ASSUME NEW type \in P!ChargeType, NEW a \in BOOLEAN, P!SetCatalog(c, type, a) PROVE ChargesInv'
  <2> DEFINE new == [type |-> type, active |-> a]
  <2>1. catalog' = [catalog EXCEPT ![c] = new] /\ UNCHANGED <<row, extra, people, rate>> /\ P!Edit
    BY <1>1 DEF P!SetCatalog
  <2>2. catalog \in [Fees -> P!Catalog \cup {None}]
    BY DEF ChargesInv, P!TypeOK
  <2>3. new \in P!Catalog
    BY DEF P!Catalog
  <2> HIDE DEF new
  <2>4. TariffTyped'
    BY <2>1, <2>2, <2>3 DEF ChargesInv, P!TypeOK, TariffTyped
  <2>5. None \notin P!Catalog
    BY DEF P!ChargesAssumption
  <2>6. \A b \in Fees : catalog[b] # None => catalog'[b] # None
    BY <2>1, <2>2, <2>3, <2>5
  <2>7. RowsHaveCharge'
    BY <2>1, <2>6 DEF ChargesInv, RowsHaveCharge
  <2> QED BY <2>1, <2>4, <2>7, EditKeepsInv
<1>2. P!DeleteChargeCatalog(c) => catalog[c].type \in P!ChargeType
  BY DEF P!DeleteChargeCatalog, ChargesInv, P!TypeOK, P!Catalog
<1> QED BY <1>1, <1>2 DEF P!CreateChargeCatalog, P!UpdateChargeCatalog, P!DeleteChargeCatalog

LEMMA CountEditsKeepInv ==
  ASSUME P!ChargesAssumption, ChargesInv, invoice.step # "DONE",
         \/ \E persons, vehicles \in P!Counts \cup {None} : P!SaveRoomMonthExtra(persons, vehicles)
         \/ P!DeleteRoomMonthExtra
         \/ \E n \in P!Counts : P!PeopleChange(n)
         \/ \E d \in Dates :
               \/ \E p \in Prices : P!CreateUtilityRate(d, p) \/ \E e \in Dates : P!UpdateUtilityRate(d, e, p)
               \/ P!DeleteUtilityRate(d)
  PROVE  ChargesInv'
<1>1. TariffTyped /\ RowsHaveCharge
  BY DEF ChargesInv, P!TypeOK, TariffTyped
<1>2. ASSUME UNCHANGED <<catalog, row>>, P!Edit, extra' \in P!Extra \cup {None}, people' \in P!Counts,
             rate' \in [Dates -> Prices \cup {None}]
      PROVE  ChargesInv'
  <2>1. TariffTyped' /\ RowsHaveCharge'
    BY <1>1, <1>2 DEF TariffTyped, RowsHaveCharge
  <2> QED BY <1>2, <2>1, EditKeepsInv
<1>3. extra \in P!Extra \cup {None} /\ people \in P!Counts /\ rate \in [Dates -> Prices \cup {None}]
  BY <1>1 DEF TariffTyped
<1>4. ASSUME NEW persons \in P!Counts \cup {None}, NEW vehicles \in P!Counts \cup {None},
             P!SaveRoomMonthExtra(persons, vehicles)
      PROVE  ChargesInv'
  <2>1. [persons |-> persons, vehicles |-> vehicles] \in P!Extra
    BY DEF P!Extra
  <2>2. extra' \in P!Extra \cup {None} /\ UNCHANGED <<catalog, row, people, rate>> /\ P!Edit
    BY <1>4, <2>1 DEF P!SaveRoomMonthExtra
  <2> QED BY <1>2, <1>3, <2>2
<1>5. CASE P!DeleteRoomMonthExtra
  BY <1>2, <1>3, <1>5 DEF P!DeleteRoomMonthExtra
<1>6. ASSUME NEW n \in P!Counts, P!PeopleChange(n) PROVE ChargesInv'
  BY <1>2, <1>3, <1>6 DEF P!PeopleChange
<1>7. ASSUME NEW new \in [Dates -> Prices \cup {None}], P!SetRate(new) PROVE ChargesInv'
  BY <1>2, <1>3, <1>7 DEF P!SetRate
<1>8. ASSUME NEW d \in Dates, NEW p \in Prices, P!CreateUtilityRate(d, p) PROVE ChargesInv'
  <2>1. [rate EXCEPT ![d] = p] \in [Dates -> Prices \cup {None}]
    BY <1>3
  <2> QED BY <1>7, <1>8, <2>1 DEF P!CreateUtilityRate
<1>9. ASSUME NEW d \in Dates, NEW p \in Prices, NEW e \in Dates, P!UpdateUtilityRate(d, e, p) PROVE ChargesInv'
  <2>1. [rate EXCEPT ![d] = None, ![e] = p] \in [Dates -> Prices \cup {None}]
    BY <1>3
  <2> QED BY <1>7, <1>9, <2>1 DEF P!UpdateUtilityRate
<1>10. ASSUME NEW d \in Dates, P!DeleteUtilityRate(d) PROVE ChargesInv'
  <2>1. [rate EXCEPT ![d] = None] \in [Dates -> Prices \cup {None}]
    BY <1>3
  <2> QED BY <1>7, <1>10, <2>1 DEF P!DeleteUtilityRate
<1> QED BY <1>4, <1>5, <1>6, <1>8, <1>9, <1>10

\* A statement of the invoice leaves the tariff as it is.
LEMMA StatementKeepsInv ==
  ASSUME P!ChargesAssumption, ChargesInv,
         P!BeginInvoice \/ P!ReadRate \/ P!ReadRoomMonthExtra \/ P!CountTenants \/ P!ResolveFixedCharges
  PROVE  ChargesInv'
<1>1. UNCHANGED <<catalog, row, extra, people, rate>>
  BY DEF P!BeginInvoice, P!ReadRate, P!ReadRoomMonthExtra, P!CountTenants, P!ResolveFixedCharges, P!Reads, P!tariff
<1>2. RowsHaveCharge' /\ (P!OrNone(P!RateInForce))' = P!OrNone(P!RateInForce)
      /\ \A c \in Fees : (P!OrNone(P!InForce(c)))' = P!OrNone(P!InForce(c))
  BY <1>1 DEF ChargesInv, RowsHaveCharge, P!OrNone, P!RateInForce, P!InForce, P!Prevails, P!Applies
<1>3. ASSUME invoice'.step # "DONE" PROVE P!TypeOK'
  BY <1>1, <1>3 DEF ChargesInv, P!TypeOK
<1>4. CASE P!BeginInvoice
  <2>1. invoice' = [step |-> "RATE"] /\ invoice'.step = "RATE" /\ seen' = P!Now
    BY <1>4 DEF P!BeginInvoice
  <2>2. /\ seen'.rates = P!OrNone(P!RateInForce) /\ \A c \in Fees : seen'.prices[c] = P!OrNone(P!InForce(c))
        /\ seen'.extras = {extra} /\ seen'.people = {people}
    BY <2>1 DEF P!Now
  <2>3. SeenIsNow'
    BY <1>1, <1>2, <2>2 DEF SeenIsNow
  <2> QED BY <1>2, <1>3, <2>1, <2>3 DEF ChargesInv, ReadIsSeen, P!InvoicesWhatWasInForce
<1>5. ASSUME invoice.step \in {"RATE", "EXTRA", "PEOPLE", "ROWS"}
      PROVE  P!UnderWay /\ SeenIsNow /\ ReadIsSeen /\ (seen' = seen => SeenIsNow')
  <2>1. P!UnderWay /\ SeenIsNow /\ ReadIsSeen
    BY <1>5 DEF P!UnderWay, ChargesInv
  <2>2. seen' = seen => SeenIsNow'
    BY <1>1, <1>2, <2>1 DEF SeenIsNow
  <2> QED BY <2>1, <2>2
<1>6. CASE P!ReadRate /\ P!RateNow = None
  <2>1. invoice' = [step |-> "NEW"] /\ invoice'.step = "NEW"
    BY <1>6 DEF P!ReadRate
  <2> QED BY <1>2, <1>3, <2>1 DEF ChargesInv, ReadIsSeen, P!InvoicesWhatWasInForce, P!UnderWay
<1>7. CASE P!ReadRate /\ P!RateNow # None
  <2>1. invoice' = [step |-> "EXTRA", rate |-> P!RateNow] /\ seen' = seen /\ invoice.step = "RATE"
    BY <1>7 DEF P!ReadRate, P!Reads
  <2>2. invoice'.step = "EXTRA" /\ invoice'.rate = P!RateNow
    BY <2>1
  <2>3. P!RateNow \in seen.rates
    BY <1>5, <2>1, RateIsInForce DEF SeenIsNow
  <2>4. ReadIsSeen'
    BY <1>7, <2>1, <2>2, <2>3 DEF ReadIsSeen
  <2> QED BY <1>2, <1>3, <1>5, <2>1, <2>2, <2>4 DEF ChargesInv, P!InvoicesWhatWasInForce
<1>8. CASE P!ReadRoomMonthExtra
  <2>1. invoice' = [step |-> "PEOPLE", rate |-> invoice.rate, extra |-> extra] /\ seen' = seen /\ invoice.step = "EXTRA"
    BY <1>8 DEF P!ReadRoomMonthExtra, P!Reads
  <2>2. invoice'.step = "PEOPLE" /\ invoice'.rate = invoice.rate /\ invoice'.extra = extra
    BY <2>1
  <2>3. ReadIsSeen'
    BY <1>5, <2>1, <2>2 DEF ReadIsSeen, SeenIsNow, ChargesInv, P!TypeOK
  <2> QED BY <1>2, <1>3, <1>5, <2>1, <2>2, <2>3 DEF ChargesInv, P!InvoicesWhatWasInForce
<1>9. CASE P!CountTenants
  <2>1. invoice' = [step |-> "ROWS", rate |-> invoice.rate, extra |-> invoice.extra, people |-> people]
        /\ seen' = seen /\ invoice.step = "PEOPLE"
    BY <1>9 DEF P!CountTenants, P!Reads
  <2>2. invoice'.step = "ROWS" /\ invoice'.rate = invoice.rate /\ invoice'.extra = invoice.extra /\ invoice'.people = people
    BY <2>1
  <2>3. ReadIsSeen'
    BY <1>5, <2>1, <2>2 DEF ReadIsSeen, SeenIsNow, ChargesInv, P!TypeOK
  <2> QED BY <1>2, <1>3, <1>5, <2>1, <2>2, <2>3 DEF ChargesInv, P!InvoicesWhatWasInForce
<1>10. CASE P!ResolveFixedCharges
  <2> DEFINE item(c) == P!InvoiceItem(P!Resolved(c), invoice.extra, invoice.people)
  <2>1. invoice' = [step |-> "DONE", rate |-> invoice.rate, item |-> [c \in Fees |-> item(c)]]
        /\ seen' = seen /\ invoice.step = "ROWS"
    BY <1>10 DEF P!ResolveFixedCharges, P!Reads
  <2>2. invoice'.step = "DONE" /\ invoice'.rate = invoice.rate /\ invoice'.item = [c \in Fees |-> item(c)]
    BY <2>1
  <2>3. /\ invoice.rate \in seen.rates \ {None}
        /\ invoice.extra \in seen.extras /\ invoice.extra \in P!Extra \cup {None}
        /\ invoice.people \in seen.people /\ invoice.people \in P!Counts
    BY <1>5, <2>1 DEF ReadIsSeen
  <2>4. ASSUME NEW c \in Fees
        PROVE  /\ P!Resolved(c) \in seen.prices[c]
               /\ item(c) \in P!Item \cup {None}
    <3>1. P!TypeOK /\ RowsHaveCharge
      BY DEF ChargesInv
    <3>2. P!Resolved(c) \in P!OrNone(P!InForce(c))
          /\ (P!Resolved(c) = None \/ P!Resolved(c) \in [type : P!ChargeType, price : Prices])
      BY <3>1, ResolvedIsInForce
    <3>3. item(c) \in P!Item \cup {None}
      BY <2>3, <3>2, ItemTypes
    <3> QED BY <1>5, <2>1, <3>2, <3>3 DEF SeenIsNow
  <2> HIDE DEF item
  <2>5. P!TypeOK'
    BY <1>1, <2>2, <2>4 DEF ChargesInv, P!TypeOK
  <2>6. P!InvoicesWhatWasInForce'
    <3>1. invoice'.rate \in seen'.rates \ {None}
      BY <2>1, <2>2, <2>3
    <3>2. ASSUME NEW c \in Fees
          PROVE  \E charge \in seen'.prices[c], x \in seen'.extras, n \in seen'.people :
                    invoice'.item[c] = P!InvoiceItem(charge, x, n)
      BY <2>1, <2>2, <2>3, <2>4 DEF item
    <3> QED BY <3>1, <3>2 DEF P!InvoicesWhatWasInForce
  <2>7. ReadIsSeen'
    BY <2>1, <2>2, <2>3 DEF ReadIsSeen
  <2> QED BY <1>2, <2>2, <2>5, <2>6, <2>7 DEF ChargesInv, P!UnderWay
<1> QED BY <1>4, <1>6, <1>7, <1>8, <1>9, <1>10

LEMMA ChargesStepInv == ASSUME P!ChargesAssumption, ChargesInv, [P!Next]_(P!vars) PROVE ChargesInv'
<1>1. CASE UNCHANGED P!vars
  <2>1. UNCHANGED <<catalog, row, extra, people, rate, invoice, seen>>
    BY <1>1 DEF P!vars
  <2>2. (P!OrNone(P!RateInForce))' = P!OrNone(P!RateInForce)
        /\ \A c \in Fees : (P!OrNone(P!InForce(c)))' = P!OrNone(P!InForce(c))
    BY <2>1 DEF P!OrNone, P!RateInForce, P!InForce, P!Prevails, P!Applies
  <2>3. P!TypeOK' /\ RowsHaveCharge' /\ (P!UnderWay => SeenIsNow)'
    BY <2>1, <2>2 DEF ChargesInv, P!TypeOK, RowsHaveCharge, SeenIsNow, P!UnderWay
  <2>4. ReadIsSeen' /\ P!InvoicesWhatWasInForce'
    BY <2>1 DEF ChargesInv, ReadIsSeen, P!InvoicesWhatWasInForce
  <2> QED BY <2>3, <2>4 DEF ChargesInv
<1>2. CASE P!ChangeTariff
  BY <1>2, RowEditsKeepInv, CatalogEditsKeepInv, CountEditsKeepInv DEF P!ChangeTariff
<1>3. CASE P!BeginInvoice \/ P!ReadRate \/ P!ReadRoomMonthExtra \/ P!CountTenants \/ P!ResolveFixedCharges
  BY <1>3, StatementKeepsInv
<1> QED BY <1>1, <1>2, <1>3 DEF P!Next
-----------------------------------------------------------------------------
\* What is known of the invoice that is made holds in every reachable state.
THEOREM ChargesInvariance == ASSUME P!ChargesAssumption PROVE P!Spec => []ChargesInv
BY ChargesInitInv, ChargesStepInv, PTL DEF P!Spec

\* The columns of the prices, and the items of an invoice that is made.
THEOREM ChargesTypeCorrect == ASSUME P!ChargesAssumption PROVE P!Spec => []P!TypeOK
<1>1. ChargesInv => P!TypeOK
  BY DEF ChargesInv
<1> QED BY <1>1, ChargesInvariance, PTL

\* An invoice has prices of some moment of its transaction, whatever tariff
\* is edited between its statements.
THEOREM PricesWereInForce == ASSUME P!ChargesAssumption PROVE P!Spec => []P!InvoicesWhatWasInForce
<1>1. ChargesInv => P!InvoicesWhatWasInForce
  BY DEF ChargesInv
<1> QED BY <1>1, ChargesInvariance, PTL
-----------------------------------------------------------------------------
(* What MCOffice does is what one of its modules does. *)

LEMMA StepsAreOfOne ==
  ASSUME [Next]_vars
  PROVE  /\ [C!Next]_accounts /\ [L!Next]_throttling /\ [R!Next]_reset /\ [P!Next]_charging /\ [B!Next]_tab
         /\ [T!Next]_proving /\ [M!Next]_migrating /\ [J!Next]_scheduling /\ [I!Next]_importing
<1>1. CASE UNCHANGED vars
  BY <1>1 DEF vars
<1>2. ASSUME NEW p, Only(p)
      PROVE  /\ p # "CREDENTIALS" => UNCHANGED accounts
             /\ p # "THROTTLE" => UNCHANGED throttling
             /\ p # "RESETS" => UNCHANGED reset
             /\ p # "CHARGES" => UNCHANGED charging
             /\ p # "TAB" => UNCHANGED tab
             /\ p # "TWO_FACTOR" => UNCHANGED proving
             /\ p # "MIGRATIONS" => UNCHANGED migrating
             /\ p # "JOBS" => UNCHANGED scheduling
             /\ p # "IMPORTS" => UNCHANGED importing
  BY <1>2, Zenon DEF Only
<1>3. CASE Next
  <2>1. ASSUME NEW p \in Pages, Only(p)
        PROVE  UNCHANGED <<accounts, throttling, reset, charging, tab, proving, migrating, scheduling, importing>>
    BY <1>2, <2>1 DEF Pages
  <2>2. CASE Only("CREDENTIALS") /\ C!Next
    BY <1>2, <2>2
  <2>3. CASE Only("THROTTLE") /\ L!Next
    BY <1>2, <2>3
  <2>4. CASE Only("RESETS") /\ R!Next
    BY <1>2, <2>4
  <2>5. CASE Only("CHARGES") /\ P!Next
    BY <1>2, <2>5
  <2>6. CASE Only("TAB") /\ B!Next
    BY <1>2, <2>6
  <2>7. CASE Only("TWO_FACTOR") /\ T!Next
    BY <1>2, <2>7
  <2>8. CASE Only("MIGRATIONS") /\ M!Next
    BY <1>2, <2>8
  <2>9. CASE Only("JOBS") /\ J!Next
    BY <1>2, <2>9
  <2>10. CASE Only("IMPORTS") /\ I!Next
    BY <1>2, <2>10
  <2>11. CASE \E p \in Pages : Only(p)
    BY <2>1, <2>11
  <2> QED BY <1>3, <2>2, <2>3, <2>4, <2>5, <2>6, <2>7, <2>8, <2>9, <2>10, <2>11, Zenon DEF Next, Pages
<1> QED BY <1>1, <1>3

\* Each module's behaviour is what a behaviour of MCOffice is of its state.
THEOREM EachIsItself ==
  Spec => /\ C!Spec /\ L!Spec /\ R!Spec /\ P!Spec /\ B!Spec
          /\ T!Spec /\ M!Spec /\ J!Spec /\ I!Spec
<1>1. Init => C!Init /\ L!Init /\ R!Init /\ P!Init /\ B!Init /\ T!Init /\ M!Init /\ J!Init /\ I!Init
  BY DEF Init
<1>2. accounts = C!vars /\ throttling = L!vars /\ charging = P!vars /\ tab = B!vars
  BY DEF accounts, throttling, charging, tab, C!vars, L!vars, P!vars, B!vars
<1>3. proving = T!vars /\ migrating = M!vars /\ scheduling = J!vars /\ importing = I!vars
  BY DEF proving, migrating, scheduling, importing, T!vars, M!vars, J!vars, I!vars
<1>4. [Next]_vars => /\ [C!Next]_(C!vars) /\ [L!Next]_(L!vars) /\ [R!Next]_reset /\ [P!Next]_(P!vars) /\ [B!Next]_(B!vars)
                     /\ [T!Next]_(T!vars) /\ [M!Next]_(M!vars) /\ [J!Next]_(J!vars) /\ [I!Next]_(I!vars)
  BY StepsAreOfOne, <1>2, <1>3 DEF accounts, throttling, charging, tab, C!vars, L!vars, P!vars, B!vars,
     proving, migrating, scheduling, importing, T!vars, M!vars, J!vars, I!vars
<1> QED BY <1>1, <1>4, PTL DEF Spec, C!Spec, L!Spec, R!Spec, P!Spec, B!Spec, T!Spec, M!Spec, J!Spec, I!Spec

\* One link of a kind is open at most, and an open invitation went to the address
\* of an account that still waits for it, for any links, addresses and changes.
THEOREM OfficeInvitations == Spec => []InvitationsAreCurrent
<1>1. C!Spec => []C!InvitationsAreCurrent
  BY OfficeAssumption, InvitationsCurrent
<1>2. C!InvitationsAreCurrent => InvitationsAreCurrent
  BY DEF InvitationsAreCurrent
<1> QED BY <1>1, <1>2, EachIsItself, PTL

\* Logins made at the same time pass the limit by their number at most.
THEOREM OfficeFailures == Spec => []FailuresBounded
<1>1. L!Spec => []L!FailuresBounded
  BY OfficeAssumption, Bounded
<1>2. L!FailuresBounded => FailuresBounded
  BY DEF FailuresBounded
<1> QED BY <1>1, <1>2, EachIsItself, PTL

\* Resets asked for at the same time never pass the limit.
THEOREM OfficeResets == Spec => []ResetsWithinLimit
<1>1. R!Spec => []R!ResetsWithinLimit
  BY OfficeAssumption, WithinLimit
<1>2. R!ResetsWithinLimit => ResetsWithinLimit
  BY DEF ResetsWithinLimit
<1> QED BY <1>1, <1>2, EachIsItself, PTL

\* An invoice is priced by tariffs of its time, edits meanwhile included.
THEOREM OfficeInvoices == Spec => []InvoicesWhatWasInForce
<1>1. P!Spec => []P!InvoicesWhatWasInForce
  BY OfficeAssumption, PricesWereInForce
<1>2. P!InvoicesWhatWasInForce => InvoicesWhatWasInForce
  BY DEF InvoicesWhatWasInForce
<1> QED BY <1>1, <1>2, EachIsItself, PTL

\* A tab is logged in as long as its session and no longer, and no session
\* gets by without the second factor that is in force.
THEOREM OfficeSessions == Spec => []SessionsAreSound
<1>1. B!Spec => []B!SessionLastsUntilLogout
  BY OfficeAssumption, SessionLasts
<1>2. T!Spec => []T!SessionsProveSecret
  BY OfficeAssumption, SessionsProve
<1>3. B!SessionLastsUntilLogout /\ T!SessionsProveSecret => SessionsAreSound
  BY DEF SessionsAreSound
<1> QED BY <1>1, <1>2, <1>3, EachIsItself, PTL

\* A migration, a job of a bucket and a row of a file are each done once,
\* whoever else is at it, and said to be done when they are.
THEOREM OfficeOnce == Spec => []OnceOnly
<1>1. M!Spec => []M!AppliedOnce
  BY OfficeAssumption, MigrationsApplyOnce
<1>2. J!Spec => []J!RunsAreTrue
  BY OfficeAssumption, JobRowsAreTrue
<1>3. I!Spec => []I!ImportedOnce
  BY OfficeAssumption, RowsImportedOnce
<1>4. M!AppliedOnce /\ J!RunsAreTrue /\ I!ImportedOnce => OnceOnly
  BY DEF OnceOnly
<1> QED BY <1>1, <1>2, <1>3, <1>4, EachIsItself, PTL
-----------------------------------------------------------------------------
\* The columns and the local state of all modules keep their types.
THEOREM OfficeTypes == Spec => []TypeOK
<1>1. C!Spec => []C!TypeOK
  BY OfficeAssumption, LinksTypeCorrect
<1>2. L!Spec => []L!TypeOK
  BY OfficeAssumption, ThrottleTypeCorrect
<1>3. R!Spec => []R!TypeOK
  BY OfficeAssumption, ResetsTypeCorrect
<1>4. P!Spec => []P!TypeOK
  BY OfficeAssumption, ChargesTypeCorrect
<1>5. B!Spec => []B!TypeOK
  BY OfficeAssumption, TabTypeCorrect
<1>6. T!Spec => []SecondFactorInv
  BY OfficeAssumption, SecondFactorInvariance
<1>7. M!Spec => []LedgerInv
  BY OfficeAssumption, LedgerInvariance
<1>8. J!Spec => []JobsInv
  BY OfficeAssumption, JobsInvariance
<1>9. I!Spec => []ImportInv
  BY OfficeAssumption, ImportInvariance
<1>10. SecondFactorInv /\ LedgerInv /\ JobsInv /\ ImportInv => T!TypeOK /\ M!TypeOK /\ J!TypeOK /\ I!TypeOK
  BY DEF SecondFactorInv, LedgerInv, JobsInv, ImportInv
<1>11. /\ C!TypeOK /\ L!TypeOK /\ R!TypeOK /\ P!TypeOK /\ B!TypeOK
       /\ T!TypeOK /\ M!TypeOK /\ J!TypeOK /\ I!TypeOK /\ PagesInv
       => TypeOK
  BY DEF TypeOK, PagesInv, FormPageInv, InvoicePageInv, FeePageInv, ContractPageInv, UtilityPageInv, TenantPageInv, RoomPageInv, FilePageInv, RentalPageInv, ImportPageInv, PaymentPageInv, ProofPageInv, BuildingPageInv
<1> QED BY <1>1, <1>2, <1>3, <1>4, <1>5, <1>6, <1>7, <1>8, <1>9, <1>10, <1>11, EachIsItself, PagesInvariance, PTL
=============================================================================
