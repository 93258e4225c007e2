--------------------------- MODULE Sessions_proofs ---------------------------
(***************************************************************************)
(* Proofs about Sessions, for any number of sessions, tokens, requests and *)
(* passwords.                                                              *)
(***************************************************************************)
EXTENDS Sessions, FiniteSetTheorems, TLAPS

AccountRows ==
    [status : {"ACTIVE", "DISABLED"}, password : Passwords, legacy : BOOLEAN, version : 0..MaxVersion]
SessionRows == [status : SessionStatus, version : 0..MaxVersion, expired : BOOLEAN]
TokenRows == [status : TokenStatus, session : Sessions \cup {NoSession}]
Rows == {Account} \cup Sessions \cup Tokens

Logins == [op : {"LOGIN"}, step : {"STAMP", "OPEN"}, saw : AccountRows]
Refreshes == [op : {"REFRESH"}, step : {"READ", "REVOKE"}, token : Tokens, session : Sessions]
Logouts == [op : {"LOGOUT"}, step : {"READ", "REVOKE"}, session : Sessions]
AccountChanges == [op : {"CHANGE"}, step : {"ACCOUNT", "SESSIONS", "TOKENS"}, change : Changes]
Cleanups == [op : {"CLEANUP"}, step : {"SESSIONS", "TOKENS"}]
RequestRows == {Idle} \cup Logins \cup Refreshes \cup Logouts \cup AccountChanges \cup Cleanups
-----------------------------------------------------------------------------
(* The inductive invariant. *)

\* The rows, as the schema has them.
RowsTyped ==
    /\ account \in AccountRows
    /\ session \in [Sessions -> SessionRows]
    /\ token \in [Tokens -> TokenRows]
    /\ proved \in [Sessions -> Passwords \cup {NoPassword}]
    /\ overwritten \in BOOLEAN

Typed ==
    /\ RowsTyped
    /\ request \in [Requests -> RequestRows]
    /\ held \in [Requests -> SUBSET Rows]
    /\ want = [r \in Requests |-> want[r]]

\* A token belongs to a session that is there, unless it was never issued or its
\* session is gone.
Owned ==
    \A t \in Tokens :
        /\ token[t].session # NoSession => token[t].session \in There
        /\ token[t].status \in {"NONE", "DELETED"} <=> token[t].session = NoSession

\* A session of the account's present version has one live token and was opened
\* with the present password; a revoked one has no live token.
Current ==
    \A s \in Sessions :
        /\ session[s].version <= account.version
        /\ session[s].status = "REVOKED" => Live(s) = {}
        /\ session[s].status = "LIVE" /\ session[s].version = account.version =>
              /\ \E t \in Tokens : Live(s) = {t}
              /\ proved[s] = account.password \/ overwritten

Exclusive == \A q, r \in Requests : q # r => held[q] \cap held[r] = {}

\* What a statement that locks one set of rows has yet to lock, and all that the
\* transaction will have locked with it.
OneSet(r) == want[r] = <<>> \/ \E W \in SUBSET Rows : W # {} /\ want[r] = <<W>>
Wanted(r) == IF want[r] = <<>> THEN {} ELSE want[r][1]
Reach(r) == held[r] \cup Wanted(r)

IsAt(r, op, step) == request[r].op = op /\ request[r].step = step

\* A login that saw the present version saw the present password.
LoginSound(r) ==
    request[r].op = "LOGIN" =>
        LET saw == request[r].saw
        IN  /\ held[r] = {} /\ want[r] = <<>>
            /\ saw.version <= account.version
            /\ saw.version = account.version => saw.password = account.password \/ overwritten

\* A refresh locks token, session and account, in this order.
RefreshReads(r) ==
    IsAt(r, "REFRESH", "READ") =>
        LET t == request[r].token
            s == request[r].session
        IN  /\ token[t].status # "NONE" /\ token[t].session \in {s, NoSession}
            /\ \/ want[r] = <<{t}, {s}, {Account}>> /\ held[r] = {}
               \/ want[r] = <<{s}, {Account}>> /\ held[r] = {t}
               \/ want[r] = <<{Account}>> /\ held[r] = {t, s}
               \/ want[r] = <<>> /\ held[r] = {t, s, Account}

\* Who revokes one session holds it and locks all its tokens.
RevokesOne(r) ==
    IsAt(r, "REFRESH", "REVOKE") \/ IsAt(r, "LOGOUT", "REVOKE") =>
        LET s == request[r].session
        IN  /\ OneSet(r)
            /\ s \in held[r]
            /\ Reach(r) \cap Tokens = TokensOf({s})
            /\ Reach(r) \cap Sessions = {s}
            /\ Wanted(r) \subseteq Tokens
            /\ request[r].op = "LOGOUT" => Account \notin Reach(r) /\ Wanted(r) \cap held[r] = {}

LogoutReads(r) ==
    IsAt(r, "LOGOUT", "READ") =>
        LET s == request[r].session
        IN  \/ want[r] = <<{s}>> /\ held[r] = {}
            \/ want[r] = <<>> /\ held[r] = {s}

ChangeReads(r) ==
    IsAt(r, "CHANGE", "ACCOUNT") =>
        \/ want[r] = <<{Account}>> /\ held[r] = {}
        \/ want[r] = <<>> /\ held[r] = {Account}

\* Who changes the account holds it, and the sessions it does not lock are newer
\* than the change and have not been refreshed.
ChangeHolds(r) ==
    IsAt(r, "CHANGE", "SESSIONS") \/ IsAt(r, "CHANGE", "TOKENS") =>
        /\ OneSet(r)
        /\ Account \in held[r] /\ account.version < MaxVersion
        /\ Wanted(r) \cap held[r] = {}
        /\ request[r].change.kind = "ENABLE" => Reach(r) = {Account} /\ want[r] = <<>>
        /\ request[r].change.kind # "ENABLE" =>
              \A s \in Sessions \ Reach(r) : \A t, u \in TokensOf({s}) : t = u
        /\ request[r].step = "SESSIONS" => Reach(r) \cap Tokens = {}
        /\ request[r].step = "TOKENS" =>
              Wanted(r) \subseteq Tokens /\ TokensOf(held[r] \cap Sessions) \subseteq Reach(r)

CleanupLocks(r) ==
    request[r].op = "CLEANUP" =>
        /\ OneSet(r)
        /\ Account \notin Reach(r)
        /\ request[r].step = "SESSIONS" => Reach(r) \subseteq Sessions

\* Nobody waits for a session that was never opened.
Known(r) ==
    /\ request[r].op \in {"REFRESH", "LOGOUT"} => session[request[r].session].status # "NONE"
    /\ request[r].op \in {"CHANGE", "CLEANUP"} =>
          \A s \in Reach(r) \cap Sessions : session[s].status # "NONE"

Local(r) ==
    /\ request[r] = Idle => held[r] = {} /\ want[r] = <<>>
    /\ LoginSound(r)
    /\ RefreshReads(r)
    /\ RevokesOne(r)
    /\ LogoutReads(r)
    /\ ChangeReads(r)
    /\ ChangeHolds(r)
    /\ CleanupLocks(r)
    /\ Known(r)

IInv == Typed /\ Owned /\ Current /\ Exclusive /\ \A r \in Requests : Local(r)
-----------------------------------------------------------------------------
(* One request moves, the others stand still. *)

LEMMA Kinds ==
  ASSUME Typed, NEW r \in Requests
  PROVE  /\ request[r] \in RequestRows
         /\ request[r] = Idle <=> request[r].op = "NONE"
         /\ request[r].op = "LOGIN" => request[r] \in Logins
         /\ request[r].op = "REFRESH" => request[r] \in Refreshes
         /\ request[r].op = "LOGOUT" => request[r] \in Logouts
         /\ request[r].op = "CHANGE" => request[r] \in AccountChanges
         /\ request[r].op = "CLEANUP" => request[r] \in Cleanups
<1>1. request[r] \in RequestRows
  BY DEF Typed
<1> QED BY <1>1 DEF RequestRows, Idle, Logins, Refreshes, Logouts, AccountChanges, Cleanups

Standing(q) == request'[q] = request[q] /\ want'[q] = want[q] /\ held'[q] = held[q]

\* What a step of another request leaves of the rows that request q relies on.
RowsKept(q) ==
    /\ account.version <= account'.version
    /\ overwritten => overwritten'
    /\ account'.version = account.version => account'.password = account.password \/ overwritten'
    /\ \A t \in Tokens : token[t].status # "NONE" =>
          token'[t].status # "NONE" /\ token'[t].session \in {token[t].session, NoSession}
    /\ \A s \in Sessions : session[s].status # "NONE" => session'[s].status # "NONE"
    /\ \A s \in held[q] \cap Sessions : TokensOf({s})' = TokensOf({s})
    /\ Account \in held[q] =>
          /\ account'.version = account.version
          /\ \A s \in Sessions : \/ TokensOf({s})' \subseteq TokensOf({s})
                                 \/ \A t, u \in TokensOf({s})' : t = u

LEMMA OthersStand ==
  ASSUME Typed, RowsTyped', NEW q \in Requests, Local(q), Standing(q), RowsKept(q)
  PROVE  Local(q)'
<1>1. request'[q] = request[q] /\ want'[q] = want[q] /\ held'[q] = held[q]
  BY DEF Standing
<1>2. Reach(q)' = Reach(q) /\ Wanted(q)' = Wanted(q) /\ (OneSet(q)' <=> OneSet(q))
  BY <1>1 DEF Reach, Wanted, OneSet, Rows
<1>3. LoginSound(q)'
  <2> SUFFICES ASSUME request[q].op = "LOGIN"
               PROVE  LET saw == request[q].saw
                      IN  /\ held[q] = {} /\ want[q] = <<>>
                          /\ saw.version <= account'.version
                          /\ saw.version = account'.version =>
                                saw.password = account'.password \/ overwritten'
    BY <1>1 DEF LoginSound
  <2>1. request[q].saw \in AccountRows
    BY Kinds DEF Logins
  <2>2. account.version \in Nat /\ account'.version \in Nat /\ request[q].saw.version \in Nat
    BY <2>1, SessionsAssumption DEF Typed, RowsTyped, AccountRows
  <2> QED BY <2>2 DEF Local, LoginSound, RowsKept
<1>4. RefreshReads(q)'
  <2> SUFFICES ASSUME IsAt(q, "REFRESH", "READ")
               PROVE  LET t == request[q].token
                          s == request[q].session
                      IN  /\ token'[t].status # "NONE" /\ token'[t].session \in {s, NoSession}
                          /\ \/ want[q] = <<{t}, {s}, {Account}>> /\ held[q] = {}
                             \/ want[q] = <<{s}, {Account}>> /\ held[q] = {t}
                             \/ want[q] = <<{Account}>> /\ held[q] = {t, s}
                             \/ want[q] = <<>> /\ held[q] = {t, s, Account}
    BY <1>1 DEF RefreshReads, IsAt
  <2>1. request[q].token \in Tokens
    BY Kinds DEF IsAt, Refreshes
  <2> QED BY <2>1 DEF Local, RefreshReads, RowsKept
<1>5. RevokesOne(q)'
  <2> SUFFICES ASSUME IsAt(q, "REFRESH", "REVOKE") \/ IsAt(q, "LOGOUT", "REVOKE")
               PROVE  RevokesOne(q)'
    BY <1>1 DEF RevokesOne, IsAt
  <2>1. request[q].session \in Sessions
    BY Kinds DEF IsAt, Refreshes, Logouts
  <2>2. request[q].session \in held[q] /\ RevokesOne(q)
    BY DEF Local, RevokesOne
  <2>3. TokensOf({request[q].session})' = TokensOf({request[q].session})
    BY <1>1, <2>1, <2>2 DEF RowsKept, TokensOf
  <2> QED BY <1>1, <1>2, <2>2, <2>3 DEF RevokesOne, IsAt
<1>6. LogoutReads(q)' /\ ChangeReads(q)' /\ CleanupLocks(q)'
  BY <1>1, <1>2 DEF Local, LogoutReads, ChangeReads, CleanupLocks, Known, IsAt
<1>7. ChangeHolds(q)'
  <2> SUFFICES ASSUME IsAt(q, "CHANGE", "SESSIONS") \/ IsAt(q, "CHANGE", "TOKENS")
               PROVE  ChangeHolds(q)'
    BY <1>1 DEF ChangeHolds, IsAt
  <2>1. ChangeHolds(q) /\ Account \in held[q]
    BY DEF Local, ChangeHolds
  <2>2. account'.version = account.version
    BY <2>1 DEF RowsKept
  <2>3. \A s \in Sessions : \/ TokensOf({s})' \subseteq TokensOf({s})
                            \/ \A t, u \in TokensOf({s})' : t = u
    BY <2>1 DEF RowsKept
  <2>4. TokensOf(held[q] \cap Sessions)' \subseteq TokensOf(held[q] \cap Sessions)
    <3> SUFFICES ASSUME NEW t \in Tokens, NEW s \in held[q] \cap Sessions, token'[t].session = s
                 PROVE  token[t].session = s
      BY <1>1 DEF TokensOf
    <3>1. t \in TokensOf({s})'
      BY DEF TokensOf
    <3>2. t \in TokensOf({s})
      BY <3>1 DEF RowsKept
    <3> QED BY <3>2 DEF TokensOf
  <2>5. request[q].change.kind # "ENABLE" =>
           \A s \in Sessions \ Reach(q) : \A t, u \in TokensOf({s})' : t = u
    BY <2>1, <2>3, <2>4 DEF ChangeHolds
  <2> QED BY <1>1, <1>2, <2>1, <2>2, <2>4, <2>5 DEF ChangeHolds, IsAt
<1>8. Known(q)'
  <2>1. request[q].op \in {"REFRESH", "LOGOUT"} => request[q].session \in Sessions
    BY Kinds DEF Refreshes, Logouts
  <2> QED BY <1>1, <1>2, <2>1 DEF Local, Known, RowsKept
<1>9. request'[q] = Idle => held'[q] = {} /\ want'[q] = <<>>
  BY <1>1 DEF Local
<1> QED BY <1>3, <1>4, <1>5, <1>6, <1>7, <1>8, <1>9 DEF Local

LEMMA NothingWritten ==
  ASSUME Typed, UNCHANGED rows
  PROVE  /\ RowsTyped' /\ (Owned => Owned') /\ (Current => Current')
         /\ \A q \in Requests : RowsKept(q)
<1>1. /\ account' = account /\ session' = session /\ token' = token
      /\ proved' = proved /\ overwritten' = overwritten
  BY DEF rows
<1>2. RowsTyped' /\ (Owned => Owned') /\ (Current => Current')
  BY <1>1 DEF Typed, RowsTyped, Owned, Current, There, Live, TokensOf
<1>3. account.version \in Nat
  BY SessionsAssumption DEF Typed, RowsTyped, AccountRows
<1>4. \A q \in Requests : RowsKept(q)
  BY <1>1, <1>3 DEF RowsKept, TokensOf
<1> QED BY <1>2, <1>4

\* A step of request r is judged by what it writes of the rows and by r alone.
LEMMA StepOfOne ==
  ASSUME IInv, NEW r \in Requests, RowsTyped', Owned', Current', Local(r)',
         NEW req \in RequestRows, NEW w, NEW h \in SUBSET Rows,
         request' = [request EXCEPT ![r] = req],
         want' = [want EXCEPT ![r] = w],
         held' = [held EXCEPT ![r] = h],
         \A q \in Requests \ {r} : h \cap held[q] = {} /\ RowsKept(q)
  PROVE  IInv'
<1>1. Typed /\ Exclusive /\ \A q \in Requests : Local(q)
  BY DEF IInv
<1>2. \A q \in Requests \ {r} : Standing(q)
  BY <1>1 DEF Typed, Standing
<1>3. Typed'
  BY <1>1 DEF Typed
<1>4. Exclusive'
  BY <1>1 DEF Exclusive, Typed
<1>5. ASSUME NEW q \in Requests PROVE Local(q)'
  <2>1. CASE q = r
    BY <2>1
  <2>2. CASE q # r
    BY <1>1, <1>2, <2>2, OthersStand
  <2> QED BY <2>1, <2>2
<1> QED BY <1>3, <1>4, <1>5 DEF IInv

\* A statement begins.
LEMMA StatementKeepsInv ==
  ASSUME IInv, NEW r \in Requests, NEW req \in RequestRows, NEW sets,
         Statement(r, req, sets), UNCHANGED <<rows, held>>, Local(r)'
  PROVE  IInv'
<1>1. Typed /\ Exclusive /\ Owned /\ Current
  BY DEF IInv
<1>2. held[r] \in SUBSET Rows /\ held' = [held EXCEPT ![r] = held[r]]
  BY <1>1 DEF Typed
<1>3. \A q \in Requests \ {r} : held[r] \cap held[q] = {}
  BY <1>1 DEF Exclusive
<1>4. RowsTyped' /\ Owned' /\ Current' /\ \A q \in Requests : RowsKept(q)
  BY <1>1, NothingWritten
<1>5. /\ request' = [request EXCEPT ![r] = req] /\ want' = [want EXCEPT ![r] = sets]
  BY DEF Statement
<1> QED BY <1>2, <1>3, <1>4, <1>5, StepOfOne

\* A transaction ends.
LEMMA FinishKeepsInv ==
  ASSUME IInv, NEW r \in Requests, Finish(r), RowsTyped', Owned', Current',
         \A q \in Requests \ {r} : RowsKept(q)
  PROVE  IInv'
<1>1. /\ request' = [request EXCEPT ![r] = Idle] /\ want' = [want EXCEPT ![r] = <<>>]
      /\ held' = [held EXCEPT ![r] = {}]
  BY DEF Finish
<1>2. request'[r] = Idle /\ want'[r] = <<>> /\ held'[r] = {}
  BY <1>1 DEF IInv, Typed
<1>3. Local(r)'
  BY <1>2 DEF Local, LoginSound, RefreshReads, RevokesOne, LogoutReads, ChangeReads, ChangeHolds,
              CleanupLocks, Known, IsAt, Idle
<1>4. Idle \in RequestRows /\ {} \in SUBSET Rows
  BY DEF RequestRows
<1> QED BY <1>1, <1>3, <1>4, StepOfOne

LEMMA AbortKeepsInv ==
  ASSUME IInv, NEW r \in Requests, Abort(r)
  PROVE  IInv'
BY NothingWritten, FinishKeepsInv DEF Abort, IInv
-----------------------------------------------------------------------------
(* Statements and locks. *)

LEMMA Tuples ==
  /\ \A W : Head(<<W>>) = W /\ Tail(<<W>>) = <<>> /\ <<W>> # <<>> /\ <<W>>[1] = W /\ <<W>> \o <<>> = <<W>>
  /\ \A V, W : Head(<<V, W>>) = V /\ Tail(<<V, W>>) = <<W>> /\ <<V, W>> # <<>>
  /\ \A U, V, W : Head(<<U, V, W>>) = U /\ Tail(<<U, V, W>>) = <<V, W>> /\ <<U, V, W>> # <<>>
<1>1. \A W : Head(<<W>>) = W /\ Tail(<<W>>) = <<>> /\ <<W>> # <<>> /\ <<W>>[1] = W /\ <<W>> \o <<>> = <<W>>
  OBVIOUS
<1>2. \A V, W : Head(<<V, W>>) = V /\ Tail(<<V, W>>) = <<W>> /\ <<V, W>> # <<>>
  OBVIOUS
<1>3. \A U, V, W : Head(<<U, V, W>>) = U /\ Tail(<<U, V, W>>) = <<V, W>> /\ <<U, V, W>> # <<>>
  OBVIOUS
<1> QED BY <1>1, <1>2, <1>3

\* What a new statement wants.
LEMMA EachWants ==
  ASSUME NEW r \in Requests, NEW R \in SUBSET Rows, want'[r] = Each(R)
  PROVE  OneSet(r)' /\ Wanted(r)' = R /\ Reach(r)' = held'[r] \cup R
<1>1. CASE R = {}
  BY <1>1 DEF Each, OneSet, Wanted, Reach
<1>2. CASE R # {}
  BY <1>2, Tuples DEF Each, OneSet, Wanted, Reach, Rows
<1> QED BY <1>1, <1>2

\* One row more is locked, and nothing new is wanted.
LEMMA LockOne ==
  ASSUME Typed, NEW r \in Requests, OneSet(r), Lock(r)
  PROVE  /\ OneSet(r)' /\ Reach(r)' = Reach(r)
         /\ want[r] # <<>>
         /\ Wanted(r)' \subseteq Wanted(r) /\ held[r] \subseteq held'[r] /\ held'[r] \in SUBSET Rows
         /\ Wanted(r) \cap held[r] = {} => Wanted(r)' \cap held'[r] = {}
<1>1. PICK W \in SUBSET Rows : W # {} /\ want[r] = <<W>>
  BY DEF Lock, OneSet
<1>2. Head(want[r]) = W /\ Tail(want[r]) = <<>> /\ Wanted(r) = W
  BY <1>1, Tuples DEF Wanted
<1>3. PICK row \in W :
         /\ held' = [held EXCEPT ![r] = @ \cup {row}]
         /\ want' = [want EXCEPT ![r] =
                IF Head(@) = {row} THEN Tail(@) ELSE <<Head(@) \ {row}>> \o Tail(@)]
  BY <1>2 DEF Lock
<1>4. held'[r] = held[r] \cup {row}
  BY <1>3 DEF Typed
<1>5. want'[r] = IF W = {row} THEN <<>> ELSE <<W \ {row}>>
  <2>1. want'[r] = IF W = {row} THEN <<>> ELSE <<W \ {row}>> \o <<>>
    BY <1>2, <1>3 DEF Typed
  <2> QED BY <2>1, Tuples
<1>6. OneSet(r)' /\ Wanted(r)' = W \ {row}
  <2>1. CASE W = {row}
    BY <1>5, <2>1 DEF OneSet, Wanted
  <2>2. CASE W # {row}
    <3>1. want'[r] = <<W \ {row}>> /\ W \ {row} # {} /\ W \ {row} \in SUBSET Rows
      BY <1>1, <1>3, <1>5, <2>2
    <3>2. OneSet(r)'
      BY <3>1 DEF OneSet, Rows
    <3>3. Wanted(r)' = W \ {row}
      BY <3>1, Tuples DEF Wanted
    <3> QED BY <3>2, <3>3
  <2> QED BY <2>1, <2>2
<1>7. held'[r] \in SUBSET Rows
  BY <1>1, <1>3, <1>4 DEF Typed
<1> QED BY <1>1, <1>2, <1>3, <1>4, <1>6, <1>7, Tuples DEF Reach

LEMMA LockReads ==
  ASSUME Typed, NEW r \in Requests, IsAt(r, "REFRESH", "READ"), RefreshReads(r), Lock(r)
  PROVE  RefreshReads(r)' /\ held'[r] \in SUBSET Rows
<1> DEFINE t == request[r].token
           s == request[r].session
<1>1. request'[r] = request[r] /\ token' = token
  BY DEF Lock, rows
<1>2. /\ token[t].status # "NONE" /\ token[t].session \in {s, NoSession}
      /\ \/ want[r] = <<{t}, {s}, {Account}>> /\ held[r] = {}
         \/ want[r] = <<{s}, {Account}>> /\ held[r] = {t}
         \/ want[r] = <<{Account}>> /\ held[r] = {t, s}
  BY DEF RefreshReads, Lock
<1>3. PICK row \in Head(want[r]) :
         /\ held' = [held EXCEPT ![r] = @ \cup {row}]
         /\ want' = [want EXCEPT ![r] =
                IF Head(@) = {row} THEN Tail(@) ELSE <<Head(@) \ {row}>> \o Tail(@)]
  BY DEF Lock
<1>4. held'[r] = held[r] \cup {row} /\ (Head(want[r]) = {row} => want'[r] = Tail(want[r]))
  BY <1>3 DEF Typed
<1>5. \/ want'[r] = <<{s}, {Account}>> /\ held'[r] = {t}
      \/ want'[r] = <<{Account}>> /\ held'[r] = {t, s}
      \/ want'[r] = <<>> /\ held'[r] = {t, s, Account}
  <2>1. CASE want[r] = <<{t}, {s}, {Account}>> /\ held[r] = {}
    <3>1. Head(want[r]) = {t} /\ Tail(want[r]) = <<{s}, {Account}>>
      BY <2>1, Tuples
    <3> QED BY <1>3, <1>4, <2>1, <3>1
  <2>2. CASE want[r] = <<{s}, {Account}>> /\ held[r] = {t}
    <3>1. Head(want[r]) = {s} /\ Tail(want[r]) = <<{Account}>>
      BY <2>2, Tuples
    <3> QED BY <1>3, <1>4, <2>2, <3>1
  <2>3. CASE want[r] = <<{Account}>> /\ held[r] = {t, s}
    <3>1. Head(want[r]) = {Account} /\ Tail(want[r]) = <<>>
      BY <2>3, Tuples
    <3> QED BY <1>3, <1>4, <2>3, <3>1
  <2> QED BY <1>2, <2>1, <2>2, <2>3
<1>6. t \in Tokens /\ s \in Sessions
  BY Kinds DEF IsAt, Refreshes
<1>7. held'[r] \in SUBSET Rows
  BY <1>5, <1>6 DEF Rows
<1> QED BY <1>1, <1>2, <1>5, <1>7 DEF RefreshReads

LEMMA LockKeepsInv ==
  ASSUME IInv, NEW r \in Requests, Lock(r)
  PROVE  IInv'
<1>1. Typed /\ Exclusive /\ Owned /\ Current /\ Local(r)
  BY DEF IInv
<1>2. UNCHANGED <<rows, request>> /\ want[r] # <<>>
  BY DEF Lock
<1>3. /\ account' = account /\ session' = session /\ token' = token
      /\ overwritten' = overwritten /\ request' = request
  BY <1>2 DEF rows
<1>4. PICK row \in Head(want[r]) :
         /\ ~LockedByOther(r, row)
         /\ held' = [held EXCEPT ![r] = @ \cup {row}]
         /\ want' = [want EXCEPT ![r] =
                IF Head(@) = {row} THEN Tail(@) ELSE <<Head(@) \ {row}>> \o Tail(@)]
  BY DEF Lock
<1>5. held'[r] = held[r] \cup {row} /\ held'[r] \in SUBSET Rows /\ Local(r)'
  <2>1. held'[r] = held[r] \cup {row}
    BY <1>1, <1>4 DEF Typed
  <2>2. CASE IsAt(r, "REFRESH", "READ")
    <3>1. RefreshReads(r)' /\ held'[r] \in SUBSET Rows
      BY <1>1, <2>2, LockReads DEF Local
    <3>2. Local(r)'
      BY <1>1, <1>3, <2>2, <3>1 DEF Local, LoginSound, RevokesOne, LogoutReads, ChangeReads, ChangeHolds,
                            CleanupLocks, Known, IsAt, Idle
    <3> QED BY <2>1, <3>1, <3>2
  <2>3. CASE ~IsAt(r, "REFRESH", "READ")
    <3>1. request[r] # Idle /\ request[r].op # "LOGIN" /\ request[r] \in RequestRows
      BY <1>1, <1>2, Kinds DEF Local, LoginSound
    <3>2. /\ request[r].op \in {"REFRESH", "LOGOUT", "CHANGE", "CLEANUP"}
          /\ request[r].op = "REFRESH" => request[r].step = "REVOKE"
          /\ request[r].op = "LOGOUT" => request[r].step \in {"READ", "REVOKE"} /\ request[r].session \in Sessions
      BY <1>1, <2>3, <3>1, Kinds
         DEF RequestRows, Logins, Refreshes, Logouts, AccountChanges, Cleanups, IsAt
    <3>3. request[r].op = "CHANGE" => request[r].step \in {"ACCOUNT", "SESSIONS", "TOKENS"}
      BY <1>1, Kinds DEF AccountChanges
    <3>4. OneSet(r)
      <4>1. CASE want[r] = <<{request[r].session}>> /\ IsAt(r, "LOGOUT", "READ")
        BY <3>2, <4>1 DEF OneSet, Rows, IsAt
      <4>2. CASE want[r] = <<{Account}>>
        BY <4>2 DEF OneSet, Rows
      <4>3. CASE request[r].op \in {"REFRESH", "CLEANUP"}
        BY <1>1, <3>2, <4>3 DEF Local, RevokesOne, CleanupLocks, Known, IsAt
      <4>4. CASE request[r].op = "LOGOUT"
        BY <1>1, <1>2, <3>2, <4>1, <4>4 DEF Local, RevokesOne, LogoutReads, IsAt
      <4>5. CASE request[r].op = "CHANGE"
        BY <1>1, <1>2, <3>3, <4>2, <4>5 DEF Local, ChangeReads, ChangeHolds, IsAt
      <4> QED BY <3>2, <4>3, <4>4, <4>5
    <3>5. /\ OneSet(r)' /\ Reach(r)' = Reach(r)
          /\ Wanted(r)' \subseteq Wanted(r) /\ held[r] \subseteq held'[r] /\ held'[r] \in SUBSET Rows
          /\ Wanted(r) \cap held[r] = {} => Wanted(r)' \cap held'[r] = {}
      BY <1>1, <3>4, LockOne
    <3>6. \A x : want[r] = <<{x}>> /\ held[r] = {} => want'[r] = <<>> /\ held'[r] = {x}
      <4> SUFFICES ASSUME NEW x, want[r] = <<{x}>>, held[r] = {}
                   PROVE  want'[r] = <<>> /\ held'[r] = {x}
        OBVIOUS
      <4>1. Head(want[r]) = {x} /\ Tail(want[r]) = <<>>
        BY Tuples
      <4>2. row = x
        BY <1>4, <4>1
      <4>3. want'[r] = Tail(want[r])
        BY <1>1, <1>4, <4>1, <4>2 DEF Typed
      <4> QED BY <2>1, <4>1, <4>2, <4>3
    <3>7. LogoutReads(r)' /\ ChangeReads(r)'
      BY <1>1, <1>2, <1>3, <3>6 DEF Local, LogoutReads, ChangeReads, IsAt
    <3>8. RevokesOne(r)'
      BY <1>1, <1>3, <3>5 DEF Local, RevokesOne, IsAt, TokensOf
    <3>9. ChangeHolds(r)'
      <4> SUFFICES ASSUME IsAt(r, "CHANGE", "SESSIONS") \/ IsAt(r, "CHANGE", "TOKENS")
                   PROVE  ChangeHolds(r)'
        BY <1>3 DEF ChangeHolds, IsAt
      <4>1. ChangeHolds(r)
        BY <1>1 DEF Local
      <4>2. request[r].change.kind # "ENABLE"
        BY <1>2, <4>1 DEF ChangeHolds
      <4>3. request[r].step = "TOKENS" => TokensOf(held[r] \cap Sessions)' \subseteq Reach(r)
        <5> SUFFICES ASSUME request[r].step = "TOKENS"
                     PROVE  TokensOf(held[r] \cap Sessions)' \subseteq Reach(r)
          OBVIOUS
        <5>1. Wanted(r) \subseteq Tokens /\ TokensOf(held[r] \cap Sessions) \subseteq Reach(r)
          BY <4>1 DEF ChangeHolds, IsAt
        <5>2. held'[r] \cap Sessions = held[r] \cap Sessions
          BY <3>5, <5>1, SessionsAssumption DEF Reach
        <5> QED BY <1>3, <5>1, <5>2 DEF TokensOf
      <4> QED BY <1>3, <3>5, <4>1, <4>2, <4>3 DEF ChangeHolds, IsAt, TokensOf
    <3>10. CleanupLocks(r)'
      BY <1>1, <1>3, <3>5 DEF Local, CleanupLocks
    <3>11. LoginSound(r)' /\ RefreshReads(r)'
      BY <1>3, <2>3, <3>1 DEF LoginSound, RefreshReads, IsAt
    <3>12. request'[r] # Idle /\ Known(r)'
      BY <1>1, <1>3, <3>1, <3>5 DEF Local, Known
    <3> QED BY <2>1, <3>5, <3>7, <3>8, <3>9, <3>10, <3>11, <3>12 DEF Local
  <2> QED BY <2>2, <2>3
<1>6. \A q \in Requests \ {r} : held'[r] \cap held[q] = {}
  BY <1>1, <1>4, <1>5 DEF Exclusive, LockedByOther
<1>7. RowsTyped' /\ Owned' /\ Current' /\ \A q \in Requests : RowsKept(q)
  BY <1>1, <1>2, NothingWritten
<1>8. /\ request' = [request EXCEPT ![r] = request[r]] /\ request[r] \in RequestRows
      /\ want' = [want EXCEPT ![r] = want'[r]]
      /\ held' = [held EXCEPT ![r] = held'[r]]
  BY <1>1, <1>3, <1>4 DEF Typed
<1>9. ASSUME NEW w, NEW h \in SUBSET Rows, w = want'[r], h = held'[r]
      PROVE  IInv'
  <2>1. /\ want' = [want EXCEPT ![r] = w]
        /\ held' = [held EXCEPT ![r] = h]
        /\ \A q \in Requests \ {r} : h \cap held[q] = {} /\ RowsKept(q)
    BY <1>6, <1>7, <1>8, <1>9
  <2> QED BY <1>5, <1>7, <1>8, <2>1, StepOfOne
<1> QED BY <1>5, <1>9

LEMMA Stated ==
  ASSUME Typed, NEW r \in Requests, NEW req, NEW sets, Statement(r, req, sets), UNCHANGED <<rows, held>>
  PROVE  /\ request'[r] = req /\ want'[r] = sets /\ held'[r] = held[r]
         /\ account' = account /\ session' = session /\ token' = token /\ overwritten' = overwritten
BY DEF Statement, Typed, rows

LEMMA Begun ==
  ASSUME IInv, NEW r \in Requests, NEW req, NEW sets, Begin(r, req, sets)
  PROVE  Statement(r, req, sets) /\ UNCHANGED <<rows, held>> /\ held[r] = {}
BY DEF Begin, IInv, Local
-----------------------------------------------------------------------------
(* The statements of each request. *)

LEMMA BeginLoginKeepsInv ==
  ASSUME IInv, NEW r \in Requests, BeginLogin(r)
  PROVE  IInv'
<1> DEFINE req == [op |-> "LOGIN", step |-> "STAMP", saw |-> account]
<1>1. Statement(r, req, <<>>) /\ UNCHANGED <<rows, held>> /\ held[r] = {}
  BY Begun DEF BeginLogin
<1>2. /\ request'[r] = req /\ want'[r] = <<>> /\ held'[r] = {} /\ account' = account
  BY <1>1, Stated DEF IInv
<1>3. account \in AccountRows /\ account.version \in Nat
  BY SessionsAssumption DEF IInv, Typed, RowsTyped, AccountRows
<1>4. req \in RequestRows
  BY <1>3 DEF RequestRows, Logins
<1>5. Local(r)'
  BY <1>2, <1>3 DEF Local, LoginSound, RefreshReads, RevokesOne, LogoutReads, ChangeReads, ChangeHolds,
                    CleanupLocks, Known, IsAt, Idle
<1> QED BY <1>1, <1>4, <1>5, StatementKeepsInv

LEMMA BeginRefreshKeepsInv ==
  ASSUME IInv, NEW r \in Requests, NEW t \in Tokens, BeginRefresh(r, t)
  PROVE  IInv'
<1> DEFINE s == token[t].session
           req == [op |-> "REFRESH", step |-> "READ", token |-> t, session |-> s]
<1>1. Statement(r, req, RefreshRows(t)) /\ UNCHANGED <<rows, held>> /\ held[r] = {}
  BY Begun DEF BeginRefresh
<1>2. s \in Sessions /\ session[s].status # "NONE" /\ token[t].status \in {"LIVE", "ROTATED"}
  BY DEF BeginRefresh, IInv, Typed, RowsTyped, TokenRows, Owned, There
<1>3. /\ request'[r] = req /\ want'[r] = <<{t}, {s}, {Account}>> /\ held'[r] = {} /\ token' = token
      /\ session' = session
  BY <1>1, Stated DEF IInv, RefreshRows
<1>4. req \in RequestRows
  BY <1>2 DEF RequestRows, Refreshes
<1>5. Local(r)'
  BY <1>2, <1>3 DEF Local, LoginSound, RefreshReads, RevokesOne, LogoutReads, ChangeReads, ChangeHolds,
                    CleanupLocks, Known, IsAt, Idle
<1> QED BY <1>1, <1>4, <1>5, StatementKeepsInv

LEMMA BeginLogoutKeepsInv ==
  ASSUME IInv, NEW r \in Requests, NEW t \in Tokens, BeginLogout(r, t)
  PROVE  IInv'
<1> DEFINE s == token[t].session
           req == [op |-> "LOGOUT", step |-> "READ", session |-> s]
<1>1. Statement(r, req, <<{s}>>) /\ UNCHANGED <<rows, held>> /\ held[r] = {}
  BY Begun DEF BeginLogout, LogoutRows
<1>2. s \in Sessions /\ session[s].status # "NONE"
  BY DEF BeginLogout, IInv, Typed, RowsTyped, TokenRows
<1>3. /\ request'[r] = req /\ want'[r] = <<{s}>> /\ held'[r] = {} /\ session' = session
  BY <1>1, Stated DEF IInv
<1>4. req \in RequestRows
  BY <1>2 DEF RequestRows, Logouts
<1>5. Local(r)'
  BY <1>2, <1>3 DEF Local, LoginSound, RefreshReads, RevokesOne, LogoutReads, ChangeReads, ChangeHolds,
                    CleanupLocks, Known, IsAt, Idle
<1> QED BY <1>1, <1>4, <1>5, StatementKeepsInv

LEMMA BeginChangeKeepsInv ==
  ASSUME IInv, NEW r \in Requests, NEW change \in Changes, BeginChange(r, change)
  PROVE  IInv'
<1> DEFINE req == [op |-> "CHANGE", step |-> "ACCOUNT", change |-> change]
<1>1. Statement(r, req, <<{Account}>>) /\ UNCHANGED <<rows, held>> /\ held[r] = {}
  BY Begun DEF BeginChange
<1>2. /\ request'[r] = req /\ want'[r] = <<{Account}>> /\ held'[r] = {}
  BY <1>1, Stated DEF IInv
<1>3. req \in RequestRows
  BY DEF RequestRows, AccountChanges
<1>4. Reach(r)' \cap Sessions = {}
  BY <1>2, Tuples, SessionsAssumption DEF Reach, Wanted
<1>5. Local(r)'
  BY <1>2, <1>4 DEF Local, LoginSound, RefreshReads, RevokesOne, LogoutReads, ChangeReads, ChangeHolds,
              CleanupLocks, Known, IsAt, Idle
<1> QED BY <1>1, <1>3, <1>5, StatementKeepsInv

LEMMA BeginCleanupKeepsInv ==
  ASSUME IInv, NEW r \in Requests, BeginCleanup(r)
  PROVE  IInv'
<1> DEFINE req == [op |-> "CLEANUP", step |-> "SESSIONS"]
<1>1. PICK S \in SUBSET There : Begin(r, req, Each(S))
  BY DEF BeginCleanup, There
<1>2. Statement(r, req, Each(S)) /\ UNCHANGED <<rows, held>> /\ held[r] = {}
  BY <1>1, Begun
<1>3. /\ request'[r] = req /\ want'[r] = Each(S) /\ held'[r] = {} /\ session' = session
  BY <1>2, Stated DEF IInv
<1>4. OneSet(r)' /\ Reach(r)' = S
  <2>1. S \in SUBSET Rows
    BY DEF Rows, There
  <2>2. want'[r] = Each(S) /\ held'[r] = {}
    BY <1>3
  <2>3. OneSet(r)' /\ Reach(r)' = held'[r] \cup S
    BY <2>1, <2>2, EachWants
  <2> QED BY <2>2, <2>3
<1>5. req \in RequestRows
  BY DEF RequestRows, Cleanups
<1>6. Account \notin S /\ S \subseteq Sessions /\ \A s \in S : session[s].status # "NONE"
  BY SessionsAssumption DEF There
<1>7. Local(r)'
  BY <1>3, <1>4, <1>6, SessionsAssumption
     DEF Local, LoginSound, RefreshReads, RevokesOne, LogoutReads, ChangeReads, ChangeHolds,
         CleanupLocks, Known, IsAt, Idle
<1> QED BY <1>2, <1>5, <1>7, StatementKeepsInv

LEMMA CleanupTokensKeepsInv ==
  ASSUME IInv, NEW r \in Requests, CleanupTokens(r)
  PROVE  IInv'
<1> DEFINE req == [request[r] EXCEPT !.step = "TOKENS"]
<1>1. Statement(r, req, Each(TokensOf(held[r]))) /\ UNCHANGED <<rows, held>>
  BY DEF CleanupTokens
<1>2. request[r].op = "CLEANUP" /\ request[r] \in Cleanups
  BY Kinds DEF CleanupTokens, At, IInv
<1>3. /\ request'[r] = req /\ want'[r] = Each(TokensOf(held[r])) /\ held'[r] = held[r]
      /\ session' = session
  BY <1>1, Stated DEF IInv
<1>4. OneSet(r)' /\ Reach(r)' = held[r] \cup TokensOf(held[r]) /\ TokensOf(held[r]) \subseteq Tokens
  BY <1>3, EachWants DEF Rows, TokensOf
<1>5. req \in RequestRows /\ req.op = "CLEANUP" /\ req.step = "TOKENS"
  BY <1>2 DEF RequestRows, Cleanups
<1>6. Account \notin held[r] /\ \A s \in held[r] \cap Sessions : session[s].status # "NONE"
  BY <1>2 DEF IInv, Local, CleanupLocks, Known, Reach
<1> HIDE DEF req
<1>7. Local(r)'
  BY <1>3, <1>4, <1>5, <1>6, SessionsAssumption
     DEF Local, LoginSound, RefreshReads, RevokesOne, LogoutReads, ChangeReads, ChangeHolds,
         CleanupLocks, Known, IsAt, Idle
<1> QED BY <1>1, <1>5, <1>7, StatementKeepsInv

\* Refused, or over: the tokens of the session that is held.
LEMMA RefuseKeepsInv ==
  ASSUME IInv, NEW r \in Requests, RefuseRefresh(r) \/ Logout(r)
  PROVE  IInv'
<1> DEFINE req == [request[r] EXCEPT !.step = "REVOKE"]
<1>0. PICK s : s = request[r].session
  OBVIOUS
<1>1. Statement(r, req, Each(TokensOf({s}))) /\ UNCHANGED <<rows, held>> /\ want[r] = <<>>
  BY <1>0 DEF RefuseRefresh, Logout, At
<1>2. /\ request'[r] = req /\ want'[r] = Each(TokensOf({s})) /\ held'[r] = held[r]
      /\ token' = token /\ session' = session
  BY <1>1, Stated DEF IInv
<1>3. TokensOf({s}) \subseteq Tokens /\ TokensOf({s})' = TokensOf({s})
  BY <1>2 DEF TokensOf
<1>4. /\ OneSet(r)' /\ Wanted(r)' = TokensOf({s}) /\ Reach(r)' = held[r] \cup TokensOf({s})
  BY <1>2, <1>3, EachWants DEF Rows
<1>5. CASE RefuseRefresh(r)
  <2>1. IsAt(r, "REFRESH", "READ") /\ request[r] \in Refreshes
    BY <1>5, Kinds DEF RefuseRefresh, At, IsAt, IInv
  <2>2. req \in RequestRows /\ req.op = "REFRESH" /\ req.step = "REVOKE" /\ req.session = s
    BY <1>0, <2>1 DEF RequestRows, Refreshes
  <2>3. s \in Sessions /\ request[r].token \in Tokens
    BY <1>0, <2>1 DEF Refreshes
  <2>4. held[r] = {request[r].token, s, Account}
    BY <1>0, <1>1, <2>1, Tuples DEF IInv, Local, RefreshReads
  <2>5. request[r].token \in TokensOf({s})
    BY <1>0, <1>5, <2>1, <2>3 DEF IInv, Owned, Local, RefreshReads, RefuseRefresh, TokensOf
  <2>6. Reach(r)' \cap Tokens = TokensOf({s}) /\ Reach(r)' \cap Sessions = {s}
    BY <1>3, <1>4, <2>3, <2>4, <2>5, SessionsAssumption
  <2> HIDE DEF req
  <2>7. RevokesOne(r)'
    BY <1>2, <1>3, <1>4, <2>2, <2>4, <2>6 DEF RevokesOne, IsAt
  <2>8. Known(r)'
    BY <1>0, <1>2, <2>1, <2>2 DEF IInv, Local, Known, IsAt
  <2>9. Local(r)'
    BY <1>2, <2>2, <2>7, <2>8
       DEF Local, LoginSound, RefreshReads, LogoutReads, ChangeReads, ChangeHolds,
           CleanupLocks, IsAt, Idle
  <2> QED BY <1>1, <2>2, <2>9, StatementKeepsInv DEF req
<1>6. CASE Logout(r)
  <2>1. IsAt(r, "LOGOUT", "READ") /\ request[r] \in Logouts
    BY <1>6, Kinds DEF Logout, At, IsAt, IInv
  <2>2. req \in RequestRows /\ req.op = "LOGOUT" /\ req.step = "REVOKE" /\ req.session = s
    BY <1>0, <2>1 DEF RequestRows, Logouts
  <2>3. s \in Sessions
    BY <1>0, <2>1 DEF Logouts
  <2>4. held[r] = {s}
    BY <1>0, <1>1, <2>1, Tuples DEF IInv, Local, LogoutReads
  <2>5. /\ Reach(r)' \cap Tokens = TokensOf({s}) /\ Reach(r)' \cap Sessions = {s}
        /\ Account \notin Reach(r)' /\ Wanted(r)' \cap held'[r] = {}
    BY <1>2, <1>3, <1>4, <2>3, <2>4, SessionsAssumption
  <2> HIDE DEF req
  <2>6. RevokesOne(r)'
    BY <1>2, <1>3, <1>4, <2>2, <2>4, <2>5 DEF RevokesOne, IsAt
  <2>7. Known(r)'
    BY <1>0, <1>2, <2>1, <2>2 DEF IInv, Local, Known, IsAt
  <2>8. Local(r)'
    BY <1>2, <2>2, <2>6, <2>7
       DEF Local, LoginSound, RefreshReads, LogoutReads, ChangeReads, ChangeHolds,
           CleanupLocks, IsAt, Idle
  <2> QED BY <1>1, <2>2, <2>8, StatementKeepsInv DEF req
<1> QED BY <1>5, <1>6

LEMMA TokensOfThere ==
  ASSUME IInv
  PROVE  /\ There \subseteq Sessions
         /\ \A S \in SUBSET Sessions : TokensOf(S) \subseteq TokensOf(There)
         /\ \A s \in Sessions \ There : TokensOf({s}) = {}
<1>1. There \subseteq Sessions
  BY DEF There
<1>2. ASSUME NEW S \in SUBSET Sessions PROVE TokensOf(S) \subseteq TokensOf(There)
  BY SessionsAssumption DEF IInv, Owned, TokensOf
<1>3. ASSUME NEW s \in Sessions \ There PROVE TokensOf({s}) = {}
  BY SessionsAssumption DEF IInv, Owned, TokensOf
<1> QED BY <1>1, <1>2, <1>3

LEMMA ChangeAccountKeepsInv ==
  ASSUME IInv, NEW r \in Requests, ChangeAccount(r)
  PROVE  IInv'
<1> DEFINE req == [request[r] EXCEPT !.step = "SESSIONS"]
<1>1. PICK enable \in BOOLEAN : enable = (request[r].change.kind = "ENABLE")
  OBVIOUS
<1>2. PICK S \in SUBSET Sessions : S = IF enable THEN {} ELSE There
  BY TokensOfThere
<1>3. Statement(r, req, Each(S)) /\ UNCHANGED <<rows, held>> /\ want[r] = <<>>
  BY <1>1, <1>2 DEF ChangeAccount, At, Each
<1>4. IsAt(r, "CHANGE", "ACCOUNT") /\ request[r] \in AccountChanges
  BY Kinds DEF ChangeAccount, At, IsAt, IInv
<1>5. held[r] = {Account}
  BY <1>3, <1>4, Tuples DEF IInv, Local, ChangeReads
<1>6. /\ request'[r] = req /\ want'[r] = Each(S) /\ held'[r] = {Account}
      /\ token' = token /\ account' = account /\ session' = session
  BY <1>3, <1>5, Stated DEF IInv
<1>7. OneSet(r)' /\ Wanted(r)' = S /\ Reach(r)' = {Account} \cup S
  <2>1. S \in SUBSET Rows
    BY DEF Rows
  <2>2. want'[r] = Each(S)
    BY <1>6
  <2> QED BY <1>6, <2>1, <2>2, EachWants
<1>8. /\ req \in RequestRows /\ req.op = "CHANGE" /\ req.step = "SESSIONS"
      /\ req.change = request[r].change
  BY <1>4 DEF RequestRows, AccountChanges
<1> HIDE DEF req
<1>9. ChangeHolds(r)'
  <2>1. account'.version < MaxVersion
    BY <1>6 DEF ChangeAccount
  <2>2. request[r].change.kind = "ENABLE" => Reach(r)' = {Account} /\ want'[r] = <<>>
    BY <1>1, <1>2, <1>6, <1>7 DEF Each
  <2>3. request[r].change.kind # "ENABLE" =>
           \A s \in Sessions \ Reach(r)' : \A t, u \in TokensOf({s})' : t = u
    <3> SUFFICES ASSUME request[r].change.kind # "ENABLE", NEW s \in Sessions \ Reach(r)'
                 PROVE  TokensOf({s})' = {}
      OBVIOUS
    <3>1. s \notin There
      BY <1>1, <1>2, <1>7
    <3> QED BY <1>6, <3>1, TokensOfThere DEF TokensOf
  <2>4. Wanted(r)' \cap held'[r] = {} /\ Reach(r)' \cap Tokens = {}
    BY <1>6, <1>7, SessionsAssumption
  <2> QED BY <1>6, <1>7, <1>8, <2>1, <2>2, <2>3, <2>4 DEF ChangeHolds, IsAt
<1>10. Known(r)'
  BY <1>2, <1>6, <1>7, <1>8, SessionsAssumption DEF Known, There
<1>11. Local(r)'
  BY <1>6, <1>8, <1>9, <1>10 DEF Local, LoginSound, RefreshReads, RevokesOne, LogoutReads, ChangeReads,
                          CleanupLocks, IsAt, Idle
<1> QED BY <1>3, <1>8, <1>11, StatementKeepsInv

LEMMA ChangeSessionsKeepsInv ==
  ASSUME IInv, NEW r \in Requests, ChangeSessions(r)
  PROVE  IInv'
<1> DEFINE req == [request[r] EXCEPT !.step = "TOKENS"]
<1>1. PICK enable \in BOOLEAN : enable = (request[r].change.kind = "ENABLE")
  OBVIOUS
<1>2. PICK T \in SUBSET Tokens : T = IF enable THEN {} ELSE TokensOf(There)
  BY DEF TokensOf
<1>3. Statement(r, req, Each(T)) /\ UNCHANGED <<rows, held>> /\ want[r] = <<>>
  BY <1>1, <1>2 DEF ChangeSessions, At, Each
<1>4. IsAt(r, "CHANGE", "SESSIONS") /\ request[r] \in AccountChanges
  BY Kinds DEF ChangeSessions, At, IsAt, IInv
<1>5. ChangeHolds(r) /\ Reach(r) = held[r]
  BY <1>3, <1>4 DEF IInv, Local, Reach, Wanted
<1>6. /\ request'[r] = req /\ want'[r] = Each(T) /\ held'[r] = held[r]
      /\ token' = token /\ account' = account /\ session' = session
  BY <1>3, Stated DEF IInv
<1>7. OneSet(r)' /\ Wanted(r)' = T /\ Reach(r)' = held[r] \cup T
  <2>1. T \in SUBSET Rows
    BY DEF Rows
  <2>2. want'[r] = Each(T)
    BY <1>6
  <2> QED BY <1>6, <2>1, <2>2, EachWants
<1>8. /\ req \in RequestRows /\ req.op = "CHANGE" /\ req.step = "TOKENS"
      /\ req.change = request[r].change
  BY <1>4 DEF RequestRows, AccountChanges
<1> HIDE DEF req
<1>9. ChangeHolds(r)'
  <2>1. Account \in held[r] /\ account'.version < MaxVersion /\ held[r] \cap Tokens = {}
    BY <1>4, <1>5, <1>6 DEF ChangeHolds, IsAt
  <2>2. request[r].change.kind = "ENABLE" =>
           Reach(r)' = {Account} /\ want'[r] = <<>> /\ held[r] \cap Sessions = {}
    <3> SUFFICES ASSUME request[r].change.kind = "ENABLE"
                 PROVE  Reach(r)' = {Account} /\ want'[r] = <<>> /\ held[r] \cap Sessions = {}
      OBVIOUS
    <3>1. held[r] = {Account}
      BY <1>4, <1>5 DEF ChangeHolds
    <3>2. T = {}
      BY <1>1, <1>2
    <3> QED BY <1>6, <1>7, <3>1, <3>2, SessionsAssumption DEF Each
  <2>3. request[r].change.kind # "ENABLE" =>
           \A s \in Sessions \ Reach(r)' : \A t, u \in TokensOf({s})' : t = u
    BY <1>4, <1>5, <1>6, <1>7 DEF ChangeHolds, TokensOf
  <2>4. Wanted(r)' \cap held'[r] = {}
    BY <1>6, <1>7, <2>1
  <2>5. TokensOf(held[r] \cap Sessions)' \subseteq Reach(r)'
    <3>1. CASE enable
      BY <1>1, <1>6, <2>2, <3>1 DEF TokensOf
    <3>2. CASE ~enable
      <4>1. TokensOf(held[r] \cap Sessions) \subseteq T
        BY <1>2, <3>2, TokensOfThere
      <4> QED BY <1>6, <1>7, <4>1 DEF TokensOf
    <3> QED BY <3>1, <3>2
  <2> QED BY <1>6, <1>7, <1>8, <2>1, <2>2, <2>3, <2>4, <2>5 DEF ChangeHolds, IsAt
<1>10. Known(r)'
  BY <1>4, <1>5, <1>6, <1>7, <1>8, SessionsAssumption DEF IInv, Local, Known, IsAt
<1>11. Local(r)'
  BY <1>6, <1>8, <1>9, <1>10 DEF Local, LoginSound, RefreshReads, RevokesOne, LogoutReads, ChangeReads,
                          CleanupLocks, IsAt, Idle
<1> QED BY <1>3, <1>8, <1>11, StatementKeepsInv
-----------------------------------------------------------------------------
(* Steps that write rows. *)

LEMMA HeldKnown ==
  ASSUME IInv, NEW q \in Requests, NEW s \in held[q] \cap Sessions
  PROVE  session[s].status # "NONE"
<1>1. Typed /\ Local(q)
  BY DEF IInv
<1>2. request[q].op \in {"REFRESH", "LOGOUT", "CHANGE", "CLEANUP"}
  BY <1>1, Kinds DEF Local, LoginSound, RequestRows, Logins, Refreshes, Logouts, AccountChanges, Cleanups
<1>3. CASE request[q].op = "REFRESH"
  <2>1. request[q] \in Refreshes
    BY <1>1, <1>3, Kinds
  <2>2. s = request[q].session
    BY <1>1, <1>3, <2>1, SessionsAssumption DEF Refreshes, Local, RefreshReads, RevokesOne, IsAt, Reach
  <2> QED BY <1>1, <1>3, <2>2 DEF Local, Known
<1>4. CASE request[q].op = "LOGOUT"
  <2>1. request[q] \in Logouts
    BY <1>1, <1>4, Kinds
  <2>2. s = request[q].session
    BY <1>1, <1>4, <2>1 DEF Logouts, Local, LogoutReads, RevokesOne, IsAt, Reach
  <2> QED BY <1>1, <1>4, <2>2 DEF Local, Known
<1>5. CASE request[q].op \in {"CHANGE", "CLEANUP"}
  BY <1>1, <1>5 DEF Local, Known, Reach
<1> QED BY <1>2, <1>3, <1>4, <1>5

\* What others rely on, when the account's row is not theirs and tokens keep their sessions.
LEMMA AccountWritten ==
  ASSUME IInv, NEW r \in Requests, token' = token, session' = session, NEW q \in Requests \ {r},
         account.version <= account'.version,
         overwritten => overwritten',
         account'.version = account.version => account'.password = account.password \/ overwritten',
         Account \in held[q] => account'.version = account.version
  PROVE  RowsKept(q)
BY DEF RowsKept, TokensOf

LEMMA StampKeepsInv ==
  ASSUME IInv, NEW r \in Requests, StampLogin(r)
  PROVE  IInv'
<1> DEFINE saw == request[r].saw
           req == [request[r] EXCEPT !.step = "OPEN"]
<1>1. /\ request[r] \in Logins /\ request[r].op = "LOGIN" /\ saw \in AccountRows
  BY Kinds DEF StampLogin, At, IInv, Logins
<1>2. /\ session' = session /\ token' = token /\ proved' = proved /\ want' = want /\ held' = held
      /\ request' = [request EXCEPT ![r] = req]
      /\ account' = IF saw.legacy THEN [account EXCEPT !.password = saw.password, !.legacy = FALSE]
                    ELSE account
      /\ overwritten' = (overwritten \/ (saw.legacy /\ account.password # saw.password))
  BY DEF StampLogin
<1>3. Typed /\ Owned /\ Current /\ Exclusive /\ Local(r)
  BY DEF IInv
<1>4. account \in AccountRows /\ overwritten \in BOOLEAN
  BY <1>3 DEF Typed, RowsTyped
<1>5. /\ account' \in AccountRows /\ account'.version = account.version
      /\ account'.password = account.password \/ overwritten'
      /\ overwritten => overwritten'
      /\ overwritten' \in BOOLEAN
  <2>1. CASE saw.legacy
    BY <1>1, <1>2, <1>4, <2>1 DEF AccountRows
  <2>2. CASE ~saw.legacy
    BY <1>2, <1>4, <2>2
  <2> QED BY <2>1, <2>2
<1>6. RowsTyped'
  BY <1>2, <1>3, <1>5 DEF Typed, RowsTyped
<1>7. Owned'
  BY <1>2, <1>3 DEF Owned, There
<1>8. Current'
  <2>1. \A s \in Sessions : Live(s)' = Live(s)
    BY <1>2 DEF Live, TokensOf
  <2> QED BY <1>2, <1>3, <1>5, <2>1 DEF Current
<1>9. /\ req \in RequestRows /\ req.op = "LOGIN" /\ req.saw = saw
  BY <1>1 DEF RequestRows, Logins
<1>10. request'[r] = req /\ want'[r] = <<>> /\ held'[r] = {}
  BY <1>1, <1>2, <1>3 DEF Typed, Local, LoginSound
<1>11. saw.version <= account'.version
       /\ (saw.version = account'.version => saw.password = account'.password \/ overwritten')
  BY <1>1, <1>3, <1>5 DEF Local, LoginSound
<1>12. \A q \in Requests \ {r} : RowsKept(q)
  <2>1. account.version \in Nat
    BY <1>4, SessionsAssumption DEF AccountRows
  <2> QED BY <1>2, <1>5, <2>1, AccountWritten
<1> HIDE DEF req
<1>13. Local(r)'
  BY <1>9, <1>10, <1>11 DEF Local, LoginSound, RefreshReads, RevokesOne, LogoutReads, ChangeReads,
                            ChangeHolds, CleanupLocks, Known, IsAt, Idle
<1>14. want' = [want EXCEPT ![r] = <<>>] /\ held' = [held EXCEPT ![r] = {}]
  BY <1>1, <1>2, <1>3 DEF Typed, Local, LoginSound
<1>15. /\ request' = [request EXCEPT ![r] = req] /\ {} \in SUBSET Rows
       /\ \A q \in Requests \ {r} : {} \cap held[q] = {} /\ RowsKept(q)
  BY <1>2, <1>12 DEF req
<1> QED BY <1>6, <1>7, <1>8, <1>9, <1>13, <1>14, <1>15, StepOfOne

LEMMA OpenKeepsInv ==
  ASSUME IInv, NEW r \in Requests, OpenSession(r)
  PROVE  IInv'
<1>1. request[r] \in Logins /\ request[r].op = "LOGIN"
  BY Kinds DEF OpenSession, At, IInv
<1>2. PICK saw \in AccountRows : saw = request[r].saw
  BY <1>1 DEF Logins
<1>3. PICK s \in Sessions, t \in Tokens :
          /\ session[s].status = "NONE" /\ token[t].status = "NONE"
          /\ session' = [session EXCEPT ![s] =
                [status |-> "LIVE", version |-> saw.version, expired |-> FALSE]]
          /\ token' = [token EXCEPT ![t] = [status |-> "LIVE", session |-> s]]
          /\ proved' = [proved EXCEPT ![s] = saw.password]
  BY <1>2 DEF OpenSession
<1>4. Finish(r) /\ account' = account /\ overwritten' = overwritten
  BY DEF OpenSession
<1>5. Typed /\ Owned /\ Current /\ Exclusive /\ Local(r)
  BY DEF IInv
<1>6. token[t].session = NoSession /\ TokensOf({s}) = {}
  BY <1>3, <1>5, TokensOfThere DEF Owned, There
<1>7. TokensOf({s})' = {t} /\ \A x \in Sessions \ {s} : TokensOf({x})' = TokensOf({x})
  BY <1>3, <1>5, <1>6, SessionsAssumption DEF Typed, RowsTyped, TokensOf
<1>8. RowsTyped'
  <2>1. [status |-> "LIVE", version |-> saw.version, expired |-> FALSE] \in SessionRows
    BY DEF SessionRows, SessionStatus, AccountRows
  <2>2. [status |-> "LIVE", session |-> s] \in TokenRows
    BY DEF TokenRows, TokenStatus
  <2>3. saw.password \in Passwords
    BY DEF AccountRows
  <2> QED BY <1>3, <1>4, <1>5, <2>1, <2>2, <2>3 DEF Typed, RowsTyped
<1>9. Owned'
  <2>1. There' = There \cup {s}
    BY <1>3, <1>5 DEF There, Typed, RowsTyped
  <2> QED BY <1>3, <1>5, <2>1, SessionsAssumption DEF Owned, Typed, RowsTyped
<1>10. Current'
  <2> SUFFICES ASSUME NEW x \in Sessions
               PROVE  /\ session'[x].version <= account'.version
                      /\ session'[x].status = "REVOKED" => Live(x)' = {}
                      /\ session'[x].status = "LIVE" /\ session'[x].version = account'.version =>
                            /\ \E u \in Tokens : Live(x)' = {u}
                            /\ proved'[x] = account'.password \/ overwritten'
    BY DEF Current
  <2>1. CASE x = s
    <3>1. session'[x] = [status |-> "LIVE", version |-> saw.version, expired |-> FALSE]
          /\ proved'[x] = saw.password /\ token'[t].status = "LIVE"
      BY <1>3, <1>5, <2>1 DEF Typed, RowsTyped
    <3>2. Live(x)' = {t}
      BY <1>7, <2>1, <3>1 DEF Live
    <3>3. saw.version <= account.version
          /\ (saw.version = account.version => saw.password = account.password \/ overwritten)
      BY <1>1, <1>2, <1>5 DEF Local, LoginSound
    <3> QED BY <1>4, <3>1, <3>2, <3>3
  <2>2. CASE x # s
    <3>1. session'[x] = session[x] /\ proved'[x] = proved[x]
      BY <1>3, <1>5, <2>2 DEF Typed, RowsTyped
    <3>2. Live(x)' = Live(x)
      BY <1>3, <1>5, <1>6, <1>7, <2>2 DEF Live, TokensOf, Typed, RowsTyped
    <3> QED BY <1>4, <1>5, <3>1, <3>2 DEF Current
  <2> QED BY <2>1, <2>2
<1>11. ASSUME NEW q \in Requests \ {r} PROVE RowsKept(q)
  <2>1. account.version \in Nat
    BY <1>5, SessionsAssumption DEF Typed, RowsTyped, AccountRows
  <2>2. \A u \in Tokens : token[u].status # "NONE" => token'[u] = token[u]
    BY <1>3, <1>5 DEF Typed, RowsTyped
  <2>3. s \notin held[q] /\ \A x \in Sessions : session[x].status # "NONE" => session'[x] = session[x]
    <3>1. s \notin held[q]
      BY <1>3, HeldKnown
    <3> QED BY <1>3, <1>5, <3>1 DEF Typed, RowsTyped
  <2>4. \A x \in held[q] \cap Sessions : TokensOf({x})' = TokensOf({x})
    BY <1>7, <2>3
  <2>5. \A x \in Sessions : \/ TokensOf({x})' \subseteq TokensOf({x})
                            \/ \A v, w \in TokensOf({x})' : v = w
    BY <1>7
  <2>6. \A x \in Sessions : session[x].status # "NONE" => session'[x].status # "NONE"
    BY <2>3
  <2> QED BY <1>4, <2>1, <2>2, <2>4, <2>5, <2>6 DEF RowsKept
<1> QED BY <1>4, <1>8, <1>9, <1>10, <1>11, FinishKeepsInv

\* A session that is open and unchanged keeps what it has, unless its tokens change.
LEMMA RotateKeepsInv ==
  ASSUME IInv, NEW r \in Requests, Rotate(r)
  PROVE  IInv'
<1>1. IsAt(r, "REFRESH", "READ") /\ request[r] \in Refreshes
  BY Kinds DEF Rotate, At, IsAt, IInv
<1>2. PICK s \in Sessions, t \in Tokens : s = request[r].session /\ t = request[r].token
  BY <1>1 DEF Refreshes
<1>3. PICK new \in Tokens :
         /\ token[new].status = "NONE"
         /\ token' = [token EXCEPT ![t].status = "ROTATED",
                                   ![new] = [status |-> "LIVE", session |-> s]]
  BY <1>2 DEF Rotate
<1>4. /\ Finish(r) /\ account' = account /\ session' = session /\ proved' = proved
      /\ overwritten' = overwritten
      /\ token[t].status = "LIVE" /\ session[s].status = "LIVE" /\ session[s].version = account.version
      /\ want[r] = <<>>
  BY <1>2 DEF Rotate, Usable, At
<1>5. Typed /\ Owned /\ Current /\ Exclusive /\ Local(r)
  BY DEF IInv
<1>6. held[r] = {t, s, Account} /\ token[t].session = s
  BY <1>1, <1>2, <1>4, <1>5, Tuples DEF Local, RefreshReads, Owned
<1>7. /\ new # t /\ token[new].session = NoSession
      /\ token'[t] = [status |-> "ROTATED", session |-> s]
      /\ token'[new] = [status |-> "LIVE", session |-> s]
      /\ \A u \in Tokens \ {t, new} : token'[u] = token[u]
  BY <1>3, <1>4, <1>5, <1>6 DEF Owned, Typed, RowsTyped, TokenRows
<1>8. /\ TokensOf({s})' = TokensOf({s}) \cup {new}
      /\ \A x \in Sessions \ {s} : TokensOf({x})' = TokensOf({x})
  BY <1>5, <1>6, <1>7, SessionsAssumption DEF TokensOf
<1>9. RowsTyped'
  <2>1. [status |-> "LIVE", session |-> s] \in TokenRows /\ [status |-> "ROTATED", session |-> s] \in TokenRows
    BY DEF TokenRows, TokenStatus
  <2>2. token' \in [Tokens -> TokenRows]
    BY <1>3, <1>5, <1>7, <2>1 DEF Typed, RowsTyped
  <2> QED BY <1>4, <1>5, <2>2 DEF Typed, RowsTyped
<1>10. Owned'
  <2>1. There' = There /\ s \in There
    BY <1>4 DEF There
  <2> QED BY <1>5, <1>7, <2>1, SessionsAssumption DEF Owned
<1>11. Current'
  <2>1. \A x \in Sessions \ {s} : Live(x)' = Live(x)
    BY <1>5, <1>6, <1>7, <1>8, SessionsAssumption DEF Live, TokensOf
  <2>2. Live(s) = {t}
    <3>1. t \in Live(s)
      BY <1>4, <1>6 DEF Live, TokensOf
    <3> QED BY <1>4, <1>5, <3>1 DEF Current
  <2>3. Live(s)' = {new}
    BY <1>7, <1>8, <2>2 DEF Live, TokensOf
  <2> QED BY <1>4, <1>5, <2>1, <2>3 DEF Current
<1>12. ASSUME NEW q \in Requests \ {r} PROVE RowsKept(q)
  <2>1. account.version \in Nat
    BY <1>5, SessionsAssumption DEF Typed, RowsTyped, AccountRows
  <2>2. s \notin held[q] /\ Account \notin held[q]
    BY <1>5, <1>6 DEF Exclusive
  <2>3. \A u \in Tokens : token[u].status # "NONE" =>
           token'[u].status # "NONE" /\ token'[u].session = token[u].session
    <3> SUFFICES ASSUME NEW u \in Tokens, token[u].status # "NONE"
                 PROVE  token'[u].status # "NONE" /\ token'[u].session = token[u].session
      OBVIOUS
    <3>1. CASE u = t
      BY <1>6, <1>7, <3>1
    <3>2. CASE u # t
      BY <1>3, <1>7, <3>2
    <3> QED BY <3>1, <3>2
  <2>4. \A x \in held[q] \cap Sessions : TokensOf({x})' = TokensOf({x})
    BY <1>8, <2>2
  <2> QED BY <1>4, <2>1, <2>2, <2>3, <2>4 DEF RowsKept
<1> QED BY <1>4, <1>9, <1>10, <1>11, <1>12, FinishKeepsInv

LEMMA ExpireKeepsInv ==
  ASSUME IInv, NEW s \in Sessions, Expire(s)
  PROVE  IInv'
<1>1. /\ session' = [session EXCEPT ![s].expired = TRUE] /\ session[s].status = "LIVE"
      /\ UNCHANGED <<account, token, request, want, held, proved, overwritten>>
  BY DEF Expire
<1>2. Typed /\ Owned /\ Current /\ Exclusive
  BY DEF IInv
<1>3. /\ \A x \in Sessions : session'[x].status = session[x].status
                             /\ session'[x].version = session[x].version
      /\ session' \in [Sessions -> SessionRows]
  BY <1>1, <1>2 DEF Typed, RowsTyped, SessionRows
<1>4. RowsTyped' /\ Typed'
  BY <1>1, <1>2, <1>3 DEF Typed, RowsTyped
<1>5. Owned'
  <2>1. There' = There
    BY <1>3 DEF There
  <2> QED BY <1>1, <1>2, <2>1 DEF Owned
<1>6. Current'
  <2>1. \A x \in Sessions : Live(x)' = Live(x)
    BY <1>1 DEF Live, TokensOf
  <2> QED BY <1>1, <1>2, <1>3, <2>1 DEF Current
<1>7. Exclusive'
  BY <1>1, <1>2 DEF Exclusive
<1>8. ASSUME NEW q \in Requests PROVE Local(q)'
  <2>1. account.version \in Nat
    BY <1>2, SessionsAssumption DEF Typed, RowsTyped, AccountRows
  <2>2. RowsKept(q)
    BY <1>1, <1>3, <2>1 DEF RowsKept, TokensOf
  <2>3. Standing(q) /\ Local(q)
    BY <1>1 DEF Standing, IInv
  <2> QED BY <1>2, <1>4, <2>2, <2>3, OthersStand
<1> QED BY <1>4, <1>5, <1>6, <1>7, <1>8 DEF IInv

\* What revoking sessions S and tokens T does to the rows.
Revoked(S, T) ==
    /\ session' \in [Sessions -> SessionRows] /\ token' \in [Tokens -> TokenRows]
    /\ proved' \in [Sessions -> Passwords \cup {NoPassword}]
    /\ Owned'
    /\ \A x \in Sessions : TokensOf({x})' = TokensOf({x})
    /\ \A x \in Sessions : Live(x)' = Live(x) \ T
    /\ \A x \in Sessions : session'[x].version <= session[x].version
    /\ \A x \in S : session'[x].status # "LIVE"
    /\ \A x \in Sessions \ S : session'[x] = session[x] /\ proved'[x] = proved[x]
    /\ \A x \in Sessions : session'[x].status = "REVOKED" => session[x].status = "REVOKED" \/ x \in S
    /\ \A x \in Sessions : session[x].status # "NONE" => session'[x].status # "NONE"
    /\ \A t \in Tokens : token[t].status # "NONE" =>
          token'[t].status # "NONE" /\ token'[t].session = token[t].session

LEMMA RevokeFacts ==
  ASSUME IInv, NEW S \in SUBSET Sessions, NEW T \in SUBSET Tokens, RevokeRows(S, T)
  PROVE  Revoked(S, T)
<1>1. /\ session' = [x \in Sessions |-> IF x \in S /\ session[x].status = "LIVE" THEN NoRow("REVOKED")
                                        ELSE session[x]]
      /\ proved' = [x \in Sessions |-> IF x \in S /\ session[x].status = "LIVE" THEN NoPassword
                                       ELSE proved[x]]
      /\ token' = [t \in Tokens |-> IF t \in T /\ token[t].status = "LIVE"
                                    THEN [token[t] EXCEPT !.status = "REVOKED"]
                                    ELSE token[t]]
  BY DEF RevokeRows
<1>2. Typed /\ Owned
  BY DEF IInv
<1>3. \A t \in Tokens :
         /\ token'[t] \in TokenRows
         /\ token'[t].session = token[t].session
         /\ token'[t].status = IF t \in T /\ token[t].status = "LIVE" THEN "REVOKED" ELSE token[t].status
  BY <1>1, <1>2 DEF Typed, RowsTyped, TokenRows, TokenStatus
<1>4. \A x \in Sessions :
         /\ session'[x] \in SessionRows
         /\ session'[x] = IF x \in S /\ session[x].status = "LIVE" THEN NoRow("REVOKED") ELSE session[x]
  <2>1. NoRow("REVOKED") \in SessionRows
    BY SessionsAssumption DEF NoRow, SessionRows, SessionStatus
  <2> QED BY <1>1, <1>2, <2>1 DEF Typed, RowsTyped
<1>5. \A x \in Sessions : session[x].version \in Nat
  BY <1>2, SessionsAssumption DEF Typed, RowsTyped, SessionRows
<1>6. Owned'
  <2>1. There' = There
    BY <1>4 DEF There, NoRow
  <2> QED BY <1>2, <1>3, <2>1 DEF Owned
<1>7. \A x \in Sessions : TokensOf({x})' = TokensOf({x}) /\ Live(x)' = Live(x) \ T
  BY <1>3 DEF TokensOf, Live
<1>8. session' \in [Sessions -> SessionRows] /\ token' \in [Tokens -> TokenRows]
      /\ proved' \in [Sessions -> Passwords \cup {NoPassword}]
  BY <1>1, <1>2, <1>3, <1>4 DEF Typed, RowsTyped
<1>9. \A x \in Sessions :
         /\ session'[x].version <= session[x].version
         /\ x \in S => session'[x].status # "LIVE"
         /\ x \notin S => session'[x] = session[x]
         /\ session'[x].status = "REVOKED" => session[x].status = "REVOKED" \/ x \in S
         /\ session[x].status # "NONE" => session'[x].status # "NONE"
  BY <1>4, <1>5 DEF NoRow
<1>10. \A x \in Sessions \ S : proved'[x] = proved[x]
  BY <1>1
<1> QED BY <1>3, <1>6, <1>7, <1>8, <1>9, <1>10 DEF Revoked

\* Nobody else relies on them.
LEMMA RevokedKept ==
  ASSUME IInv, NEW S \in SUBSET Sessions, NEW T \in SUBSET Tokens, Revoked(S, T),
         NEW q \in Requests,
         account.version <= account'.version,
         overwritten' = overwritten,
         account'.version = account.version => account' = account,
         Account \in held[q] => account' = account
  PROVE  RowsKept(q)
<1>1. \A x \in Sessions : TokensOf({x})' = TokensOf({x})
  BY DEF Revoked
<1>2. \A x \in Sessions : session[x].status # "NONE" => session'[x].status # "NONE"
  BY DEF Revoked
<1>3. \A t \in Tokens : token[t].status # "NONE" =>
         token'[t].status # "NONE" /\ token'[t].session = token[t].session
  BY DEF Revoked
<1> QED BY <1>1, <1>2, <1>3 DEF RowsKept

LEMMA RevokeKeepsInv ==
  ASSUME IInv, NEW r \in Requests, RevokeSession(r)
  PROVE  IInv'
<1>1. PICK s \in Sessions : s = request[r].session
  BY Kinds DEF RevokeSession, At, IInv, Refreshes, Logouts
<1>2. /\ RevokeRows({s}, held[r] \cap Tokens) /\ Finish(r)
      /\ account' = account /\ overwritten' = overwritten
  BY <1>1 DEF RevokeSession
<1>3. Typed /\ Owned /\ Current /\ Exclusive
  BY DEF IInv
<1>4. held[r] \cap Tokens = TokensOf({s})
  BY <1>1 DEF IInv, Local, RevokesOne, RevokeSession, At, IsAt, Reach, Wanted
<1>5. PICK T \in SUBSET Tokens : T = TokensOf({s}) /\ RevokeRows({s}, T)
  BY <1>2, <1>4
<1>6. Revoked({s}, T)
  BY <1>5, RevokeFacts
<1>7. RowsTyped'
  BY <1>2, <1>3, <1>6 DEF Typed, RowsTyped, Revoked
<1>8. Current'
  <2>1. Live(s)' = {}
    BY <1>5, <1>6 DEF Live, Revoked
  <2>2. \A x \in Sessions \ {s} : Live(x)' = Live(x)
    BY <1>5, <1>6 DEF Live, TokensOf, Revoked
  <2>3. account.version \in Nat /\ \A x \in Sessions : session[x].version \in Nat /\ session'[x].version \in Nat
    BY <1>3, <1>6, SessionsAssumption DEF Typed, RowsTyped, AccountRows, SessionRows, Revoked
  <2> SUFFICES ASSUME NEW x \in Sessions
               PROVE  /\ session'[x].version <= account'.version
                      /\ session'[x].status = "REVOKED" => Live(x)' = {}
                      /\ session'[x].status = "LIVE" /\ session'[x].version = account'.version =>
                            /\ \E u \in Tokens : Live(x)' = {u}
                            /\ proved'[x] = account'.password \/ overwritten'
    BY DEF Current
  <2>4. CASE x = s
    <3>1. session[x].version <= account.version /\ session'[x].version <= session[x].version
      BY <1>3, <1>6 DEF Current, Revoked
    <3>2. session'[x].version <= account'.version
      BY <1>2, <2>3, <3>1
    <3>3. session'[x].status # "LIVE"
      BY <1>6, <2>4 DEF Revoked
    <3> QED BY <2>1, <2>4, <3>2, <3>3
  <2>5. CASE x # s
    <3>1. session'[x] = session[x] /\ proved'[x] = proved[x]
      BY <1>6, <2>5 DEF Revoked
    <3> QED BY <1>2, <1>3, <2>2, <2>5, <3>1 DEF Current
  <2> QED BY <2>4, <2>5
<1>9. account.version \in Nat
  BY <1>3, SessionsAssumption DEF Typed, RowsTyped, AccountRows
<1>10. ASSUME NEW q \in Requests \ {r} PROVE RowsKept(q)
  BY <1>2, <1>6, <1>9, RevokedKept
<1>11. Owned'
  BY <1>6 DEF Revoked
<1> QED BY <1>2, <1>7, <1>8, <1>10, <1>11, FinishKeepsInv

LEMMA ChangeTokensKeepsInv ==
  ASSUME IInv, NEW r \in Requests, ChangeTokens(r)
  PROVE  /\ IInv'
         /\ account'.version = account.version + 1
         /\ \A x \in Sessions : session'[x].version <= account.version
<1>1. PICK change \in Changes : change = request[r].change
  BY Kinds DEF ChangeTokens, At, IInv, AccountChanges
<1>2. /\ account' = Changed(change) /\ Finish(r) /\ overwritten' = overwritten
      /\ RevokeRows(held[r] \cap Sessions, held[r] \cap Tokens)
  BY <1>1 DEF ChangeTokens
<1>3. Typed /\ Owned /\ Current /\ Exclusive
  BY DEF IInv
<1>4. /\ Account \in held[r] /\ account.version < MaxVersion
      /\ TokensOf(held[r] \cap Sessions) \subseteq held[r]
  BY DEF IInv, Local, ChangeHolds, ChangeTokens, At, IsAt, Reach, Wanted
<1>5. account.version \in Nat /\ account \in AccountRows
  BY <1>3, SessionsAssumption DEF Typed, RowsTyped, AccountRows
<1>6. account'.version = account.version + 1 /\ account' \in AccountRows
  <2>1. Written(change) \in AccountRows /\ Written(change).version = account.version
    BY <1>5, SessionsAssumption DEF Written, Changes, AccountRows
  <2>2. account.version + 1 \in 0..MaxVersion
    BY <1>4, <1>5, SessionsAssumption
  <2>3. account' = [Written(change) EXCEPT !.version = @ + 1]
    BY <1>2 DEF Changed
  <2> QED BY <2>1, <2>2, <2>3 DEF AccountRows
<1>7. PICK S \in SUBSET Sessions, T \in SUBSET Tokens :
         /\ S = held[r] \cap Sessions /\ T = held[r] \cap Tokens /\ RevokeRows(S, T)
  BY <1>2
<1>8. Revoked(S, T)
  BY <1>7, RevokeFacts
<1>9. RowsTyped'
  BY <1>2, <1>3, <1>6, <1>8 DEF Typed, RowsTyped, Revoked
<1>10. \A x \in Sessions : session'[x].version <= account.version /\ session'[x].version \in Nat
  <2>1. \A x \in Sessions : session[x].version \in Nat /\ session'[x].version \in Nat
    BY <1>3, <1>8, SessionsAssumption DEF Typed, RowsTyped, SessionRows, Revoked
  <2>2. \A x \in Sessions : session'[x].version <= session[x].version
    BY <1>8 DEF Revoked
  <2>3. \A x \in Sessions : session[x].version <= account.version
    BY <1>3 DEF Current
  <2> QED BY <1>5, <2>1, <2>2, <2>3
<1>11. Current'
  <2>1. \A x \in Sessions : session'[x].version <= account'.version /\ session'[x].version # account'.version
    BY <1>5, <1>6, <1>10
  <2>2. \A x \in S : Live(x)' = {}
    BY <1>4, <1>7, <1>8 DEF Live, TokensOf, Revoked
  <2>3. \A x \in Sessions : session'[x].status = "REVOKED" => Live(x)' = {}
    BY <1>3, <1>8, <2>2 DEF Current, Revoked
  <2> QED BY <2>1, <2>3 DEF Current
<1>12. ASSUME NEW q \in Requests \ {r} PROVE RowsKept(q)
  <2>1. Account \notin held[q]
    BY <1>3, <1>4 DEF Exclusive
  <2> QED BY <1>2, <1>5, <1>6, <1>8, <2>1, RevokedKept
<1>13. Owned'
  BY <1>8 DEF Revoked
<1> QED BY <1>2, <1>6, <1>9, <1>10, <1>11, <1>12, <1>13, FinishKeepsInv

LEMMA CleanupKeepsInv ==
  ASSUME IInv, NEW r \in Requests, Cleanup(r)
  PROVE  IInv'
<1>1. PICK S \in SUBSET Sessions : S = held[r] \cap Sessions
  OBVIOUS
<1>2. /\ session' = [s \in Sessions |-> IF s \in S THEN NoRow("DELETED") ELSE session[s]]
      /\ token' = [t \in Tokens |-> IF t \in TokensOf(S) THEN NoToken("DELETED") ELSE token[t]]
      /\ proved' = [s \in Sessions |-> IF s \in S THEN NoPassword ELSE proved[s]]
      /\ Finish(r) /\ account' = account /\ overwritten' = overwritten
  BY <1>1 DEF Cleanup, DeletedTokens
<1>3. Typed /\ Owned /\ Current /\ Exclusive
  BY DEF IInv
<1>4. \A t \in Tokens : token'[t] = IF token[t].session \in S THEN NoToken("DELETED") ELSE token[t]
  BY <1>2 DEF TokensOf
<1>5. \A s \in Sessions : session'[s] = IF s \in S THEN NoRow("DELETED") ELSE session[s]
  BY <1>2
<1>6. RowsTyped'
  <2>1. NoRow("DELETED") \in SessionRows /\ NoToken("DELETED") \in TokenRows
    BY SessionsAssumption DEF NoRow, NoToken, SessionRows, TokenRows, SessionStatus, TokenStatus
  <2> QED BY <1>2, <1>3, <2>1 DEF Typed, RowsTyped
<1>7. There' = There \ S
  BY <1>5 DEF There, NoRow
<1>8. Owned'
  <2> SUFFICES ASSUME NEW t \in Tokens
               PROVE  /\ token'[t].session # NoSession => token'[t].session \in There'
                      /\ token'[t].status \in {"NONE", "DELETED"} <=> token'[t].session = NoSession
    BY DEF Owned
  <2>1. CASE token[t].session \in S
    BY <1>4, <2>1 DEF NoToken
  <2>2. CASE token[t].session \notin S
    BY <1>3, <1>4, <1>7, <2>2 DEF Owned
  <2> QED BY <2>1, <2>2
<1>9. \A x \in Sessions \ S : TokensOf({x})' = TokensOf({x}) /\ Live(x)' = Live(x)
  BY <1>4, SessionsAssumption DEF TokensOf, Live, NoToken
<1>10. \A x \in S : TokensOf({x})' = {}
  BY <1>4, SessionsAssumption DEF TokensOf, NoToken
<1>11. account.version \in Nat
  BY <1>3, SessionsAssumption DEF Typed, RowsTyped, AccountRows
<1>12. Current'
  <2>1. \A x \in S : session'[x].version = 0 /\ session'[x].status = "DELETED"
    BY <1>5 DEF NoRow
  <2> SUFFICES ASSUME NEW x \in Sessions
               PROVE  /\ session'[x].version <= account'.version
                      /\ session'[x].status = "REVOKED" => Live(x)' = {}
                      /\ session'[x].status = "LIVE" /\ session'[x].version = account'.version =>
                            /\ \E u \in Tokens : Live(x)' = {u}
                            /\ proved'[x] = account'.password \/ overwritten'
    BY DEF Current
  <2>2. CASE x \in S
    BY <1>2, <1>11, <2>1, <2>2
  <2>3. CASE x \notin S
    <3>1. session'[x] = session[x] /\ proved'[x] = proved[x] /\ Live(x)' = Live(x)
      BY <1>2, <1>5, <1>9, <2>3
    <3> QED BY <1>2, <1>3, <3>1 DEF Current
  <2> QED BY <2>2, <2>3
<1>13. ASSUME NEW q \in Requests \ {r} PROVE RowsKept(q)
  <2>1. \A s \in held[q] \cap Sessions : s \notin S
    BY <1>1, <1>3 DEF Exclusive
  <2>2. \A t \in Tokens : token[t].status # "NONE" =>
           token'[t].status # "NONE" /\ token'[t].session \in {token[t].session, NoSession}
    BY <1>4 DEF NoToken
  <2>3. \A s \in Sessions : session[s].status # "NONE" => session'[s].status # "NONE"
    BY <1>5 DEF NoRow
  <2>4. \A s \in held[q] \cap Sessions : TokensOf({s})' = TokensOf({s})
    BY <1>9, <2>1
  <2>5. \A s \in Sessions : TokensOf({s})' \subseteq TokensOf({s})
    BY <1>9, <1>10
  <2> QED BY <1>2, <1>11, <2>2, <2>3, <2>4, <2>5 DEF RowsKept
<1> QED BY <1>2, <1>6, <1>8, <1>12, <1>13, FinishKeepsInv
-----------------------------------------------------------------------------
(* The invariant. *)

LEMMA InitInv == Init => IInv
<1> SUFFICES ASSUME Init PROVE IInv
  OBVIOUS
<1>1. /\ account.version = 0 /\ account \in AccountRows /\ 0 \in 0..MaxVersion
  BY SessionsAssumption DEF Init, AccountRows
<1>2. /\ NoRow("NONE") \in SessionRows /\ NoToken("NONE") \in TokenRows /\ Idle \in RequestRows
      /\ {} \in SUBSET Rows
  BY <1>1 DEF NoRow, NoToken, SessionRows, TokenRows, SessionStatus, TokenStatus, RequestRows
<1>3. Typed
  BY <1>1, <1>2 DEF Init, Typed, RowsTyped
<1>4. Owned /\ Current /\ Exclusive
  BY <1>1 DEF Init, Owned, Current, Exclusive, NoRow, NoToken
<1>5. ASSUME NEW r \in Requests PROVE Local(r)
  <2>1. request[r] = Idle /\ want[r] = <<>> /\ held[r] = {}
    BY DEF Init
  <2> QED BY <2>1 DEF Local, LoginSound, RefreshReads, RevokesOne, LogoutReads, ChangeReads,
                      ChangeHolds, CleanupLocks, Known, IsAt, Idle
<1> QED BY <1>3, <1>4, <1>5 DEF IInv

LEMMA StepInv == IInv /\ [Next]_vars => IInv'
<1> SUFFICES ASSUME IInv, [Next]_vars PROVE IInv'
  OBVIOUS
<1>1. ASSUME NEW r \in Requests, Lock(r) \/ Abort(r) PROVE IInv'
  BY <1>1, LockKeepsInv, AbortKeepsInv
<1>2. ASSUME NEW r \in Requests, BeginLogin(r) \/ StampLogin(r) \/ OpenSession(r) PROVE IInv'
  BY <1>2, BeginLoginKeepsInv, StampKeepsInv, OpenKeepsInv
<1>3. ASSUME NEW r \in Requests, NEW t \in Tokens, BeginRefresh(r, t) \/ BeginLogout(r, t) PROVE IInv'
  BY <1>3, BeginRefreshKeepsInv, BeginLogoutKeepsInv
<1>4. ASSUME NEW r \in Requests, Rotate(r) PROVE IInv'
  BY <1>4, RotateKeepsInv
<1>5. ASSUME NEW r \in Requests, RefuseRefresh(r) \/ Logout(r) PROVE IInv'
  BY <1>5, RefuseKeepsInv
<1>6. ASSUME NEW r \in Requests, RevokeSession(r) PROVE IInv'
  BY <1>6, RevokeKeepsInv
<1>7. ASSUME NEW r \in Requests, NEW change \in Changes, BeginChange(r, change) PROVE IInv'
  BY <1>7, BeginChangeKeepsInv
<1>8. ASSUME NEW r \in Requests, ChangeAccount(r) \/ ChangeSessions(r) \/ ChangeTokens(r) PROVE IInv'
  BY <1>8, ChangeAccountKeepsInv, ChangeSessionsKeepsInv, ChangeTokensKeepsInv
<1>9. ASSUME NEW r \in Requests, BeginCleanup(r) \/ CleanupTokens(r) \/ Cleanup(r) PROVE IInv'
  BY <1>9, BeginCleanupKeepsInv, CleanupTokensKeepsInv, CleanupKeepsInv
<1>10. ASSUME NEW s \in Sessions, Expire(s) PROVE IInv'
  BY <1>10, ExpireKeepsInv
<1>11. ASSUME UNCHANGED vars PROVE IInv'
  <2>1. UNCHANGED rows /\ request' = request /\ want' = want /\ held' = held
    BY <1>11 DEF vars, rows
  <2>2. Typed /\ Owned /\ Current /\ Exclusive /\ \A r \in Requests : Local(r)
    BY DEF IInv
  <2>3. RowsTyped' /\ Owned' /\ Current' /\ \A q \in Requests : RowsKept(q)
    BY <2>1, <2>2, NothingWritten
  <2>4. Typed' /\ Exclusive'
    BY <2>1, <2>2, <2>3 DEF Typed, Exclusive
  <2>5. \A q \in Requests : Local(q)'
    BY <2>1, <2>2, <2>3, OthersStand DEF Standing
  <2> QED BY <2>3, <2>4, <2>5 DEF IInv
<1> QED BY <1>1, <1>2, <1>3, <1>4, <1>5, <1>6, <1>7, <1>8, <1>9, <1>10, <1>11 DEF Next

\* The invariant that carries the theorems below holds in every reachable state.
THEOREM Invariance == Spec => []IInv
BY InitInv, StepInv, PTL DEF Spec
-----------------------------------------------------------------------------
(* The properties. *)

\* Columns, foreign keys and locks are as the schema and PostgreSQL keep them.
THEOREM TypeCorrect == Spec => []TypeOK
<1>1. IInv => TypeOK
  BY DEF IInv, Typed, RowsTyped, AccountRows, SessionRows, TokenRows, Rows, Owned, Exclusive, Local, TypeOK
<1> QED BY <1>1, Invariance, PTL

\* Rotation, revocation and cleanup leave one live token to a session in use and
\* none to a revoked one, in whatever order their statements interleave.
THEOREM TokensFollow == Spec => []TokensFollowSession
<1>1. IInv => TokensFollowSession
  <2> SUFFICES ASSUME IInv, NEW s \in Sessions
               PROVE  /\ session[s].status = "REVOKED" => Live(s) = {}
                      /\ Usable(s) => Cardinality(Live(s)) = 1
    BY DEF TokensFollowSession
  <2>1. \A t : Cardinality({t}) = 1
    BY FS_Singleton
  <2> QED BY <2>1 DEF IInv, Current, Usable
<1> QED BY <1>1, Invariance, PTL

\* No session in use outlives the password it was opened with, but for the login
\* that writes an old hash back.
THEOREM SessionsProve == Spec => []SessionsProvePassword
<1>1. IInv => SessionsProvePassword
  BY DEF IInv, Current, Usable, SessionsProvePassword
<1> QED BY <1>1, Invariance, PTL

\* No step makes a session usable that was not, but the login that opens it.
THEOREM UsableOnlyFromTheStart == Spec => UsableFromTheStart
<1> DEFINE Kept(s) == Usable(s)' => Usable(s) \/ session[s].status = "NONE"
<1>1. ASSUME IInv, Next, NEW s \in Sessions
      PROVE  Kept(s)
  <2>1. ASSUME session' = session, account' = account PROVE Kept(s)
    BY <2>1 DEF Usable
  <2>2. ASSUME NEW r \in Requests, NEW req, NEW sets, Begin(r, req, sets) PROVE Kept(s)
    BY <2>1, <2>2 DEF Begin, rows
  <2>3. ASSUME NEW r \in Requests, Lock(r) \/ Abort(r) \/ RefuseRefresh(r) \/ Logout(r)
                                   \/ ChangeAccount(r) \/ ChangeSessions(r) \/ CleanupTokens(r)
        PROVE  Kept(s)
    BY <2>1, <2>3 DEF Lock, Abort, RefuseRefresh, Logout, ChangeAccount, ChangeSessions, CleanupTokens, rows
  <2>4. ASSUME NEW r \in Requests, StampLogin(r) PROVE Kept(s)
    <3>1. account \in AccountRows
      BY <1>1 DEF IInv, Typed, RowsTyped
    <3>2. account'.version = account.version /\ account'.status = account.status /\ session' = session
      BY <2>4, <3>1 DEF StampLogin, AccountRows
    <3> QED BY <3>2 DEF Usable
  <2>5. ASSUME NEW r \in Requests, OpenSession(r) PROVE Kept(s)
    <3>1. session'[s] = session[s] \/ session[s].status = "NONE"
      BY <1>1, <2>5 DEF OpenSession, IInv, Typed, RowsTyped
    <3> QED BY <2>5, <3>1 DEF OpenSession, Usable
  <2>6. ASSUME NEW r \in Requests, Rotate(r) PROVE Kept(s)
    BY <2>1, <2>6 DEF Rotate
  <2>7. ASSUME NEW r \in Requests, RevokeSession(r) PROVE Kept(s)
    <3>1. session'[s] = session[s] \/ session'[s].status # "LIVE"
      BY <2>7 DEF RevokeSession, RevokeRows, NoRow
    <3> QED BY <2>7, <3>1 DEF RevokeSession, Usable
  <2>8. ASSUME NEW r \in Requests, ChangeTokens(r) PROVE Kept(s)
    <3>1. /\ account'.version = account.version + 1 /\ session'[s].version <= account.version
          /\ IInv'
      BY <1>1, <2>8, ChangeTokensKeepsInv
    <3>2. account.version \in Nat /\ session'[s].version \in Nat
      BY <1>1, <3>1, SessionsAssumption DEF IInv, Typed, RowsTyped, AccountRows, SessionRows
    <3>3. session'[s].version # account'.version
      BY <3>1, <3>2
    <3> QED BY <3>3 DEF Usable
  <2>9. ASSUME NEW r \in Requests, Cleanup(r) PROVE Kept(s)
    <3>1. session'[s] = session[s] \/ session'[s].status # "LIVE"
      BY <2>9 DEF Cleanup, NoRow
    <3> QED BY <2>9, <3>1 DEF Cleanup, Usable
  <2>10. ASSUME NEW x \in Sessions, Expire(x) PROVE Kept(s)
    <3>1. /\ session'[s].status = session[s].status /\ session'[s].version = session[s].version
          /\ session[s].expired => session'[s].expired
      BY <1>1, <2>10 DEF Expire, IInv, Typed, RowsTyped, SessionRows
    <3> QED BY <2>10, <3>1 DEF Expire, Usable
  <2> HIDE DEF Kept
  <2> QED BY <1>1, <2>2, <2>3, <2>4, <2>5, <2>6, <2>7, <2>8, <2>9, <2>10
          DEF Next, BeginLogin, BeginRefresh, BeginLogout, BeginChange, BeginCleanup
<1>2. IInv /\ [Next]_vars => [\A s \in Sessions : Kept(s)]_vars
  <2> HIDE DEF Kept
  <2> QED BY <1>1
<1>3. IInv /\ [Next]_vars =>
         [\A s \in Sessions : Usable(s)' => Usable(s) \/ session[s].status = "NONE"]_vars
  BY <1>2
<1> QED BY <1>3, Invariance, PTL DEF Spec, UsableFromTheStart

\* The account's changes and logouts lock in one order: only refreshes and
\* cleanups can close a circle of waiting requests.
THEOREM DeadlocksTakeRefresh == Spec => []DeadlockTakesRefresh
<1>1. IInv => DeadlockTakesRefresh
  <2> SUFFICES ASSUME IInv, NEW R \in SUBSET Requests, NEW q0 \in R,
                      \A q \in R : \E r \in R : Waits(q, r),
                      \A r \in R : request[r].op \notin {"REFRESH", "CLEANUP"}
               PROVE  FALSE
    BY DEF DeadlockTakesRefresh
  <2> DEFINE Revoking(r) == IsAt(r, "LOGOUT", "REVOKE")
             Changing(r) == IsAt(r, "CHANGE", "SESSIONS") \/ IsAt(r, "CHANGE", "TOKENS")
  <2>1. Typed /\ Exclusive /\ \A r \in Requests : Local(r)
    BY DEF IInv
  <2>2. ASSUME NEW r \in R
        PROVE  \/ request[r] \in Logouts /\ (Revoking(r) \/ held[r] = {})
               \/ request[r] \in AccountChanges /\ (Changing(r) \/ held[r] = {})
    <3>1. want[r] # <<>> /\ request[r].op \notin {"REFRESH", "CLEANUP"} /\ Local(r)
      BY <2>1 DEF Waits
    <3>2. request[r].op \in {"LOGOUT", "CHANGE"}
      BY <2>1, <3>1, Kinds DEF Local, LoginSound, RequestRows, Logins, Refreshes, Logouts,
                               AccountChanges, Cleanups
    <3>3. CASE request[r].op = "LOGOUT"
      BY <2>1, <3>1, <3>3, Kinds DEF Logouts, Local, LogoutReads, IsAt
    <3>4. CASE request[r].op = "CHANGE"
      BY <2>1, <3>1, <3>4, Kinds DEF AccountChanges, Local, ChangeReads, IsAt
    <3> QED BY <3>2, <3>3, <3>4
  <2>3. ASSUME NEW q \in R, Revoking(q) \/ Changing(q)
        PROVE  \E r \in R : /\ r # q /\ (Revoking(r) \/ Changing(r))
                            /\ Wanted(q) \cap held[r] # {}
    <3>1. PICK r \in R : want[q] # <<>> /\ Head(want[q]) \cap held[r] # {}
      BY DEF Waits
    <3>2. OneSet(q) /\ Wanted(q) \cap held[q] = {}
      BY <2>1, <2>3 DEF Local, RevokesOne, ChangeHolds, IsAt
    <3>3. Head(want[q]) = Wanted(q)
      BY <3>1, <3>2, Tuples DEF OneSet, Wanted
    <3> QED BY <2>2, <3>1, <3>2, <3>3
  \* Two logouts share no token, and the change that holds one locks tokens now.
  <2>4. ASSUME NEW l \in R, Revoking(l) PROVE \E c \in R : IsAt(c, "CHANGE", "TOKENS")
    <3>1. PICK r \in R : /\ r # l /\ (Revoking(r) \/ Changing(r))
                         /\ Wanted(l) \cap held[r] # {}
      BY <2>3, <2>4
    <3>2. PICK x \in Tokens : x \in TokensOf({request[l].session}) /\ x \in held[r]
      BY <2>1, <2>4, <3>1 DEF Local, RevokesOne, Reach
    <3>3. ~Revoking(r)
      <4> SUFFICES ASSUME Revoking(r) PROVE FALSE
        OBVIOUS
      <4>1. x \in TokensOf({request[r].session})
        BY <2>1, <3>2 DEF Local, RevokesOne, Reach
      <4>2. request[r].session = request[l].session
        BY <3>2, <4>1 DEF TokensOf
      <4>3. request[r].session \in held[r] /\ request[l].session \in held[l]
        BY <2>1, <2>4 DEF Local, RevokesOne
      <4> QED BY <2>1, <3>1, <4>2, <4>3 DEF Exclusive
    <3>4. ~IsAt(r, "CHANGE", "SESSIONS")
      BY <2>1, <3>2 DEF Local, ChangeHolds, Reach, IsAt
    <3> QED BY <3>1, <3>3, <3>4
  \* Only one changes the account at a time.
  <2>5. ASSUME NEW c \in R, Changing(c)
        PROVE  \E l \in R : Revoking(l) /\ Wanted(c) \cap held[l] # {}
    <3>1. PICK r \in R : /\ r # c /\ (Revoking(r) \/ Changing(r))
                         /\ Wanted(c) \cap held[r] # {}
      BY <2>3, <2>5
    <3>2. ~Changing(r)
      BY <2>1, <2>5, <3>1 DEF Local, ChangeHolds, Exclusive
    <3> QED BY <3>1, <3>2
  <2>6. PICK c \in R : IsAt(c, "CHANGE", "TOKENS")
    <3>1. PICK r \in R : held[r] # {}
      BY DEF Waits
    <3>2. Revoking(r) \/ Changing(r)
      BY <2>2, <3>1
    <3> QED BY <2>4, <2>5, <3>2
  <2>7. PICK l \in R : Revoking(l) /\ Wanted(c) \cap held[l] # {}
    BY <2>5, <2>6
  \* The change holds sessions older than itself, and l's session has one token.
  <2>8. PICK s \in Sessions : s = request[l].session
    BY <2>2, <2>7 DEF IsAt, Logouts, AccountChanges
  <2>9. /\ s \in held[l] /\ Reach(l) \cap Tokens = TokensOf({s}) /\ Wanted(l) \cap held[l] = {}
        /\ Wanted(l) \subseteq Tokens /\ OneSet(l)
    BY <2>1, <2>7, <2>8 DEF Local, RevokesOne, IsAt
  <2>10. /\ Wanted(c) \subseteq Tokens /\ Account \in held[c]
         /\ request[c].change.kind # "ENABLE" =>
               \A x \in Sessions \ Reach(c) : \A t, u \in TokensOf({x}) : t = u
         /\ request[c].change.kind = "ENABLE" => want[c] = <<>>
    BY <2>1, <2>6 DEF Local, ChangeHolds, IsAt
  <2>11. want[c] # <<>> /\ want[l] # <<>>
    BY DEF Waits
  <2>12. s \notin Reach(c)
    <3>1. l # c
      BY <2>6, <2>7 DEF IsAt
    <3> QED BY <2>1, <2>9, <2>10, <3>1, SessionsAssumption DEF Exclusive, Reach
  <2>13. \A t, u \in TokensOf({s}) : t = u
    BY <2>10, <2>11, <2>12
  <2>14. PICK x : x \in Wanted(c) /\ x \in held[l]
    BY <2>7
  <2>15. x \in TokensOf({s})
    BY <2>9, <2>10, <2>14 DEF Reach
  <2>16. PICK y : y \in Wanted(l)
    BY <2>9, <2>11, Tuples DEF OneSet, Wanted
  <2>17. y \in TokensOf({s})
    BY <2>9, <2>16 DEF Reach
  <2> QED BY <2>9, <2>13, <2>14, <2>15, <2>16, <2>17
<1> QED BY <1>1, Invariance, PTL
=============================================================================
