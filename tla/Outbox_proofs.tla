--------------------------- MODULE Outbox_proofs ---------------------------
(***************************************************************************)
(* The safety theorems of Outbox, for any messages, any finite number of   *)
(* servers, any batch size and any number of attempts, faults and losses.  *)
(*                                                                         *)
(* That a fault costs at most one copy of a message is proved by counting  *)
(* what may still send one: workers that have it unsent, that will put it  *)
(* back, or that claim without the lock; and the row itself, unless it is  *)
(* settled or the holder of the lock has it.  Every step that adds to this *)
(* count without a mail leaving is a fault or a lost lock.                 *)
(***************************************************************************)
EXTENDS Outbox, FiniteSetTheorems, TLAPS

ErrorOf(m) == [outcome |-> "ERROR", message |-> m]

\* Workers that may send m once more, or make others send it.
Repeaters(m) ==
    {w \in Workers : \/ w \in Unsent(m)
                     \/ mail[w] = ErrorOf(m)
                     \/ step[w] = "CLAIM" /\ lock # w}

\* The row is not up for another claim.
RowDone(m) ==
    \/ outbox[m].status \in {"SENT", "FAILED"}
    \/ outbox[m].status = "PROCESSING" /\ \E w \in Workers : lock = w /\ m \in Todo(w)

RowRepeats(m) == IF RowDone(m) THEN 0 ELSE 1

RepeatsPaidFor ==
    \A m \in Messages :
        copies[m] + Cardinality(Repeaters(m)) + RowRepeats(m) <= 1 + faults + losses

\* A worker's batch and mail are those of its delivery.
BatchOfDelivery ==
    \A w \in Workers : step[w] # "DELIVER" => mail[w] = NoMail /\ \A m \in Messages : claimed[w][m] = 0

MailOfBatch ==
    \A w \in Workers : mail[w] # NoMail =>
        /\ claimed[w][mail[w].message] > 0
        /\ mail[w].outcome = "SENT" => copies[mail[w].message] > 0

ClaimsCounted == \A w \in Workers, m \in Messages : claimed[w][m] <= outbox[m].attempts

Untried == \A m \in Messages : outbox[m].status = "NONE" => outbox[m].attempts = 0

\* TypeOK without the bound on copies, which the counts give.
Typed ==
    /\ outbox \in [Messages -> Row]
    /\ copies \in [Messages -> Nat]
    /\ lock \in Workers \cup {NoWorker}
    /\ step \in [Workers -> {"IDLE", "CLAIM", "DELIVER"}]
    /\ claimed \in [Workers -> [Messages -> 0..MaxAttempts]]
    /\ mail \in [Workers -> Mail]
    /\ faults \in 0..MaxFaults
    /\ losses \in 0..MaxLosses

Local == Typed /\ BatchOfDelivery /\ MailOfBatch /\ ClaimsCounted /\ Untried /\ OutcomeIsTrue
IInv == Local /\ AttemptsCounted /\ RepeatsPaidFor
-----------------------------------------------------------------------------
(* Rows, mails and counts. *)

LEMMA MailFacts ==
  ASSUME NEW x \in Mail
  PROVE  /\ x = NoMail <=> x.outcome = "NONE"
         /\ x # NoMail => /\ x.outcome \in {"SENT", "ERROR"} /\ x.message \in Messages
                          /\ x = [outcome |-> x.outcome, message |-> x.message]
BY DEF Mail, NoMail

LEMMA AttemptsAreNumbers ==
  /\ MaxAttempts \in Nat /\ MaxAttempts >= 1
  /\ MaxFaults \in Nat /\ MaxLosses \in Nat
  /\ \A row \in Row : row.attempts \in Nat /\ row.attempts <= MaxAttempts
BY OutboxAssumption DEF Row

LEMMA RecoveredFacts ==
  ASSUME NEW row \in Row
  PROVE  /\ Recovered(row) \in Row
         /\ Recovered(row).attempts = row.attempts
         /\ \/ Recovered(row) = row
            \/ /\ row.status = "PROCESSING"
               /\ \/ Recovered(row).status = "PENDING"
                  \/ Recovered(row).status = "FAILED" /\ row.attempts = MaxAttempts
<1>1. CASE row.status = "PROCESSING" /\ row.stale
  <2> DEFINE s == IF row.attempts >= MaxAttempts THEN "FAILED" ELSE "PENDING"
  <2>1. Recovered(row) = [row EXCEPT !.status = s, !.ready = TRUE, !.stale = FALSE]
    BY <1>1 DEF Recovered
  <2>2. \/ s = "PENDING"
        \/ s = "FAILED" /\ row.attempts = MaxAttempts
    BY AttemptsAreNumbers
  <2> HIDE DEF s
  <2>3. Recovered(row) \in Row /\ Recovered(row).status = s /\ Recovered(row).attempts = row.attempts
    BY <2>1, <2>2 DEF Row, Status
  <2> QED BY <1>1, <2>2, <2>3
<1>2. CASE ~(row.status = "PROCESSING" /\ row.stale)
  BY <1>2 DEF Recovered
<1> QED BY <1>1, <1>2

LEMMA ClaimFacts ==
  ASSUME NEW row \in Row, Due(row)
  PROVE  /\ Claim(row) \in Row /\ Claim(row).status = "PROCESSING"
         /\ Claim(row).attempts = row.attempts + 1 /\ row.attempts + 1 \in 1..MaxAttempts
         /\ row.status = "PENDING"
<1>1. row.status = "PENDING" /\ row.attempts < MaxAttempts
  BY DEF Due
<1>2. row.attempts + 1 \in 1..MaxAttempts /\ row.attempts + 1 \in 0..MaxAttempts
  BY <1>1, AttemptsAreNumbers
<1>3. /\ Claim(row) \in Row /\ Claim(row).status = "PROCESSING"
      /\ Claim(row).attempts = row.attempts + 1
  BY <1>2 DEF Claim, Row, Status
<1> QED BY <1>1, <1>2, <1>3

\* How a count of workers changes when one of them does.
LEMMA OneWorker ==
  ASSUME NEW w \in Workers, NEW S \in SUBSET Workers, NEW T \in SUBSET Workers,
         S \ {w} = T \ {w}
  PROVE  /\ Cardinality(S) \in Nat /\ Cardinality(T) \in Nat
         /\ Cardinality(T) = Cardinality(S) + (IF w \in T THEN 1 ELSE 0) - (IF w \in S THEN 1 ELSE 0)
<1>1. IsFiniteSet(S) /\ IsFiniteSet(T)
  BY FS_Subset, OutboxAssumption
<1>2. Cardinality(S) \in Nat /\ Cardinality(T) \in Nat
  BY <1>1, FS_CardinalityType
<1>3. /\ Cardinality(S \ {w}) = IF w \in S THEN Cardinality(S) - 1 ELSE Cardinality(S)
      /\ Cardinality(T \ {w}) = IF w \in T THEN Cardinality(T) - 1 ELSE Cardinality(T)
  BY <1>1, FS_RemoveElement
<1>4. Cardinality(S \ {w}) = Cardinality(T \ {w})
  OBVIOUS
<1> QED BY <1>2, <1>3, <1>4

LEMMA WorkerStep ==
  ASSUME NEW w \in Workers, NEW m \in Messages,
         \A v \in Workers \ {w} :
            /\ claimed'[v] = claimed[v] /\ mail'[v] = mail[v] /\ step'[v] = step[v]
            /\ lock' = v <=> lock = v
  PROVE  /\ Cardinality(Unsent(m)) \in Nat /\ Cardinality(Unsent(m)') \in Nat
         /\ Cardinality(Repeaters(m)) \in Nat /\ Cardinality(Repeaters(m)') \in Nat
         /\ Cardinality(Unsent(m)') = Cardinality(Unsent(m))
               + (IF w \in Unsent(m)' THEN 1 ELSE 0) - (IF w \in Unsent(m) THEN 1 ELSE 0)
         /\ Cardinality(Repeaters(m)') = Cardinality(Repeaters(m))
               + (IF w \in Repeaters(m)' THEN 1 ELSE 0) - (IF w \in Repeaters(m) THEN 1 ELSE 0)
<1>1. Unsent(m) \in SUBSET Workers /\ Unsent(m)' \in SUBSET Workers
  BY DEF Unsent
<1>2. Repeaters(m) \in SUBSET Workers /\ Repeaters(m)' \in SUBSET Workers
  BY DEF Repeaters
<1>3. \A v \in Workers \ {w} : v \in Unsent(m)' <=> v \in Unsent(m)
  BY DEF Unsent, Todo
<1>4. \A v \in Workers \ {w} : v \in Repeaters(m)' <=> v \in Repeaters(m)
  BY <1>3 DEF Repeaters
<1>5. Unsent(m) \ {w} = Unsent(m)' \ {w} /\ Repeaters(m) \ {w} = Repeaters(m)' \ {w}
  BY <1>1, <1>2, <1>3, <1>4
<1> QED BY <1>1, <1>2, <1>5, OneWorker

\* Steps of the rows alone change no count of workers.
LEMMA RowStep ==
  ASSUME UNCHANGED <<claimed, mail, step, lock>>, NEW m \in Messages
  PROVE  /\ Unsent(m)' = Unsent(m) /\ Repeaters(m)' = Repeaters(m)
         /\ Cardinality(Unsent(m)) \in Nat /\ Cardinality(Repeaters(m)) \in Nat
<1>1. Unsent(m)' = Unsent(m)
  BY DEF Unsent, Todo
<1>2. Repeaters(m)' = Repeaters(m)
  BY <1>1 DEF Repeaters
<1>3. Unsent(m) \subseteq Workers /\ Repeaters(m) \subseteq Workers
  BY DEF Unsent, Repeaters
<1> QED BY <1>1, <1>2, <1>3, FS_Subset, FS_CardinalityType, OutboxAssumption

\* What the invariant says of one message, in numbers.
LEMMA Counted ==
  ASSUME IInv, NEW m \in Messages
  PROVE  /\ copies[m] + Cardinality(Unsent(m)) <= outbox[m].attempts
         /\ copies[m] + Cardinality(Repeaters(m)) + RowRepeats(m) <= 1 + faults + losses
         /\ copies[m] \in Nat /\ faults \in Nat /\ losses \in Nat
         /\ outbox[m] \in Row /\ outbox[m].attempts \in Nat
         /\ RowRepeats(m) \in {0, 1}
BY AttemptsAreNumbers DEF IInv, Local, Typed, AttemptsCounted, RepeatsPaidFor, RowRepeats

\* A step of one worker keeps the counts if its own part of them balances.
LEMMA Balanced ==
  ASSUME IInv, Typed', NEW w \in Workers,
         \A v \in Workers \ {w} :
            /\ claimed'[v] = claimed[v] /\ mail'[v] = mail[v] /\ step'[v] = step[v]
            /\ lock' = v <=> lock = v,
         \A m \in Messages :
            /\ copies'[m] + (IF w \in Unsent(m)' THEN 1 ELSE 0) + outbox[m].attempts
                  <= copies[m] + (IF w \in Unsent(m) THEN 1 ELSE 0) + outbox'[m].attempts
            /\ copies'[m] + (IF w \in Repeaters(m)' THEN 1 ELSE 0) + RowRepeats(m)' + faults + losses
                  <= copies[m] + (IF w \in Repeaters(m) THEN 1 ELSE 0) + RowRepeats(m)
                        + faults' + losses'
  PROVE  AttemptsCounted' /\ RepeatsPaidFor'
<1> SUFFICES ASSUME NEW m \in Messages
             PROVE  /\ copies'[m] + Cardinality(Unsent(m)') <= outbox'[m].attempts
                    /\ copies'[m] + Cardinality(Repeaters(m)') + RowRepeats(m)'
                          <= 1 + faults' + losses'
  BY DEF AttemptsCounted, RepeatsPaidFor
<1> DEFINE u == IF w \in Unsent(m) THEN 1 ELSE 0
           u1 == IF w \in Unsent(m)' THEN 1 ELSE 0
           r == IF w \in Repeaters(m) THEN 1 ELSE 0
           r1 == IF w \in Repeaters(m)' THEN 1 ELSE 0
<1>1. /\ Cardinality(Unsent(m)) \in Nat /\ Cardinality(Unsent(m)') \in Nat
      /\ Cardinality(Repeaters(m)) \in Nat /\ Cardinality(Repeaters(m)') \in Nat
      /\ Cardinality(Unsent(m)') = Cardinality(Unsent(m)) + u1 - u
      /\ Cardinality(Repeaters(m)') = Cardinality(Repeaters(m)) + r1 - r
  BY WorkerStep
<1>2. /\ copies[m] + Cardinality(Unsent(m)) <= outbox[m].attempts
      /\ copies[m] + Cardinality(Repeaters(m)) + RowRepeats(m) <= 1 + faults + losses
      /\ copies[m] \in Nat /\ faults \in Nat /\ losses \in Nat
      /\ outbox[m].attempts \in Nat /\ RowRepeats(m) \in {0, 1}
  BY Counted
<1>3. /\ copies'[m] \in Nat /\ faults' \in Nat /\ losses' \in Nat /\ outbox'[m].attempts \in Nat
  BY AttemptsAreNumbers DEF Typed
<1>4. RowRepeats(m)' \in {0, 1}
  BY DEF RowRepeats
<1>5. /\ copies'[m] + u1 + outbox[m].attempts <= copies[m] + u + outbox'[m].attempts
      /\ copies'[m] + r1 + RowRepeats(m)' + faults + losses
            <= copies[m] + r + RowRepeats(m) + faults' + losses'
  OBVIOUS
<1>6. u \in {0, 1} /\ u1 \in {0, 1} /\ r \in {0, 1} /\ r1 \in {0, 1}
  OBVIOUS
<1> HIDE DEF u, u1, r, r1
<1> QED BY <1>1, <1>2, <1>3, <1>4, <1>5, <1>6
-----------------------------------------------------------------------------
(* One lemma per operation. *)

LEMMA InitInv == Init => IInv
<1> SUFFICES ASSUME Init PROVE IInv
  OBVIOUS
<1>1. Local
  BY AttemptsAreNumbers DEF Init, Local, Typed, Row, Status, NoClaims, Mail, BatchOfDelivery,
                            MailOfBatch, ClaimsCounted, Untried, OutcomeIsTrue
<1>2. ASSUME NEW m \in Messages
      PROVE  /\ Unsent(m) = {} /\ Repeaters(m) = {} /\ copies[m] = 0
             /\ outbox[m].attempts = 0 /\ RowRepeats(m) = 1 /\ faults = 0 /\ losses = 0
  <2>1. Unsent(m) = {}
    BY DEF Init, Unsent, Todo, NoClaims
  <2>2. \A w \in Workers : mail[w] # ErrorOf(m)
    BY DEF Init, NoMail, ErrorOf
  <2> QED BY <2>1, <2>2 DEF Init, Repeaters, RowRepeats, RowDone
<1>3. AttemptsCounted /\ RepeatsPaidFor
  <2>1. ASSUME NEW m \in Messages
        PROVE  Cardinality(Unsent(m)) = 0 /\ Cardinality(Repeaters(m)) = 0
    BY <1>2, FS_EmptySet
  <2> QED BY <1>2, <2>1 DEF AttemptsCounted, RepeatsPaidFor
<1> QED BY <1>1, <1>3 DEF IInv

\* A row is enqueued, or time passes for it.
LEMMA RowChangesKeepsInv ==
  ASSUME IInv, NEW m \in Messages, NEW row \in Row, outbox' = [outbox EXCEPT ![m] = row],
         row.attempts = outbox[m].attempts,
         \/ row.status = outbox[m].status
         \/ outbox[m].status = "NONE" /\ row.status = "PENDING",
         UNCHANGED <<copies, lock, step, claimed, mail, faults, losses>>
  PROVE  IInv'
<1>1. \A n \in Messages : outbox'[n] = IF n = m THEN row ELSE outbox[n]
  BY DEF IInv, Local, Typed
<1>2. Local'
  <2>1. Typed' /\ BatchOfDelivery' /\ MailOfBatch'
    BY DEF IInv, Local, Typed, BatchOfDelivery, MailOfBatch
  <2>2. ClaimsCounted' /\ Untried' /\ OutcomeIsTrue'
    BY <1>1 DEF IInv, Local, ClaimsCounted, Untried, OutcomeIsTrue
  <2> QED BY <2>1, <2>2 DEF Local
<1>3. ASSUME NEW n \in Messages
      PROVE  /\ Unsent(n)' = Unsent(n) /\ Repeaters(n)' = Repeaters(n)
             /\ RowRepeats(n)' = RowRepeats(n) /\ outbox'[n].attempts = outbox[n].attempts
  <2>1. RowDone(n)' <=> RowDone(n)
    BY <1>1 DEF RowDone, Todo
  <2> QED BY <1>1, <2>1, RowStep DEF RowRepeats
<1>4. AttemptsCounted' /\ RepeatsPaidFor'
  BY <1>3 DEF IInv, AttemptsCounted, RepeatsPaidFor
<1> QED BY <1>2, <1>4 DEF IInv

LEMMA RowKeepsInv ==
  ASSUME IInv, NEW m \in Messages, Enqueue(m) \/ RetryDue(m) \/ ClaimAges(m)
  PROVE  IInv'
<1>1. outbox[m] \in Row
  BY DEF IInv, Local, Typed
<1>2. CASE Enqueue(m)
  <2> DEFINE row == [status |-> "PENDING", attempts |-> 0, ready |-> TRUE, stale |-> FALSE]
  <2>1. row \in Row
    BY AttemptsAreNumbers DEF Row, Status
  <2>2. outbox[m].attempts = 0 /\ outbox[m].status = "NONE"
    BY <1>2 DEF IInv, Local, Untried, Enqueue
  <2> QED BY <1>2, <2>1, <2>2, RowChangesKeepsInv DEF Enqueue
<1>3. CASE RetryDue(m)
  <2> DEFINE row == [outbox[m] EXCEPT !.ready = TRUE]
  <2>1. row \in Row /\ row.attempts = outbox[m].attempts /\ row.status = outbox[m].status
    BY <1>1 DEF Row
  <2>2. outbox' = [outbox EXCEPT ![m] = row]
    BY <1>3 DEF RetryDue
  <2> HIDE DEF row
  <2> QED BY <1>3, <2>1, <2>2, RowChangesKeepsInv DEF RetryDue
<1>4. CASE ClaimAges(m)
  <2> DEFINE row == [outbox[m] EXCEPT !.stale = TRUE]
  <2>1. row \in Row /\ row.attempts = outbox[m].attempts /\ row.status = outbox[m].status
    BY <1>1 DEF Row
  <2>2. outbox' = [outbox EXCEPT ![m] = row]
    BY <1>4 DEF ClaimAges
  <2> HIDE DEF row
  <2> QED BY <1>4, <2>1, <2>2, RowChangesKeepsInv DEF ClaimAges
<1> QED BY <1>2, <1>3, <1>4

\* The lock is taken and given back with nothing claimed.
LEMMA CycleKeepsInv ==
  ASSUME IInv, NEW w \in Workers, StartCycle(w) \/ EndCycle(w)
  PROVE  IInv'
<1>1. /\ UNCHANGED <<outbox, copies, claimed, mail, faults, losses>>
      /\ mail[w] = NoMail /\ \A m \in Messages : claimed[w][m] = 0
  <2>1. ASSUME NEW m \in Messages, EndCycle(w) PROVE claimed[w][m] = 0
    BY <2>1, AttemptsAreNumbers DEF EndCycle, Todo, IInv, Local, Typed
  <2> QED BY <2>1 DEF StartCycle, EndCycle, IInv, Local, BatchOfDelivery
<1>2. /\ step' \in [Workers -> {"IDLE", "CLAIM", "DELIVER"}]
      /\ \A v \in Workers \ {w} : step'[v] = step[v] /\ (lock' = v <=> lock = v)
      /\ lock' \in Workers \cup {NoWorker}
      /\ step'[w] = "CLAIM" => lock' = w
      /\ step[w] = "CLAIM" => lock = w
  BY OutboxAssumption DEF StartCycle, EndCycle, Release, IInv, Local, Typed
<1>3. Local'
  BY <1>1, <1>2 DEF IInv, Local, Typed, BatchOfDelivery, MailOfBatch, ClaimsCounted, Untried,
                    OutcomeIsTrue
<1>4. ASSUME NEW m \in Messages
      PROVE  /\ w \notin Unsent(m) /\ w \notin Unsent(m)'
             /\ w \notin Repeaters(m) /\ w \notin Repeaters(m)'
             /\ RowRepeats(m)' = RowRepeats(m)
  <2>1. m \notin Todo(w) /\ m \notin Todo(w)' /\ \A v \in Workers : Todo(v)' = Todo(v)
    BY <1>1 DEF Todo
  <2>2. mail[w] # ErrorOf(m) /\ mail'[w] # ErrorOf(m)
    BY <1>1 DEF NoMail, ErrorOf
  <2>3. RowDone(m)' <=> RowDone(m)
    BY <1>1, <1>2, <2>1 DEF RowDone
  <2> QED BY <1>2, <2>1, <2>2, <2>3 DEF Unsent, Repeaters, RowRepeats
<1>5. ASSUME NEW m \in Messages
      PROVE  copies[m] \in Nat /\ outbox[m].attempts \in Nat /\ faults \in Nat /\ losses \in Nat
             /\ RowRepeats(m) \in {0, 1}
  BY Counted
<1>6. AttemptsCounted' /\ RepeatsPaidFor'
  <2>1. Typed'
    BY <1>3 DEF Local
  <2>2. \A v \in Workers \ {w} :
            /\ claimed'[v] = claimed[v] /\ mail'[v] = mail[v] /\ step'[v] = step[v]
            /\ lock' = v <=> lock = v
    BY <1>1, <1>2
  <2> QED BY <1>1, <1>4, <1>5, <2>1, <2>2, Balanced
<1> QED BY <1>3, <1>6 DEF IInv

\* A mail is tried: it leaves, it does not, or it leaves and nobody knows.
LEMMA MailKeepsInv ==
  ASSUME IInv, NEW w \in Workers, NEW x \in Messages, NEW o \in {"SENT", "ERROR"}, NEW left \in {0, 1},
         step[w] = "DELIVER", mail[w] = NoMail, x \in Todo(w),
         mail' = [mail EXCEPT ![w] = [outcome |-> o, message |-> x]],
         copies' = [copies EXCEPT ![x] = @ + left],
         o = "SENT" => left = 1,
         faults' \in 0..MaxFaults,
         faults' = faults + (IF o = "ERROR" /\ left = 1 THEN 1 ELSE 0),
         UNCHANGED <<outbox, lock, step, claimed, losses>>
  PROVE  IInv'
<1> DEFINE new == [outcome |-> o, message |-> x]
<1>1. /\ \A m \in Messages : /\ copies[m] \in Nat /\ copies'[m] \in Nat
                             /\ copies'[m] = IF m = x THEN copies[m] + left ELSE copies[m]
      /\ copies' \in [Messages -> Nat]
  BY DEF IInv, Local, Typed
<1>2. /\ new \in Mail /\ new # NoMail /\ new.outcome = o /\ new.message = x
      /\ \A m \in Messages : new = ErrorOf(m) <=> o = "ERROR" /\ m = x
  BY DEF Mail, NoMail, ErrorOf
<1>3. mail' \in [Workers -> Mail] /\ mail'[w] = new /\ \A v \in Workers \ {w} : mail'[v] = mail[v]
  BY <1>2 DEF IInv, Local, Typed
<1> HIDE DEF new
<1>4. Local'
  <2>1. Typed'
    BY <1>1, <1>3 DEF IInv, Local, Typed
  <2>2. BatchOfDelivery' /\ ClaimsCounted' /\ Untried'
    BY <1>3 DEF IInv, Local, BatchOfDelivery, ClaimsCounted, Untried
  <2>3. MailOfBatch'
    <3> SUFFICES ASSUME NEW v \in Workers, mail'[v] # NoMail
                 PROVE  /\ claimed[v][mail'[v].message] > 0
                        /\ mail'[v].outcome = "SENT" => copies'[mail'[v].message] > 0
      BY DEF MailOfBatch
    <3>1. CASE v = w
      BY <1>1, <1>2, <1>3, <3>1 DEF Todo
    <3>2. CASE v # w
      <4>1. /\ claimed[v][mail[v].message] > 0
            /\ mail[v].outcome = "SENT" => copies[mail[v].message] > 0
            /\ mail[v].message \in Messages /\ mail'[v] = mail[v]
        BY <1>3, <3>2, MailFacts DEF IInv, Local, Typed, MailOfBatch
      <4> QED BY <1>1, <4>1
    <3> QED BY <3>1, <3>2
  <2>4. OutcomeIsTrue'
    BY <1>1 DEF IInv, Local, OutcomeIsTrue
  <2> QED BY <2>1, <2>2, <2>3, <2>4 DEF Local
<1>5. ASSUME NEW m \in Messages
      PROVE  /\ m = x => w \in Unsent(m) /\ w \notin Unsent(m)'
             /\ m # x => (w \in Unsent(m)' <=> w \in Unsent(m))
             /\ w \in Repeaters(m)' <=> IF m = x THEN o = "ERROR" ELSE w \in Repeaters(m)
             /\ m = x => w \in Repeaters(m)
             /\ RowRepeats(m)' = RowRepeats(m)
  <2>1. \A v \in Workers : Todo(v)' = Todo(v)
    BY DEF Todo
  <2>2. RowDone(m)' <=> RowDone(m)
    BY <2>1 DEF RowDone
  <2>3. /\ w \in Unsent(m) <=> m \in Todo(w)
        /\ w \in Unsent(m)' <=> m \in Todo(w) /\ m # x
    BY <1>2, <1>3, <2>1 DEF Unsent
  <2>4. NoMail # ErrorOf(m)
    BY DEF NoMail, ErrorOf
  <2>5. /\ w \in Repeaters(m) <=> w \in Unsent(m)
        /\ w \in Repeaters(m)' <=> w \in Unsent(m)' \/ (o = "ERROR" /\ m = x)
    BY <1>2, <1>3, <2>4 DEF Repeaters
  <2> QED BY <2>2, <2>3, <2>5 DEF RowRepeats
<1>6. AttemptsCounted' /\ RepeatsPaidFor'
  <2>1. Typed'
    BY <1>4 DEF Local
  <2>2. \A v \in Workers \ {w} :
            /\ claimed'[v] = claimed[v] /\ mail'[v] = mail[v] /\ step'[v] = step[v]
            /\ lock' = v <=> lock = v
    BY <1>3
  <2>3. ASSUME NEW m \in Messages
        PROVE  /\ copies'[m] + (IF w \in Unsent(m)' THEN 1 ELSE 0) + outbox[m].attempts
                     <= copies[m] + (IF w \in Unsent(m) THEN 1 ELSE 0) + outbox'[m].attempts
               /\ copies'[m] + (IF w \in Repeaters(m)' THEN 1 ELSE 0) + RowRepeats(m)' + faults + losses
                     <= copies[m] + (IF w \in Repeaters(m) THEN 1 ELSE 0) + RowRepeats(m)
                           + faults' + losses'
    <3>1. /\ copies[m] \in Nat /\ outbox[m].attempts \in Nat /\ faults \in Nat /\ losses \in Nat
          /\ RowRepeats(m) \in {0, 1}
      BY Counted
    <3> QED BY <1>1, <1>5, <3>1
  <2> QED BY <2>1, <2>2, <2>3, Balanced
<1> QED BY <1>4, <1>6 DEF IInv

LEMMA DeliverKeepsInv ==
  ASSUME IInv, NEW w \in Workers, NEW x \in Messages, Deliver(w, x) \/ AnswerLost(w, x)
  PROVE  IInv'
<1>1. copies \in [Messages -> Nat] /\ faults \in 0..MaxFaults
  BY DEF IInv, Local, Typed
<1>2. CASE Deliver(w, x)
  <2>1. PICK o \in {"SENT", "ERROR"} :
           /\ mail' = [mail EXCEPT ![w] = [outcome |-> o, message |-> x]]
           /\ copies' = IF o = "SENT" THEN [copies EXCEPT ![x] = @ + 1] ELSE copies
    BY <1>2 DEF Deliver
  <2> DEFINE left == IF o = "SENT" THEN 1 ELSE 0
  <2>2. copies' = [copies EXCEPT ![x] = @ + left]
    <3>1. CASE o = "SENT"
      BY <2>1, <3>1
    <3>2. CASE o # "SENT"
      <4>1. copies[x] + 0 = copies[x] /\ copies = [copies EXCEPT ![x] = copies[x]]
        BY <1>1
      <4> QED BY <2>1, <3>2, <4>1
    <3> QED BY <3>1, <3>2
  <2>3. left \in {0, 1} /\ (o = "SENT" => left = 1)
    OBVIOUS
  <2>4. faults' \in 0..MaxFaults /\ faults' = faults + (IF o = "ERROR" /\ left = 1 THEN 1 ELSE 0)
    BY <1>1, <1>2, AttemptsAreNumbers DEF Deliver
  <2>5. /\ step[w] = "DELIVER" /\ mail[w] = NoMail /\ x \in Todo(w)
        /\ UNCHANGED <<outbox, lock, step, claimed, losses>>
    BY <1>2 DEF Deliver
  <2> HIDE DEF left
  <2> QED BY <2>1, <2>2, <2>3, <2>4, <2>5, MailKeepsInv
<1>3. CASE AnswerLost(w, x)
  <2>1. /\ mail' = [mail EXCEPT ![w] = [outcome |-> "ERROR", message |-> x]]
        /\ copies' = [copies EXCEPT ![x] = @ + 1]
        /\ step[w] = "DELIVER" /\ mail[w] = NoMail /\ x \in Todo(w)
        /\ UNCHANGED <<outbox, lock, step, claimed, losses>>
        /\ faults' = faults + 1 /\ faults' \in 0..MaxFaults
    BY <1>1, <1>3, AttemptsAreNumbers DEF AnswerLost, Fault
  <2> QED BY <2>1, MailKeepsInv
<1> QED BY <1>2, <1>3

\* Recording an outcome settles the row or offers it again in the mail's stead.
LEMMA RecordKeepsInv ==
  ASSUME IInv, NEW w \in Workers, Record(w)
  PROVE  IInv'
<1>1. PICK x \in Messages, o \in {"SENT", "ERROR"} :
         /\ mail[w] = [outcome |-> o, message |-> x]
         /\ mail[w].outcome = o /\ mail[w].message = x /\ mail[w] # NoMail
         /\ claimed[w][x] > 0 /\ (o = "SENT" => copies[x] > 0) /\ step[w] = "DELIVER"
  BY MailFacts DEF IInv, Local, Typed, MailOfBatch, BatchOfDelivery, Record
<1>2. /\ claimed' = [claimed EXCEPT ![w][x] = 0]
      /\ mail' = [mail EXCEPT ![w] = NoMail]
      /\ UNCHANGED <<copies, lock, step, faults, losses>>
  BY <1>1 DEF Record
<1>3. /\ claimed' \in [Workers -> [Messages -> 0..MaxAttempts]]
      /\ \A v \in Workers, m \in Messages :
            claimed'[v][m] = IF v = w /\ m = x THEN 0 ELSE claimed[v][m]
      /\ \A v \in Workers \ {w} : claimed'[v] = claimed[v]
  BY <1>1, <1>2, AttemptsAreNumbers DEF IInv, Local, Typed
<1>4. /\ mail' \in [Workers -> Mail] /\ mail'[w] = NoMail
      /\ \A v \in Workers \ {w} : mail'[v] = mail[v]
  BY <1>2 DEF IInv, Local, Typed, Mail
<1>5. /\ outbox' \in [Messages -> Row]
      /\ \A m \in Messages : outbox'[m].attempts = outbox[m].attempts
      /\ \A m \in Messages \ {x} : outbox'[m] = outbox[m]
      /\ \/ outbox'[x] = outbox[x] /\ outbox[x].status # "PROCESSING"
         \/ /\ outbox[x].status = "PROCESSING"
            /\ \/ o = "SENT" /\ outbox'[x].status = "SENT"
               \/ o = "ERROR" /\ outbox'[x].status = "PENDING"
               \/ o = "ERROR" /\ outbox'[x].status = "FAILED" /\ outbox[x].attempts = MaxAttempts
  <2>1. outbox \in [Messages -> Row] /\ outbox[x] \in Row
    BY <1>1 DEF IInv, Local, Typed
  <2>2. CASE outbox[x].status # "PROCESSING"
    <3>1. outbox' = outbox
      BY <1>1, <2>2 DEF Record, RecordSent, RecordError
    <3> QED BY <2>1, <2>2, <3>1
  <2>3. CASE outbox[x].status = "PROCESSING" /\ o = "SENT"
    <3> DEFINE row == [outbox[x] EXCEPT !.status = "SENT", !.stale = FALSE]
    <3>1. outbox' = [outbox EXCEPT ![x] = row]
      BY <1>1, <2>1, <2>3 DEF Record, RecordSent
    <3>2. row \in Row /\ row.status = "SENT" /\ row.attempts = outbox[x].attempts
      BY <2>1 DEF Row, Status
    <3> HIDE DEF row
    <3> QED BY <1>1, <2>1, <2>3, <3>1, <3>2
  <2>4. CASE outbox[x].status = "PROCESSING" /\ o = "ERROR"
    <3> DEFINE s == IF claimed[w][x] >= MaxAttempts THEN "FAILED" ELSE "PENDING"
               row == [outbox[x] EXCEPT !.status = s, !.ready = FALSE, !.stale = FALSE]
    <3>1. outbox' = [outbox EXCEPT ![x] = row]
      BY <1>1, <2>1, <2>4 DEF Record, RecordError
    <3>2. \/ s = "PENDING"
          \/ s = "FAILED" /\ outbox[x].attempts = MaxAttempts
      <4>1. claimed[w][x] <= outbox[x].attempts /\ claimed[w][x] \in Nat
        BY <1>1 DEF IInv, Local, Typed, ClaimsCounted
      <4> QED BY <2>1, <4>1, AttemptsAreNumbers
    <3> HIDE DEF s
    <3>3. row \in Row /\ row.status = s /\ row.attempts = outbox[x].attempts
      BY <2>1, <3>2 DEF Row, Status
    <3> HIDE DEF row
    <3> QED BY <1>1, <2>1, <2>4, <3>1, <3>2, <3>3
  <2> QED BY <1>1, <2>2, <2>3, <2>4
<1>6. Local'
  <2>1. Typed'
    BY <1>2, <1>3, <1>4, <1>5 DEF IInv, Local, Typed
  <2>2. BatchOfDelivery'
    BY <1>1, <1>2, <1>3, <1>4 DEF IInv, Local, BatchOfDelivery
  <2>3. MailOfBatch'
    <3> SUFFICES ASSUME NEW v \in Workers, mail'[v] # NoMail
                 PROVE  /\ claimed'[v][mail'[v].message] > 0
                        /\ mail'[v].outcome = "SENT" => copies[mail'[v].message] > 0
      BY <1>2 DEF MailOfBatch
    <3>1. v # w
      BY <1>4
    <3> QED BY <1>3, <1>4, <3>1 DEF IInv, Local, MailOfBatch
  <2>4. ClaimsCounted'
    <3>1. \A m \in Messages : outbox[m].attempts \in Nat
      BY AttemptsAreNumbers DEF IInv, Local, Typed
    <3> QED BY <1>3, <1>5, <3>1 DEF IInv, Local, ClaimsCounted
  <2>5. Untried' /\ OutcomeIsTrue'
    BY <1>1, <1>2, <1>5 DEF IInv, Local, Untried, OutcomeIsTrue
  <2> QED BY <2>1, <2>2, <2>3, <2>4, <2>5 DEF Local
<1>7. ASSUME NEW m \in Messages
      PROVE  /\ w \in Unsent(m)' <=> w \in Unsent(m)
             /\ (w \in Repeaters(m)' /\ m # x) => w \in Repeaters(m)
             /\ m # x => RowRepeats(m)' = RowRepeats(m)
             /\ w \notin Repeaters(x)'
             /\ o = "ERROR" => w \in Repeaters(x)
             /\ o = "SENT" => RowRepeats(x)' <= RowRepeats(x)
  <2>1. /\ \A v \in Workers : m # x => (m \in Todo(v)' <=> m \in Todo(v))
        /\ x \notin Todo(w)'
    BY <1>3 DEF Todo
  <2>2. w \in Unsent(m)' <=> w \in Unsent(m)
    BY <1>1, <1>4, <2>1 DEF Unsent
  <2>3. /\ mail[w] = ErrorOf(m) <=> o = "ERROR" /\ m = x
        /\ mail'[w] # ErrorOf(m) /\ mail'[w] # ErrorOf(x)
    BY <1>1, <1>4 DEF ErrorOf, NoMail
  <2>4. (w \in Repeaters(m)' /\ m # x) => w \in Repeaters(m)
    BY <1>1, <1>2, <2>2, <2>3 DEF Repeaters
  <2>5. w \notin Repeaters(x)'
    BY <1>1, <1>2, <2>1, <2>3 DEF Repeaters, Unsent
  <2>6. o = "ERROR" => w \in Repeaters(x)
    BY <1>1 DEF Repeaters, ErrorOf
  <2>7. m # x => (RowDone(m)' <=> RowDone(m))
    BY <1>2, <1>5, <2>1 DEF RowDone
  <2>8. o = "SENT" => RowDone(x)' \/ (outbox'[x] = outbox[x] /\ outbox[x].status # "PROCESSING")
    BY <1>5 DEF RowDone
  <2>9. o = "SENT" => (RowDone(x) => RowDone(x)')
    BY <2>8 DEF RowDone
  <2> QED BY <2>2, <2>4, <2>5, <2>6, <2>7, <2>9 DEF RowRepeats
<1>8. AttemptsCounted' /\ RepeatsPaidFor'
  <2>1. Typed'
    BY <1>6 DEF Local
  <2>2. \A v \in Workers \ {w} :
            /\ claimed'[v] = claimed[v] /\ mail'[v] = mail[v] /\ step'[v] = step[v]
            /\ lock' = v <=> lock = v
    BY <1>2, <1>3, <1>4
  <2>3. ASSUME NEW m \in Messages
        PROVE  /\ copies'[m] + (IF w \in Unsent(m)' THEN 1 ELSE 0) + outbox[m].attempts
                     <= copies[m] + (IF w \in Unsent(m) THEN 1 ELSE 0) + outbox'[m].attempts
               /\ copies'[m] + (IF w \in Repeaters(m)' THEN 1 ELSE 0) + RowRepeats(m)' + faults + losses
                     <= copies[m] + (IF w \in Repeaters(m) THEN 1 ELSE 0) + RowRepeats(m)
                           + faults' + losses'
    <3>1. /\ copies[m] \in Nat /\ outbox[m].attempts \in Nat /\ faults \in Nat /\ losses \in Nat
          /\ RowRepeats(m) \in {0, 1}
      BY Counted
    <3>2. RowRepeats(m)' \in {0, 1} /\ o \in {"SENT", "ERROR"}
      BY <1>1 DEF RowRepeats
    <3> QED BY <1>2, <1>5, <1>7, <3>1, <3>2
  <2> QED BY <2>1, <2>2, <2>3, Balanced
<1> QED BY <1>6, <1>8 DEF IInv

\* What a worker drops it cannot send, and its row is offered again: one fault
\* pays for it.
LEMMA AbandonKeepsInv ==
  ASSUME IInv, NEW w \in Workers, Abandon(w), Fault
  PROVE  IInv'
<1>1. /\ step' = [step EXCEPT ![w] = "IDLE"] /\ claimed' = [claimed EXCEPT ![w] = NoClaims]
      /\ mail' = [mail EXCEPT ![w] = NoMail]
      /\ UNCHANGED <<outbox, copies, losses>>
      /\ faults' = faults + 1 /\ faults' \in 0..MaxFaults
  BY AttemptsAreNumbers DEF Abandon, Fault, IInv, Local, Typed
<1>2. /\ lock' \in Workers \cup {NoWorker}
      /\ \A v \in Workers \ {w} : lock' = v <=> lock = v
  BY OutboxAssumption DEF Abandon, Release, IInv, Local, Typed
<1>3. /\ NoClaims \in [Messages -> 0..MaxAttempts] /\ \A m \in Messages : NoClaims[m] = 0
  BY AttemptsAreNumbers DEF NoClaims
<1>4. /\ step' \in [Workers -> {"IDLE", "CLAIM", "DELIVER"}] /\ step'[w] = "IDLE"
      /\ claimed' \in [Workers -> [Messages -> 0..MaxAttempts]] /\ claimed'[w] = NoClaims
      /\ mail' \in [Workers -> Mail] /\ mail'[w] = NoMail
      /\ \A v \in Workers \ {w} :
            claimed'[v] = claimed[v] /\ mail'[v] = mail[v] /\ step'[v] = step[v]
  BY <1>1, <1>3 DEF IInv, Local, Typed, Mail
<1>5. Local'
  <2>1. Typed'
    BY <1>1, <1>2, <1>4 DEF IInv, Local, Typed
  <2>2. BatchOfDelivery' /\ MailOfBatch'
    BY <1>1, <1>3, <1>4 DEF IInv, Local, BatchOfDelivery, MailOfBatch
  <2>3. ClaimsCounted'
    <3>1. \A m \in Messages : 0 <= outbox[m].attempts
      BY AttemptsAreNumbers DEF IInv, Local, Typed
    <3> QED BY <1>1, <1>3, <1>4, <3>1 DEF IInv, Local, ClaimsCounted
  <2>4. Untried' /\ OutcomeIsTrue'
    BY <1>1 DEF IInv, Local, Untried, OutcomeIsTrue
  <2> QED BY <2>1, <2>2, <2>3, <2>4 DEF Local
<1>6. ASSUME NEW m \in Messages PROVE w \notin Unsent(m)' /\ w \notin Repeaters(m)'
  <2>1. m \notin Todo(w)'
    BY <1>3, <1>4 DEF Todo
  <2> QED BY <1>4, <2>1 DEF Unsent, Repeaters, ErrorOf, NoMail
<1>7. AttemptsCounted' /\ RepeatsPaidFor'
  <2>1. Typed'
    BY <1>5 DEF Local
  <2>2. \A v \in Workers \ {w} :
            /\ claimed'[v] = claimed[v] /\ mail'[v] = mail[v] /\ step'[v] = step[v]
            /\ lock' = v <=> lock = v
    BY <1>2, <1>4
  <2>3. ASSUME NEW m \in Messages
        PROVE  /\ copies'[m] + (IF w \in Unsent(m)' THEN 1 ELSE 0) + outbox[m].attempts
                     <= copies[m] + (IF w \in Unsent(m) THEN 1 ELSE 0) + outbox'[m].attempts
               /\ copies'[m] + (IF w \in Repeaters(m)' THEN 1 ELSE 0) + RowRepeats(m)' + faults + losses
                     <= copies[m] + (IF w \in Repeaters(m) THEN 1 ELSE 0) + RowRepeats(m)
                           + faults' + losses'
    <3>1. /\ copies[m] \in Nat /\ outbox[m].attempts \in Nat /\ faults \in Nat /\ losses \in Nat
          /\ RowRepeats(m) \in {0, 1}
      BY Counted
    <3>2. RowRepeats(m)' \in {0, 1}
      BY DEF RowRepeats
    <3> QED BY <1>1, <1>6, <3>1, <3>2
  <2> QED BY <2>1, <2>2, <2>3, Balanced
<1> QED BY <1>5, <1>7 DEF IInv

\* A mail that left is taken for one that did not: it may be sent once more.
LEMMA RecordFailsKeepsInv ==
  ASSUME IInv, NEW w \in Workers, RecordFails(w)
  PROVE  IInv'
<1>1. CASE mail[w].outcome = "ERROR"
  BY <1>1, AbandonKeepsInv DEF RecordFails
<1>2. CASE mail[w].outcome = "SENT"
  <2>1. PICK x \in Messages :
           /\ mail[w] = [outcome |-> "SENT", message |-> x] /\ mail[w] # NoMail
           /\ mail[w].message = x /\ claimed[w][x] > 0 /\ copies[x] > 0
    BY <1>2, MailFacts DEF IInv, Local, Typed, MailOfBatch
  <2>2. /\ mail' = [mail EXCEPT ![w] = ErrorOf(x)]
        /\ UNCHANGED <<outbox, copies, lock, step, claimed, losses>>
        /\ faults' = faults + 1 /\ faults' \in 0..MaxFaults
    <3>1. [mail[w] EXCEPT !.outcome = "ERROR"] = ErrorOf(x)
      BY <2>1 DEF ErrorOf
    <3> QED BY <1>2, <3>1, AttemptsAreNumbers DEF RecordFails, Fault, IInv, Local, Typed
  <2>3. /\ ErrorOf(x) \in Mail /\ ErrorOf(x) # NoMail
        /\ ErrorOf(x).message = x /\ ErrorOf(x).outcome = "ERROR"
    BY DEF ErrorOf, Mail, NoMail
  <2>4. /\ mail' \in [Workers -> Mail] /\ mail'[w] = ErrorOf(x)
        /\ \A v \in Workers \ {w} : mail'[v] = mail[v]
    BY <2>2, <2>3 DEF IInv, Local, Typed
  <2>5. step[w] = "DELIVER"
    BY <2>1 DEF IInv, Local, BatchOfDelivery
  <2>6. Local'
    BY <2>1, <2>2, <2>3, <2>4, <2>5 DEF IInv, Local, Typed, BatchOfDelivery, MailOfBatch,
                                     ClaimsCounted, Untried, OutcomeIsTrue
  <2>7. ASSUME NEW m \in Messages
        PROVE  /\ w \in Unsent(m)' <=> w \in Unsent(m)
               /\ RowRepeats(m)' = RowRepeats(m)
    <3>1. \A v \in Workers : Todo(v)' = Todo(v)
      BY <2>2 DEF Todo
    <3>2. RowDone(m)' <=> RowDone(m)
      BY <2>2, <3>1 DEF RowDone
    <3> QED BY <2>1, <2>3, <2>4, <3>1, <3>2 DEF Unsent, RowRepeats
  <2>8. AttemptsCounted' /\ RepeatsPaidFor'
    <3>1. Typed'
      BY <2>6 DEF Local
    <3>2. \A v \in Workers \ {w} :
              /\ claimed'[v] = claimed[v] /\ mail'[v] = mail[v] /\ step'[v] = step[v]
              /\ lock' = v <=> lock = v
      BY <2>2, <2>4
    <3>3. ASSUME NEW m \in Messages
          PROVE  /\ copies[m] \in Nat /\ outbox[m].attempts \in Nat /\ faults \in Nat
                 /\ losses \in Nat /\ RowRepeats(m) \in {0, 1} /\ (m # x => (w \in Repeaters(m)' => w \in Repeaters(m)))
      <4>1. m # x => ErrorOf(x) # ErrorOf(m)
        BY DEF ErrorOf
      <4>2. m # x => (w \in Repeaters(m)' => w \in Repeaters(m))
        BY <2>2, <2>4, <2>7, <4>1 DEF Repeaters
      <4> QED BY <4>2, Counted
    <3> QED BY <2>2, <2>7, <3>1, <3>2, <3>3, Balanced
  <2> QED BY <2>6, <2>8 DEF IInv
<1> QED BY <1>1, <1>2 DEF RecordFails

\* Whoever lost the lock may go on; the next holder may take its rows.
LEMMA LoseLockKeepsInv ==
  ASSUME IInv, NEW w \in Workers, LoseLock(w)
  PROVE  IInv'
<1>1. /\ UNCHANGED <<outbox, copies, step, claimed, mail, faults>>
      /\ lock = w /\ lock' = NoWorker /\ losses' = losses + 1 /\ losses' \in 0..MaxLosses
  BY AttemptsAreNumbers DEF LoseLock, IInv, Local, Typed
<1>2. Local'
  BY <1>1 DEF IInv, Local, Typed, BatchOfDelivery, MailOfBatch, ClaimsCounted, Untried, OutcomeIsTrue
<1>3. ASSUME NEW m \in Messages
      PROVE  /\ w \in Unsent(m)' <=> w \in Unsent(m)
             /\ step[w] # "CLAIM" => (w \in Repeaters(m)' => w \in Repeaters(m))
             /\ step[w] = "CLAIM" => RowRepeats(m)' <= RowRepeats(m)
             /\ RowRepeats(m) \in {0, 1} /\ RowRepeats(m)' \in {0, 1}
  <2>1. \A v \in Workers : Todo(v)' = Todo(v)
    BY <1>1 DEF Todo
  <2>2. w \in Unsent(m)' <=> w \in Unsent(m)
    BY <1>1, <2>1 DEF Unsent
  <2>3. step[w] = "CLAIM" => m \notin Todo(w)
    BY DEF IInv, Local, BatchOfDelivery, Todo
  <2>4. step[w] = "CLAIM" => (RowDone(m) => RowDone(m)')
    BY <1>1, <2>3 DEF RowDone
  <2>5. step[w] # "CLAIM" => (w \in Repeaters(m)' => w \in Repeaters(m))
    BY <1>1, <2>2 DEF Repeaters
  <2> QED BY <2>2, <2>4, <2>5 DEF RowRepeats
<1>4. AttemptsCounted' /\ RepeatsPaidFor'
  <2>1. Typed'
    BY <1>2 DEF Local
  <2>2. \A v \in Workers \ {w} :
            /\ claimed'[v] = claimed[v] /\ mail'[v] = mail[v] /\ step'[v] = step[v]
            /\ lock' = v <=> lock = v
    BY <1>1, OutboxAssumption
  <2>3. ASSUME NEW m \in Messages
        PROVE  copies[m] \in Nat /\ outbox[m].attempts \in Nat /\ faults \in Nat /\ losses \in Nat
    BY Counted
  <2> QED BY <1>1, <1>3, <2>1, <2>2, <2>3, Balanced
<1> QED BY <1>2, <1>4 DEF IInv

\* A batch is claimed: by the holder of the lock in the row's own stead, by
\* anybody else in the stead of the claim it was known to make.
LEMMA ClaimBatchKeepsInv ==
  ASSUME IInv, NEW w \in Workers, ClaimBatch(w)
  PROVE  IInv'
<1> DEFINE rows == [m \in Messages |-> Recovered(outbox[m])]
<1>1. PICK batch \in SUBSET {m \in Messages : Due(rows[m])} :
         /\ outbox' = [m \in Messages |-> IF m \in batch THEN Claim(rows[m]) ELSE rows[m]]
         /\ claimed' = [claimed EXCEPT ![w] =
               [m \in Messages |-> IF m \in batch THEN rows[m].attempts + 1 ELSE 0]]
  BY DEF ClaimBatch
<1>2. /\ step[w] = "CLAIM" /\ step' = [step EXCEPT ![w] = "DELIVER"]
      /\ UNCHANGED <<copies, lock, mail, faults, losses>>
      /\ mail[w] = NoMail /\ \A m \in Messages : claimed[w][m] = 0
  BY DEF ClaimBatch, IInv, Local, BatchOfDelivery
<1>3. ASSUME NEW m \in Messages
      PROVE  /\ outbox[m] \in Row /\ outbox'[m] \in Row
             /\ outbox[m].attempts \in Nat /\ outbox[m].attempts <= MaxAttempts
             /\ m \in batch =>
                   /\ outbox'[m].status = "PROCESSING" /\ outbox[m].status \in {"PENDING", "PROCESSING"}
                   /\ outbox'[m].attempts = outbox[m].attempts + 1
                   /\ claimed'[w][m] = outbox[m].attempts + 1
                   /\ outbox[m].attempts + 1 \in 1..MaxAttempts
             /\ m \notin batch =>
                   /\ outbox'[m].attempts = outbox[m].attempts /\ claimed'[w][m] = 0
                   /\ \/ outbox'[m] = outbox[m]
                      \/ /\ outbox[m].status = "PROCESSING"
                         /\ \/ outbox'[m].status = "PENDING"
                            \/ outbox'[m].status = "FAILED" /\ outbox[m].attempts = MaxAttempts
  <2>1. outbox[m] \in Row /\ outbox[m].attempts \in Nat /\ outbox[m].attempts <= MaxAttempts
    BY AttemptsAreNumbers DEF IInv, Local, Typed
  <2>2. rows[m] = Recovered(outbox[m])
    OBVIOUS
  <2>3. /\ outbox'[m] = IF m \in batch THEN Claim(rows[m]) ELSE rows[m]
        /\ claimed'[w][m] = IF m \in batch THEN rows[m].attempts + 1 ELSE 0
        /\ m \in batch => Due(rows[m])
    BY <1>1 DEF IInv, Local, Typed
  <2> HIDE DEF rows
  <2>4. /\ rows[m] \in Row /\ rows[m].attempts = outbox[m].attempts
        /\ \/ rows[m] = outbox[m]
           \/ /\ outbox[m].status = "PROCESSING"
              /\ \/ rows[m].status = "PENDING"
                 \/ rows[m].status = "FAILED" /\ outbox[m].attempts = MaxAttempts
    BY <2>1, <2>2, RecoveredFacts
  <2>5. m \in batch => /\ Claim(rows[m]) \in Row /\ Claim(rows[m]).status = "PROCESSING"
                       /\ Claim(rows[m]).attempts = rows[m].attempts + 1
                       /\ rows[m].attempts + 1 \in 1..MaxAttempts
                       /\ rows[m].status = "PENDING"
    BY <2>3, <2>4, ClaimFacts
  <2> QED BY <2>1, <2>3, <2>4, <2>5
<1>4. \A v \in Workers \ {w} : claimed'[v] = claimed[v] /\ step'[v] = step[v]
  BY <1>1, <1>2 DEF IInv, Local, Typed
<1>5. Local'
  <2>1. claimed' \in [Workers -> [Messages -> 0..MaxAttempts]]
    <3> DEFINE new == [m \in Messages |-> IF m \in batch THEN rows[m].attempts + 1 ELSE 0]
    <3>1. claimed' = [claimed EXCEPT ![w] = new] /\ claimed'[w] = new
      BY <1>1 DEF IInv, Local, Typed
    <3>2. \A m \in Messages : new[m] \in 0..MaxAttempts
      <4> HIDE DEF new
      <4> QED BY <1>3, <3>1, AttemptsAreNumbers
    <3>3. new \in [Messages -> 0..MaxAttempts]
      BY <3>2
    <3> HIDE DEF new
    <3> QED BY <3>1, <3>3 DEF IInv, Local, Typed
  <2>2. outbox' \in [Messages -> Row]
    <3>1. outbox' = [m \in Messages |-> outbox'[m]]
      BY <1>1
    <3> QED BY <1>3, <3>1
  <2>3. Typed'
    BY <1>2, <2>1, <2>2 DEF IInv, Local, Typed
  <2>4. BatchOfDelivery'
    BY <1>2, <1>4 DEF IInv, Local, Typed, BatchOfDelivery
  <2>5. MailOfBatch'
    BY <1>2, <1>4 DEF IInv, Local, MailOfBatch
  <2>6. ClaimsCounted'
    <3> SUFFICES ASSUME NEW v \in Workers, NEW m \in Messages
                 PROVE  claimed'[v][m] <= outbox'[m].attempts
      BY DEF ClaimsCounted
    <3>1. claimed[v][m] <= outbox[m].attempts /\ claimed[v][m] \in Nat
      BY DEF IInv, Local, Typed, ClaimsCounted
    <3> QED BY <1>3, <1>4, <3>1
  <2>7. Untried' /\ OutcomeIsTrue'
    <3> SUFFICES ASSUME NEW m \in Messages
                 PROVE  /\ outbox'[m].status = "NONE" => outbox'[m].attempts = 0
                        /\ outbox'[m].status = "SENT" => copies[m] > 0
                        /\ outbox'[m].status = "FAILED" => outbox'[m].attempts = MaxAttempts
      BY <1>2 DEF Untried, OutcomeIsTrue
    <3> QED BY <1>3 DEF IInv, Local, Untried, OutcomeIsTrue
  <2> QED BY <2>3, <2>4, <2>5, <2>6, <2>7 DEF Local
<1>6. ASSUME NEW m \in Messages
      PROVE  /\ w \notin Unsent(m) /\ (w \in Unsent(m)' <=> m \in batch)
             /\ w \in Repeaters(m) <=> lock # w
             /\ w \in Repeaters(m)' <=> m \in batch
  <2>1. m \notin Todo(w) /\ (m \in Todo(w)' <=> m \in batch)
    BY <1>2, <1>3 DEF Todo
  <2>2. w \notin Unsent(m) /\ (w \in Unsent(m)' <=> m \in batch)
    BY <1>2, <2>1 DEF Unsent
  <2>3. mail[w] # ErrorOf(m) /\ step'[w] = "DELIVER"
    BY <1>2 DEF NoMail, ErrorOf, IInv, Local, Typed
  <2> QED BY <1>2, <2>2, <2>3 DEF Repeaters
<1>7. ASSUME NEW m \in Messages
      PROVE  /\ RowRepeats(m) \in {0, 1} /\ RowRepeats(m)' \in {0, 1}
             /\ m \in batch /\ lock = w => RowRepeats(m) = 1 /\ RowRepeats(m)' = 0
             /\ m \notin batch /\ lock # w => RowRepeats(m)' <= RowRepeats(m) + 1
             /\ m \notin batch /\ lock = w => RowRepeats(m)' <= RowRepeats(m)
             /\ m \in batch /\ lock # w => RowRepeats(m)' <= RowRepeats(m)
  <2>1. /\ m \notin Todo(w) /\ (m \in Todo(w)' <=> m \in batch)
        /\ \A v \in Workers \ {w} : m \in Todo(v)' <=> m \in Todo(v)
    BY <1>2, <1>3, <1>4 DEF Todo
  <2>2. m \in batch /\ lock = w => ~RowDone(m) /\ RowDone(m)'
    BY <1>2, <1>3, <2>1 DEF RowDone
  <2>3. m \notin batch /\ lock = w => (RowDone(m) => RowDone(m)')
    BY <1>2, <1>3, <2>1 DEF RowDone
  <2>4. m \in batch /\ lock # w => (RowDone(m) => RowDone(m)')
    BY <1>2, <1>3, <2>1 DEF RowDone
  <2> QED BY <2>2, <2>3, <2>4 DEF RowRepeats
<1>8. AttemptsCounted' /\ RepeatsPaidFor'
  <2>1. Typed'
    BY <1>5 DEF Local
  <2>2. \A v \in Workers \ {w} :
            /\ claimed'[v] = claimed[v] /\ mail'[v] = mail[v] /\ step'[v] = step[v]
            /\ lock' = v <=> lock = v
    BY <1>2, <1>4
  <2>3. ASSUME NEW m \in Messages
        PROVE  /\ copies'[m] + (IF w \in Unsent(m)' THEN 1 ELSE 0) + outbox[m].attempts
                     <= copies[m] + (IF w \in Unsent(m) THEN 1 ELSE 0) + outbox'[m].attempts
               /\ copies'[m] + (IF w \in Repeaters(m)' THEN 1 ELSE 0) + RowRepeats(m)' + faults + losses
                     <= copies[m] + (IF w \in Repeaters(m) THEN 1 ELSE 0) + RowRepeats(m)
                           + faults' + losses'
    <3>1. copies[m] \in Nat /\ outbox[m].attempts \in Nat /\ faults \in Nat /\ losses \in Nat
      BY Counted
    <3>2. outbox'[m].attempts = outbox[m].attempts + (IF m \in batch THEN 1 ELSE 0)
      BY <1>3
    <3> QED BY <1>2, <1>6, <1>7, <3>1, <3>2
  <2> QED BY <2>1, <2>2, <2>3, Balanced
<1> QED BY <1>5, <1>8 DEF IInv

LEMMA StepInv == IInv /\ [Next]_vars => IInv'
<1> SUFFICES ASSUME IInv, [Next]_vars PROVE IInv'
  OBVIOUS
<1>1. ASSUME NEW m \in Messages, Enqueue(m) \/ RetryDue(m) \/ ClaimAges(m) PROVE IInv'
  BY <1>1, RowKeepsInv
<1>2. ASSUME NEW w \in Workers, StartCycle(w) \/ EndCycle(w) PROVE IInv'
  BY <1>2, CycleKeepsInv
<1>3. ASSUME NEW w \in Workers, NEW m \in Messages, Deliver(w, m) \/ AnswerLost(w, m) PROVE IInv'
  BY <1>3, DeliverKeepsInv
<1>4. ASSUME NEW w \in Workers, ClaimBatch(w) PROVE IInv'
  BY <1>4, ClaimBatchKeepsInv
<1>5. ASSUME NEW w \in Workers, Record(w) PROVE IInv'
  BY <1>5, RecordKeepsInv
<1>6. ASSUME NEW w \in Workers, Crash(w) PROVE IInv'
  BY <1>6, AbandonKeepsInv DEF Crash
<1>7. ASSUME NEW w \in Workers, RecordFails(w) PROVE IInv'
  BY <1>7, RecordFailsKeepsInv
<1>8. ASSUME NEW w \in Workers, LoseLock(w) PROVE IInv'
  BY <1>8, LoseLockKeepsInv
<1>9. ASSUME UNCHANGED vars PROVE IInv'
  BY <1>9 DEF vars, IInv, Local, Typed, BatchOfDelivery, MailOfBatch, ClaimsCounted, Untried,
              OutcomeIsTrue, AttemptsCounted, Unsent, Todo, RepeatsPaidFor, Repeaters, RowRepeats,
              RowDone
<1> QED BY <1>1, <1>2, <1>3, <1>4, <1>5, <1>6, <1>7, <1>8, <1>9 DEF Next, Cycle
-----------------------------------------------------------------------------
\* The invariant that carries the theorems below holds in every reachable state.
THEOREM Invariance == Spec => []IInv
BY InitInv, StepInv, PTL DEF Spec

\* Rows keep their columns and checks, attempts within max_attempts among them,
\* and no message leaves more often than that.
THEOREM TypeCorrect == Spec => []TypeOK
<1>1. IInv => TypeOK
  <2> SUFFICES ASSUME IInv PROVE TypeOK
    OBVIOUS
  <2>1. ASSUME NEW m \in Messages PROVE copies[m] \in 0..MaxAttempts
    <3>1. Cardinality(Unsent(m)) \in Nat
      <4>1. Unsent(m) \subseteq Workers
        BY DEF Unsent
      <4> QED BY <4>1, FS_Subset, FS_CardinalityType, OutboxAssumption
    <3>2. outbox[m].attempts <= MaxAttempts /\ outbox[m].attempts \in Nat
      BY AttemptsAreNumbers DEF IInv, Local, Typed
    <3> QED BY <3>1, <3>2, Counted, AttemptsAreNumbers
  <2> QED BY <2>1 DEF IInv, Local, Typed, TypeOK
<1> QED BY <1>1, Invariance, PTL

\* Mails are counted before they leave, and what a row says of them is true,
\* whatever crashes, failed records and lost locks come in between.
THEOREM RowsTrue == Spec => []RowsAreTrue
<1>1. IInv => RowsAreTrue
  BY DEF IInv, Local, RowsAreTrue
<1> QED BY <1>1, Invariance, PTL

\* A recipient gets one mail, and one more for each fault or lost lock at most.
THEOREM RepeatsCost == Spec => []RepeatsTakeFaults
<1>1. IInv => RepeatsTakeFaults
  <2> SUFFICES ASSUME IInv, NEW m \in Messages PROVE copies[m] <= 1 + faults + losses
    BY DEF RepeatsTakeFaults
  <2>1. Cardinality(Repeaters(m)) \in Nat
    <3>1. Repeaters(m) \subseteq Workers
      BY DEF Repeaters
    <3> QED BY <3>1, FS_Subset, FS_CardinalityType, OutboxAssumption
  <2> QED BY <2>1, Counted
<1> QED BY <1>1, Invariance, PTL
=============================================================================
