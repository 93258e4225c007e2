------------------------------- MODULE Outbox -------------------------------
(***************************************************************************)
(* The e-mail outbox: rows enqueued by business transactions, delivered by *)
(* the background job of whichever server holds the scheduler's lock       *)
(* (backend/src/modules/operations/background-jobs.service.ts).            *)
(*                                                                         *)
(* A delivery claims a batch in one transaction, then sends and records    *)
(* message by message without one.  The server may die in between, a       *)
(* record may fail, a mail server may accept a mail whose answer is lost,  *)
(* and the connection that holds the lock may drop while the delivery goes *)
(* on over the others.                                                     *)
(***************************************************************************)
EXTENDS Integers, FiniteSets

CONSTANTS
    Messages,       \* deduplication keys
    Workers,        \* server processes
    NoWorker,
    MaxAttempts,    \* max_attempts
    BatchSize,      \* EMAIL_OUTBOX_BATCH_SIZE
    MaxFaults,      \* bound on crashes, failed records and lost answers
    MaxLosses       \* bound on lost locks

ASSUME OutboxAssumption ==
    /\ NoWorker \notin Workers /\ IsFiniteSet(Workers)
    /\ {MaxAttempts, BatchSize} \subseteq Nat \ {0}
    /\ {MaxFaults, MaxLosses} \subseteq Nat

VARIABLES
    outbox,     \* outbox[m]: row of email_outbox
    copies,     \* copies[m]: mails that left, no column
    lock,       \* the worker whose session has the advisory lock
    step,       \* step[w]: where a worker is in its cycle
    claimed,    \* claimed[w][m]: attempts of m when w claimed it, 0 once handled
    mail,       \* mail[w]: what sending a message of its batch came to
    faults, losses

vars == <<outbox, copies, lock, step, claimed, mail, faults, losses>>

Status == {"NONE", "PENDING", "PROCESSING", "SENT", "FAILED"}

\* ready: next_attempt_at is past.  stale: processing_started_at is more than
\* fifteen minutes past.
Row == [status : Status, attempts : 0..MaxAttempts, ready : BOOLEAN, stale : BOOLEAN]

NoMail == [outcome |-> "NONE"]
Mail == {NoMail} \cup [outcome : {"SENT", "ERROR"}, message : Messages]

Todo(w) == {m \in Messages : claimed[w][m] > 0}
NoClaims == [m \in Messages |-> 0]

Init ==
    /\ outbox = [m \in Messages |->
          [status |-> "NONE", attempts |-> 0, ready |-> FALSE, stale |-> FALSE]]
    /\ copies = [m \in Messages |-> 0]
    /\ lock = NoWorker
    /\ step = [w \in Workers |-> "IDLE"]
    /\ claimed = [w \in Workers |-> NoClaims]
    /\ mail = [w \in Workers |-> NoMail]
    /\ faults = 0
    /\ losses = 0
-----------------------------------------------------------------------------
\* In the transaction of the invoice, reading or proof it tells of; a key that
\* is there already is left alone.
Enqueue(m) ==
    /\ outbox[m].status = "NONE"
    /\ outbox' = [outbox EXCEPT ![m] =
          [status |-> "PENDING", attempts |-> 0, ready |-> TRUE, stale |-> FALSE]]
    /\ UNCHANGED <<copies, lock, step, claimed, mail, faults, losses>>

StartCycle(w) ==
    /\ step[w] = "IDLE"
    /\ lock = NoWorker
    /\ lock' = w
    /\ step' = [step EXCEPT ![w] = "CLAIM"]
    /\ UNCHANGED <<outbox, copies, claimed, mail, faults, losses>>

Recovered_Retried(row) ==
    IF row.status = "PROCESSING" /\ row.stale
    THEN [row EXCEPT !.status = "PENDING", !.ready = TRUE, !.stale = FALSE]
    ELSE row

Recovered_Refunded(row) ==
    IF row.status = "PROCESSING" /\ row.stale
    THEN [row EXCEPT !.status = IF row.attempts >= MaxAttempts THEN "FAILED" ELSE "PENDING",
                     !.attempts = @ - 1, !.ready = TRUE, !.stale = FALSE]
    ELSE row

\* A claim that is stale is given up.
Recovered(row) ==
    IF row.status = "PROCESSING" /\ row.stale
    THEN [row EXCEPT !.status = IF row.attempts >= MaxAttempts THEN "FAILED" ELSE "PENDING",
                     !.ready = TRUE, !.stale = FALSE]
    ELSE row

Due_Settled(row) ==
    /\ row.status \in {"PENDING", "SENT"}
    /\ row.attempts < MaxAttempts
    /\ row.ready

Due_Unbounded(row) == row.status = "PENDING" /\ row.ready

Due(row) ==
    /\ row.status = "PENDING"
    /\ row.attempts < MaxAttempts
    /\ row.ready

Claim(row) == [row EXCEPT !.status = "PROCESSING", !.attempts = @ + 1, !.stale = FALSE]

\* One transaction: recovery of stale claims, then the oldest due rows, in
\* whatever order they became due.
ClaimBatch(w) ==
    LET rows == [m \in Messages |-> Recovered(outbox[m])]
        due == {m \in Messages : Due(rows[m])}
    IN  /\ step[w] = "CLAIM"
        /\ \E batch \in SUBSET due :
              /\ \/ batch = due /\ Cardinality(due) <= BatchSize
                 \/ Cardinality(batch) = BatchSize
              /\ outbox' = [m \in Messages |-> IF m \in batch THEN Claim(rows[m]) ELSE rows[m]]
              /\ claimed' = [claimed EXCEPT ![w] =
                    [m \in Messages |-> IF m \in batch THEN rows[m].attempts + 1 ELSE 0]]
        /\ step' = [step EXCEPT ![w] = "DELIVER"]
        /\ UNCHANGED <<copies, lock, mail, faults, losses>>

Deliver(w, m) ==
    /\ step[w] = "DELIVER" /\ mail[w] = NoMail
    /\ m \in Todo(w)
    /\ \E outcome \in {"SENT", "ERROR"} :
          /\ mail' = [mail EXCEPT ![w] = [outcome |-> outcome, message |-> m]]
          /\ copies' = IF outcome = "SENT" THEN [copies EXCEPT ![m] = @ + 1] ELSE copies
    /\ UNCHANGED <<outbox, lock, step, claimed, faults, losses>>

\* The update of a message's row, if the row is still being processed, whoever
\* claimed it last.
RecordSent(m) ==
    outbox' = IF outbox[m].status # "PROCESSING" THEN outbox
              ELSE [outbox EXCEPT ![m].status = "SENT", ![m].stale = FALSE]

RecordError_Early(m, attempts) ==
    outbox' = IF outbox[m].status # "PROCESSING" THEN outbox
              ELSE [outbox EXCEPT ![m].status = "FAILED", ![m].ready = FALSE, ![m].stale = FALSE]

RecordError(m, attempts) ==
    outbox' = IF outbox[m].status # "PROCESSING" THEN outbox
              ELSE [outbox EXCEPT
                       ![m].status = IF attempts >= MaxAttempts THEN "FAILED" ELSE "PENDING",
                       ![m].ready = FALSE, ![m].stale = FALSE]

Record(w) ==
    /\ mail[w] # NoMail
    /\ LET m == mail[w].message
       IN  /\ IF mail[w].outcome = "SENT" THEN RecordSent(m) ELSE RecordError(m, claimed[w][m])
           /\ claimed' = [claimed EXCEPT ![w][m] = 0]
    /\ mail' = [mail EXCEPT ![w] = NoMail]
    /\ UNCHANGED <<copies, lock, step, faults, losses>>

Release(w) == lock' = IF lock = w THEN NoWorker ELSE lock

EndCycle(w) ==
    /\ step[w] = "DELIVER" /\ mail[w] = NoMail /\ Todo(w) = {}
    /\ step' = [step EXCEPT ![w] = "IDLE"]
    /\ Release(w)
    /\ UNCHANGED <<outbox, copies, claimed, mail, faults, losses>>
-----------------------------------------------------------------------------
(* Time. *)

RetryDue(m) ==
    /\ outbox[m].status = "PENDING" /\ ~outbox[m].ready
    /\ outbox' = [outbox EXCEPT ![m].ready = TRUE]
    /\ UNCHANGED <<copies, lock, step, claimed, mail, faults, losses>>

ClaimAges(m) ==
    /\ outbox[m].status = "PROCESSING" /\ ~outbox[m].stale
    /\ outbox' = [outbox EXCEPT ![m].stale = TRUE]
    /\ UNCHANGED <<copies, lock, step, claimed, mail, faults, losses>>
-----------------------------------------------------------------------------
(* Faults. *)

Fault == faults < MaxFaults /\ faults' = faults + 1 /\ UNCHANGED losses

\* The worker's cycle is over with its batch unhandled.
Abandon(w) ==
    /\ step' = [step EXCEPT ![w] = "IDLE"]
    /\ claimed' = [claimed EXCEPT ![w] = NoClaims]
    /\ mail' = [mail EXCEPT ![w] = NoMail]
    /\ Release(w)
    /\ UNCHANGED <<outbox, copies>>

\* The process dies and restarts; its session, and with it the lock, is gone.
Crash(w) ==
    /\ Fault
    /\ step[w] # "IDLE"
    /\ Abandon(w)

\* Recording a mail fails and is taken for a failed delivery; when recording
\* the failure fails too, the exception ends the job.
RecordFails(w) ==
    /\ Fault
    /\ \/ /\ mail[w].outcome = "SENT"
          /\ mail' = [mail EXCEPT ![w].outcome = "ERROR"]
          /\ UNCHANGED <<outbox, copies, lock, step, claimed>>
       \/ /\ mail[w].outcome = "ERROR"
          /\ Abandon(w)

\* The mail server takes the mail and its answer is lost.
AnswerLost(w, m) ==
    /\ Fault
    /\ step[w] = "DELIVER" /\ mail[w] = NoMail
    /\ m \in Todo(w)
    /\ mail' = [mail EXCEPT ![w] = [outcome |-> "ERROR", message |-> m]]
    /\ copies' = [copies EXCEPT ![m] = @ + 1]
    /\ UNCHANGED <<outbox, lock, step, claimed>>

\* The session with the lock drops while its worker goes on.
LoseLock(w) ==
    /\ losses < MaxLosses
    /\ losses' = losses + 1
    /\ lock = w
    /\ lock' = NoWorker
    /\ UNCHANGED <<outbox, copies, step, claimed, mail, faults>>
-----------------------------------------------------------------------------
Cycle(w) ==
    \/ ClaimBatch(w)
    \/ \E m \in Messages : Deliver(w, m)
    \/ Record(w)
    \/ EndCycle(w)

Next ==
    \/ \E m \in Messages : Enqueue(m) \/ RetryDue(m) \/ ClaimAges(m)
    \/ \E w \in Workers : StartCycle(w) \/ Cycle(w) \/ Crash(w) \/ RecordFails(w) \/ LoseLock(w)
    \/ \E w \in Workers, m \in Messages : AnswerLost(w, m)

\* Every server polls by a timer, a cycle that is under way goes on, time
\* passes.  Nobody has to enqueue anything and no fault has to happen.
Fairness ==
    /\ WF_vars(\E w \in Workers : StartCycle(w))
    /\ \A w \in Workers : WF_vars(Cycle(w))
    /\ \A m \in Messages : WF_vars(RetryDue(m)) /\ WF_vars(ClaimAges(m))

Spec == Init /\ [][Next]_vars /\ Fairness
-----------------------------------------------------------------------------
(* Properties. *)

(***************************************************************************)
(* The rows' columns and checks, among them attempts <= max_attempts       *)
(* (ck_email_outbox_attempts), and the workers' local state.               *)
(***************************************************************************)
TypeOK ==
    /\ outbox \in [Messages -> Row]
    /\ copies \in [Messages -> 0..MaxAttempts]
    /\ lock \in Workers \cup {NoWorker}
    /\ step \in [Workers -> {"IDLE", "CLAIM", "DELIVER"}]
    /\ claimed \in [Workers -> [Messages -> 0..MaxAttempts]]
    /\ mail \in [Workers -> Mail]
    /\ faults \in 0..MaxFaults
    /\ losses \in 0..MaxLosses

\* Workers that have claimed m and not yet tried it.
Unsent(m) == {w \in Workers : m \in Todo(w) /\ (mail[w] # NoMail => mail[w].message # m)}

(***************************************************************************)
(* Every mail that leaves was counted as an attempt before, and so is      *)
(* every one still to leave: no order of crashes, retries and late workers *)
(* sends more mails than max_attempts.                                     *)
(***************************************************************************)
AttemptsCounted ==
    \A m \in Messages : copies[m] + Cardinality(Unsent(m)) <= outbox[m].attempts

(***************************************************************************)
(* A row that says SENT stands for a mail that left; a row that says       *)
(* FAILED had all its attempts.                                            *)
(***************************************************************************)
OutcomeIsTrue ==
    \A m \in Messages :
        /\ outbox[m].status = "SENT" => copies[m] > 0
        /\ outbox[m].status = "FAILED" => outbox[m].attempts = MaxAttempts

(***************************************************************************)
(* What the rows say of the mails is true, in both directions.             *)
(***************************************************************************)
RowsAreTrue == AttemptsCounted /\ OutcomeIsTrue

(***************************************************************************)
(* A recipient gets a mail twice only if something went wrong, and each    *)
(* fault or lost lock costs at most one more copy of a message.            *)
(***************************************************************************)
RepeatsTakeFaults == \A m \in Messages : copies[m] <= 1 + faults + losses

Settled(m) == outbox[m].status \in {"SENT", "FAILED"}

(***************************************************************************)
(* Whatever is enqueued is sent or given up in the end, across crashes,    *)
(* failed records and lost answers (docs/background-jobs.md), as long as   *)
(* no lock is lost.                                                        *)
(***************************************************************************)
SettlesUnderLock ==
    \A m \in Messages : outbox[m].status = "PENDING" ~> Settled(m) \/ losses > 0
=============================================================================
