------------------------------ MODULE JobRuns -------------------------------
(***************************************************************************)
(* The scheduler every server process has                                  *)
(* (backend/src/modules/operations/background-jobs.service.ts): a cycle    *)
(* takes an advisory lock and runs each job once per bucket of time, which *)
(* a row of background_job_run stands for.  Outbox has the work of one of  *)
(* the jobs; here a job is only begun and completed.                       *)
(***************************************************************************)
EXTENDS Integers, FiniteSets

CONSTANTS
    Workers,
    Intervals,      \* the jobs, each named by its interval
    MaxTime,        \* bound on the clock
    MaxFaults,      \* bound on crashes, failed records and lost locks
    None

JobRunsAssumption ==
    /\ Intervals \subseteq Nat \ {0} /\ MaxTime \in Nat /\ MaxFaults \in Nat
    /\ None \notin Workers /\ None \notin Intervals \X Int

VARIABLES
    clock,
    lock,       \* who holds the scheduler's advisory lock
    worker,     \* worker[w]: whether a cycle is under way, its "now", the jobs
                \* it has yet to do, and the job and bucket it is in
    runs,       \* runs[j, b]: the row of a job and a bucket
    done,       \* done[j, b]: how often the job completed, which no column says
    faults      \* what has gone wrong so far

vars == <<clock, lock, worker, runs, done, faults>>

\* Rounded down to the interval.
GetScheduleBucket(now, j) == (now \div j) * j

Buckets == {<<j, GetScheduleBucket(t, j)>> : j \in Intervals, t \in 0..MaxTime}

\* "old": started over two hours ago.
NoRow == [status |-> "NONE", old |-> FALSE]
Idle == [cycle |-> FALSE, now |-> 0, todo |-> {}, job |-> None]

Init ==
    /\ clock = 0 /\ lock = None
    /\ worker = [w \in Workers |-> Idle]
    /\ runs = [b \in Buckets |-> NoRow]
    /\ done = [b \in Buckets |-> 0]
    /\ faults = {}

\* One fault of a kind is enough to be in what it explains.
Fault(kind) ==
    /\ Cardinality(faults \cup {kind}) <= MaxFaults
    /\ faults' = faults \cup {kind}
-----------------------------------------------------------------------------
\* Mutant: any row that runs is taken for one nobody is on.
Recovered_Young == [b \in Buckets |-> IF runs[b].status = "RUNNING"
                                      THEN [runs[b] EXCEPT !.status = "FAILED"] ELSE runs[b]]

\* recoverStaleJobRuns
Recovered == [b \in Buckets |-> IF runs[b].status = "RUNNING" /\ runs[b].old
                                THEN [runs[b] EXCEPT !.status = "FAILED"] ELSE runs[b]]

\* A process has one cycle at a time, and "now" is when it asked for a connection.
BeginCycle(w, now) ==
    /\ ~worker[w].cycle /\ lock = None /\ now <= clock
    /\ lock' = w
    /\ worker' = [worker EXCEPT ![w] = [cycle |-> TRUE, now |-> now, todo |-> Intervals, job |-> None]]
    /\ runs' = Recovered
    /\ UNCHANGED <<clock, done, faults>>

Between(w) == worker[w].cycle /\ worker[w].job = None
Bucket(w, j) == <<j, GetScheduleBucket(worker[w].now, j)>>

\* The jobs have a fixed order, which here is that of their intervals.
IsNext(w, j) == j \in worker[w].todo /\ \A k \in worker[w].todo : j <= k

\* The insert returns no row: the bucket was taken.
SkipJob(w, j) ==
    /\ Between(w) /\ IsNext(w, j) /\ runs[Bucket(w, j)].status # "NONE"
    /\ worker' = [worker EXCEPT ![w].todo = @ \ {j}]
    /\ UNCHANGED <<clock, lock, runs, done, faults>>

InsertRun(w, j) ==
    /\ Between(w) /\ IsNext(w, j) /\ runs[Bucket(w, j)].status = "NONE"
    /\ runs' = [runs EXCEPT ![Bucket(w, j)].status = "RUNNING"]
    /\ worker' = [worker EXCEPT ![w].todo = @ \ {j}, ![w].job = Bucket(w, j)]
    /\ UNCHANGED <<clock, lock, done, faults>>

Running(w) == worker[w].cycle /\ worker[w].job # None
Leaves(w) == worker' = [worker EXCEPT ![w].job = None]

\* Only a row that still runs is written.
RecordedAs(w, s) ==
    [runs EXCEPT ![worker[w].job].status = IF @ = "RUNNING" THEN s ELSE @]

JobSucceeds(w) ==
    /\ Running(w)
    /\ done' = [done EXCEPT ![worker[w].job] = @ + 1]
    /\ runs' = RecordedAs(w, "SUCCEEDED")
    /\ Leaves(w)
    /\ UNCHANGED <<clock, lock, faults>>

JobFails(w) ==
    /\ Running(w)
    /\ runs' = RecordedAs(w, "FAILED")
    /\ Leaves(w)
    /\ UNCHANGED <<clock, lock, done, faults>>

\* The job is done, its record fails, and the catch records a failure.
RecordFails(w) ==
    /\ Running(w) /\ Fault("RECORD")
    /\ done' = [done EXCEPT ![worker[w].job] = @ + 1]
    /\ runs' = RecordedAs(w, "FAILED")
    /\ Leaves(w)
    /\ UNCHANGED <<clock, lock>>

Freed(w) == IF lock = w THEN None ELSE lock

EndCycle(w) ==
    /\ Between(w) /\ worker[w].todo = {}
    /\ lock' = Freed(w)
    /\ worker' = [worker EXCEPT ![w] = Idle]
    /\ UNCHANGED <<clock, runs, done, faults>>

\* The process dies, or no record can be written: the row stays as it is, of a
\* job that is done or is not.
Crash(w) ==
    /\ worker[w].cycle /\ Fault("CRASH")
    /\ lock' = Freed(w)
    /\ worker' = [worker EXCEPT ![w] = Idle]
    /\ \/ UNCHANGED done
       \/ Running(w) /\ done' = [done EXCEPT ![worker[w].job] = @ + 1]
    /\ UNCHANGED <<clock, runs>>

\* The connection with the lock is gone and the cycle goes on.
LoseLock(w) ==
    /\ lock = w /\ Fault("LOCK")
    /\ lock' = None
    /\ UNCHANGED <<clock, worker, runs, done>>

Tick ==
    /\ clock < MaxTime
    /\ clock' = clock + 1
    /\ UNCHANGED <<lock, worker, runs, done, faults>>

RunAges(b) ==
    /\ runs[b].status = "RUNNING" /\ ~runs[b].old
    /\ runs' = [runs EXCEPT ![b].old = TRUE]
    /\ UNCHANGED <<clock, lock, worker, done, faults>>

Next ==
    \/ \E w \in Workers :
          \/ \E now \in 0..MaxTime : BeginCycle(w, now)
          \/ EndCycle(w) \/ Crash(w) \/ LoseLock(w)
          \/ \E j \in Intervals : SkipJob(w, j) \/ InsertRun(w, j)
          \/ JobSucceeds(w) \/ JobFails(w) \/ RecordFails(w)
    \/ \E b \in Buckets : RunAges(b)
    \/ Tick

Spec == Init /\ [][Next]_vars
-----------------------------------------------------------------------------
(* Properties. *)

TypeOK ==
    /\ clock \in 0..MaxTime /\ lock \in Workers \cup {None}
    /\ worker \in [Workers -> [cycle : BOOLEAN, now : 0..MaxTime, todo : SUBSET Intervals,
                               job : Buckets \cup {None}]]
    /\ runs \in [Buckets -> [status : {"NONE", "RUNNING", "SUCCEEDED", "FAILED"}, old : BOOLEAN]]
    /\ done \in [Buckets -> Nat]
    /\ faults \subseteq {"RECORD", "CRASH", "LOCK"}

\* Another cycle began although this job was still going on, two hours later.
Overtaken(b) == "LOCK" \in faults /\ runs[b].old

(***************************************************************************)
(* What the rows of background_job_run tell an operator.  A job completes  *)
(* once per bucket at most, whatever is lost; one that succeeded is done.  *)
(* A row that failed is of a job that is done only if its record failed or *)
(* a crash came before it, and of one still going on only if a lock was    *)
(* lost and the job took over two hours.  A row that runs with nobody on   *)
(* it was left by a crash, and two jobs run at a time only after a lost    *)
(* lock.                                                                   *)
(***************************************************************************)
RunsAreTrue ==
    /\ \A b \in Buckets :
          /\ done[b] <= 1
          /\ runs[b].status = "SUCCEEDED" => done[b] = 1
          /\ runs[b].status = "FAILED" /\ done[b] = 1 =>
                faults \cap {"RECORD", "CRASH"} # {} \/ Overtaken(b)
          /\ \A w \in Workers : worker[w].job = b /\ runs[b].status # "RUNNING" => Overtaken(b)
          /\ runs[b].status = "RUNNING" => \/ \E w \in Workers : worker[w].job = b
                                           \/ "CRASH" \in faults
    /\ \A v, w \in Workers : Running(v) /\ Running(w) /\ v # w => "LOCK" \in faults
=============================================================================
