-------------------------- MODULE Documents_proofs --------------------------
(***************************************************************************)
(* Proofs about Documents, for any rows, files, calls and workers and any  *)
(* number of attempts and faults.                                          *)
(***************************************************************************)
EXTENDS Documents, FiniteSetTheorems, TLAPS

Request ==
    [step : {"WRITE"}, file : Uploads \cup {NoFile}, replaces : BOOLEAN, locked : SUBSET TenantDocs]
Run == [step : Step, action : Action, doc : Docs]
-----------------------------------------------------------------------------
(* The inductive invariant. *)

\* Attempts leave room for the next one until the last has failed.
JobSound(j) ==
    /\ j.status = "NONE" <=> j.file = NoFile
    /\ j.status = "PENDING" => j.attempts = 0
    /\ j.status = "RETRY" => j.attempts < MaxAttempts

Typed ==
    /\ TypeOK
    /\ \A a \in Action, d \in Docs : JobSound(job[a][d])

\* A row, a job for it or what was read of it says that file f is delivered so.
Says(d, f, how) ==
    \/ doc[d].file = f /\ doc[d].delivery = how
    \/ \E a \in Action : job[a][d].file = f /\ job[a][d].delivery = how
    \/ \E row \in Row : <<d, row>> \in scan /\ row.file = f /\ row.delivery = how

\* They all speak of one file, and of one that was public they are alone to.
OneFile ==
    \A d \in Docs, f \in Files, how \in Delivery : Says(d, f, how) =>
        /\ \A g \in Files, too \in Delivery : Says(d, g, too) => f = g
        /\ f \in LegacyFiles => \A e \in Docs, too \in Delivery : Says(e, f, too) => d = e

\* What is said to be authenticated is, until it is deleted; only old files are public.
Delivered ==
    /\ \A d \in Docs, f \in Files :
          /\ Says(d, f, "upload") => f \in LegacyFiles
          /\ Says(d, f, "authenticated") => store[f] \in {"authenticated", "GONE"}
    /\ \A f \in LegacyFiles : store[f] # "NEW"
    /\ \A f \in Uploads : store[f] # "upload"
    /\ \A r \in Requests : request[r] # Idle /\ request[r].file # NoFile => store[request[r].file] # "NEW"

\* What a row's status says of its file and of its deletion.
RowSound ==
    \A d \in Docs :
        /\ doc[d].status = "NONE" => \A f \in Files, how \in Delivery : ~Says(d, f, how)
        /\ doc[d].status = "LIVE" => doc[d].file # NoFile /\ job["DELETE"][d].status = "NONE"
        /\ doc[d].status \in {"PURGED", "DELETED"} => job["DELETE"][d].file # NoFile

\* A job of which a run is under way is in progress, and the run is the only one.
OneRun ==
    /\ \A w \in Workers : worker[w] # Idle => JobOf(w).status = "PROCESSING"
    /\ \A v, w \in Workers :
          worker[v] # Idle /\ worker[w] # Idle /\ worker[v].action = worker[w].action
              /\ worker[v].doc = worker[w].doc => v = w
    /\ \A a \in Action, d \in Docs : job[a][d].status = "PROCESSING" =>
          faults > 0 \/ \E w \in Workers : Runs(w, a, d)

\* How far a run is and what it has done.
RunSound(w) ==
    worker[w] # Idle =>
        LET j == JobOf(w)
            d == worker[w].doc
        IN  /\ worker[w].step \in {"WRITE", "REWRITE", "LOOKUP"} => worker[w].action = "MIGRATE"
            /\ worker[w].step \in {"WRITE", "REWRITE"} => store[j.file] # "upload"
            /\ worker[w].step = "OK" /\ worker[w].action = "MIGRATE" =>
                  ~Exists(d) \/ doc[d].delivery = "authenticated"
            /\ worker[w].step = "OK" /\ worker[w].action = "DELETE" =>
                  store[j.file] = "GONE" \/ (j.delivery = "upload" /\ store[j.file] = "authenticated")
            /\ worker[w].step = "ERROR" /\ worker[w].action = "MIGRATE" =>
                  faults > 0 \/ store[j.file] # "authenticated"

\* A file is gone for a deletion that was asked for.
GoneHasCause == \A f \in Files : store[f] = "GONE" => \E e \in Docs : DeletedFor(e, f)

\* A deletion that completed has deleted the file, or looked for it in the old place.
DeletionSound ==
    \A d \in Docs : job["DELETE"][d].status = "COMPLETED" =>
        LET j == job["DELETE"][d]
        IN  store[j.file] = "GONE" \/ (j.delivery = "upload" /\ store[j.file] = "authenticated")

IInv ==
    /\ Typed /\ OneFile /\ Delivered /\ RowSound /\ OneRun /\ GoneHasCause /\ DeletionSound
    /\ \A w \in Workers : RunSound(w)
    /\ UndeliverableIsMoving
-----------------------------------------------------------------------------
(* Jobs and runs. *)

LEMMA RowsTyped ==
  ASSUME Typed, NEW d \in Docs
  PROVE  /\ doc[d] \in Row
         /\ \A a \in Action : job[a][d] \in Job /\ JobSound(job[a][d])
         /\ "DELETE" \in Action /\ "MIGRATE" \in Action
BY DEF Typed, TypeOK, Action

\* Whoever speaks of a file by a job speaks of it.
LEMMA JobSays ==
  ASSUME Typed, NEW a \in Action, NEW d \in Docs, job[a][d].status # "NONE"
  PROVE  /\ job[a][d].file \in Files /\ job[a][d].delivery \in Delivery
         /\ Says(d, job[a][d].file, job[a][d].delivery)
<1>1. job[a][d] \in Job /\ JobSound(job[a][d])
  BY RowsTyped
<1>2. job[a][d].file \in Files /\ job[a][d].delivery \in Delivery
  BY <1>1 DEF Job, JobSound
<1> QED BY <1>2 DEF Says

LEMMA RunFacts ==
  ASSUME IInv, NEW w \in Workers, worker[w] # Idle
  PROVE  /\ worker[w] \in Run /\ worker[w].action \in Action /\ worker[w].doc \in Docs
         /\ JobOf(w) \in Job /\ JobOf(w).status = "PROCESSING"
         /\ JobOf(w).file \in Files /\ JobOf(w).delivery \in Delivery
         /\ Says(worker[w].doc, JobOf(w).file, JobOf(w).delivery)
         /\ doc[worker[w].doc].status # "NONE"
<1>1. worker[w] \in Run /\ worker[w].action \in Action /\ worker[w].doc \in Docs
  BY DEF IInv, Typed, TypeOK, Run
<1>2. JobOf(w).status = "PROCESSING" /\ JobOf(w) \in Job
  BY <1>1 DEF IInv, OneRun, Typed, TypeOK, JobOf
<1>3. /\ JobOf(w).file \in Files /\ JobOf(w).delivery \in Delivery
      /\ Says(worker[w].doc, JobOf(w).file, JobOf(w).delivery)
  BY <1>1, <1>2, JobSays DEF IInv, JobOf
<1>4. doc[worker[w].doc].status # "NONE"
  BY <1>1, <1>3 DEF IInv, RowSound
<1> QED BY <1>1, <1>2, <1>3, <1>4
-----------------------------------------------------------------------------
(* What a step may say of files that was not said before. *)

\* The store never takes a file back to where it was.
Forward ==
    \A f \in Files :
        \/ store'[f] = store[f]
        \/ store[f] = "NEW" /\ store'[f] = "authenticated"
        \/ store[f] = "upload" /\ store'[f] \in {"authenticated", "GONE"}
        \/ store[f] = "authenticated" /\ store'[f] = "GONE"

\* It was said before, or the file was moved, or a new row was given it.
Told(d, f, how) ==
    \/ Says(d, f, how)
    \/ how = "authenticated" /\ Says(d, f, "upload") /\ store[f] # "upload"
    \/ /\ how = "authenticated" /\ f \in Uploads /\ store[f] # "NEW"
       /\ doc[d].status = "NONE" /\ doc'[d].file = f

LEMMA ToldKeeps ==
  ASSUME IInv, Forward,
         \A d \in Docs, f \in Files, how \in Delivery : Says(d, f, how)' => Told(d, f, how),
         \A r \in Requests : request'[r] # Idle /\ request'[r].file # NoFile =>
            \/ request'[r] = request[r]
            \/ store[request'[r].file] # "NEW",
         TypeOK'
  PROVE  OneFile' /\ Delivered'
<1>1. OneFile /\ Delivered /\ RowSound
  BY DEF IInv
<1>2. LegacyFiles \cap Uploads = {} /\ Files = LegacyFiles \cup Uploads
  BY DocumentsAssumption DEF Files
<1>3. ASSUME NEW d \in Docs, NEW f \in Files, NEW how \in Delivery, Says(d, f, how)'
      PROVE  /\ \A g \in Files, too \in Delivery : Says(d, g, too)' => f = g
             /\ f \in LegacyFiles => \A e \in Docs, too \in Delivery : Says(e, f, too)' => d = e
  <2>1. ASSUME NEW g \in Files, NEW too \in Delivery, Says(d, g, too)'
        PROVE  f = g
    <3>1. Told(d, f, how) /\ Told(d, g, too)
      BY <1>3, <2>1
    <3> QED BY <1>1, <3>1 DEF Told, OneFile, RowSound, Delivery
  <2>2. ASSUME f \in LegacyFiles, NEW e \in Docs, NEW too \in Delivery, Says(e, f, too)'
        PROVE  d = e
    <3>1. Told(d, f, how) /\ Told(e, f, too)
      BY <1>3, <2>2
    <3> QED BY <1>1, <1>2, <2>2, <3>1 DEF Told, OneFile, Delivery
  <2> QED BY <2>1, <2>2
<1>4. ASSUME NEW d \in Docs, NEW f \in Files
      PROVE  /\ Says(d, f, "upload")' => f \in LegacyFiles
             /\ Says(d, f, "authenticated")' => store'[f] \in {"authenticated", "GONE"}
  <2>1. "upload" \in Delivery /\ "authenticated" \in Delivery
    BY DEF Delivery
  <2>2. Says(d, f, "upload")' => f \in LegacyFiles
    BY <1>1, <2>1 DEF Told, Delivered
  <2>3. Told(d, f, "authenticated") => store[f] \in {"authenticated", "GONE"}
    <3>1. store[f] \in Delivery \cup {"NEW", "GONE"}
      BY DEF IInv, Typed, TypeOK
    <3> QED BY <1>1, <1>2, <3>1 DEF Told, Delivered, Delivery
  <2>4. store[f] \in {"authenticated", "GONE"} => store'[f] \in {"authenticated", "GONE"}
    BY DEF Forward
  <2> QED BY <2>1, <2>2, <2>3, <2>4
<1>5. /\ \A f \in LegacyFiles : store'[f] # "NEW"
      /\ \A f \in Uploads : store'[f] # "upload"
  BY <1>1, <1>2 DEF Forward, Delivered
<1>6. ASSUME NEW r \in Requests, request'[r] # Idle, request'[r].file # NoFile
      PROVE  store'[request'[r].file] # "NEW"
  <2>1. request'[r].file \in Files
    BY <1>6 DEF TypeOK, Files
  <2>2. store[request'[r].file] # "NEW"
    BY <1>1, <1>6 DEF Delivered
  <2> QED BY <2>1, <2>2 DEF Forward
<1>7. OneFile'
  BY <1>3 DEF OneFile
<1>8. Delivered'
  BY <1>4, <1>5, <1>6 DEF Delivered
<1> QED BY <1>7, <1>8
-----------------------------------------------------------------------------
(* Rows are deleted, purged and added. *)

PendingJob(row) ==
    [status |-> "PENDING", attempts |-> 0, file |-> row.file, delivery |-> row.delivery]

LEMMA DeletionsFacts ==
  ASSUME Typed, NEW ds \in SUBSET Docs,
         \A d \in ds : doc[d].file # NoFile,
         job' = DeletionsEnqueued(ds)
  PROVE  /\ job' \in [Action -> [Docs -> Job]]
         /\ job'["MIGRATE"] = job["MIGRATE"]
         /\ \A d \in Docs \ ds : job'["DELETE"][d] = job["DELETE"][d]
         /\ \A d \in ds : job'["DELETE"][d] = IF ActiveJob(job["DELETE"][d]) THEN job["DELETE"][d]
                                               ELSE PendingJob(doc[d])
<1>1. job \in [Action -> [Docs -> Job]] /\ "DELETE" \in Action /\ "MIGRATE" \in Action
  BY DEF Typed, TypeOK, Action
<1> DEFINE new == [d \in Docs |->
        IF d \in ds THEN Enqueued(job, "DELETE", d, doc[d])["DELETE"][d] ELSE job["DELETE"][d]]
<1>2. job' = [job EXCEPT !["DELETE"] = new]
  BY <1>1 DEF DeletionsEnqueued
<1>3. ASSUME NEW d \in ds
      PROVE  /\ PendingJob(doc[d]) \in Job
             /\ Enqueued(job, "DELETE", d, doc[d])["DELETE"][d] =
                   IF ActiveJob(job["DELETE"][d]) THEN job["DELETE"][d] ELSE PendingJob(doc[d])
  <2>1. PendingJob(doc[d]) \in Job
    <3>1. doc[d] \in Row
      BY RowsTyped
    <3> QED BY <3>1, DocumentsAssumption DEF PendingJob, Job, JobStatus, Row
  <2>2. Enqueued(job, "DELETE", d, doc[d]) =
           IF ActiveJob(job["DELETE"][d]) THEN job ELSE [job EXCEPT !["DELETE"][d] = PendingJob(doc[d])]
    BY DEF Enqueued, PendingJob
  <2> QED BY <1>1, <2>1, <2>2
<1>4. \A d \in Docs : new[d] = IF d \in ds THEN IF ActiveJob(job["DELETE"][d]) THEN job["DELETE"][d]
                                             ELSE PendingJob(doc[d])
                                ELSE job["DELETE"][d]
  BY <1>3
<1>5. new \in [Docs -> Job]
  <2>1. \A d \in Docs : new[d] \in Job
    <3> HIDE DEF new
    <3> QED BY <1>1, <1>3, <1>4
  <2> QED BY <2>1
<1> HIDE DEF new
<1> QED BY <1>1, <1>2, <1>4, <1>5

\* What becomes of a row of ds, and of the others.
RowStep(ds, d) ==
    \/ /\ d \in ds /\ Exists(d) /\ doc[d].file # NoFile
       /\ doc'[d].status = "DELETED" /\ doc'[d].file = doc[d].file /\ doc'[d].delivery = doc[d].delivery
    \/ /\ d \in ds /\ doc[d].status = "LIVE" /\ doc[d].file # NoFile
       /\ doc'[d].status = "PURGED" /\ doc'[d].file = NoFile /\ doc'[d].delivery = doc[d].delivery
    \/ d \notin ds /\ doc'[d] = doc[d]
    \/ /\ d \notin ds /\ doc[d].status = "NONE"
       /\ \E f \in Uploads : store[f] # "NEW" /\ doc'[d] = Attached(f)

LEMMA RowsStep ==
  ASSUME IInv, TypeOK', NEW ds \in SUBSET Docs,
         \A d \in Docs : RowStep(ds, d),
         job' = DeletionsEnqueued(ds),
         UNCHANGED <<store, worker, scan, faults>>,
         \A r \in Requests : request'[r] # Idle => request'[r] = request[r]
  PROVE  IInv'
<1>1. /\ Typed /\ OneFile /\ Delivered /\ RowSound /\ OneRun /\ GoneHasCause /\ DeletionSound
      /\ UndeliverableIsMoving
  BY DEF IInv
<1>2. store' = store /\ worker' = worker /\ scan' = scan /\ faults' = faults
  OBVIOUS
<1>3. \A d \in ds : Exists(d) /\ doc[d].file # NoFile /\ doc[d].file \in Files /\ doc[d].delivery \in Delivery
  BY <1>1 DEF RowStep, Exists, Typed, TypeOK, Row
<1>4. /\ job'["MIGRATE"] = job["MIGRATE"]
      /\ \A d \in Docs \ ds : job'["DELETE"][d] = job["DELETE"][d]
      /\ \A d \in ds : job'["DELETE"][d] = IF ActiveJob(job["DELETE"][d]) THEN job["DELETE"][d]
                                            ELSE PendingJob(doc[d])
  BY <1>1, <1>3, DeletionsFacts
<1>5. \A a \in Action : a = "DELETE" \/ a = "MIGRATE"
  BY DEF Action
<1>6. "DELETE" \in Action /\ "MIGRATE" \in Action
  BY DEF Action
<1>0. \A a \in Action, d \in Docs :
         \/ job'[a][d] = job[a][d]
         \/ /\ a = "DELETE" /\ d \in ds /\ ~ActiveJob(job[a][d])
            /\ job'[a][d] = PendingJob(doc[d])
  <2> TAKE a \in Action, d \in Docs
  <2>1. CASE a = "MIGRATE"
    BY <1>4, <2>1
  <2>2. CASE a = "DELETE" /\ d \in ds
    BY <1>4, <2>2
  <2>3. CASE a = "DELETE" /\ d \notin ds
    BY <1>4, <2>3
  <2> QED BY <1>5, <2>1, <2>2, <2>3
<1>7. Typed'
  <2> SUFFICES ASSUME NEW a \in Action, NEW d \in Docs PROVE JobSound(job'[a][d])
    BY DEF Typed, JobSound
  <2>1. JobSound(job[a][d])
    BY <1>1, RowsTyped
  <2>2. d \in ds => JobSound(PendingJob(doc[d]))
    BY <1>3 DEF JobSound, PendingJob
  <2> QED BY <1>4, <1>5, <2>1, <2>2
\* Nothing is said of a file but what the row said, or of the file of a new row.
<1>8. ASSUME NEW d \in Docs, NEW f \in Files, NEW how \in Delivery, Says(d, f, how)'
      PROVE  Told(d, f, how)
  <2>1. CASE doc'[d].file = f /\ doc'[d].delivery = how
    <3>1. f # NoFile
      BY DocumentsAssumption
    <3>2. CASE doc[d].file = f /\ doc[d].delivery = how
      BY <3>2 DEF Told, Says
    <3>3. CASE doc[d].status = "NONE" /\ \E g \in Uploads : store[g] # "NEW" /\ doc'[d] = Attached(g)
      BY <2>1, <3>3 DEF Told, Attached
    <3> QED BY <2>1, <3>1, <3>2, <3>3 DEF RowStep
  <2>2. CASE \E a \in Action : job'[a][d].file = f /\ job'[a][d].delivery = how
    <3>1. PICK a \in Action : job'[a][d].file = f /\ job'[a][d].delivery = how
      BY <2>2
    <3>2. CASE job'[a][d] = job[a][d]
      BY <3>1, <3>2 DEF Told, Says
    <3>3. CASE d \in ds /\ job'[a][d] = PendingJob(doc[d])
      BY <3>1, <3>3 DEF Told, Says, PendingJob
    <3> QED BY <1>0, <3>2, <3>3
  <2>3. CASE \E row \in Row : <<d, row>> \in scan /\ row.file = f /\ row.delivery = how
    BY <2>3 DEF Told, Says
  <2>4. Says(d, f, how)' =>
           \/ doc'[d].file = f /\ doc'[d].delivery = how
           \/ \E a \in Action : job'[a][d].file = f /\ job'[a][d].delivery = how
           \/ \E row \in Row : <<d, row>> \in scan' /\ row.file = f /\ row.delivery = how
    BY DEF Says
  <2> QED BY <1>2, <1>8, <2>1, <2>2, <2>3, <2>4
<1>9. OneFile' /\ Delivered'
  <2>1. Forward
    BY <1>2 DEF Forward
  <2> QED BY <1>8, <2>1, ToldKeeps
<1>10. RowSound'
  <2> SUFFICES ASSUME NEW d \in Docs
               PROVE  /\ doc'[d].status = "NONE" => \A f \in Files, how \in Delivery : ~Says(d, f, how)'
                      /\ doc'[d].status = "LIVE" => doc'[d].file # NoFile /\ job'["DELETE"][d].status = "NONE"
                      /\ doc'[d].status \in {"PURGED", "DELETED"} => job'["DELETE"][d].file # NoFile
    BY DEF RowSound
  <2>1. CASE d \in ds
    <3>1. doc'[d].status \in {"PURGED", "DELETED"}
      BY <2>1 DEF RowStep
    <3>2. ActiveJob(job["DELETE"][d]) => job["DELETE"][d].file # NoFile
      BY <1>1, <1>6 DEF ActiveJob, Typed, JobSound
    <3>3. PendingJob(doc[d]).file # NoFile
      BY <1>3, <2>1 DEF PendingJob
    <3>4. job'["DELETE"][d].file # NoFile
      BY <1>4, <2>1, <3>2, <3>3
    <3> QED BY <3>1, <3>4
  <2>2. CASE d \notin ds /\ doc'[d] = doc[d]
    <3>1. \A a \in Action : job'[a][d] = job[a][d]
      BY <1>0, <2>2
    <3>2. \A f \in Files, how \in Delivery : Says(d, f, how)' => Says(d, f, how)
      BY <1>2, <2>2, <3>1 DEF Says
    <3> QED BY <1>1, <1>6, <2>2, <3>1, <3>2 DEF RowSound
  <2>3. CASE d \notin ds /\ doc[d].status = "NONE" /\ \E f \in Uploads : doc'[d] = Attached(f)
    <3>1. doc'[d].status = "LIVE" /\ doc'[d].file # NoFile
      BY <2>3, DocumentsAssumption DEF Attached, Files
    <3>2. job["DELETE"][d].status = "NONE"
      BY <1>1, <1>6, <2>3, JobSays DEF RowSound
    <3> QED BY <1>4, <2>3, <3>1, <3>2
  <2>4. \/ d \in ds
        \/ d \notin ds /\ doc'[d] = doc[d]
        \/ d \notin ds /\ doc[d].status = "NONE" /\ \E f \in Uploads : doc'[d] = Attached(f)
    BY DEF RowStep
  <2> QED BY <2>1, <2>2, <2>3, <2>4
\* A job in progress is not touched.
<1>11. \A a \in Action, d \in Docs :
          /\ job[a][d].status = "PROCESSING" => job'[a][d] = job[a][d]
          /\ job'[a][d].status \in {"PROCESSING", "COMPLETED"} => job'[a][d] = job[a][d]
  <2> TAKE a \in Action, d \in Docs
  <2>1. CASE job'[a][d] = job[a][d]
    BY <2>1
  <2>2. CASE ~ActiveJob(job[a][d]) /\ job'[a][d] = PendingJob(doc[d])
    <3>1. PendingJob(doc[d]).status = "PENDING"
      BY DEF PendingJob
    <3> QED BY <2>2, <3>1 DEF ActiveJob
  <2> QED BY <1>0, <2>1, <2>2
<1>12. ASSUME NEW w \in Workers, worker[w] # Idle
       PROVE  JobOf(w)' = JobOf(w) /\ JobOf(w).status = "PROCESSING"
              /\ worker[w].doc \in Docs /\ worker[w].action \in Action
              /\ doc[worker[w].doc].status # "NONE"
  BY <1>2, <1>11, <1>12, RunFacts DEF JobOf
<1>13. OneRun'
  <2>1. \A w \in Workers : worker'[w] # Idle => JobOf(w)'.status = "PROCESSING"
    BY <1>2, <1>12
  <2> QED BY <1>1, <1>2, <1>11, <2>1 DEF OneRun, Runs
<1>14. ASSUME NEW w \in Workers PROVE RunSound(w)'
  <2> SUFFICES ASSUME worker[w] # Idle PROVE RunSound(w)'
    BY <1>2 DEF RunSound
  <2> DEFINE d == worker[w].doc
  <2>1. /\ ~Exists(d) => ~Exists(d)'
        /\ Exists(d)' => doc'[d].delivery = doc[d].delivery
    BY <1>12 DEF RowStep, Exists
  <2>2. RunSound(w)
    BY DEF IInv
  <2> HIDE DEF d
  <2>3. JobOf(w)' = JobOf(w)
    BY <1>12
  <2> QED BY <1>2, <2>1, <2>2, <2>3 DEF RunSound, d
<1>15. GoneHasCause'
  <2> SUFFICES ASSUME NEW f \in Files, store[f] = "GONE" PROVE \E e \in Docs : DeletedFor(e, f)'
    BY <1>2 DEF GoneHasCause
  <2>1. PICK e \in Docs : job["DELETE"][e].file = f
    BY <1>1 DEF GoneHasCause, DeletedFor
  <2>2. CASE job'["DELETE"][e] = job["DELETE"][e]
    BY <2>1, <2>2 DEF DeletedFor
  <2>3. CASE e \in ds /\ job'["DELETE"][e] = PendingJob(doc[e])
    <3>1. job["DELETE"][e].status # "NONE"
      BY <1>1, <1>6, <2>1, DocumentsAssumption DEF Typed, JobSound
    <3>2. Says(e, f, job["DELETE"][e].delivery) /\ job["DELETE"][e].delivery \in Delivery
      BY <1>1, <1>6, <2>1, <3>1, JobSays
    <3>3. Says(e, doc[e].file, doc[e].delivery)
      BY DEF Says
    <3>4. doc[e].file = f
      BY <1>1, <1>3, <2>3, <3>2, <3>3 DEF OneFile
    <3> QED BY <2>3, <3>4 DEF DeletedFor, PendingJob
  <2> QED BY <1>4, <2>2, <2>3
<1>16. DeletionSound'
  BY <1>1, <1>2, <1>6, <1>11 DEF DeletionSound
<1>17. UndeliverableIsMoving'
  <2> SUFFICES ASSUME NEW d \in Docs, doc'[d].status = "LIVE", store[doc'[d].file] # "GONE",
                      store[doc'[d].file] # doc'[d].delivery
               PROVE  \/ job["MIGRATE"][d].status = "PROCESSING"
                      \/ faults > 0 /\ job["MIGRATE"][d].status \in {"PENDING", "RETRY", "FAILED"}
    BY <1>2, <1>4 DEF UndeliverableIsMoving
  <2>1. CASE doc'[d] = doc[d]
    BY <1>1, <2>1 DEF UndeliverableIsMoving
  <2>2. CASE \E f \in Uploads : store[f] # "NEW" /\ doc'[d] = Attached(f)
    BY <1>1, <2>2 DEF Attached, Delivered, Typed, TypeOK, Files, Delivery
  <2> QED BY <2>1, <2>2 DEF RowStep
<1> QED BY <1>7, <1>9, <1>10, <1>13, <1>14, <1>15, <1>16, <1>17 DEF IInv
-----------------------------------------------------------------------------
(* Rows stay as they are. *)

\* What is said of a file is said of one the store has received.
LEMMA SaidIsReceived ==
  ASSUME IInv, NEW d \in Docs, NEW f \in Files, NEW how \in Delivery, Says(d, f, how)
  PROVE  store[f] \in {"upload", "authenticated", "GONE"}
<1>1. store[f] \in Delivery \cup {"NEW", "GONE"}
  BY DEF IInv, Typed, TypeOK
<1> QED BY <1>1 DEF IInv, Delivered, Delivery

\* Nothing is said that was not said before: of the rows and of the jobs that
\* delete nothing changes but how far a job is.
LEMMA NothingNew ==
  ASSUME IInv, TypeOK', Forward, doc' = doc,
         \A d \in Docs, f \in Files, how \in Delivery : Says(d, f, how)' => Says(d, f, how),
         \A d \in Docs : /\ job'["DELETE"][d].file = job["DELETE"][d].file
                         /\ job["DELETE"][d].status = "NONE" => job'["DELETE"][d].status = "NONE",
         \A r \in Requests : request'[r] # Idle /\ request'[r].file # NoFile =>
            \/ request'[r] = request[r]
            \/ store[request'[r].file] # "NEW"
  PROVE  OneFile' /\ Delivered' /\ RowSound'
<1>1. OneFile' /\ Delivered'
  <2>1. \A d \in Docs, f \in Files, how \in Delivery : Says(d, f, how)' => Told(d, f, how)
    BY DEF Told
  <2> QED BY <2>1, ToldKeeps
<1>2. RowSound'
  BY DEF IInv, RowSound
<1> QED BY <1>1, <1>2

\* The jobs keep their files.
LEMMA SaysTheSame ==
  ASSUME doc' = doc, scan' = scan,
         \A a \in Action, d \in Docs :
            job'[a][d].file = job[a][d].file /\ job'[a][d].delivery = job[a][d].delivery
  PROVE  \A d \in Docs, f \in Files, how \in Delivery : Says(d, f, how)' => Says(d, f, how)
BY DEF Says

\* A run goes on, fails or ends, and no job and no file with it.
LEMMA RunStep ==
  ASSUME IInv, TypeOK', NEW w \in Workers, worker[w] # Idle,
         UNCHANGED <<doc, store, job, request, scan>>,
         \/ /\ worker' = [worker EXCEPT ![w] = Idle] /\ faults' > 0
         \/ /\ \E s \in Step : Goes(w, s)
            /\ faults' = faults \/ faults' > 0,
         RunSound(w)'
  PROVE  IInv'
<1>1. /\ Typed /\ OneFile /\ Delivered /\ RowSound /\ OneRun /\ GoneHasCause /\ DeletionSound
      /\ UndeliverableIsMoving
  BY DEF IInv
<1>2. doc' = doc /\ store' = store /\ job' = job /\ request' = request /\ scan' = scan
  OBVIOUS
<1>3. faults \in Nat /\ faults' \in Nat /\ (faults' = faults \/ faults' > 0)
  BY <1>1, DocumentsAssumption DEF TypeOK, Typed
<1>4. /\ \A v \in Workers \ {w} : worker'[v] = worker[v]
      /\ \/ worker'[w] = Idle /\ faults' > 0
         \/ worker'[w].action = worker[w].action /\ worker'[w].doc = worker[w].doc /\ worker'[w] # Idle
  <2>1. worker \in [Workers -> {Idle} \cup Run]
    BY <1>1 DEF Typed, TypeOK, Run
  <2>2. CASE worker' = [worker EXCEPT ![w] = Idle] /\ faults' > 0
    BY <2>1, <2>2
  <2>3. CASE \E s \in Step : Goes(w, s)
    <3>1. PICK s \in Step : worker' = [worker EXCEPT ![w].step = s]
      BY <2>3 DEF Goes
    <3>2. worker[w] \in Run
      BY <2>1
    <3>3. /\ worker'[w].action = worker[w].action /\ worker'[w].doc = worker[w].doc
          /\ worker'[w].action \in Action
      BY <2>1, <3>1, <3>2 DEF Run
    <3>4. worker'[w] # Idle
      BY <2>1, <3>1, <3>2 DEF Run, Idle
    <3> QED BY <2>1, <3>1, <3>3, <3>4
  <2> QED BY <2>2, <2>3
<1>5. Typed'
  BY <1>1, <1>2 DEF Typed, JobSound
<1>6. OneFile' /\ Delivered' /\ RowSound'
  <2>1. \A d \in Docs, f \in Files, how \in Delivery : Says(d, f, how)' => Says(d, f, how)
    BY <1>2 DEF Says
  <2>2. Forward
    BY <1>2 DEF Forward
  <2> QED BY <1>2, <2>1, <2>2, NothingNew
<1>7. OneRun'
  <2>1. \A v \in Workers : worker'[v] # Idle => worker[v] # Idle
           /\ worker'[v].action = worker[v].action /\ worker'[v].doc = worker[v].doc
    BY <1>4
  <2>2. \A v \in Workers : worker'[v] # Idle => JobOf(v)' = JobOf(v)
    BY <1>2, <2>1 DEF JobOf
  <2>3. \A a \in Action, d \in Docs : faults' > 0 \/ \A v \in Workers : Runs(v, a, d) => Runs(v, a, d)'
    BY <1>4 DEF Runs
  <2> QED BY <1>1, <1>2, <1>3, <2>1, <2>2, <2>3 DEF OneRun
<1>8. ASSUME NEW v \in Workers PROVE RunSound(v)'
  <2>1. CASE v = w
    BY <2>1
  <2>2. CASE v # w
    <3>1. RunSound(v) /\ worker'[v] = worker[v]
      BY <1>4, <2>2 DEF IInv
    <3>2. JobOf(v)' = JobOf(v)
      BY <1>2, <3>1 DEF JobOf
    <3> QED BY <1>2, <1>3, <3>1, <3>2 DEF RunSound, Exists
  <2> QED BY <2>1, <2>2
<1>9. GoneHasCause' /\ DeletionSound'
  BY <1>1, <1>2 DEF GoneHasCause, DeletionSound, DeletedFor
<1>10. UndeliverableIsMoving'
  BY <1>1, <1>2, <1>3 DEF UndeliverableIsMoving
<1> QED BY <1>5, <1>6, <1>7, <1>8, <1>9, <1>10 DEF IInv

\* A step of run w of job j moves the job's file where it was to be moved.
LEMMA StoreStep ==
  ASSUME IInv, TypeOK', NEW w \in Workers, worker[w].step = "CALL",
         store' = StoreAfter(JobOf(w), worker[w].action),
         NEW s \in Step, Goes(w, s),
         \/ s = Answer(JobOf(w), worker[w].action)
         \/ s = IF worker[w].action = "DELETE" THEN "ERROR" ELSE "LOOKUP",
         UNCHANGED <<doc, job, request, scan>>,
         faults' = faults \/ faults' > 0
  PROVE  IInv'
<1> DEFINE f == JobOf(w).file
           how == JobOf(w).delivery
           e == worker[w].doc
           act == worker[w].action
<1>1. /\ Typed /\ OneFile /\ Delivered /\ RowSound /\ OneRun /\ GoneHasCause /\ DeletionSound
      /\ UndeliverableIsMoving /\ RunSound(w)
  BY DEF IInv
<1>2. doc' = doc /\ job' = job /\ request' = request /\ scan' = scan
  OBVIOUS
<1>3. worker[w] # Idle
  BY DEF Idle
<1>4. /\ worker[w] \in Run /\ act \in Action /\ e \in Docs
      /\ JobOf(w) \in Job /\ JobOf(w).status = "PROCESSING"
      /\ f \in Files /\ how \in Delivery /\ Says(e, f, how)
  BY <1>3, RunFacts
<1>5. store \in [Files -> Delivery \cup {"NEW", "GONE"}]
  BY <1>1 DEF Typed, TypeOK
<1>6. store[f] \in {"upload", "authenticated", "GONE"}
  BY <1>4, SaidIsReceived
<1>7. /\ act = "DELETE" \/ act = "MIGRATE"
      /\ how = "upload" \/ how = "authenticated"
  BY <1>4 DEF Action, Delivery
<1>8. /\ \A g \in Files : g # f \/ store[f] # how => store'[g] = store[g]
      /\ store[f] = how /\ act = "DELETE" => store'[f] = "GONE"
      /\ store[f] = how /\ act = "MIGRATE" => store'[f] = "authenticated"
  <2>1. store' = IF store[f] # how THEN store
                 ELSE [store EXCEPT ![f] = IF act = "DELETE" THEN "GONE" ELSE "authenticated"]
    BY DEF StoreAfter
  <2> HIDE DEF f, how, act
  <2> QED BY <1>4, <1>5, <2>1
<1>9. /\ how = "authenticated" => store[f] \in {"authenticated", "GONE"}
      /\ how = "upload" => f \in LegacyFiles
  BY <1>1, <1>4, <1>7 DEF Delivered
<1>10. /\ worker \in [Workers -> {Idle} \cup Run]
       /\ faults \in Nat /\ faults' \in Nat
  BY <1>1, DocumentsAssumption DEF TypeOK, Typed, Run
<1>11. /\ \A v \in Workers \ {w} : worker'[v] = worker[v]
       /\ worker'[w].action = act /\ worker'[w].doc = e /\ worker'[w].step = s /\ worker'[w] # Idle
  <2>1. worker'[w] = [worker[w] EXCEPT !.step = s]
    BY <1>10 DEF Goes
  <2>2. worker'[w].action = act /\ worker'[w].doc = e /\ worker'[w].step = s
    BY <1>4, <2>1 DEF Run
  <2>3. worker'[w] # Idle
    BY <1>4, <2>1 DEF Run, Idle
  <2>4. \A v \in Workers \ {w} : worker'[v] = worker[v]
    BY <1>10 DEF Goes
  <2> QED BY <2>2, <2>3, <2>4
<1>12. JobOf(w)' = JobOf(w)
  BY <1>2, <1>11 DEF JobOf
<1> HIDE DEF f, how, e, act
<1>13. Forward
  <2> SUFFICES ASSUME NEW g \in Files, store'[g] # store[g]
               PROVE  \/ store[g] = "upload" /\ store'[g] \in {"authenticated", "GONE"}
                      \/ store[g] = "authenticated" /\ store'[g] = "GONE"
    BY DEF Forward
  <2> QED BY <1>7, <1>8
<1>14. Typed'
  BY <1>1, <1>2 DEF Typed, JobSound
<1>15. OneFile' /\ Delivered' /\ RowSound'
  <2>1. \A d \in Docs, g \in Files, too \in Delivery : Says(d, g, too)' => Says(d, g, too)
    BY <1>2 DEF Says
  <2> QED BY <1>2, <1>13, <2>1, NothingNew
<1>16. OneRun'
  <2>1. \A v \in Workers : worker'[v] # Idle => worker[v] # Idle
           /\ worker'[v].action = worker[v].action /\ worker'[v].doc = worker[v].doc
    BY <1>3, <1>11 DEF act, e
  <2>2. \A v \in Workers : worker'[v] # Idle => JobOf(v)' = JobOf(v)
    BY <1>2, <2>1 DEF JobOf
  <2>3. \A a \in Action, d \in Docs, v \in Workers : Runs(v, a, d) => Runs(v, a, d)'
    BY <1>11 DEF Runs, act, e
  <2> QED BY <1>1, <1>2, <1>10, <2>1, <2>2, <2>3 DEF OneRun
<1>17. RunSound(w)'
  <2>1. CASE s = "ERROR" \/ s = "LOOKUP"
    <3>1. s = "ERROR" => act = "DELETE"
      <4>1. Answer(JobOf(w), act) # "ERROR"
        BY <1>7 DEF Answer
      <4> QED BY <2>1, <4>1 DEF act
    <3>2. s = "LOOKUP" => act = "MIGRATE"
      BY <1>7 DEF Answer, act
    <3> QED BY <1>11, <2>1, <3>1, <3>2 DEF RunSound
  <2>2. CASE s = "WRITE"
    <3>1. act = "MIGRATE" /\ store[f] = how
      BY <1>7, <2>2 DEF Answer, act, f, how
    <3>2. store'[f] = "authenticated"
      BY <1>8, <3>1
    <3> QED BY <1>11, <1>12, <2>2, <3>1, <3>2 DEF RunSound, f
  <2>3. CASE s = "OK"
    <3>1. act = "DELETE"
      BY <1>7, <2>3 DEF Answer, act
    <3>2. store'[f] = "GONE" \/ (how = "upload" /\ store'[f] = "authenticated")
      BY <1>4, <1>6, <1>7, <1>8, <1>9, <3>1
    <3> QED BY <1>11, <1>12, <2>3, <3>1, <3>2 DEF RunSound, f, how
  <2>4. s \in {"ERROR", "LOOKUP", "WRITE", "OK"}
    BY <1>7 DEF Answer, act
  <2> QED BY <2>1, <2>2, <2>3, <2>4
\* A file is moved to authenticated delivery by the one run that moves it.
<1>18. ASSUME NEW v \in Workers, v # w PROVE RunSound(v)'
  <2> SUFFICES ASSUME worker[v] # Idle PROVE RunSound(v)'
    BY <1>11, <1>18 DEF RunSound
  <2>1. RunSound(v) /\ worker'[v] = worker[v]
    BY <1>11, <1>18 DEF IInv
  <2>2. JobOf(v)' = JobOf(v)
    BY <1>2, <2>1 DEF JobOf
  <2>3. /\ JobOf(v).file \in Files /\ JobOf(v).delivery \in Delivery
        /\ Says(worker[v].doc, JobOf(v).file, JobOf(v).delivery)
        /\ worker[v].doc \in Docs
    BY RunFacts
  <2>4. ASSUME worker[v].action = "MIGRATE", store[JobOf(v).file] # "authenticated"
        PROVE  store'[JobOf(v).file] # "authenticated"
    <3> SUFFICES ASSUME store'[JobOf(v).file] = "authenticated" PROVE FALSE
      OBVIOUS
    <3>1. JobOf(v).file = f /\ store[f] = how /\ act = "MIGRATE"
      BY <1>7, <1>8, <2>3, <2>4
    <3>2. how = "upload"
      BY <1>7, <2>4, <3>1
    <3>3. worker[v].doc = e
      BY <1>1, <1>4, <1>9, <2>3, <3>1, <3>2 DEF OneFile
    <3> QED BY <1>1, <1>3, <1>18, <2>4, <3>1, <3>3 DEF OneRun, act, e
  <2>5. /\ store[JobOf(v).file] # "upload" => store'[JobOf(v).file] # "upload"
        /\ store[JobOf(v).file] = "GONE" => store'[JobOf(v).file] = "GONE"
        /\ store[JobOf(v).file] = "authenticated" => store'[JobOf(v).file] \in {"authenticated", "GONE"}
    BY <1>13, <2>3 DEF Forward
  <2>6. faults > 0 => faults' > 0
    BY <1>10
  <2> QED BY <1>2, <2>1, <2>2, <2>4, <2>5, <2>6 DEF RunSound, Exists
<1>19. GoneHasCause'
  <2> SUFFICES ASSUME NEW g \in Files, store'[g] = "GONE" PROVE \E d \in Docs : DeletedFor(d, g)
    BY <1>2 DEF GoneHasCause, DeletedFor
  <2>1. CASE store[g] = "GONE"
    BY <1>1, <2>1 DEF GoneHasCause
  <2>2. CASE store[g] # "GONE"
    <3>1. g = f /\ act = "DELETE"
      BY <1>7, <1>8, <2>2
    <3> QED BY <1>4, <3>1 DEF DeletedFor, f, act, e, JobOf
  <2> QED BY <2>1, <2>2
<1>20. DeletionSound'
  <2> SUFFICES ASSUME NEW d \in Docs, job["DELETE"][d].status = "COMPLETED"
               PROVE  \/ store'[job["DELETE"][d].file] = "GONE"
                      \/ /\ job["DELETE"][d].delivery = "upload"
                         /\ store'[job["DELETE"][d].file] = "authenticated"
    BY <1>2 DEF DeletionSound
  <2>1. job["DELETE"][d].file \in Files
    BY <1>1, JobSays DEF Action
  <2> QED BY <1>1, <1>13, <2>1 DEF DeletionSound, Forward
<1>21. UndeliverableIsMoving'
  <2> SUFFICES ASSUME NEW d \in Docs, doc[d].status = "LIVE", store'[doc[d].file] # "GONE",
                      store'[doc[d].file] # doc[d].delivery
               PROVE  \/ job["MIGRATE"][d].status = "PROCESSING"
                      \/ faults > 0 /\ job["MIGRATE"][d].status \in {"PENDING", "RETRY", "FAILED"}
    BY <1>2, <1>10 DEF UndeliverableIsMoving
  <2>1. doc[d].file \in Files /\ doc[d].delivery \in Delivery /\ Says(d, doc[d].file, doc[d].delivery)
    BY <1>1 DEF RowSound, Typed, TypeOK, Row, Says
  <2>2. CASE store'[doc[d].file] = store[doc[d].file]
    BY <1>1, <2>2 DEF UndeliverableIsMoving
  <2>3. CASE store'[doc[d].file] # store[doc[d].file]
    <3>1. doc[d].file = f /\ store[f] = how /\ act = "MIGRATE"
      BY <1>7, <1>8, <2>1, <2>3
    <3>2. how = "upload"
      BY <1>7, <1>8, <2>3, <3>1
    <3>3. d = e
      BY <1>1, <1>4, <1>9, <2>1, <3>1, <3>2 DEF OneFile
    <3> QED BY <1>4, <3>1, <3>3 DEF JobOf, act, e
  <2> QED BY <2>2, <2>3
<1>22. \A v \in Workers : RunSound(v)'
  BY <1>17, <1>18
<1> QED BY <1>14, <1>15, <1>16, <1>19, <1>20, <1>21, <1>22 DEF IInv

\* The row of a moved file says where the file is.
LEMMA WriteSourceKeepsInv ==
  ASSUME IInv, TypeOK', NEW w \in Workers, WriteSource(w)
  PROVE  IInv'
<1> DEFINE f == JobOf(w).file
           e == worker[w].doc
<1>1. /\ Typed /\ OneFile /\ Delivered /\ RowSound /\ OneRun /\ GoneHasCause /\ DeletionSound
      /\ UndeliverableIsMoving /\ RunSound(w)
  BY DEF IInv
<1>2. store' = store /\ job' = job /\ request' = request /\ scan' = scan /\ faults' = faults
  BY DEF WriteSource
<1>3. worker[w] # Idle /\ worker[w].step \in {"WRITE", "REWRITE"}
  BY DEF WriteSource, Idle
<1>4. /\ worker[w] \in Run /\ worker[w].action \in Action /\ e \in Docs
      /\ JobOf(w) \in Job /\ JobOf(w).status = "PROCESSING"
      /\ f \in Files /\ JobOf(w).delivery \in Delivery /\ Says(e, f, JobOf(w).delivery)
  BY <1>3, RunFacts
<1>5. worker[w].action = "MIGRATE" /\ store[f] # "upload"
  BY <1>1, <1>3 DEF RunSound
<1>6. worker \in [Workers -> {Idle} \cup Run] /\ doc \in [Docs -> Row]
  BY <1>1 DEF TypeOK, Typed, Run
<1>7. /\ \A v \in Workers \ {w} : worker'[v] = worker[v]
      /\ worker'[w].action = worker[w].action /\ worker'[w].doc = e
      /\ worker'[w].step = "OK" /\ worker'[w] # Idle
  <2>1. worker' = [worker EXCEPT ![w].step = "OK"]
    BY DEF WriteSource, Goes
  <2>2. worker'[w] = [worker[w] EXCEPT !.step = "OK"]
    BY <1>6, <2>1
  <2>3. worker'[w].action = worker[w].action /\ worker'[w].doc = e /\ worker'[w].step = "OK"
    BY <1>4, <2>2 DEF Run
  <2>4. worker'[w] # Idle
    BY <1>4, <2>2 DEF Run, Idle
  <2>5. \A v \in Workers \ {w} : worker'[v] = worker[v]
    BY <1>6, <2>1
  <2> QED BY <2>3, <2>4, <2>5
<1>8. /\ \A d \in Docs : d # e \/ ~Exists(d) => doc'[d] = doc[d]
      /\ Exists(e) => /\ doc'[e].file = f /\ doc'[e].delivery = "authenticated"
                      /\ doc'[e].status = doc[e].status
  <2>1. CASE ~Exists(e)
    BY <2>1 DEF WriteSource
  <2>2. CASE Exists(e)
    <3>1. doc' = [doc EXCEPT ![e].file = f, ![e].delivery = "authenticated"]
      BY <2>2 DEF WriteSource
    <3>2. doc'[e] = [doc[e] EXCEPT !.file = f, !.delivery = "authenticated"]
      <4> HIDE DEF e, f
      <4> QED BY <1>4, <1>6, <3>1
    <3>3. \A d \in Docs \ {e} : doc'[d] = doc[d]
      <4> HIDE DEF e, f
      <4> QED BY <1>4, <1>6, <3>1
    <3>4. doc[e] \in Row
      BY <1>4, <1>6
    <3> HIDE DEF e, f
    <3>5. doc'[e].file = f /\ doc'[e].delivery = "authenticated" /\ doc'[e].status = doc[e].status
      BY <3>2, <3>4 DEF Row
    <3> QED BY <2>2, <3>3, <3>5
  <2> QED BY <2>1, <2>2
<1>9. \A d \in Docs : doc'[d].status = doc[d].status
  BY <1>8
<1>10. JobOf(w)' = JobOf(w)
  BY <1>2, <1>7 DEF JobOf
<1> HIDE DEF f, e
<1>11. f # NoFile
  BY <1>4, DocumentsAssumption
<1>12. Typed'
  BY <1>1, <1>2 DEF Typed, JobSound
<1>13. ASSUME NEW d \in Docs, NEW g \in Files, NEW how \in Delivery, Says(d, g, how)'
       PROVE  Says(d, g, how) \/ (how = "authenticated" /\ Says(d, g, "upload") /\ store[g] # "upload")
  <2>1. CASE doc'[d].file = g /\ doc'[d].delivery = how /\ doc'[d] # doc[d]
    <3>1. d = e /\ g = f /\ how = "authenticated"
      BY <1>8, <2>1
    <3>2. JobOf(w).delivery = "upload" \/ JobOf(w).delivery = how
      BY <1>4, <3>1 DEF Delivery
    <3> QED BY <1>4, <1>5, <3>1, <3>2
  <2>2. CASE ~(doc'[d].file = g /\ doc'[d].delivery = how /\ doc'[d] # doc[d])
    BY <1>2, <1>13, <2>2 DEF Says
  <2> QED BY <2>1, <2>2
<1>14. OneFile' /\ Delivered'
  <2>1. \A d \in Docs, g \in Files, how \in Delivery : Says(d, g, how)' => Told(d, g, how)
    BY <1>13 DEF Told
  <2>2. Forward
    BY <1>2 DEF Forward
  <2> QED BY <1>2, <2>1, <2>2, ToldKeeps
<1>15. RowSound'
  <2> SUFFICES ASSUME NEW d \in Docs
               PROVE  /\ doc'[d].status = "NONE" => \A g \in Files, how \in Delivery : ~Says(d, g, how)'
                      /\ doc'[d].status = "LIVE" => doc'[d].file # NoFile /\ job["DELETE"][d].status = "NONE"
                      /\ doc'[d].status \in {"PURGED", "DELETED"} => job["DELETE"][d].file # NoFile
    BY <1>2 DEF RowSound
  <2>1. doc'[d].status = "NONE" => \A g \in Files, how \in Delivery : ~Says(d, g, how)'
    BY <1>1, <1>9, <1>13 DEF RowSound, Delivery
  <2>2. doc'[d].status = "LIVE" => doc'[d].file # NoFile
    BY <1>1, <1>8, <1>9, <1>11 DEF RowSound
  <2> QED BY <1>1, <1>9, <2>1, <2>2 DEF RowSound
<1>16. OneRun'
  <2>1. \A v \in Workers : worker'[v] # Idle => worker[v] # Idle
           /\ worker'[v].action = worker[v].action /\ worker'[v].doc = worker[v].doc
    BY <1>3, <1>7 DEF e
  <2>2. \A v \in Workers : worker'[v] # Idle => JobOf(v)' = JobOf(v)
    BY <1>2, <2>1 DEF JobOf
  <2>3. \A a \in Action, d \in Docs, v \in Workers : Runs(v, a, d) => Runs(v, a, d)'
    BY <1>7 DEF Runs, e
  <2> QED BY <1>1, <1>2, <2>1, <2>2, <2>3 DEF OneRun
<1>17. RunSound(w)'
  <2>1. doc'[e].status \in {"LIVE", "PURGED"} => doc'[e].delivery = "authenticated"
    BY <1>4, <1>8 DEF Exists
  <2> QED BY <1>5, <1>7, <2>1 DEF RunSound, Exists
<1>18. ASSUME NEW v \in Workers, v # w PROVE RunSound(v)'
  <2> SUFFICES ASSUME worker[v] # Idle PROVE RunSound(v)'
    BY <1>7, <1>18 DEF RunSound
  <2>1. RunSound(v) /\ worker'[v] = worker[v]
    BY <1>7, <1>18 DEF IInv
  <2>2. JobOf(v)' = JobOf(v)
    BY <1>2, <2>1 DEF JobOf
  <2>3. worker[v].doc \in Docs
    BY RunFacts
  <2>4. doc'[worker[v].doc].status = doc[worker[v].doc].status
    BY <1>9, <2>3
  <2>5. doc[worker[v].doc].delivery = "authenticated" => doc'[worker[v].doc].delivery = "authenticated"
    BY <1>8, <2>3
  <2> QED BY <1>2, <2>1, <2>2, <2>4, <2>5 DEF RunSound, Exists
<1>19. GoneHasCause' /\ DeletionSound'
  BY <1>1, <1>2 DEF GoneHasCause, DeletionSound, DeletedFor
<1>20. UndeliverableIsMoving'
  <2> SUFFICES ASSUME NEW d \in Docs, doc'[d].status = "LIVE", store[doc'[d].file] # "GONE",
                      store[doc'[d].file] # doc'[d].delivery
               PROVE  \/ job["MIGRATE"][d].status = "PROCESSING"
                      \/ faults > 0 /\ job["MIGRATE"][d].status \in {"PENDING", "RETRY", "FAILED"}
    BY <1>2 DEF UndeliverableIsMoving
  <2>1. CASE doc'[d] = doc[d]
    BY <1>1, <2>1 DEF UndeliverableIsMoving
  <2>2. CASE doc'[d] # doc[d]
    <3>1. doc'[d].file = f /\ doc'[d].delivery = "authenticated"
      BY <1>8, <2>2
    <3>2. store[f] \in {"upload", "authenticated", "GONE"}
      BY <1>4, SaidIsReceived
    <3> QED BY <1>5, <3>1, <3>2
  <2> QED BY <2>1, <2>2
<1>21. \A v \in Workers : RunSound(v)'
  BY <1>17, <1>18
<1> QED BY <1>12, <1>14, <1>15, <1>16, <1>19, <1>20, <1>21 DEF IInv
-----------------------------------------------------------------------------
(* Jobs are claimed, recorded and enqueued. *)

LEMMA ClaimKeepsInv ==
  ASSUME IInv, TypeOK', NEW w \in Workers, NEW a \in Action, NEW d \in Docs, Claim(w, a, d)
  PROVE  IInv'
<1>1. /\ Typed /\ OneFile /\ Delivered /\ RowSound /\ OneRun /\ GoneHasCause /\ DeletionSound
      /\ UndeliverableIsMoving
  BY DEF IInv
<1>2. doc' = doc /\ store' = store /\ request' = request /\ scan' = scan /\ faults' = faults
  BY DEF Claim
<1>3. job \in [Action -> [Docs -> Job]] /\ worker \in [Workers -> {Idle} \cup Run]
  BY <1>1 DEF Typed, TypeOK, Run
<1>4. job[a][d].status \in {"PENDING", "RETRY"} /\ worker[w] = Idle
  BY DEF Claim
<1>5. /\ \A b \in Action, e \in Docs : b # a \/ e # d => job'[b][e] = job[b][e]
      /\ job'[a][d].status = "PROCESSING"
      /\ job'[a][d].file = job[a][d].file /\ job'[a][d].delivery = job[a][d].delivery
  <2>1. job[a][d] \in Job
    BY <1>3
  <2>2. job'[a][d] = [job[a][d] EXCEPT !.status = "PROCESSING", !.attempts = @ + 1]
    BY <1>3 DEF Claim
  <2>3. \A b \in Action, e \in Docs : b # a \/ e # d => job'[b][e] = job[b][e]
    BY <1>3 DEF Claim
  <2>4. /\ job'[a][d].status = "PROCESSING"
        /\ job'[a][d].file = job[a][d].file /\ job'[a][d].delivery = job[a][d].delivery
    BY <2>1, <2>2 DEF Job
  <2> QED BY <2>3, <2>4
<1>6. /\ \A v \in Workers \ {w} : worker'[v] = worker[v]
      /\ worker'[w] = [step |-> "CALL", action |-> a, doc |-> d]
  BY <1>3 DEF Claim
<1>7. worker'[w] # Idle /\ worker'[w].action = a /\ worker'[w].doc = d /\ worker'[w].step = "CALL"
  BY <1>6 DEF Idle
<1>8. \A b \in Action, e \in Docs :
         /\ job'[b][e].file = job[b][e].file /\ job'[b][e].delivery = job[b][e].delivery
         /\ job'[b][e].status = "NONE" <=> job[b][e].status = "NONE"
  BY <1>4, <1>5
<1>9. Typed'
  <2> SUFFICES ASSUME NEW b \in Action, NEW e \in Docs PROVE JobSound(job'[b][e])
    BY DEF Typed, JobSound
  <2>1. JobSound(job[b][e])
    BY <1>1, RowsTyped
  <2>2. CASE b = a /\ e = d
    BY <1>4, <1>5, <2>1, <2>2 DEF JobSound
  <2>3. CASE b # a \/ e # d
    BY <1>5, <2>1, <2>3
  <2> QED BY <2>2, <2>3
<1>10. OneFile' /\ Delivered' /\ RowSound'
  <2>1. \A e \in Docs, f \in Files, how \in Delivery : Says(e, f, how)' => Says(e, f, how)
    BY <1>2, <1>8, SaysTheSame
  <2>2. Forward
    BY <1>2 DEF Forward
  <2>3. \A e \in Docs : /\ job'["DELETE"][e].file = job["DELETE"][e].file
                        /\ job["DELETE"][e].status = "NONE" => job'["DELETE"][e].status = "NONE"
    BY <1>8 DEF Action
  <2> QED BY <1>2, <2>1, <2>2, <2>3, NothingNew
\* No run is under way of the job that is claimed.
<1>11. ASSUME NEW v \in Workers, v # w, worker[v] # Idle
       PROVE  /\ worker[v].action \in Action /\ worker[v].doc \in Docs
              /\ worker[v].action # a \/ worker[v].doc # d
              /\ JobOf(v)' = JobOf(v)
  <2>1. /\ worker[v].action \in Action /\ worker[v].doc \in Docs
        /\ JobOf(v).status = "PROCESSING"
    BY <1>11, RunFacts
  <2>2. worker[v].action # a \/ worker[v].doc # d
    BY <1>4, <2>1 DEF JobOf
  <2>3. worker'[v] = worker[v]
    BY <1>6, <1>11
  <2> QED BY <1>5, <2>1, <2>2, <2>3 DEF JobOf
<1>12. JobOf(w)'.status = "PROCESSING"
  BY <1>5, <1>7 DEF JobOf
<1>13. OneRun'
  <2>1. ASSUME NEW v \in Workers, worker'[v] # Idle PROVE JobOf(v)'.status = "PROCESSING"
    <3>1. CASE v = w
      BY <1>12, <3>1
    <3>2. CASE v # w
      <4>1. worker[v] # Idle
        BY <1>6, <2>1, <3>2
      <4>2. JobOf(v).status = "PROCESSING"
        BY <4>1, RunFacts
      <4> QED BY <1>11, <3>2, <4>1, <4>2
    <3> QED BY <3>1, <3>2
  <2>2. ASSUME NEW v \in Workers, NEW u \in Workers, worker'[v] # Idle, worker'[u] # Idle,
               worker'[v].action = worker'[u].action, worker'[v].doc = worker'[u].doc
        PROVE  v = u
    <3>1. CASE v = w /\ u # w
      BY <1>6, <1>7, <1>11, <2>2, <3>1
    <3>2. CASE u = w /\ v # w
      BY <1>6, <1>7, <1>11, <2>2, <3>2
    <3>3. CASE u # w /\ v # w
      BY <1>1, <1>6, <2>2, <3>3 DEF OneRun
    <3> QED BY <3>1, <3>2, <3>3
  <2>3. ASSUME NEW b \in Action, NEW e \in Docs, job'[b][e].status = "PROCESSING"
        PROVE  faults' > 0 \/ \E v \in Workers : Runs(v, b, e)'
    <3>1. CASE b = a /\ e = d
      BY <1>7, <3>1 DEF Runs
    <3>2. CASE b # a \/ e # d
      <4>1. job[b][e].status = "PROCESSING"
        BY <1>5, <2>3, <3>2
      <4>2. CASE faults > 0
        BY <1>2, <4>2
      <4>3. CASE \E v \in Workers : Runs(v, b, e)
        <5>1. PICK v \in Workers : Runs(v, b, e)
          BY <4>3
        <5>2. worker'[v] = worker[v]
          BY <1>4, <1>6, <5>1 DEF Runs
        <5> QED BY <5>1, <5>2 DEF Runs
      <4> QED BY <1>1, <4>1, <4>2, <4>3 DEF OneRun
    <3> QED BY <3>1, <3>2
  <2> QED BY <2>1, <2>2, <2>3 DEF OneRun
<1>14. ASSUME NEW v \in Workers PROVE RunSound(v)'
  <2>1. CASE v = w
    BY <1>7, <2>1 DEF RunSound
  <2>2. CASE v # w
    <3> SUFFICES ASSUME worker[v] # Idle PROVE RunSound(v)'
      BY <1>6, <2>2 DEF RunSound
    <3>1. RunSound(v) /\ worker'[v] = worker[v] /\ JobOf(v)' = JobOf(v)
      BY <1>6, <1>11, <2>2 DEF IInv
    <3> QED BY <1>2, <3>1 DEF RunSound, Exists
  <2> QED BY <2>1, <2>2
<1>15. GoneHasCause'
  BY <1>1, <1>2, <1>8 DEF GoneHasCause, DeletedFor, Action
<1>16. DeletionSound'
  <2> SUFFICES ASSUME NEW e \in Docs, job'["DELETE"][e].status = "COMPLETED"
               PROVE  job'["DELETE"][e] = job["DELETE"][e]
    BY <1>1, <1>2 DEF DeletionSound
  <2>1. a # "DELETE" \/ e # d
    BY <1>5
  <2> QED BY <1>5, <2>1 DEF Action
<1>17. UndeliverableIsMoving'
  <2>1. \A e \in Docs : job'["MIGRATE"][e].status \in {job["MIGRATE"][e].status, "PROCESSING"}
    BY <1>5 DEF Action
  <2> QED BY <1>1, <1>2, <2>1 DEF UndeliverableIsMoving
<1> QED BY <1>9, <1>10, <1>13, <1>14, <1>15, <1>16, <1>17 DEF IInv

LEMMA RecordOutcomeKeepsInv ==
  ASSUME IInv, TypeOK', NEW w \in Workers, RecordOutcome(w)
  PROVE  IInv'
<1> DEFINE a == worker[w].action
           d == worker[w].doc
           f == JobOf(w).file
<1>1. /\ Typed /\ OneFile /\ Delivered /\ RowSound /\ OneRun /\ GoneHasCause /\ DeletionSound
      /\ UndeliverableIsMoving /\ RunSound(w)
  BY DEF IInv
<1>2. doc' = doc /\ store' = store /\ request' = request /\ scan' = scan /\ faults' = faults
  BY DEF RecordOutcome
<1>3. worker[w] # Idle /\ worker[w].step \in {"OK", "ERROR"}
  BY DEF RecordOutcome, Idle
<1>4. /\ a \in Action /\ d \in Docs /\ JobOf(w) \in Job /\ JobOf(w).status = "PROCESSING"
      /\ f \in Files /\ Says(d, f, JobOf(w).delivery) /\ JobOf(w).delivery \in Delivery
  BY <1>3, RunFacts
<1>5. job \in [Action -> [Docs -> Job]] /\ worker \in [Workers -> {Idle} \cup Run]
  BY <1>1 DEF Typed, TypeOK, Run
<1>6. JobOf(w) = job[a][d]
  BY DEF JobOf
<1>7. /\ Outcome(w) \in {"COMPLETED", "FAILED", "RETRY"}
      /\ Outcome(w) = "COMPLETED" <=> worker[w].step = "OK"
      /\ Outcome(w) = "RETRY" => job[a][d].attempts < MaxAttempts
  <2>1. job[a][d].attempts \in Nat /\ MaxAttempts \in Nat
    BY <1>4, <1>6, DocumentsAssumption DEF Job
  <2>2. CASE worker[w].step = "OK"
    <3>1. Outcome(w) = "COMPLETED"
      BY <2>2 DEF Outcome
    <3> QED BY <2>2, <3>1
  <2>3. CASE worker[w].step = "ERROR" /\ job[a][d].attempts >= MaxAttempts
    BY <1>6, <2>3 DEF Outcome
  <2>4. CASE worker[w].step = "ERROR" /\ ~(job[a][d].attempts >= MaxAttempts)
    <3>1. Outcome(w) = "RETRY"
      BY <1>6, <2>4 DEF Outcome
    <3>2. job[a][d].attempts < MaxAttempts
      <4> HIDE DEF a, d
      <4> QED BY <2>1, <2>4
    <3> QED BY <2>4, <3>1, <3>2
  <2> QED BY <1>3, <2>2, <2>3, <2>4
<1>8. job' = [job EXCEPT ![a][d].status = Outcome(w)]
  BY DEF RecordOutcome
<1> HIDE DEF a, d, f
<1>9. /\ \A b \in Action, e \in Docs : b # a \/ e # d => job'[b][e] = job[b][e]
      /\ job'[a][d].status = Outcome(w) /\ job'[a][d].attempts = job[a][d].attempts
      /\ job'[a][d].file = f /\ job[a][d].file = f
      /\ job'[a][d].delivery = job[a][d].delivery
  <2>1. job[a][d] \in Job
    BY <1>4, <1>5
  <2>2. job'[a][d] = [job[a][d] EXCEPT !.status = Outcome(w)]
    BY <1>4, <1>5, <1>8
  <2>3. \A b \in Action, e \in Docs : b # a \/ e # d => job'[b][e] = job[b][e]
    BY <1>4, <1>5, <1>8
  <2>4. /\ job'[a][d].status = Outcome(w) /\ job'[a][d].attempts = job[a][d].attempts
        /\ job'[a][d].file = job[a][d].file /\ job'[a][d].delivery = job[a][d].delivery
    BY <2>1, <2>2 DEF Job
  <2> QED BY <1>6, <2>3, <2>4 DEF f
<1>10. worker'[w] = Idle /\ \A v \in Workers \ {w} : worker'[v] = worker[v]
  BY <1>5 DEF RecordOutcome
<1>11. \A b \in Action, e \in Docs :
          /\ job'[b][e].file = job[b][e].file /\ job'[b][e].delivery = job[b][e].delivery
          /\ job'[b][e].status = "NONE" <=> job[b][e].status = "NONE"
          /\ job'[b][e].status = "PROCESSING" => job'[b][e] = job[b][e] /\ (b # a \/ e # d)
  BY <1>4, <1>6, <1>7, <1>9
<1>12. Typed'
  <2> SUFFICES ASSUME NEW b \in Action, NEW e \in Docs PROVE JobSound(job'[b][e])
    BY DEF Typed, JobSound
  <2>1. JobSound(job[b][e])
    BY <1>1, RowsTyped
  <2>2. CASE b = a /\ e = d
    BY <1>4, <1>6, <1>7, <1>9, <2>1, <2>2 DEF JobSound
  <2>3. CASE b # a \/ e # d
    BY <1>9, <2>1, <2>3
  <2> QED BY <2>2, <2>3
<1>13. OneFile' /\ Delivered' /\ RowSound'
  <2>1. \A e \in Docs, g \in Files, how \in Delivery : Says(e, g, how)' => Says(e, g, how)
    BY <1>2, <1>11, SaysTheSame
  <2>2. Forward
    BY <1>2 DEF Forward
  <2>3. \A e \in Docs : /\ job'["DELETE"][e].file = job["DELETE"][e].file
                        /\ job["DELETE"][e].status = "NONE" => job'["DELETE"][e].status = "NONE"
    BY <1>11 DEF Action
  <2> QED BY <1>2, <2>1, <2>2, <2>3, NothingNew
<1>14. ASSUME NEW v \in Workers, worker'[v] # Idle
       PROVE  /\ v # w /\ worker[v] # Idle /\ worker'[v] = worker[v]
              /\ JobOf(v)' = JobOf(v) /\ JobOf(v).status = "PROCESSING"
  <2>1. v # w /\ worker[v] # Idle /\ worker'[v] = worker[v]
    BY <1>10, <1>14
  <2>2. worker[v].action # a \/ worker[v].doc # d
    BY <1>1, <1>3, <2>1 DEF OneRun, a, d
  <2>3. worker[v].action \in Action /\ worker[v].doc \in Docs /\ JobOf(v).status = "PROCESSING"
    BY <2>1, RunFacts
  <2> QED BY <1>9, <2>1, <2>2, <2>3 DEF JobOf
<1>15. OneRun'
  <2>1. \A v \in Workers : worker'[v] # Idle => JobOf(v)'.status = "PROCESSING"
    BY <1>14
  <2>2. \A v, u \in Workers : worker'[v] # Idle /\ worker'[u] # Idle
           /\ worker'[v].action = worker'[u].action /\ worker'[v].doc = worker'[u].doc => v = u
    BY <1>1, <1>14 DEF OneRun
  <2>3. ASSUME NEW b \in Action, NEW e \in Docs, job'[b][e].status = "PROCESSING"
        PROVE  faults' > 0 \/ \E v \in Workers : Runs(v, b, e)'
    <3>1. job[b][e].status = "PROCESSING" /\ (b # a \/ e # d)
      BY <1>11, <2>3
    <3>2. CASE faults > 0
      BY <1>2, <3>2
    <3>3. CASE \E v \in Workers : Runs(v, b, e)
      <4>1. PICK v \in Workers : Runs(v, b, e)
        BY <3>3
      <4>2. v # w
        BY <3>1, <4>1 DEF Runs, a, d
      <4> QED BY <1>10, <4>1, <4>2 DEF Runs
    <3> QED BY <1>1, <3>1, <3>2, <3>3 DEF OneRun
  <2> QED BY <2>1, <2>2, <2>3 DEF OneRun
<1>16. ASSUME NEW v \in Workers PROVE RunSound(v)'
  <2> SUFFICES ASSUME worker'[v] # Idle PROVE RunSound(v)'
    BY DEF RunSound
  <2>1. RunSound(v)
    BY DEF IInv
  <2> QED BY <1>2, <1>14, <2>1 DEF RunSound, Exists
<1>17. GoneHasCause'
  BY <1>1, <1>2, <1>11 DEF GoneHasCause, DeletedFor, Action
<1>18. DeletionSound'
  <2> SUFFICES ASSUME NEW e \in Docs, job'["DELETE"][e].status = "COMPLETED"
               PROVE  \/ store[job'["DELETE"][e].file] = "GONE"
                      \/ /\ job'["DELETE"][e].delivery = "upload"
                         /\ store[job'["DELETE"][e].file] = "authenticated"
    BY <1>2 DEF DeletionSound
  <2>1. CASE a = "DELETE" /\ e = d
    BY <1>1, <1>3, <1>6, <1>7, <1>9, <2>1 DEF RunSound, a
  <2>2. CASE a # "DELETE" \/ e # d
    BY <1>1, <1>9, <2>2 DEF DeletionSound, Action
  <2> QED BY <2>1, <2>2
\* A run that ends with the file where nobody looks for it has met a fault.
<1>19. UndeliverableIsMoving'
  <2> SUFFICES ASSUME NEW e \in Docs, doc[e].status = "LIVE", store[doc[e].file] # "GONE",
                      store[doc[e].file] # doc[e].delivery
               PROVE  \/ job'["MIGRATE"][e].status = "PROCESSING"
                      \/ faults > 0 /\ job'["MIGRATE"][e].status \in {"PENDING", "RETRY", "FAILED"}
    BY <1>2 DEF UndeliverableIsMoving
  <2>1. CASE a = "MIGRATE" /\ e = d
    <3>1. doc[d].file \in Files /\ doc[d].delivery \in Delivery /\ Says(d, doc[d].file, doc[d].delivery)
      BY <1>1, <2>1 DEF RowSound, Typed, TypeOK, Row, Says
    <3>2. doc[d].file = f
      BY <1>1, <1>4, <3>1 DEF OneFile
    <3>3. store[f] \in {"upload", "authenticated", "GONE"}
      BY <1>4, SaidIsReceived
    <3>4. doc[d].delivery = "authenticated" => store[f] \in {"authenticated", "GONE"}
      BY <1>1, <1>4, <3>1, <3>2 DEF Delivered
    <3>5. doc[d].delivery = "upload" /\ store[f] = "authenticated"
      BY <2>1, <3>1, <3>2, <3>3, <3>4 DEF Delivery
    <3>6. worker[w].step # "OK"
      BY <1>1, <1>3, <2>1, <3>5 DEF RunSound, Exists, a, d
    <3>7. faults > 0
      BY <1>1, <1>3, <2>1, <3>5, <3>6 DEF RunSound, a, f
    <3> QED BY <1>7, <1>9, <2>1, <3>6, <3>7
  <2>2. CASE a # "MIGRATE" \/ e # d
    <3>1. job'["MIGRATE"][e] = job["MIGRATE"][e]
      BY <1>9, <2>2 DEF Action
    <3> QED BY <1>1, <3>1 DEF UndeliverableIsMoving
  <2> QED BY <2>1, <2>2
<1> QED BY <1>12, <1>13, <1>15, <1>16, <1>17, <1>18, <1>19 DEF IInv

LEMMA EnqueueMigrationKeepsInv ==
  ASSUME IInv, TypeOK', NEW d \in Docs, NEW row \in Row, EnqueueMigration(d, row)
  PROVE  IInv'
<1>1. /\ Typed /\ OneFile /\ Delivered /\ RowSound /\ OneRun /\ GoneHasCause /\ DeletionSound
      /\ UndeliverableIsMoving
  BY DEF IInv
<1>2. /\ doc' = doc /\ store' = store /\ request' = request /\ worker' = worker /\ faults' = faults
      /\ <<d, row>> \in scan /\ scan' \subseteq scan
  BY DEF EnqueueMigration
<1>3. job \in [Action -> [Docs -> Job]] /\ "DELETE" \in Action /\ "MIGRATE" \in Action
  BY <1>1 DEF Typed, TypeOK, Action
<1>4. \/ job' = job
      \/ /\ row.file # NoFile /\ ~ActiveJob(job["MIGRATE"][d])
         /\ job' = [job EXCEPT !["MIGRATE"][d] = PendingJob(row)]
  BY DEF EnqueueMigration, Enqueued, PendingJob
<1>5. /\ \A b \in Action, e \in Docs : b # "MIGRATE" \/ e # d => job'[b][e] = job[b][e]
      /\ \/ job'["MIGRATE"][d] = job["MIGRATE"][d]
         \/ /\ row.file # NoFile /\ ~ActiveJob(job["MIGRATE"][d])
            /\ job'["MIGRATE"][d] = PendingJob(row)
  BY <1>3, <1>4
<1>6. /\ PendingJob(row).status = "PENDING" /\ PendingJob(row).attempts = 0
      /\ PendingJob(row).file = row.file /\ PendingJob(row).delivery = row.delivery
  BY DEF PendingJob
<1>7. Typed'
  <2> SUFFICES ASSUME NEW b \in Action, NEW e \in Docs PROVE JobSound(job'[b][e])
    BY DEF Typed, JobSound
  <2>1. JobSound(job[b][e])
    BY <1>1, RowsTyped
  <2>2. row.file # NoFile => JobSound(PendingJob(row))
    BY <1>6 DEF JobSound
  <2> QED BY <1>5, <2>1, <2>2
<1>8. OneFile' /\ Delivered' /\ RowSound'
  <2>1. ASSUME NEW e \in Docs, NEW f \in Files, NEW how \in Delivery, Says(e, f, how)'
        PROVE  Says(e, f, how)
    <3>1. CASE \E a \in Action : job'[a][e].file = f /\ job'[a][e].delivery = how
      <4>1. PICK a \in Action : job'[a][e].file = f /\ job'[a][e].delivery = how
        BY <3>1
      <4>2. CASE job'[a][e] = job[a][e]
        BY <4>1, <4>2 DEF Says
      <4>3. CASE e = d /\ job'[a][e] = PendingJob(row)
        BY <1>2, <1>6, <4>1, <4>3 DEF Says
      <4> QED BY <1>5, <4>2, <4>3
    <3>2. CASE ~\E a \in Action : job'[a][e].file = f /\ job'[a][e].delivery = how
      BY <1>2, <2>1, <3>2 DEF Says
    <3> QED BY <3>1, <3>2
  <2>2. Forward
    BY <1>2 DEF Forward
  <2>3. \A e \in Docs : job'["DELETE"][e] = job["DELETE"][e]
    BY <1>3, <1>5
  <2> QED BY <1>2, <2>1, <2>2, <2>3, NothingNew
<1>9. \A a \in Action, e \in Docs :
         /\ job[a][e].status = "PROCESSING" => job'[a][e] = job[a][e]
         /\ job'[a][e].status = "PROCESSING" => job'[a][e] = job[a][e]
  BY <1>5, <1>6 DEF ActiveJob
<1>10. ASSUME NEW w \in Workers, worker[w] # Idle
       PROVE  JobOf(w)' = JobOf(w) /\ JobOf(w).status = "PROCESSING"
  BY <1>2, <1>9, <1>10, RunFacts DEF JobOf
<1>11. OneRun'
  <2>1. \A w \in Workers : worker'[w] # Idle => JobOf(w)'.status = "PROCESSING"
    BY <1>2, <1>10
  <2> QED BY <1>1, <1>2, <1>9, <2>1 DEF OneRun, Runs
<1>12. ASSUME NEW w \in Workers PROVE RunSound(w)'
  <2> SUFFICES ASSUME worker[w] # Idle PROVE RunSound(w)'
    BY <1>2 DEF RunSound
  <2>1. RunSound(w) /\ JobOf(w)' = JobOf(w)
    BY <1>10 DEF IInv
  <2> QED BY <1>2, <2>1 DEF RunSound, Exists
<1>13. GoneHasCause' /\ DeletionSound'
  <2>1. \A e \in Docs : job'["DELETE"][e] = job["DELETE"][e]
    BY <1>3, <1>5
  <2> QED BY <1>1, <1>2, <2>1 DEF GoneHasCause, DeletionSound, DeletedFor
<1>14. UndeliverableIsMoving'
  <2>1. \A e \in Docs : job["MIGRATE"][e].status \in {"PROCESSING", "PENDING", "RETRY"} =>
                          job'["MIGRATE"][e].status = job["MIGRATE"][e].status
    BY <1>3, <1>5 DEF ActiveJob
  <2>2. \A e \in Docs : job["MIGRATE"][e].status = "FAILED" =>
                          job'["MIGRATE"][e].status \in {"FAILED", "PENDING"}
    BY <1>3, <1>5, <1>6
  <2> QED BY <1>1, <1>2, <2>1, <2>2 DEF UndeliverableIsMoving
<1> QED BY <1>7, <1>8, <1>11, <1>12, <1>13, <1>14 DEF IInv
-----------------------------------------------------------------------------
(* Files and calls. *)

\* Neither the rows nor the jobs nor the runs have a part in it.
LEMMA OutsideStep ==
  ASSUME IInv, TypeOK', Forward, UNCHANGED <<doc, job, worker, faults>>,
         \A d \in Docs, f \in Files, how \in Delivery : Says(d, f, how)' => Says(d, f, how),
         \A f \in Files : store'[f] = store[f] \/ (store[f] = "NEW" /\ store'[f] = "authenticated"),
         \A r \in Requests : request'[r] # Idle /\ request'[r].file # NoFile =>
            \/ request'[r] = request[r]
            \/ store[request'[r].file] # "NEW"
  PROVE  IInv'
<1>1. /\ Typed /\ OneFile /\ Delivered /\ RowSound /\ OneRun /\ GoneHasCause /\ DeletionSound
      /\ UndeliverableIsMoving
  BY DEF IInv
<1>2. doc' = doc /\ job' = job /\ worker' = worker /\ faults' = faults
  OBVIOUS
<1>3. Typed'
  BY <1>1, <1>2 DEF Typed, JobSound
<1>4. OneFile' /\ Delivered' /\ RowSound'
  BY <1>2, NothingNew
<1>5. OneRun'
  BY <1>1, <1>2 DEF OneRun, Runs, JobOf
<1>6. \A d \in Docs, f \in Files, how \in Delivery : Says(d, f, how) => store'[f] = store[f]
  BY SaidIsReceived
<1>7. ASSUME NEW w \in Workers PROVE RunSound(w)'
  <2> SUFFICES ASSUME worker[w] # Idle PROVE RunSound(w)'
    BY <1>2 DEF RunSound
  <2>1. RunSound(w) /\ JobOf(w)' = JobOf(w)
    BY <1>2 DEF IInv, JobOf
  <2>2. store'[JobOf(w).file] = store[JobOf(w).file]
    BY <1>6, RunFacts
  <2> QED BY <1>2, <2>1, <2>2 DEF RunSound, Exists
<1>8. GoneHasCause'
  BY <1>1, <1>2 DEF GoneHasCause, DeletedFor
<1>9. DeletionSound'
  <2> SUFFICES ASSUME NEW d \in Docs, job["DELETE"][d].status = "COMPLETED"
               PROVE  store'[job["DELETE"][d].file] = store[job["DELETE"][d].file]
    BY <1>1, <1>2 DEF DeletionSound
  <2> QED BY <1>1, <1>6, JobSays DEF Action
<1>10. UndeliverableIsMoving'
  <2> SUFFICES ASSUME NEW d \in Docs, doc[d].status = "LIVE"
               PROVE  store'[doc[d].file] = store[doc[d].file]
    BY <1>1, <1>2 DEF UndeliverableIsMoving
  <2>1. doc[d].file \in Files /\ doc[d].delivery \in Delivery /\ Says(d, doc[d].file, doc[d].delivery)
    BY <1>1 DEF RowSound, Typed, TypeOK, Row, Says
  <2> QED BY <1>6, <2>1
<1> QED BY <1>3, <1>4, <1>5, <1>7, <1>8, <1>9, <1>10 DEF IInv

LEMMA UploadKeepsInv ==
  ASSUME IInv, TypeOK', NEW f \in Files, Upload(f)
  PROVE  IInv'
<1>1. store' = [store EXCEPT ![f] = "authenticated"] /\ store[f] = "NEW"
      /\ UNCHANGED <<doc, job, worker, faults>> /\ request' = request /\ scan' = scan
  BY DEF Upload
<1>2. store \in [Files -> Delivery \cup {"NEW", "GONE"}]
  BY DEF IInv, Typed, TypeOK
<1>3. \A g \in Files : store'[g] = store[g] \/ (store[g] = "NEW" /\ store'[g] = "authenticated")
  <2> TAKE g \in Files
  <2>1. CASE g = f
    BY <1>1, <1>2, <2>1
  <2>2. CASE g # f
    BY <1>1, <1>2, <2>2
  <2> QED BY <2>1, <2>2
<1>4. Forward
  BY <1>3 DEF Forward
<1>5. \A d \in Docs, g \in Files, how \in Delivery : Says(d, g, how)' => Says(d, g, how)
  BY <1>1 DEF Says
<1> QED BY <1>1, <1>3, <1>4, <1>5, OutsideStep

LEMMA ReadRowsKeepsInv ==
  ASSUME IInv, TypeOK', ReadRows
  PROVE  IInv'
<1>1. store' = store /\ UNCHANGED <<doc, job, worker, faults>> /\ request' = request
      /\ \A f \in Files : store'[f] = store[f]
  BY DEF ReadRows
<1>2. \A d \in Docs, row \in Row : <<d, row>> \in scan' => row = doc[d]
  BY DEF ReadRows
<1>3. \A d \in Docs, g \in Files, how \in Delivery : Says(d, g, how)' => Says(d, g, how)
  BY <1>1, <1>2 DEF Says
<1>4. Forward
  BY <1>1 DEF Forward
<1> QED BY <1>1, <1>3, <1>4, OutsideStep

LEMMA CallKeepsInv ==
  ASSUME IInv, TypeOK', NEW r \in Requests, NEW f \in Uploads \cup {NoFile},
         BeginReplace(r, f) \/ BeginAdd(r, f) \/ AbortAttach(r)
  PROVE  IInv'
<1>1. store' = store /\ UNCHANGED <<doc, job, worker, faults>> /\ scan' = scan
  BY DEF BeginReplace, BeginAdd, AbortAttach
<1>2. request \in [Requests -> {Idle} \cup Request]
  BY DEF IInv, Typed, TypeOK, Request
<1>3. /\ \A q \in Requests \ {r} : request'[q] = request[q]
      /\ request'[r] = Idle \/ (request'[r].file = f /\ (f # NoFile => store[f] # "NEW"))
  BY <1>2 DEF BeginReplace, BeginAdd, AbortAttach, Called
<1>4. \A d \in Docs, g \in Files, how \in Delivery : Says(d, g, how)' => Says(d, g, how)
  BY <1>1 DEF Says
<1>5. Forward
  BY <1>1 DEF Forward
<1>6. \A q \in Requests : request'[q] # Idle /\ request'[q].file # NoFile =>
         request'[q] = request[q] \/ store[request'[q].file] # "NEW"
  BY <1>3
<1> QED BY <1>1, <1>4, <1>5, <1>6, OutsideStep
-----------------------------------------------------------------------------
(* Types. *)

LEMMA JobTyped ==
  ASSUME Typed, NEW a \in Action, NEW d \in Docs, NEW j \in Job,
         job' = [job EXCEPT ![a][d] = j]
  PROVE  job' \in [Action -> [Docs -> Job]]
<1>1. job \in [Action -> [Docs -> Job]]
  BY DEF Typed, TypeOK
<1> QED BY <1>1

LEMMA WorkerTyped ==
  ASSUME Typed, NEW w \in Workers, worker[w] # Idle, NEW s \in Step, Goes(w, s)
  PROVE  worker' \in [Workers -> {Idle} \cup Run]
<1>1. worker \in [Workers -> {Idle} \cup Run]
  BY DEF Typed, TypeOK, Run
<1>2. worker[w] \in Run
  BY <1>1
<1>3. [worker[w] EXCEPT !.step = s] \in Run
  BY <1>2 DEF Run
<1>4. worker' = [worker EXCEPT ![w] = [worker[w] EXCEPT !.step = s]]
  BY <1>1 DEF Goes
<1> QED BY <1>1, <1>3, <1>4

\* A step that may stop or move one run, and adds a fault or none.
LEMMA RunTyped ==
  ASSUME Typed, NEW w \in Workers, worker[w] # Idle,
         worker' = [worker EXCEPT ![w] = Idle] \/ \E s \in Step : Goes(w, s)
  PROVE  worker' \in [Workers -> {Idle} \cup Run]
<1>1. worker \in [Workers -> {Idle} \cup Run]
  BY DEF Typed, TypeOK, Run
<1>2. CASE worker' = [worker EXCEPT ![w] = Idle]
  BY <1>1, <1>2
<1>3. CASE \E s \in Step : Goes(w, s)
  BY <1>3, WorkerTyped
<1> QED BY <1>2, <1>3

LEMMA StoreTyped ==
  ASSUME IInv, NEW w \in Workers, worker[w].step = "CALL",
         store' = StoreAfter(JobOf(w), worker[w].action)
  PROVE  store' \in [Files -> Delivery \cup {"NEW", "GONE"}]
<1>1. store \in [Files -> Delivery \cup {"NEW", "GONE"}]
  BY DEF IInv, Typed, TypeOK
<1>2. JobOf(w).file \in Files
  BY RunFacts DEF Idle
<1> QED BY <1>1, <1>2 DEF StoreAfter, Delivery

\* The rows as they are after any of the steps that delete rows.
LEMMA RowsDeletedTyped ==
  ASSUME Typed, NEW ds \in SUBSET Docs, \A d \in ds : doc[d].file # NoFile
  PROVE  /\ RowsDeleted(ds) \in [Docs -> Row]
         /\ job' = DeletionsEnqueued(ds) => job' \in [Action -> [Docs -> Job]]
<1>1. \A d \in Docs : doc[d] \in Row
  BY RowsTyped
<1>2. \A d \in Docs : [doc[d] EXCEPT !.status = "DELETED"] \in Row
  BY <1>1 DEF Row
<1>3. RowsDeleted(ds) \in [Docs -> Row]
  BY <1>1, <1>2 DEF RowsDeleted
<1>4. job' = DeletionsEnqueued(ds) => job' \in [Action -> [Docs -> Job]]
  BY DeletionsFacts
<1> QED BY <1>3, <1>4

LEMMA AttachedTyped ==
  ASSUME NEW f \in Uploads
  PROVE  /\ Attached(f) \in Row /\ Attached(f).status = "LIVE"
         /\ Attached(f).file = f /\ Attached(f).delivery = "authenticated"
BY DEF Attached, Row, Files, Delivery
-----------------------------------------------------------------------------
(* The steps that delete, purge or add rows. *)

\* Each of a row that is deleted.
LEMMA DeletedRow ==
  ASSUME Typed, NEW ds \in SUBSET Docs, NEW d \in Docs, doc'[d] = RowsDeleted(ds)[d],
         d \in ds => Exists(d) /\ doc[d].file # NoFile
  PROVE  RowStep(ds, d)
<1>1. doc[d] \in Row
  BY RowsTyped
<1>2. doc'[d] = IF d \in ds THEN [doc[d] EXCEPT !.status = "DELETED"] ELSE doc[d]
  BY DEF RowsDeleted
<1>3. CASE d \in ds
  <2>1. doc'[d].status = "DELETED" /\ doc'[d].file = doc[d].file /\ doc'[d].delivery = doc[d].delivery
    BY <1>1, <1>2, <1>3 DEF Row
  <2> QED BY <1>3, <2>1 DEF RowStep
<1>4. CASE d \notin ds
  BY <1>2, <1>4 DEF RowStep
<1> QED BY <1>3, <1>4

LEMMA LiveHasFile ==
  ASSUME IInv
  PROVE  /\ LiveTenantDocs \in SUBSET Docs
         /\ \A d \in LiveTenantDocs : Exists(d) /\ doc[d].file # NoFile
         /\ \A d \in Docs : doc[d].status = "LIVE" => Exists(d) /\ doc[d].file # NoFile
BY DEF IInv, RowSound, LiveTenantDocs, Exists, Docs

LEMMA DeleteRowsKeepsInv ==
  ASSUME IInv, NEW ds \in SUBSET Docs, \A d \in ds : Exists(d) /\ doc[d].file # NoFile,
         DeleteRows(ds), UNCHANGED <<store, worker, scan, faults>>, request' = request,
         tenant' \in {"ACTIVE", "SCHEDULED", "ANONYMIZED"}
  PROVE  IInv'
<1>1. Typed
  BY DEF IInv
<1>2. doc' = RowsDeleted(ds) /\ job' = DeletionsEnqueued(ds)
  BY DEF DeleteRows
<1>3. doc' \in [Docs -> Row] /\ job' \in [Action -> [Docs -> Job]]
  BY <1>1, <1>2, RowsDeletedTyped
<1>4. TypeOK'
  BY <1>1, <1>3 DEF Typed, TypeOK
<1>5. \A d \in Docs : RowStep(ds, d)
  BY <1>1, <1>2, DeletedRow
<1>6. \A r \in Requests : request'[r] # Idle => request'[r] = request[r]
  OBVIOUS
<1> QED BY <1>2, <1>4, <1>5, <1>6, RowsStep

LEMMA AddDocumentKeepsInv ==
  ASSUME IInv, NEW d \in Docs, NEW f \in Files, AddDocument(d, f)
  PROVE  IInv'
<1>1. Typed /\ doc \in [Docs -> Row] /\ job \in [Action -> [Docs -> Job]] /\ "DELETE" \in Action
  BY DEF IInv, Typed, TypeOK, Action
<1>2. f \in Uploads /\ doc[d].status = "NONE" /\ store[f] # "NEW" /\ doc' = [doc EXCEPT ![d] = Attached(f)]
  BY DEF AddDocument
<1>3. /\ job' = job /\ UNCHANGED <<store, worker, scan, faults>> /\ request' = request /\ tenant' = tenant
  BY DEF AddDocument
<1>4. job' = DeletionsEnqueued({})
  BY <1>1, <1>3 DEF DeletionsEnqueued
<1>5. doc' \in [Docs -> Row]
  BY <1>1, <1>2, AttachedTyped
<1>6. TypeOK'
  BY <1>1, <1>3, <1>5 DEF Typed, TypeOK
<1>7. \A e \in Docs : RowStep({}, e)
  BY <1>1, <1>2 DEF RowStep
<1>8. \A r \in Requests : request'[r] # Idle => request'[r] = request[r]
  BY <1>3
<1> QED BY <1>3, <1>4, <1>6, <1>7, <1>8, RowsStep

LEMMA CommitAttachKeepsInv ==
  ASSUME IInv, NEW r \in Requests, CommitAttach(r)
  PROVE  IInv'
<1> DEFINE ds == Replaced(r)
<1>1. /\ Typed /\ doc \in [Docs -> Row]
      /\ request \in [Requests -> {Idle} \cup Request]
  BY DEF IInv, Typed, TypeOK, Request
<1>2. /\ request[r] # Idle /\ job' = DeletionsEnqueued(ds) /\ request' = [request EXCEPT ![r] = Idle]
      /\ UNCHANGED <<store, worker, scan, faults>> /\ tenant' = tenant
  BY DEF CommitAttach
<1>3. ds \in SUBSET Docs /\ \A d \in ds : Exists(d) /\ doc[d].file # NoFile
  BY LiveHasFile DEF Replaced
<1>4. \A d \in ds : doc[d].status # "NONE"
  BY <1>3 DEF Exists
<1>5. request[r].file # NoFile => request[r].file \in Uploads /\ store[request[r].file] # "NEW"
  BY <1>1, <1>2 DEF Request, IInv, Delivered
<1>6. \/ doc' = RowsDeleted(ds)
      \/ \E e \in TenantDocs, f \in Uploads :
            /\ doc[e].status = "NONE" /\ store[f] # "NEW"
            /\ doc' = [RowsDeleted(ds) EXCEPT ![e] = Attached(f)]
  BY <1>5 DEF CommitAttach
<1> HIDE DEF ds
<1>7. RowsDeleted(ds) \in [Docs -> Row] /\ job' \in [Action -> [Docs -> Job]]
  BY <1>1, <1>2, <1>3, RowsDeletedTyped
<1>8. doc' \in [Docs -> Row] /\ \A d \in Docs : RowStep(ds, d)
  <2>1. CASE doc' = RowsDeleted(ds)
    BY <1>1, <1>3, <1>7, <2>1, DeletedRow
  <2>2. CASE \E e \in TenantDocs, f \in Uploads :
                /\ doc[e].status = "NONE" /\ store[f] # "NEW"
                /\ doc' = [RowsDeleted(ds) EXCEPT ![e] = Attached(f)]
    <3>1. PICK e \in TenantDocs, f \in Uploads :
                /\ doc[e].status = "NONE" /\ store[f] # "NEW"
                /\ doc' = [RowsDeleted(ds) EXCEPT ![e] = Attached(f)]
      BY <2>2
    <3>2. e \in Docs /\ e \notin ds
      BY <1>4, <3>1 DEF Docs
    <3>3. doc' \in [Docs -> Row]
      BY <1>7, <3>1, AttachedTyped
    <3>4. RowStep(ds, e)
      BY <1>7, <3>1, <3>2 DEF RowStep
    <3>5. \A d \in Docs \ {e} : RowStep(ds, d)
      <4> TAKE d \in Docs \ {e}
      <4>1. doc'[d] = RowsDeleted(ds)[d]
        BY <1>7, <3>1
      <4> QED BY <1>1, <1>3, <4>1, DeletedRow
    <3> QED BY <3>3, <3>4, <3>5
  <2> QED BY <1>6, <2>1, <2>2
<1>9. \A q \in Requests : request'[q] # Idle => request'[q] = request[q]
  BY <1>1, <1>2
<1>10. TypeOK'
  BY <1>1, <1>2, <1>7, <1>8 DEF Typed, TypeOK, Request
<1> QED BY <1>2, <1>3, <1>8, <1>9, <1>10, RowsStep

LEMMA ExpireRetentionKeepsInv ==
  ASSUME IInv, NEW d \in Docs, ExpireRetention(d)
  PROVE  IInv'
<1>1. /\ Typed /\ doc \in [Docs -> Row] /\ doc[d].status = "LIVE" /\ Exists(d) /\ doc[d].file # NoFile
  BY LiveHasFile DEF IInv, Typed, TypeOK, ExpireRetention
<1>2. UNCHANGED <<store, worker, scan, faults>> /\ request' = request /\ tenant' = tenant
  BY DEF ExpireRetention
<1>3. CASE DeleteRows({d})
  <2>1. tenant' \in {"ACTIVE", "SCHEDULED", "ANONYMIZED"}
    BY <1>1, <1>2 DEF Typed, TypeOK
  <2> QED BY <1>1, <1>2, <1>3, <2>1, DeleteRowsKeepsInv
<1>4. CASE /\ doc' = [doc EXCEPT ![d] = [@ EXCEPT !.status = "PURGED", !.file = NoFile]]
           /\ job' = DeletionsEnqueued({d})
  <2>1. doc[d] \in Row
    BY <1>1
  <2>2. doc'[d] = [doc[d] EXCEPT !.status = "PURGED", !.file = NoFile]
    BY <1>1, <1>4
  <2>3. /\ doc'[d] \in Row
        /\ doc'[d].status = "PURGED" /\ doc'[d].file = NoFile /\ doc'[d].delivery = doc[d].delivery
    BY <2>1, <2>2 DEF Row
  <2>4. \A e \in Docs \ {d} : doc'[e] = doc[e]
    BY <1>1, <1>4
  <2>5. doc' \in [Docs -> Row]
    <3> DEFINE row == [doc[d] EXCEPT !.status = "PURGED", !.file = NoFile]
    <3>1. row \in Row /\ doc' = [doc EXCEPT ![d] = row]
      BY <1>4, <2>2, <2>3
    <3> HIDE DEF row
    <3> QED BY <1>1, <3>1
  <2>6. \A e \in Docs : RowStep({d}, e)
    BY <1>1, <2>3, <2>4 DEF RowStep
  <2>7. job' \in [Action -> [Docs -> Job]]
    <3>1. {d} \in SUBSET Docs /\ \A e \in {d} : doc[e].file # NoFile
      BY <1>1
    <3> QED BY <1>1, <1>4, <3>1, DeletionsFacts
  <2>8. TypeOK'
    BY <1>1, <1>2, <2>5, <2>7 DEF Typed, TypeOK
  <2>9. \A r \in Requests : request'[r] # Idle => request'[r] = request[r]
    BY <1>2
  <2> QED BY <1>2, <1>4, <2>6, <2>8, <2>9, RowsStep
<1> QED BY <1>3, <1>4 DEF ExpireRetention
-----------------------------------------------------------------------------
(* The invariant holds at the start and every step keeps it. *)

LEMMA InitHasInv == Init => IInv
<1> SUFFICES ASSUME Init PROVE IInv
  OBVIOUS
<1>1. PICK old \in [LegacyFiles -> Docs] :
         /\ \A f, g \in LegacyFiles : old[f] = old[g] => f = g
         /\ doc = [d \in Docs |-> IF \E f \in LegacyFiles : old[f] = d
                                   THEN Legacy(d, CHOOSE f \in LegacyFiles : old[f] = d)
                                   ELSE NoRow]
  BY DEF Init
<1>2. /\ worker = [w \in Workers |-> Idle] /\ request = [r \in Requests |-> Idle]
      /\ tenant = "ACTIVE" /\ scan = {} /\ faults = 0
      /\ store = [f \in Files |-> IF f \in LegacyFiles THEN "upload" ELSE "NEW"]
  BY DEF Init
<1>3. LegacyFiles \subseteq Files /\ NoFile \notin Files /\ LegacyFiles \cap Uploads = {}
      /\ MaxAttempts \in Nat /\ MaxFaults \in Nat
  BY DocumentsAssumption DEF Files
<1>4. \A d \in Docs : \/ doc[d] = NoRow
                      \/ \E f \in LegacyFiles : old[f] = d /\ doc[d] = Legacy(d, f)
  BY <1>1
<1>5. /\ NoRow.status = "NONE" /\ NoRow.file = NoFile /\ NoRow.delivery = "authenticated" /\ NoRow \in Row
      /\ \A d \in Docs, f \in LegacyFiles :
            /\ Legacy(d, f).status = "LIVE" /\ Legacy(d, f).file = f
            /\ Legacy(d, f).delivery = "upload" /\ Legacy(d, f) \in Row
  BY <1>3 DEF NoRow, Legacy, Row, Delivery
<1>6. \A d \in Docs :
         \/ /\ doc[d].status = "NONE" /\ doc[d].file = NoFile /\ doc[d] \in Row
         \/ /\ doc[d].status = "LIVE" /\ doc[d].file \in LegacyFiles /\ old[doc[d].file] = d
            /\ doc[d].delivery = "upload" /\ doc[d] \in Row
  BY <1>4, <1>5
<1> DEFINE j(d) == [status |-> "PENDING", attempts |-> 0, file |-> doc[d].file, delivery |-> "upload"]
<1>7. job = [a \in Action |-> [d \in Docs |->
               IF a = "MIGRATE" /\ doc[d].status = "LIVE" THEN j(d) ELSE NoJob]]
  BY DEF Init
<1>8. \A d \in Docs : /\ j(d).status = "PENDING" /\ j(d).attempts = 0
                      /\ j(d).file = doc[d].file /\ j(d).delivery = "upload"
                      /\ doc[d].status = "LIVE" => j(d) \in Job
  BY <1>3, <1>6 DEF Job, JobStatus, Delivery
<1>9. /\ NoJob.status = "NONE" /\ NoJob.attempts = 0 /\ NoJob.file = NoFile /\ NoJob \in Job
  BY <1>3 DEF NoJob, Job, JobStatus, Delivery
<1> HIDE DEF j
<1>10. \A a \in Action, d \in Docs :
          \/ job[a][d] = NoJob
          \/ a = "MIGRATE" /\ doc[d].status = "LIVE" /\ job[a][d] = j(d)
  BY <1>7
<1>11. /\ job \in [Action -> [Docs -> Job]] /\ doc \in [Docs -> Row]
  <2>1. \A d \in Docs : doc[d].status = "LIVE" => j(d) \in Job
    BY <1>8
  <2>2. doc \in [Docs -> Row]
    BY <1>1, <1>6
  <2> QED BY <1>7, <1>9, <2>1, <2>2
<1>12. TypeOK
  BY <1>2, <1>3, <1>11 DEF TypeOK, Delivery
<1>13. ASSUME NEW d \in Docs, NEW f \in Files, NEW how \in Delivery, Says(d, f, how)
       PROVE  f \in LegacyFiles /\ old[f] = d /\ how = "upload" /\ doc[d].file = f /\ doc[d].status = "LIVE"
  <2>1. CASE doc[d].file = f /\ doc[d].delivery = how
    BY <1>3, <1>6, <2>1
  <2>2. CASE \E a \in Action : job[a][d].file = f /\ job[a][d].delivery = how
    BY <1>3, <1>6, <1>8, <1>9, <1>10, <2>2
  <2> QED BY <1>2, <1>13, <2>1, <2>2 DEF Says
<1>14. Typed
  <2>1. \A a \in Action, d \in Docs : JobSound(job[a][d])
    BY <1>3, <1>6, <1>8, <1>9, <1>10 DEF JobSound
  <2> QED BY <1>12, <2>1 DEF Typed
<1>15. OneFile
  <2> SUFFICES ASSUME NEW d \in Docs, NEW f \in Files, NEW how \in Delivery, Says(d, f, how)
               PROVE  /\ \A g \in Files, too \in Delivery : Says(d, g, too) => f = g
                      /\ f \in LegacyFiles => \A e \in Docs, too \in Delivery : Says(e, f, too) => d = e
    BY DEF OneFile
  <2>1. doc[d].file = f /\ old[f] = d
    BY <1>13
  <2> QED BY <1>13, <2>1
<1>16. Delivered
  <2>1. \A d \in Docs, f \in Files : /\ Says(d, f, "upload") => f \in LegacyFiles
                                     /\ ~Says(d, f, "authenticated")
    BY <1>13 DEF Delivery
  <2>2. /\ \A f \in LegacyFiles : store[f] # "NEW"
        /\ \A f \in Uploads : store[f] # "upload"
        /\ \A r \in Requests : request[r] = Idle
    BY <1>2, <1>3 DEF Files
  <2> QED BY <2>1, <2>2 DEF Delivered
<1>17. RowSound
  <2> SUFFICES ASSUME NEW d \in Docs
               PROVE  /\ doc[d].status = "NONE" => \A f \in Files, how \in Delivery : ~Says(d, f, how)
                      /\ doc[d].status = "LIVE" => doc[d].file # NoFile /\ job["DELETE"][d].status = "NONE"
                      /\ doc[d].status \in {"PURGED", "DELETED"} => job["DELETE"][d].file # NoFile
    BY DEF RowSound
  <2>1. job["DELETE"][d].status = "NONE"
    BY <1>9, <1>10 DEF Action
  <2> QED BY <1>3, <1>6, <1>13, <2>1
<1>18. OneRun
  <2>1. \A w \in Workers : worker[w] = Idle
    BY <1>2
  <2>2. \A a \in Action, d \in Docs : job[a][d].status # "PROCESSING"
    BY <1>8, <1>9, <1>10
  <2> QED BY <2>1, <2>2 DEF OneRun
<1>19. \A w \in Workers : RunSound(w)
  BY <1>2 DEF RunSound
<1>20. GoneHasCause /\ DeletionSound
  <2>1. \A f \in Files : store[f] # "GONE"
    BY <1>2
  <2>2. \A d \in Docs : job["DELETE"][d].status # "COMPLETED"
    BY <1>8, <1>9, <1>10 DEF Action
  <2> QED BY <2>1, <2>2 DEF GoneHasCause, DeletionSound
<1>21. UndeliverableIsMoving
  <2>1. \A d \in Docs : doc[d].status = "LIVE" => store[doc[d].file] = doc[d].delivery
    BY <1>2, <1>3, <1>6
  <2> QED BY <2>1 DEF UndeliverableIsMoving
<1> QED BY <1>14, <1>15, <1>16, <1>17, <1>18, <1>19, <1>20, <1>21 DEF IInv

\* A step of a run.
LEMMA WorkerKeepsInv ==
  ASSUME IInv, NEW w \in Workers,
         \/ CallStore(w) \/ Lookup(w) \/ WriteSource(w) \/ RecordOutcome(w)
         \/ StepFails(w) \/ AnswerLost(w) \/ Crash(w)
  PROVE  IInv'
<1>1. Typed /\ TypeOK /\ RunSound(w) /\ faults \in Nat
  BY DocumentsAssumption DEF IInv, Typed, TypeOK
<1>2. worker[w] # Idle
  BY DEF CallStore, Lookup, WriteSource, RecordOutcome, StepFails, AnswerLost, Crash, Idle
<1>3. /\ worker[w].action \in Action /\ worker[w].doc \in Docs
      /\ worker[w].action = "DELETE" \/ worker[w].action = "MIGRATE"
  BY <1>2, RunFacts DEF Action
<1>4. ASSUME NEW s \in Step, Goes(w, s)
      PROVE  /\ worker'[w] = [worker[w] EXCEPT !.step = s] /\ worker'[w].step = s
             /\ worker'[w].action = worker[w].action /\ worker'[w].doc = worker[w].doc
  <2>1. worker \in [Workers -> {Idle} \cup Run] /\ worker[w] \in Run
    BY <1>1, <1>2 DEF TypeOK, Run
  <2>2. worker'[w] = [worker[w] EXCEPT !.step = s]
    BY <1>4, <2>1 DEF Goes
  <2> QED BY <2>1, <2>2 DEF Run
<1>5. ASSUME CallStore(w) PROVE IInv'
  <2> DEFINE s == Answer(JobOf(w), worker[w].action)
  <2>1. s \in Step
    BY <1>3 DEF Answer, Step
  <2>2. /\ worker[w].step = "CALL" /\ store' = StoreAfter(JobOf(w), worker[w].action) /\ Goes(w, s)
        /\ UNCHANGED <<doc, job, request, scan>> /\ faults' = faults /\ tenant' = tenant
    BY <1>5 DEF CallStore
  <2> HIDE DEF s
  <2>3. worker' \in [Workers -> {Idle} \cup Run]
    BY <1>1, <1>2, <2>1, <2>2, WorkerTyped
  <2>4. store' \in [Files -> Delivery \cup {"NEW", "GONE"}]
    BY <2>2, StoreTyped
  <2>5. TypeOK'
    BY <1>1, <2>2, <2>3, <2>4 DEF TypeOK, Run
  <2> QED BY <2>1, <2>2, <2>5, StoreStep DEF s
<1>6. ASSUME AnswerLost(w) PROVE IInv'
  <2> DEFINE s == IF worker[w].action = "DELETE" THEN "ERROR" ELSE "LOOKUP"
  <2>1. s \in Step
    BY DEF Step
  <2>2. /\ worker[w].step = "CALL" /\ store' = StoreAfter(JobOf(w), worker[w].action) /\ Goes(w, s)
        /\ UNCHANGED <<doc, job, request, scan>> /\ faults' = faults + 1 /\ tenant' = tenant
        /\ faults < MaxFaults
    BY <1>6 DEF AnswerLost, Fault
  <2> HIDE DEF s
  <2>3. worker' \in [Workers -> {Idle} \cup Run]
    BY <1>1, <1>2, <2>1, <2>2, WorkerTyped
  <2>4. store' \in [Files -> Delivery \cup {"NEW", "GONE"}]
    BY <2>2, StoreTyped
  <2>5. TypeOK' /\ faults' > 0
    BY <1>1, <2>2, <2>3, <2>4, DocumentsAssumption DEF TypeOK, Run
  <2> QED BY <2>1, <2>2, <2>5, StoreStep DEF s
<1>7. ASSUME Lookup(w) PROVE IInv'
  <2> DEFINE s == IF store[JobOf(w).file] = "authenticated" THEN "REWRITE" ELSE "ERROR"
  <2>1. s \in Step
    BY DEF Step
  <2>2. /\ worker[w].step = "LOOKUP" /\ Goes(w, s)
        /\ doc' = doc /\ store' = store /\ job' = job /\ request' = request /\ scan' = scan
        /\ faults' = faults /\ tenant' = tenant
    BY <1>7 DEF Lookup
  <2>3. JobOf(w)' = JobOf(w)
    BY <1>4, <2>1, <2>2 DEF JobOf
  <2>4. s = "REWRITE" => store[JobOf(w).file] # "upload"
    OBVIOUS
  <2>5. s = "ERROR" => store[JobOf(w).file] # "authenticated"
    OBVIOUS
  <2>6. s = "REWRITE" \/ s = "ERROR"
    OBVIOUS
  <2> HIDE DEF s
  <2>7. worker' \in [Workers -> {Idle} \cup Run]
    BY <1>1, <1>2, <2>1, <2>2, WorkerTyped
  <2>8. TypeOK'
    BY <1>1, <2>2, <2>7 DEF TypeOK, Run
  <2>9. RunSound(w)'
    BY <1>1, <1>2, <1>4, <2>1, <2>2, <2>3, <2>4, <2>5, <2>6 DEF RunSound
  <2> QED BY <1>2, <2>1, <2>2, <2>8, <2>9, RunStep
<1>8. ASSUME WriteSource(w) PROVE IInv'
  <2>1. /\ Goes(w, "OK") /\ "OK" \in Step /\ UNCHANGED <<store, job, request, tenant, scan, faults>>
    BY <1>8 DEF WriteSource, Step
  <2>2. worker' \in [Workers -> {Idle} \cup Run]
    BY <1>1, <1>2, <2>1, WorkerTyped
  <2>3. doc' \in [Docs -> Row]
    <3> DEFINE row == [doc[worker[w].doc] EXCEPT !.file = JobOf(w).file, !.delivery = "authenticated"]
    <3>1. doc \in [Docs -> Row] /\ JobOf(w).file \in Files
      BY <1>1, <1>2, RunFacts DEF TypeOK
    <3>2. row \in Row
      <4>1. doc[worker[w].doc] \in Row
        BY <1>3, <3>1
      <4> QED BY <3>1, <4>1 DEF Row, Delivery
    <3>3. doc' = doc \/ doc' = [doc EXCEPT ![worker[w].doc] = row]
      BY <1>8, <3>1 DEF WriteSource
    <3> HIDE DEF row
    <3> QED BY <3>1, <3>2, <3>3
  <2>4. TypeOK'
    BY <1>1, <2>1, <2>2, <2>3 DEF TypeOK, Run
  <2> QED BY <1>8, <2>4, WriteSourceKeepsInv
<1>9. ASSUME RecordOutcome(w) PROVE IInv'
  <2>1. /\ worker' = [worker EXCEPT ![w] = Idle] /\ UNCHANGED <<doc, store, request, tenant, scan, faults>>
        /\ job' = [job EXCEPT ![worker[w].action][worker[w].doc].status = Outcome(w)]
    BY <1>9 DEF RecordOutcome
  <2>2. worker' \in [Workers -> {Idle} \cup Run]
    BY <1>1, <1>2, <2>1, RunTyped
  <2>3. job' \in [Action -> [Docs -> Job]]
    <3> DEFINE j == [job[worker[w].action][worker[w].doc] EXCEPT !.status = Outcome(w)]
    <3>1. job[worker[w].action][worker[w].doc] \in Job
      BY <1>1, <1>3, RowsTyped
    <3>2. Outcome(w) \in JobStatus
      BY DEF Outcome, JobStatus
    <3>3. j \in Job
      BY <3>1, <3>2 DEF Job
    <3>4. job' = [job EXCEPT ![worker[w].action][worker[w].doc] = j]
      BY <2>1
    <3> HIDE DEF j
    <3> QED BY <1>1, <1>3, <3>3, <3>4, JobTyped
  <2>4. TypeOK'
    BY <1>1, <2>1, <2>2, <2>3 DEF TypeOK, Run
  <2> QED BY <1>9, <2>4, RecordOutcomeKeepsInv
<1>10. ASSUME StepFails(w) PROVE IInv'
  <2>1. /\ doc' = doc /\ store' = store /\ job' = job /\ request' = request /\ scan' = scan /\ tenant' = tenant
        /\ faults' = faults + 1 /\ faults < MaxFaults
    BY <1>10 DEF StepFails, Fault
  <2>2. PICK s \in Step : /\ Goes(w, s)
                          /\ s = "LOOKUP" \/ s = "ERROR"
                          /\ s = "LOOKUP" => worker[w].action = "MIGRATE"
    <3>1. worker[w].step = "WRITE" => worker[w].action = "MIGRATE"
      BY <1>1, <1>2 DEF RunSound
    <3> QED BY <1>10, <3>1 DEF StepFails, Step
  <2>3. worker' \in [Workers -> {Idle} \cup Run]
    BY <1>1, <1>2, <2>2, WorkerTyped
  <2>4. TypeOK' /\ faults' > 0
    BY <1>1, <2>1, <2>3, DocumentsAssumption DEF TypeOK, Run
  <2>5. RunSound(w)'
    BY <1>4, <2>2, <2>4 DEF RunSound
  <2> QED BY <1>2, <2>1, <2>2, <2>4, <2>5, RunStep
<1>11. ASSUME Crash(w) PROVE IInv'
  <2>1. /\ doc' = doc /\ store' = store /\ job' = job /\ request' = request /\ scan' = scan /\ tenant' = tenant
        /\ faults' = faults + 1 /\ faults < MaxFaults /\ worker' = [worker EXCEPT ![w] = Idle]
    BY <1>11 DEF Crash, Fault
  <2>2. worker' \in [Workers -> {Idle} \cup Run]
    BY <1>1, <1>2, <2>1, RunTyped
  <2>3. TypeOK' /\ faults' > 0
    BY <1>1, <2>1, <2>2, DocumentsAssumption DEF TypeOK, Run
  <2>4. RunSound(w)'
    BY <1>1, <2>1 DEF RunSound, TypeOK
  <2> QED BY <1>2, <2>1, <2>3, <2>4, RunStep
<1> QED BY <1>5, <1>6, <1>7, <1>8, <1>9, <1>10, <1>11

\* A step of a row, of a call or of reconciliation.
LEMMA RowsKeepInv ==
  ASSUME IInv,
         \/ \E f \in Files : Upload(f) \/ \E d \in Docs : AddDocument(d, f)
         \/ \E d \in Docs : DeleteContractDocument(d) \/ ExpireRetention(d)
         \/ \E r \in Requests :
               \/ \E f \in Uploads \cup {NoFile} : BeginReplace(r, f) \/ BeginAdd(r, f)
               \/ CommitAttach(r) \/ AbortAttach(r)
         \/ EraseTenant
         \/ AnonymizeDue
         \/ ReadRows
         \/ \E s \in scan : EnqueueMigration(s[1], s[2])
  PROVE  IInv'
<1>1. Typed /\ TypeOK /\ \A d \in Docs : doc[d] \in Row
  BY RowsTyped DEF IInv, Typed
<1>2. ASSUME NEW f \in Files, Upload(f) PROVE IInv'
  <2>1. store' \in [Files -> Delivery \cup {"NEW", "GONE"}]
    BY <1>1, <1>2 DEF TypeOK, Upload, Delivery
  <2>2. TypeOK'
    BY <1>1, <1>2, <2>1 DEF TypeOK, Upload
  <2> QED BY <1>2, <2>2, UploadKeepsInv
<1>3. ASSUME NEW d \in Docs, DeleteContractDocument(d) PROVE IInv'
  <2>1. /\ Exists(d) /\ doc[d].file # NoFile /\ DeleteRows({d})
        /\ UNCHANGED <<store, worker, scan, faults>> /\ request' = request /\ tenant' = tenant
    BY <1>3 DEF DeleteContractDocument
  <2>2. {d} \in SUBSET Docs /\ \A e \in {d} : Exists(e) /\ doc[e].file # NoFile
    BY <2>1
  <2>3. tenant' \in {"ACTIVE", "SCHEDULED", "ANONYMIZED"}
    BY <1>1, <2>1 DEF TypeOK
  <2> QED BY <2>1, <2>2, <2>3, DeleteRowsKeepsInv
<1>4. ASSUME NEW r \in Requests, NEW f \in Uploads \cup {NoFile},
             BeginReplace(r, f) \/ BeginAdd(r, f) \/ AbortAttach(r)
      PROVE  IInv'
  <2>1. request' \in [Requests -> {Idle} \cup Request]
    <3>1. request \in [Requests -> {Idle} \cup Request]
      BY <1>1 DEF TypeOK, Request
    <3>2. LiveTenantDocs \in SUBSET TenantDocs
      BY DEF LiveTenantDocs
    <3>3. \A replaces \in BOOLEAN :
             [step |-> "WRITE", file |-> f, replaces |-> replaces,
              locked |-> IF replaces THEN LiveTenantDocs ELSE {}] \in Request
      BY <3>2 DEF Request
    <3>4. AbortAttach(r) => request' = [request EXCEPT ![r] = Idle]
      BY DEF AbortAttach
    <3>5. BeginReplace(r, f) \/ BeginAdd(r, f) => \E x \in Request : request' = [request EXCEPT ![r] = x]
      BY <3>3 DEF BeginReplace, BeginAdd, Called
    <3> QED BY <1>4, <3>1, <3>4, <3>5
  <2>2. TypeOK'
    BY <1>1, <1>4, <2>1 DEF TypeOK, Request, BeginReplace, BeginAdd, AbortAttach
  <2> QED BY <1>4, <2>2, CallKeepsInv
<1>5. ASSUME EraseTenant \/ AnonymizeDue PROVE IInv'
  <2>1. /\ DeleteRows(LiveTenantDocs) /\ UNCHANGED <<store, worker, scan, faults>> /\ request' = request
        /\ tenant' \in {"ACTIVE", "SCHEDULED", "ANONYMIZED"}
    BY <1>5 DEF EraseTenant, AnonymizeDue, DeleteTenantDocs
  <2> QED BY <2>1, LiveHasFile, DeleteRowsKeepsInv
<1>6. ASSUME ReadRows PROVE IInv'
  <2>1. scan' \subseteq Docs \X Row
    BY <1>1, <1>6 DEF ReadRows
  <2>2. TypeOK'
    BY <1>1, <1>6, <2>1 DEF TypeOK, ReadRows
  <2> QED BY <1>6, <2>2, ReadRowsKeepsInv
<1>7. ASSUME NEW s \in scan, EnqueueMigration(s[1], s[2]) PROVE IInv'
  <2>1. s[1] \in Docs /\ s[2] \in Row
    BY <1>1 DEF TypeOK
  <2> DEFINE d == s[1]
             row == s[2]
  <2>2. d \in Docs /\ row \in Row /\ EnqueueMigration(d, row)
    BY <1>7, <2>1
  <2> HIDE DEF d, row
  <2>3. job' \in [Action -> [Docs -> Job]]
    <3>1. row.file # NoFile => PendingJob(row) \in Job
      BY <2>2, DocumentsAssumption DEF PendingJob, Job, JobStatus, Row
    <3>2. job' = job \/ (row.file # NoFile /\ job' = [job EXCEPT !["MIGRATE"][d] = PendingJob(row)])
      BY <2>2 DEF EnqueueMigration, Enqueued, PendingJob
    <3>3. job \in [Action -> [Docs -> Job]] /\ "MIGRATE" \in Action
      BY <1>1 DEF TypeOK, Action
    <3> QED BY <1>1, <2>2, <3>1, <3>2, <3>3, JobTyped
  <2>4. TypeOK'
    BY <1>1, <2>2, <2>3 DEF TypeOK, EnqueueMigration
  <2> QED BY <2>2, <2>4, EnqueueMigrationKeepsInv
<1>8. NoFile \in Uploads \cup {NoFile}
  OBVIOUS
<1> QED BY <1>2, <1>3, <1>4, <1>5, <1>6, <1>7, <1>8,
           AddDocumentKeepsInv, ExpireRetentionKeepsInv, CommitAttachKeepsInv

LEMMA ClaimTyped ==
  ASSUME IInv, NEW w \in Workers, NEW a \in Action, NEW d \in Docs, Claim(w, a, d)
  PROVE  TypeOK'
<1> DEFINE j == [job[a][d] EXCEPT !.status = "PROCESSING", !.attempts = @ + 1]
<1>1. Typed /\ TypeOK /\ job[a][d] \in Job /\ JobSound(job[a][d])
  BY RowsTyped DEF IInv, Typed
<1>2. job[a][d].attempts + 1 \in 0..MaxAttempts
  BY <1>1, DocumentsAssumption DEF JobSound, Job, Claim
<1>3. j \in Job
  BY <1>1, <1>2 DEF Job, JobStatus
<1>4. job' = [job EXCEPT ![a][d] = j]
  <2>1. job \in [Action -> [Docs -> Job]]
    BY <1>1 DEF TypeOK
  <2> QED BY <2>1 DEF Claim
<1> HIDE DEF j
<1>5. job' \in [Action -> [Docs -> Job]]
  BY <1>1, <1>3, <1>4, JobTyped
<1>6. worker' \in [Workers -> {Idle} \cup Run]
  BY <1>1 DEF TypeOK, Claim, Run, Step
<1> QED BY <1>1, <1>5, <1>6 DEF TypeOK, Claim, Run

LEMMA StepKeepsInv == IInv /\ [Next]_vars => IInv'
<1> SUFFICES ASSUME IInv, [Next]_vars PROVE IInv'
  OBVIOUS
<1>1. CASE UNCHANGED vars
  <2>1. /\ doc' = doc /\ store' = store /\ job' = job /\ worker' = worker /\ request' = request
        /\ tenant' = tenant /\ scan' = scan /\ faults' = faults
    BY <1>1 DEF vars
  <2>2. TypeOK'
    BY <2>1 DEF IInv, Typed, TypeOK
  <2>3. Forward
    BY <2>1 DEF Forward
  <2>4. \A d \in Docs, f \in Files, how \in Delivery : Says(d, f, how)' => Says(d, f, how)
    BY <2>1 DEF Says
  <2> QED BY <2>1, <2>2, <2>3, <2>4, OutsideStep
<1>2. ASSUME NEW w \in Workers, NEW a \in Action, NEW d \in Docs, Claim(w, a, d) PROVE IInv'
  BY <1>2, ClaimTyped, ClaimKeepsInv
<1>3. ASSUME NEW w \in Workers,
             \/ CallStore(w) \/ Lookup(w) \/ WriteSource(w) \/ RecordOutcome(w)
             \/ StepFails(w) \/ AnswerLost(w) \/ Crash(w)
      PROVE  IInv'
  BY <1>3, WorkerKeepsInv
<1>4. CASE \/ \E f \in Files : Upload(f) \/ \E d \in Docs : AddDocument(d, f)
           \/ \E d \in Docs : DeleteContractDocument(d) \/ ExpireRetention(d)
           \/ \E r \in Requests :
                 \/ \E f \in Uploads \cup {NoFile} : BeginReplace(r, f) \/ BeginAdd(r, f)
                 \/ CommitAttach(r) \/ AbortAttach(r)
           \/ EraseTenant
           \/ AnonymizeDue
           \/ ReadRows
           \/ \E s \in scan : EnqueueMigration(s[1], s[2])
  BY <1>4, RowsKeepInv
<1> QED BY <1>1, <1>2, <1>3, <1>4 DEF Next

\* The inductive invariant holds in every behaviour of the four tables, the
\* jobs, their workers and the image store.
THEOREM Invariance == Spec => []IInv
<1>1. Init => IInv
  BY InitHasInv
<1>2. IInv /\ [Next]_vars => IInv'
  BY StepKeepsInv
<1> QED BY <1>1, <1>2, PTL DEF Spec
-----------------------------------------------------------------------------
(* The properties. *)

\* The bound on a job's attempts is never passed and no row gets a value its
\* columns do not allow, however many faults there are.
THEOREM TypeCorrect == Spec => []TypeOK
<1>1. IInv => TypeOK
  BY DEF IInv, Typed
<1> QED BY <1>1, Invariance, PTL

\* processCloudinaryAssetJobs: of any number of runs at most one works on a
\* job, and a job is left in progress by nobody but a run that failed.
THEOREM JobsAreClaimedByOne == Spec => []ClaimedByOne
<1>1. IInv => ClaimedByOne
  <2> SUFFICES ASSUME IInv, NEW a \in Action, NEW d \in Docs
               PROVE  LET runs == {w \in Workers : Runs(w, a, d)} IN
                      /\ runs # {} => job[a][d].status = "PROCESSING" /\ Cardinality(runs) = 1
                      /\ job[a][d].status = "PROCESSING" /\ runs = {} => faults > 0
    BY DEF ClaimedByOne
  <2> DEFINE runs == {w \in Workers : Runs(w, a, d)}
  <2>1. ASSUME NEW w \in runs
        PROVE  job[a][d].status = "PROCESSING" /\ Cardinality(runs) = 1
    <3>1. job[a][d].status = "PROCESSING"
      BY <2>1 DEF IInv, OneRun, Runs, JobOf
    <3>2. runs = {w}
      BY <2>1 DEF IInv, OneRun, Runs
    <3> QED BY <3>1, <3>2, FS_Singleton
  <2>2. job[a][d].status = "PROCESSING" /\ runs = {} => faults > 0
    BY DEF IInv, OneRun
  <2> HIDE DEF runs
  <2>3. /\ runs # {} => job[a][d].status = "PROCESSING" /\ Cardinality(runs) = 1
        /\ job[a][d].status = "PROCESSING" /\ runs = {} => faults > 0
    BY <2>1, <2>2
  <2> QED BY <2>3 DEF runs
<1> QED BY <1>1, Invariance, PTL

\* A row that says its file is where it is not has a migration under way, or a
\* fault and a migration that gave up or will be tried again.
THEOREM UndeliverableMoves == Spec => []UndeliverableIsMoving
<1>1. IInv => UndeliverableIsMoving
  BY DEF IInv
<1> QED BY <1>1, Invariance, PTL

\* Rows and files part only by a deletion that was asked for.
THEOREM FilesPartForACause == Spec => []FilesHaveCause
<1>1. ASSUME IInv PROVE FilesHaveCause
  <2>1. /\ Typed /\ OneFile /\ Delivered /\ RowSound /\ GoneHasCause /\ DeletionSound
        /\ "DELETE" \in Action
    BY <1>1 DEF IInv, Action
  <2>2. ASSUME NEW d \in Docs, Exists(d), doc[d].file # NoFile, store[doc[d].file] = "GONE"
        PROVE  \E e \in Docs : DeletedFor(e, doc[d].file) /\ (e = d => doc[d].status = "PURGED")
    <3>1. doc[d].file \in Files
      BY <2>1, <2>2, RowsTyped DEF Row
    <3>2. PICK e \in Docs : DeletedFor(e, doc[d].file)
      BY <2>1, <2>2, <3>1 DEF GoneHasCause
    <3>3. e = d => doc[d].status = "PURGED"
      <4>1. e = d => job["DELETE"][d].status # "NONE"
        BY <2>1, <2>2, <3>2, RowsTyped DEF DeletedFor, JobSound
      <4> QED BY <2>1, <2>2, <4>1 DEF RowSound, Exists
    <3> QED BY <3>2, <3>3
  <2>3. ASSUME NEW f \in Files, Used(f), ~Wanted(f), store[f] # "GONE"
        PROVE  \E d \in Docs :
                  /\ DeletedFor(d, f)
                  /\ \/ ActiveJob(job["DELETE"][d])
                     \/ job["DELETE"][d].status = "FAILED"
                     \/ job["DELETE"][d].delivery = "upload" /\ store[f] = "authenticated"
    <3>1. PICK d \in Docs : doc[d].file = f \/ DeletedFor(d, f)
      BY <2>3 DEF Used
    <3>2. f # NoFile /\ doc[d] \in Row /\ job["DELETE"][d] \in Job /\ JobSound(job["DELETE"][d])
      BY <2>1, RowsTyped, DocumentsAssumption
    <3>3. DeletedFor(d, f)
      <4> SUFFICES ASSUME doc[d].file = f PROVE DeletedFor(d, f)
        BY <3>1
      <4>1. ~Exists(d)
        BY <2>3 DEF Wanted, Refers
      <4>2. Says(d, f, doc[d].delivery) /\ doc[d].delivery \in Delivery
        BY <3>2 DEF Says, Row
      <4>3. doc[d].status = "DELETED"
        BY <2>1, <3>2, <4>1, <4>2 DEF RowSound, Exists, Row
      <4>4. job["DELETE"][d].status # "NONE"
        BY <2>1, <3>2, <4>3 DEF RowSound, JobSound
      <4>5. /\ Says(d, job["DELETE"][d].file, job["DELETE"][d].delivery)
            /\ job["DELETE"][d].file \in Files /\ job["DELETE"][d].delivery \in Delivery
        BY <2>1, <4>4, JobSays
      <4> QED BY <2>1, <4>2, <4>5 DEF OneFile, DeletedFor
    <3>4. job["DELETE"][d].status # "NONE" /\ job["DELETE"][d].status \in JobStatus
      BY <3>2, <3>3 DEF DeletedFor, JobSound, Job
    <3>5. job["DELETE"][d].status = "COMPLETED" =>
             job["DELETE"][d].delivery = "upload" /\ store[f] = "authenticated"
      BY <2>1, <2>3, <3>3 DEF DeletionSound, DeletedFor
    <3> QED BY <3>3, <3>4, <3>5 DEF ActiveJob, JobStatus
  <2> QED BY <2>2, <2>3 DEF FilesHaveCause
<1> QED BY <1>1, Invariance, PTL
=============================================================================
