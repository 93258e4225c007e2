----------------------------- MODULE Documents -----------------------------
(***************************************************************************)
(* Files in the image store and the rows that refer to them: the four      *)
(* document tables, the jobs that delete a file or move it from public to  *)
(* authenticated delivery, retention, the erasure of a tenant and the      *)
(* reconciliation (backend/src/modules/documents, tenants/tenant-privacy,  *)
(* tenants/tenant-identity-documents, 20260730_private_document_assets).   *)
(*                                                                         *)
(* Rows and jobs change in transactions, files by calls to the store that  *)
(* no transaction covers: a worker claims a job, calls, writes the row and *)
(* records the outcome, and may fail or die between any two of these.      *)
(***************************************************************************)
EXTENDS Integers, FiniteSets

CONSTANTS
    TenantDocs,     \* rows of tenant_document, all of one tenant
    EvidenceDocs,   \* rows of utility_reading_evidence
    KeptDocs,       \* rows of payment_proof and contract_document
    Uploads,        \* public ids of files uploaded for authenticated delivery
    LegacyFiles,    \* public ids from before: files in public delivery
    Requests,       \* calls under way that attach a tenant's document
    Workers,        \* runs of processCloudinaryAssetJobs under way
    NoFile,
    MaxAttempts,    \* DOCUMENT_JOB_MAX_ATTEMPTS
    MaxFaults       \* bound on failed calls, lost answers, failed writes, crashes

Docs == TenantDocs \cup EvidenceDocs \cup KeptDocs
Files == Uploads \cup LegacyFiles

ASSUME DocumentsAssumption ==
    /\ TenantDocs \cap EvidenceDocs = {} /\ TenantDocs \cap KeptDocs = {}
    /\ EvidenceDocs \cap KeptDocs = {}
    /\ Uploads \cap LegacyFiles = {} /\ NoFile \notin Files
    /\ MaxAttempts \in Nat \ {0} /\ MaxFaults \in Nat

VARIABLES
    doc,        \* doc[d]: a row of one of the four tables
    store,      \* store[f]: how the image store delivers a file
    job,        \* job[action][d]: the last row of cloudinary_asset_job for d
    worker,     \* worker[w]: the job it runs and how far it is
    request,    \* request[r]: a tenant's document being attached
    tenant,     \* the tenant's status and erasure
    scan,       \* rows the reconciliation has read as public
    faults

vars == <<doc, store, job, worker, request, tenant, scan, faults>>

Delivery == {"upload", "authenticated"}

\* "PURGED" has an asset_purged_at; a row of a status "DELETED" is no more.
Row == [status : {"NONE", "LIVE", "PURGED", "DELETED"},
        file : Files \cup {NoFile}, delivery : Delivery]
NoRow == [status |-> "NONE", file |-> NoFile, delivery |-> "authenticated"]

Action == {"DELETE", "MIGRATE"}
JobStatus == {"NONE", "PENDING", "PROCESSING", "RETRY", "COMPLETED", "FAILED"}
Job == [status : JobStatus, attempts : 0..MaxAttempts,
        file : Files \cup {NoFile}, delivery : Delivery]
NoJob == [status |-> "NONE", attempts |-> 0, file |-> NoFile, delivery |-> "authenticated"]

Idle == [step |-> "IDLE"]
Step == {"CALL", "WRITE", "LOOKUP", "REWRITE", "OK", "ERROR"}

Exists(d) == doc[d].status \in {"LIVE", "PURGED"}
Refers(d, f) == Exists(d) /\ doc[d].file = f
LockedBy(rs, d) == \E r \in rs : request[r] # Idle /\ d \in request[r].locked
Locked(d) == LockedBy(Requests, d)
ActiveJob(j) == j.status \in {"PENDING", "PROCESSING", "RETRY"}

\* Before the migration ran its rows were public; it leaves a job for each.
Legacy(d, f) == [status |-> "LIVE", file |-> f, delivery |-> "upload"]

Init ==
    /\ \E old \in [LegacyFiles -> Docs] :
          /\ \A f, g \in LegacyFiles : old[f] = old[g] => f = g
          /\ doc = [d \in Docs |-> IF \E f \in LegacyFiles : old[f] = d
                                    THEN Legacy(d, CHOOSE f \in LegacyFiles : old[f] = d)
                                    ELSE NoRow]
    /\ store = [f \in Files |-> IF f \in LegacyFiles THEN "upload" ELSE "NEW"]
    /\ job = [a \in Action |-> [d \in Docs |->
                IF a = "MIGRATE" /\ doc[d].status = "LIVE"
                THEN [status |-> "PENDING", attempts |-> 0,
                      file |-> doc[d].file, delivery |-> "upload"]
                ELSE NoJob]]
    /\ worker = [w \in Workers |-> Idle]
    /\ request = [r \in Requests |-> Idle]
    /\ tenant = "ACTIVE"
    /\ scan = {}
    /\ faults = 0
-----------------------------------------------------------------------------
(* Enqueueing a job: an active one of the same kind for the row is kept. *)

\* Mutant: the unique index is on the row alone, not on action and row.
Enqueued_AnyAction(jobs, action, d, row) ==
    IF row.file = NoFile \/ \E a \in Action : ActiveJob(jobs[a][d]) THEN jobs
    ELSE [jobs EXCEPT ![action][d] = [status |-> "PENDING", attempts |-> 0,
                                      file |-> row.file, delivery |-> row.delivery]]

Enqueued(jobs, action, d, row) ==
    IF row.file = NoFile \/ ActiveJob(jobs[action][d]) THEN jobs
    ELSE [jobs EXCEPT ![action][d] = [status |-> "PENDING", attempts |-> 0,
                                      file |-> row.file, delivery |-> row.delivery]]

\* What the trigger of the four tables and the callers before it enqueue.
DeletionsEnqueued(ds) ==
    [job EXCEPT !["DELETE"] = [d \in Docs |->
        IF d \in ds THEN Enqueued(job, "DELETE", d, doc[d])["DELETE"][d] ELSE @[d]]]

\* Mutant: the rows are not deleted after their jobs are enqueued.
RowsDeleted_None(ds) == [d \in Docs |-> doc[d]]

RowsDeleted(ds) == [d \in Docs |-> IF d \in ds THEN [doc[d] EXCEPT !.status = "DELETED"] ELSE doc[d]]

DeleteRows(ds) ==
    /\ doc' = RowsDeleted(ds)
    /\ job' = DeletionsEnqueued(ds)

Attached(f) == [status |-> "LIVE", file |-> f, delivery |-> "authenticated"]
-----------------------------------------------------------------------------
(* Rows. *)

\* The browser uploads to the store with a signature for authenticated delivery.
Upload(f) ==
    /\ f \in Uploads /\ store[f] = "NEW"
    /\ store' = [store EXCEPT ![f] = "authenticated"]
    /\ UNCHANGED <<doc, job, worker, request, tenant, scan, faults>>

\* A contract's document, a payment proof or the evidence of a reading.  A
\* client that retries sends the same file again.
AddDocument(d, f) ==
    /\ d \in EvidenceDocs \cup KeptDocs /\ doc[d].status = "NONE"
    /\ f \in Uploads /\ store[f] # "NEW"
    /\ doc' = [doc EXCEPT ![d] = Attached(f)]
    /\ UNCHANGED <<store, job, worker, request, tenant, scan, faults>>

\* Refused for a row whose file was purged.
DeleteContractDocument(d) ==
    /\ d \in KeptDocs /\ Exists(d) /\ doc[d].file # NoFile
    /\ DeleteRows({d})
    /\ UNCHANGED <<store, worker, request, tenant, scan, faults>>

LiveTenantDocs == {d \in TenantDocs : doc[d].status = "LIVE"}

Called(r, f, replaces) ==
    request' = [request EXCEPT ![r] = [step |-> "WRITE", file |-> f, replaces |-> replaces,
                                       locked |-> IF replaces THEN LiveTenantDocs ELSE {}]]

\* The manager replaces or removes a picture: the tenant is found without a
\* lock, the rows that are there are locked.
BeginReplace(r, f) ==
    /\ request[r] = Idle
    /\ tenant = "ACTIVE"
    /\ f # NoFile => store[f] # "NEW"
    /\ ~\E d \in LiveTenantDocs : Locked(d)
    /\ ~\E d \in TenantDocs : LiveTenantDocs = {d} /\ doc[d].file = f
    /\ Called(r, f, TRUE)
    /\ UNCHANGED <<doc, store, job, worker, tenant, scan, faults>>

\* The tenant adds a document: first who calls, then the row.
BeginAdd(r, f) ==
    /\ request[r] = Idle
    /\ tenant = "ACTIVE"
    /\ f # NoFile /\ store[f] # "NEW"
    /\ Called(r, f, FALSE)
    /\ UNCHANGED <<doc, store, job, worker, tenant, scan, faults>>

\* The deletion takes what is there by then, locked or not.
Replaced(r) == IF request[r].replaces THEN LiveTenantDocs ELSE {}

CommitAttach(r) ==
    /\ request[r] # Idle
    /\ ~\E d \in Replaced(r) : LockedBy(Requests \ {r}, d)
    /\ job' = DeletionsEnqueued(Replaced(r))
    /\ \/ /\ request[r].file = NoFile
          /\ doc' = RowsDeleted(Replaced(r))
       \/ /\ request[r].file # NoFile
          /\ \E d \in TenantDocs :
                /\ doc[d].status = "NONE"
                /\ doc' = [RowsDeleted(Replaced(r)) EXCEPT ![d] = Attached(request[r].file)]
    /\ request' = [request EXCEPT ![r] = Idle]
    /\ UNCHANGED <<store, worker, tenant, scan, faults>>

AbortAttach(r) ==
    /\ request[r] # Idle
    /\ request' = [request EXCEPT ![r] = Idle]
    /\ UNCHANGED <<doc, store, job, worker, tenant, scan, faults>>

\* anonymizeTenant deletes the documents once more.
DeleteTenantDocs ==
    /\ ~\E d \in TenantDocs : Locked(d)
    /\ DeleteRows(LiveTenantDocs)

\* Whether records of the tenant must still be retained decides if the profile
\* is anonymized at once or left to the scheduler.
EraseTenant ==
    /\ tenant = "ACTIVE"
    /\ DeleteTenantDocs
    /\ tenant' \in {"SCHEDULED", "ANONYMIZED"}
    /\ UNCHANGED <<store, worker, request, scan, faults>>

AnonymizeDue ==
    /\ tenant = "SCHEDULED"
    /\ DeleteTenantDocs
    /\ tenant' = "ANONYMIZED"
    /\ UNCHANGED <<store, worker, request, scan, faults>>

\* A row's retention_until is past: evidence goes, the other rows lose their
\* file.
ExpireRetention(d) ==
    /\ doc[d].status = "LIVE"
    /\ \/ d \in EvidenceDocs /\ DeleteRows({d})
       \/ /\ d \in KeptDocs
          /\ doc' = [doc EXCEPT ![d] = [@ EXCEPT !.status = "PURGED", !.file = NoFile]]
          /\ job' = DeletionsEnqueued({d})
    /\ UNCHANGED <<store, worker, request, tenant, scan, faults>>
-----------------------------------------------------------------------------
(* Jobs. *)

JobOf(w) == job[worker[w].action][worker[w].doc]

Runs(w, a, d) == worker[w] # Idle /\ worker[w].action = a /\ worker[w].doc = d

\* Mutant: a claim that also takes jobs in progress, as one that recovers them would.
Claim_Processing(w, a, d) ==
    /\ worker[w] = Idle
    /\ job[a][d].status \in {"PENDING", "RETRY", "PROCESSING"}
    /\ job[a][d].attempts < MaxAttempts
    /\ job' = [job EXCEPT ![a][d].status = "PROCESSING", ![a][d].attempts = @ + 1]
    /\ worker' = [worker EXCEPT ![w] = [step |-> "CALL", action |-> a, doc |-> d]]
    /\ UNCHANGED <<doc, store, request, tenant, scan, faults>>

Claim(w, a, d) ==
    /\ worker[w] = Idle
    /\ job[a][d].status \in {"PENDING", "RETRY"}
    /\ job' = [job EXCEPT ![a][d].status = "PROCESSING", ![a][d].attempts = @ + 1]
    /\ worker' = [worker EXCEPT ![w] = [step |-> "CALL", action |-> a, doc |-> d]]
    /\ UNCHANGED <<doc, store, request, tenant, scan, faults>>

Goes(w, step) == worker' = [worker EXCEPT ![w].step = step]

\* "not found" counts as deleted; a rename needs the file in public delivery.
StoreAfter(j, action) ==
    IF store[j.file] # j.delivery THEN store
    ELSE [store EXCEPT ![j.file] = IF action = "DELETE" THEN "GONE" ELSE "authenticated"]

Answer(j, action) ==
    CASE action = "DELETE" -> "OK"
      [] action = "MIGRATE" /\ store[j.file] = j.delivery -> "WRITE"
      [] OTHER -> "LOOKUP"

CallStore(w) ==
    /\ worker[w].step = "CALL"
    /\ store' = StoreAfter(JobOf(w), worker[w].action)
    /\ Goes(w, Answer(JobOf(w), worker[w].action))
    /\ UNCHANGED <<doc, job, request, tenant, scan, faults>>

\* A rename that failed may have happened: the file is looked up.
Lookup(w) ==
    /\ worker[w].step = "LOOKUP"
    /\ Goes(w, IF store[JobOf(w).file] = "authenticated" THEN "REWRITE" ELSE "ERROR")
    /\ UNCHANGED <<doc, store, job, request, tenant, scan, faults>>

\* Mutant: the row is told the file but not how it is delivered.
WriteSource_FileOnly(w) ==
    /\ worker[w].step \in {"WRITE", "REWRITE"}
    /\ ~Locked(worker[w].doc)
    /\ doc' = IF ~Exists(worker[w].doc) THEN doc
              ELSE [doc EXCEPT ![worker[w].doc].file = JobOf(w).file]
    /\ Goes(w, "OK")
    /\ UNCHANGED <<store, job, request, tenant, scan, faults>>

\* updateSourceAfterMigration, WHERE id only.
WriteSource(w) ==
    /\ worker[w].step \in {"WRITE", "REWRITE"}
    /\ ~Locked(worker[w].doc)
    /\ doc' = IF ~Exists(worker[w].doc) THEN doc
              ELSE [doc EXCEPT ![worker[w].doc].file = JobOf(w).file,
                               ![worker[w].doc].delivery = "authenticated"]
    /\ Goes(w, "OK")
    /\ UNCHANGED <<store, job, request, tenant, scan, faults>>

\* Mutant: the bound on the attempts is off by one.
Outcome_Unbounded(w) ==
    IF worker[w].step = "OK" THEN "COMPLETED"
    ELSE IF JobOf(w).attempts > MaxAttempts THEN "FAILED" ELSE "RETRY"

Outcome(w) ==
    IF worker[w].step = "OK" THEN "COMPLETED"
    ELSE IF JobOf(w).attempts >= MaxAttempts THEN "FAILED" ELSE "RETRY"

RecordOutcome(w) ==
    /\ worker[w].step \in {"OK", "ERROR"}
    /\ job' = [job EXCEPT ![worker[w].action][worker[w].doc].status = Outcome(w)]
    /\ worker' = [worker EXCEPT ![w] = Idle]
    /\ UNCHANGED <<doc, store, request, tenant, scan, faults>>
-----------------------------------------------------------------------------
(* Reconciliation: rows are read first, and jobs enqueued from what was read. *)

ReadRows ==
    /\ scan = {}
    /\ scan' = {<<d, doc[d]>> : d \in {e \in Docs :
                    Exists(e) /\ doc[e].file # NoFile /\ doc[e].delivery = "upload"}}
    /\ UNCHANGED <<doc, store, job, worker, request, tenant, faults>>

EnqueueMigration(d, row) ==
    /\ <<d, row>> \in scan
    /\ job' = Enqueued(job, "MIGRATE", d, row)
    /\ scan' = scan \ {<<d, row>>}
    /\ UNCHANGED <<doc, store, worker, request, tenant, faults>>
-----------------------------------------------------------------------------
(* Faults. *)

Fault == faults < MaxFaults /\ faults' = faults + 1 /\ UNCHANGED <<request, tenant, scan>>

\* The call or the statement fails and has done nothing.
StepFails(w) ==
    /\ Fault
    /\ \/ worker[w].step = "CALL" /\ worker[w].action = "MIGRATE" /\ Goes(w, "LOOKUP")
       \/ worker[w].step = "CALL" /\ worker[w].action = "DELETE" /\ Goes(w, "ERROR")
       \/ worker[w].step = "WRITE" /\ Goes(w, "LOOKUP")
       \/ worker[w].step \in {"LOOKUP", "REWRITE", "OK"} /\ Goes(w, "ERROR")
    /\ UNCHANGED <<doc, store, job>>

AnswerLost(w) ==
    /\ Fault
    /\ worker[w].step = "CALL"
    /\ store' = StoreAfter(JobOf(w), worker[w].action)
    /\ Goes(w, IF worker[w].action = "DELETE" THEN "ERROR" ELSE "LOOKUP")
    /\ UNCHANGED <<doc, job>>

\* The process dies, or recording a failure fails.
Crash(w) ==
    /\ Fault
    /\ worker[w] # Idle
    /\ worker' = [worker EXCEPT ![w] = Idle]
    /\ UNCHANGED <<doc, store, job>>
-----------------------------------------------------------------------------
Next ==
    \/ \E f \in Files : Upload(f) \/ \E d \in Docs : AddDocument(d, f)
    \/ \E d \in Docs : DeleteContractDocument(d) \/ ExpireRetention(d)
    \/ \E r \in Requests :
          \/ \E f \in Uploads \cup {NoFile} : BeginReplace(r, f) \/ BeginAdd(r, f)
          \/ CommitAttach(r) \/ AbortAttach(r)
    \/ EraseTenant
    \/ AnonymizeDue
    \/ \E w \in Workers :
          \/ \E a \in Action, d \in Docs : Claim(w, a, d)
          \/ CallStore(w) \/ Lookup(w) \/ WriteSource(w) \/ RecordOutcome(w)
          \/ StepFails(w) \/ AnswerLost(w) \/ Crash(w)
    \/ ReadRows
    \/ \E s \in scan : EnqueueMigration(s[1], s[2])

Spec == Init /\ [][Next]_vars
-----------------------------------------------------------------------------
(* Properties. *)

(***************************************************************************)
(* The rows' columns and checks and the workers' local state.              *)
(***************************************************************************)
TypeOK ==
    /\ doc \in [Docs -> Row]
    /\ store \in [Files -> Delivery \cup {"NEW", "GONE"}]
    /\ job \in [Action -> [Docs -> Job]]
    /\ worker \in [Workers -> {Idle} \cup [step : Step, action : Action, doc : Docs]]
    /\ request \in [Requests -> {Idle} \cup
          [step : {"WRITE"}, file : Uploads \cup {NoFile}, replaces : BOOLEAN,
           locked : SUBSET TenantDocs]]
    /\ tenant \in {"ACTIVE", "SCHEDULED", "ANONYMIZED"}
    /\ scan \subseteq Docs \X Row
    /\ faults \in 0..MaxFaults

(***************************************************************************)
(* Two runs never work on the same job, and a job in progress that nobody  *)
(* works on was left by a failure: no order of claims and records loses    *)
(* one.  (Nothing takes such a job again, nor enqueues another like it.)   *)
(***************************************************************************)
ClaimedByOne ==
    \A a \in Action, d \in Docs :
        LET runs == {w \in Workers : Runs(w, a, d)} IN
        /\ runs # {} => job[a][d].status = "PROCESSING" /\ Cardinality(runs) = 1
        /\ job[a][d].status = "PROCESSING" /\ runs = {} => faults > 0

DeletedFor(d, f) == job["DELETE"][d].file = f

(***************************************************************************)
(* A row says how its file is delivered, except while the file is being    *)
(* moved, or after a move that failed and has not been made good: a file   *)
(* nobody can view has a job and a failure to blame.  (The job is pending  *)
(* where reconciliation has enqueued another after the first gave up.)     *)
(***************************************************************************)
UndeliverableIsMoving ==
    \A d \in Docs : doc[d].status = "LIVE" /\ store[doc[d].file] # "GONE"
        /\ store[doc[d].file] # doc[d].delivery =>
            \/ job["MIGRATE"][d].status = "PROCESSING"
            \/ faults > 0 /\ job["MIGRATE"][d].status \in {"PENDING", "RETRY", "FAILED"}

Wanted(f) == \E d \in Docs : Refers(d, f)
Used(f) == \E d \in Docs : doc[d].file = f \/ DeletedFor(d, f)

(***************************************************************************)
(* Rows and files part only by what is named here.  A row loses its file   *)
(* only by the deletion of another row made for the same file (a retried   *)
(* submission), or by its own purge.  A file that was attached and that no *)
(* row refers to is being deleted, or its deletion failed for good, or it  *)
(* was moved after its deletion was enqueued for the old place.            *)
(***************************************************************************)
FilesHaveCause ==
    /\ \A d \in Docs : Exists(d) /\ doc[d].file # NoFile /\ store[doc[d].file] = "GONE" =>
          \E e \in Docs : DeletedFor(e, doc[d].file) /\ (e = d => doc[d].status = "PURGED")
    /\ \A f \in Files : Used(f) /\ ~Wanted(f) /\ store[f] # "GONE" =>
          \E d \in Docs :
              /\ DeletedFor(d, f)
              /\ \/ ActiveJob(job["DELETE"][d])
                 \/ job["DELETE"][d].status = "FAILED"
                 \/ job["DELETE"][d].delivery = "upload" /\ store[f] = "authenticated"

(***************************************************************************)
(* docs/data-retention-privacy.md: "Delete the Cloudinary asset and        *)
(* document row".                                                          *)
(***************************************************************************)
CompletedDeletionDeletes ==
    \A d \in Docs : job["DELETE"][d].status = "COMPLETED" => store[job["DELETE"][d].file] = "GONE"
=============================================================================
