----------------------------- MODULE Migrations -----------------------------
(***************************************************************************)
(* The program that brings the schema up to date                           *)
(* (backend/scripts/migrate.js and migration-files.js), run by several     *)
(* deployments at once.  A run reads the ledger of applied files once, and *)
(* then applies what it found missing, each file in a transaction with its *)
(* row of the ledger.  No lock keeps two runs apart but the ledger's key.  *)
(***************************************************************************)
EXTENDS Integers, FiniteSets

CONSTANTS
    Runs,           \* runs of the program
    MaxVersion,     \* the files are numbered from 1 to MaxVersion
    Sums,           \* checksums: a file may be edited from one deployment to the next
    None

MigrationsAssumption == MaxVersion \in Nat /\ None \notin Sums

VARIABLES
    schema_migrations,  \* the committed rows: version -> checksum, or None
    effect,             \* how often the statements of a version were committed
    run                 \* run[r]

vars == <<schema_migrations, effect, run>>

Versions == 1..MaxVersion
Rows == [Versions -> Sums \cup {None}]
NoRows == [v \in Versions |-> None]

\* files: what the run's deployment brings.  applied: the ledger as the run read it.
\* next: the file it is at.
Idle == [step |-> "IDLE", mode |-> "APPLY", files |-> NoRows, applied |-> NoRows, next |-> 1]

Init ==
    /\ schema_migrations = NoRows
    /\ effect = [v \in Versions |-> 0]
    /\ run = [r \in Runs |-> Idle]

Step(r, s) == run' = [run EXCEPT ![r].step = s]
Advance(r) == run' = [run EXCEPT ![r].next = @ + 1, ![r].step = "READ"]
At(r, s) == run[r].step = s
-----------------------------------------------------------------------------
\* readSqlFiles and getApplied: the files are the run's own.
GetApplied(r, files, mode) ==
    /\ At(r, "IDLE")
    /\ run' = [run EXCEPT ![r] = [step |-> "READ", mode |-> mode, files |-> files,
                                 applied |-> schema_migrations, next |-> 1]]
    /\ UNCHANGED <<schema_migrations, effect>>

File(r) == run[r].files[run[r].next]
Row(r) == run[r].applied[run[r].next]
Looking(r) == At(r, "READ") /\ run[r].next \in Versions

\* Mutant: an edited file passes for the one that was applied.
SkipFile_AnySum(r) ==
    /\ Looking(r)
    /\ File(r) = None \/ Row(r) # None
    /\ Advance(r)
    /\ UNCHANGED <<schema_migrations, effect>>

\* There is no such file here, or it was applied as it is.
SkipFile(r) ==
    /\ Looking(r)
    /\ File(r) \in {None, Row(r)}
    /\ Advance(r)
    /\ UNCHANGED <<schema_migrations, effect>>

\* The file was edited after it was applied, or --verify misses it.
Refuse(r) ==
    /\ Looking(r) /\ File(r) # None
    /\ IF Row(r) = None THEN run[r].mode = "VERIFY" ELSE File(r) # Row(r)
    /\ Step(r, "FAILED")
    /\ UNCHANGED <<schema_migrations, effect>>

\* --dry-run
CountPending(r) ==
    /\ Looking(r) /\ File(r) # None /\ Row(r) = None /\ run[r].mode = "DRY"
    /\ Advance(r)
    /\ UNCHANGED <<schema_migrations, effect>>

\* BEGIN and the file's statements, which nobody else sees yet.
ApplyFile(r) ==
    /\ Looking(r) /\ File(r) # None /\ Row(r) = None /\ run[r].mode = "APPLY"
    /\ Step(r, "APPLIED")
    /\ UNCHANGED <<schema_migrations, effect>>

\* Mutant: ON CONFLICT DO NOTHING, and the statements are committed anyway.
Insertable_Always(r) == TRUE

\* The key of the ledger is free, and no other transaction holds it.
Insertable(r) ==
    /\ schema_migrations[run[r].next] = None
    /\ \A q \in Runs \ {r} : At(q, "INSERTED") => run[q].next # run[r].next

InsertRow(r) ==
    /\ At(r, "APPLIED") /\ Insertable(r)
    /\ Step(r, "INSERTED")
    /\ UNCHANGED <<schema_migrations, effect>>

CommitFile(r) ==
    /\ At(r, "INSERTED")
    /\ schema_migrations' = [schema_migrations EXCEPT ![run[r].next] = File(r)]
    /\ effect' = [effect EXCEPT ![run[r].next] = @ + 1]
    /\ Advance(r)

\* A statement fails or waits too long, the row is there already, or the
\* program dies: the transaction is rolled back and the program ends.
RollbackFile(r) ==
    /\ run[r].step \in {"APPLIED", "INSERTED"}
    /\ Step(r, "FAILED")
    /\ UNCHANGED <<schema_migrations, effect>>

Done(r) == At(r, "READ") /\ run[r].next > MaxVersion

\* The program is started again, perhaps by the next deployment.
Restart(r) ==
    /\ Done(r) \/ At(r, "FAILED")
    /\ run' = [run EXCEPT ![r] = Idle]
    /\ UNCHANGED <<schema_migrations, effect>>

Modes == {"APPLY", "VERIFY", "DRY"}

Next ==
    \E r \in Runs :
        \/ \E files \in Rows, mode \in Modes : GetApplied(r, files, mode)
        \/ SkipFile(r) \/ Refuse(r) \/ CountPending(r)
        \/ ApplyFile(r) \/ InsertRow(r) \/ CommitFile(r) \/ RollbackFile(r) \/ Restart(r)

Spec == Init /\ [][Next]_vars
-----------------------------------------------------------------------------
(* Properties. *)

TypeOK ==
    /\ schema_migrations \in Rows
    /\ effect \in [Versions -> Nat]
    /\ run \in [Runs -> [step : {"IDLE", "READ", "APPLIED", "INSERTED", "FAILED"},
                         mode : Modes, files : Rows, applied : Rows, next : 1..MaxVersion + 1]]

(***************************************************************************)
(* A file takes effect once, if and only if the ledger has it, however     *)
(* many runs found it missing.  A run that goes on has behind it only what *)
(* the ledger has with its checksum: one that ends well leaves every file  *)
(* of its deployment applied, in order, and one that verifies says so only *)
(* if it is true.                                                          *)
(***************************************************************************)
AppliedOnce ==
    /\ \A v \in Versions : effect[v] = IF schema_migrations[v] = None THEN 0 ELSE 1
    /\ \A r \in Runs : run[r].mode # "DRY" =>
          \A v \in 1..(run[r].next - 1) : run[r].files[v] \in {None, schema_migrations[v]}
=============================================================================
