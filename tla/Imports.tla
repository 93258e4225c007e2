------------------------------ MODULE Imports -------------------------------
(***************************************************************************)
(* Buildings, rooms and tenants read from a file by several calls at once  *)
(* (backend/src/modules/imports/imports.service.ts).  A row is the code it *)
(* is known by, as it is spelled.  The validation compares codes whatever  *)
(* their case, the unique keys of buildings and rooms compare the spelling.*)
(***************************************************************************)
EXTENDS Integers, FiniteSets, Sequences

CONSTANTS
    Calls,          \* calls of commitImport
    Files,          \* contents of files: sequences of spellings
    Spellings,
    Folded          \* Folded[s]: s in lower case

ImportsAssumption ==
    Folded \in [Spellings -> Spellings] /\ Files \subseteq Seq(Spellings)

VARIABLES
    stored,     \* the rows of the table
    import,     \* import[c]: how far the call is, and the rows it has not committed
    causes      \* what has happened that lets codes differ in their case only

vars == <<stored, import, causes>>

\* Tenants are created each in a transaction of its own, the others together.
Entities == {"BUILDING", "ROOM", "TENANT"}
Together(entity) == entity # "TENANT"

Ready == [step |-> "NONE", entity |-> "BUILDING", file |-> <<>>, at |-> 1, rows |-> {}]

Init ==
    /\ stored = {}
    /\ import = [c \in Calls |-> Ready]
    /\ causes = {}

FoldedAll(S) == {Folded[s] : s \in S}
RowsOf(file) == {file[k] : k \in DOMAIN file}

\* Mutant: compared as they are spelled.
Accepted_Exactly(file) ==
    /\ Cardinality(RowsOf(file)) = Len(file)
    /\ RowsOf(file) \cap stored = {}

\* previewImport: no row is in the file twice or in the database.
Accepted(file) ==
    /\ Cardinality(FoldedAll(RowsOf(file))) = Len(file)
    /\ FoldedAll(RowsOf(file)) \cap FoldedAll(stored) = {}

Inserting(c) == import[c].step = "INSERT"
-----------------------------------------------------------------------------
\* The file is validated, maybe while another is inserted.
CommitImport(c, entity, file) ==
    /\ import[c].step = "NONE" /\ Accepted(file)
    /\ import' = [import EXCEPT ![c] = [Ready EXCEPT !.step = "INSERT", !.entity = entity, !.file = file]]
    /\ causes' = causes \cup (IF \E d \in Calls : Inserting(d) THEN {"RACE"} ELSE {})
    /\ UNCHANGED stored

Row(c) == import[c].file[import[c].at]
HasRow(c) == Inserting(c) /\ import[c].at <= Len(import[c].file)

\* A spelling that another transaction has inserted is waited for.
Held(c) == \E d \in Calls \ {c} : Row(c) \in import[d].rows

InsertTogether(c) ==
    /\ HasRow(c) /\ Together(import[c].entity)
    /\ Row(c) \notin stored /\ ~Held(c)
    /\ import' = [import EXCEPT ![c].at = @ + 1, ![c].rows = @ \cup {Row(c)}]
    /\ UNCHANGED <<stored, causes>>

CreateManagedTenant(c) ==
    /\ HasRow(c) /\ ~Together(import[c].entity)
    /\ Row(c) \notin stored /\ ~Held(c)
    /\ stored' = stored \cup {Row(c)}
    /\ import' = [import EXCEPT ![c].at = @ + 1]
    /\ UNCHANGED causes

\* The key exists by now: the tenant is listed as failed and the rest goes on.
TenantFails(c) ==
    /\ HasRow(c) /\ ~Together(import[c].entity)
    /\ import' = [import EXCEPT ![c].at = @ + 1]
    /\ UNCHANGED <<stored, causes>>

CommitRows(c) ==
    /\ Inserting(c) /\ ~HasRow(c)
    /\ stored' = stored \cup import[c].rows
    /\ import' = [import EXCEPT ![c].step = "DONE", ![c].rows = {}]
    /\ UNCHANGED causes

\* The key exists by now, the process dies, or two imports wait for each
\* other and one is the victim.
AbortImport(c) ==
    /\ Inserting(c)
    /\ import' = [import EXCEPT ![c] = Ready]
    /\ UNCHANGED <<stored, causes>>

Answered(c) ==
    /\ import[c].step = "DONE"
    /\ import' = [import EXCEPT ![c] = Ready]
    /\ UNCHANGED <<stored, causes>>

\* POST /buildings and /rooms rely on the key alone.
CreateByHand(s) ==
    /\ s \notin stored /\ \A c \in Calls : s \notin import[c].rows
    /\ stored' = stored \cup {s}
    /\ causes' = causes \cup {"HAND"}
    /\ UNCHANGED import

Next ==
    \/ \E c \in Calls :
          \/ \E entity \in Entities, file \in Files : CommitImport(c, entity, file)
          \/ InsertTogether(c) \/ CreateManagedTenant(c) \/ TenantFails(c)
          \/ CommitRows(c) \/ AbortImport(c) \/ Answered(c)
    \/ \E s \in Spellings : CreateByHand(s)

Spec == Init /\ [][Next]_vars
-----------------------------------------------------------------------------
(* Properties. *)

TypeOK ==
    /\ stored \subseteq Spellings
    /\ import \in [Calls -> [step : {"NONE", "INSERT", "DONE"}, entity : Entities,
                             file : Files \cup {<<>>}, at : Nat, rows : SUBSET Spellings]]
    /\ causes \subseteq {"RACE", "HAND"}

(***************************************************************************)
(* Two rows with one code take a row written by hand or two imports at     *)
(* once, for the keys do not keep them apart.  A file of buildings or      *)
(* rooms that is answered for is stored as a whole, whatever was inserted  *)
(* meanwhile, and no row is counted by two calls.                          *)
(***************************************************************************)
ImportedOnce ==
    /\ \A r, s \in stored : r # s /\ Folded[r] = Folded[s] => causes # {}
    /\ \A c \in Calls : import[c].step = "DONE" /\ Together(import[c].entity) =>
          RowsOf(import[c].file) \subseteq stored
    /\ \A c, d \in Calls : c # d => import[c].rows \cap (import[d].rows \cup stored) = {}
=============================================================================
