-------------------------- MODULE FixedChargesPage --------------------------
(***************************************************************************)
(* The page of the fixed charges: five tables that are loaded together, a  *)
(* drawer in which a row of one of them is written, the selectors of a     *)
(* building, a room and a contract, over the tables and in the drawer      *)
(* (front-end/src/pages/fixed-charges/FixedChargesPage.tsx).  The answer   *)
(* to a save closes the drawer that is open by then.  To load the tables   *)
(* while they are being loaded is a crossing, and a behaviour is followed  *)
(* up to its first.  The preview of what a contract is charged is left out.*)
(***************************************************************************)
EXTENDS Integers

CONSTANTS
    Buildings, Rooms, Contracts,
    BuildingOf, \* of a room
    RoomOf,     \* of a contract
    MaxChanges, \* bound on the changes of the tables
    None

FixedChargesPageAssumption ==
    /\ BuildingOf \in [Rooms -> Buildings] /\ RoomOf \in [Contracts -> Rooms]
    /\ None \notin Buildings \cup Rooms \cup Contracts /\ MaxChanges \in Nat

VARIABLES
    saved,      \* what the server has of the tables, by the changes made
    table,      \* loading, error; the changes in the rows shown, -1 for no rows yet, and
                \* those the page was told of
    filter,     \* buildingFilter, roomFilter, contractFilter
    drawer,     \* drawerKind, drawerMode, editingId
    picked,     \* the building, room and contract of the form
    confirm,    \* the dialog that deletes a row
    calls,      \* the handlers under way
    crossed     \* history

vars == <<saved, table, filter, drawer, picked, confirm, calls, crossed>>

Kinds == {"catalog", "building", "room", "contract", "extra"}

\* What a form has to name, besides what has no selector.
Required == [kind \in Kinds \ {"catalog"} |-> IF kind = "extra" THEN "room" ELSE kind]

Versions == 0..MaxChanges
Selection == [building : Buildings \cup {None}, room : Rooms \cup {None}, contract : Contracts \cup {None}]
Table == [loading : BOOLEAN, error : BOOLEAN, shown : Versions \cup {-1}, told : Versions]

\* A row that is edited is of one contract, of its room or of its building.
Drawer == [kind : Kinds \cup {None}, mode : {"create", "edit"}, editing : Contracts \cup {None}]

\* A handler awaits what it SENT and then the LOAD of the tables, which began
\* when so many changes were made; to REFRESH is that load.
Call == [kind : {"SAVE", "DELETE", "REFRESH"}, step : {"SENT", "LOAD"}, from : Versions]

Nothing == [building |-> None, room |-> None, contract |-> None]
Of(k) == [building |-> BuildingOf[RoomOf[k]], room |-> RoomOf[k], contract |-> k]

Init ==
    /\ saved = 0
    /\ table = [loading |-> TRUE, error |-> FALSE, shown |-> -1, told |-> 0]
    /\ filter = Nothing /\ picked = Nothing
    /\ drawer = [kind |-> None, mode |-> "create", editing |-> None]
    /\ confirm = "NONE"
    /\ calls = {[kind |-> "REFRESH", step |-> "LOAD", from |-> 0]}
    /\ crossed = FALSE

Page == drawer.kind = None /\ confirm = "NONE"
tables == <<saved, table>>
-----------------------------------------------------------------------------
(* The selectors: to choose clears those below. *)

InBuilding(b) == [Nothing EXCEPT !.building = b]

\* Mutant: another room keeps the contract.
InRoom_KeepsContract(s, r) == [s EXCEPT !.room = r]
InRoom(s, r) == [s EXCEPT !.room = r, !.contract = None]

RoomsOf(s) == {r \in Rooms : s.building \in {None, BuildingOf[r]}}
ContractsOf(s) ==
    {k \in Contracts : s.building \in {None, BuildingOf[RoomOf[k]]} /\ s.room \in {None, RoomOf[k]}}

SetFilter ==
    /\ Page
    /\ \/ \E b \in Buildings \cup {None} : filter' = InBuilding(b)
       \/ \E r \in RoomsOf(filter) \cup {None} : filter' = InRoom(filter, r)
       \/ \E k \in ContractsOf(filter) \cup {None} : filter' = [filter EXCEPT !.contract = k]
    /\ UNCHANGED <<tables, drawer, picked, confirm, calls, crossed>>

\* A selector that has to be filled cannot be cleared.
ClearIf(optional) == IF optional THEN {None} ELSE {}

PickBuilding ==
    /\ drawer.kind \in Kinds \ {"catalog"}
    /\ \E b \in Buildings \cup ClearIf(drawer.kind # "building") : picked' = InBuilding(b)
    /\ UNCHANGED <<tables, filter, drawer, confirm, calls, crossed>>

PickRoom ==
    /\ drawer.kind \in {"room", "contract", "extra"}
    /\ \E r \in RoomsOf(picked) \cup ClearIf(drawer.kind = "contract") : picked' = InRoom(picked, r)
    /\ UNCHANGED <<tables, filter, drawer, confirm, calls, crossed>>

PickContract ==
    /\ drawer.kind = "contract"
    /\ \E k \in ContractsOf(picked) : picked' = [picked EXCEPT !.contract = k]
    /\ UNCHANGED <<tables, filter, drawer, confirm, calls, crossed>>
-----------------------------------------------------------------------------
(* The tables. *)

\* loadTables, begun by c when these changes are made.
BeginLoad(c, changes, told) ==
    /\ calls' = (calls \ {c}) \cup {[c EXCEPT !.step = "LOAD", !.from = changes]}
    /\ table' = [table EXCEPT !.loading = TRUE, !.error = FALSE, !.told = told]
    /\ crossed' = (crossed \/ \E d \in calls \ {c} : d.step = "LOAD")

Refresh ==
    /\ Page
    /\ BeginLoad([kind |-> "REFRESH", step |-> "LOAD", from |-> 0], saved, table.told)
    /\ UNCHANGED <<saved, filter, drawer, picked, confirm>>

\* Each table is of a moment of its own since the load began.
LoadEnds(c) ==
    /\ c.step = "LOAD"
    /\ calls' = calls \ {c}
    /\ \/ table' = [table EXCEPT !.loading = FALSE, !.error = TRUE]
       \/ \E v \in c.from..saved : table' = [table EXCEPT !.loading = FALSE, !.shown = v]
    /\ confirm' = IF c.kind = "DELETE" /\ confirm = "SENT" THEN "NONE" ELSE confirm
    /\ UNCHANGED <<saved, filter, drawer, picked, crossed>>
-----------------------------------------------------------------------------
(* The drawer. *)

\* An error is shown in place of the catalog; the other tables keep their rows.
RowsOf(kind) == ~table.loading /\ table.shown # -1 /\ (kind = "catalog" => ~table.error)

\* What a row of a table that has to do with contract k names of its place.
Row(kind, k) == CASE kind = "catalog" -> Nothing
                  [] kind = "building" -> InBuilding(BuildingOf[RoomOf[k]])
                  [] kind = "contract" -> Of(k)
                  [] OTHER -> InRoom(Of(k), RoomOf[k])

OpenCreate(kind) ==
    /\ Page
    /\ drawer' = [kind |-> kind, mode |-> "create", editing |-> None]
    /\ picked' = Nothing
    /\ UNCHANGED <<tables, filter, confirm, calls, crossed>>

\* openEditCatalog and its like, from a row the filter lets through.
OpenEdit(kind, k) ==
    /\ Page /\ RowsOf(kind)
    /\ LET row == Row(kind, k)
       IN  /\ \A f \in DOMAIN filter : row[f] # None => filter[f] \in {None, row[f]}
           /\ picked' = row
    /\ drawer' = [kind |-> kind, mode |-> "edit", editing |-> k]
    /\ UNCHANGED <<tables, filter, confirm, calls, crossed>>

Closed == drawer' = [drawer EXCEPT !.kind = None, !.editing = None] /\ picked' = Nothing

CloseDrawer ==
    /\ drawer.kind # None
    /\ Closed
    /\ UNCHANGED <<tables, filter, confirm, calls, crossed>>

Send(kind) ==
    /\ ~\E c \in calls : c.kind = kind
    /\ calls' = calls \cup {[kind |-> kind, step |-> "SENT", from |-> 0]}

SubmitDrawer ==
    /\ drawer.kind # None
    /\ drawer.kind # "catalog" => picked[Required[drawer.kind]] # None
    /\ Send("SAVE")
    /\ UNCHANGED <<tables, filter, drawer, picked, confirm, crossed>>

\* The server makes the change.
Changed == saved < MaxChanges /\ saved' = saved + 1

\* Mutant: the tables are not loaded again.
Saved_NoReload(c) ==
    /\ c.kind = "SAVE" /\ c.step = "SENT" /\ Changed
    /\ Closed
    /\ calls' = calls \ {c}
    /\ table' = [table EXCEPT !.told = saved']
    /\ UNCHANGED <<filter, confirm, crossed>>

Saved(c) ==
    /\ c.kind = "SAVE" /\ c.step = "SENT" /\ Changed
    /\ Closed
    /\ BeginLoad(c, saved', saved')
    /\ UNCHANGED <<filter, confirm>>

\* Refused, or its answer lost; the dialog or the drawer stays.
Failed(c) ==
    /\ c.step = "SENT"
    /\ Changed \/ UNCHANGED saved
    /\ calls' = calls \ {c}
    /\ confirm' = IF c.kind = "DELETE" /\ confirm = "SENT" THEN "ASKED" ELSE confirm
    /\ UNCHANGED <<table, filter, drawer, picked, crossed>>
-----------------------------------------------------------------------------
(* The dialog that deletes a row; it can be left while that is sent. *)

AskDelete(kind) ==
    /\ Page /\ RowsOf(kind)
    /\ confirm' = "ASKED"
    /\ UNCHANGED <<tables, filter, drawer, picked, calls, crossed>>

CancelDelete ==
    /\ confirm # "NONE"
    /\ confirm' = "NONE"
    /\ UNCHANGED <<tables, filter, drawer, picked, calls, crossed>>

\* Bound: a row is deleted at a time.
ConfirmDelete ==
    /\ confirm = "ASKED" /\ Send("DELETE")
    /\ confirm' = "SENT"
    /\ UNCHANGED <<tables, filter, drawer, picked, crossed>>

Deleted(c) ==
    /\ c.kind = "DELETE" /\ c.step = "SENT" /\ Changed
    /\ BeginLoad(c, saved', saved')
    /\ UNCHANGED <<filter, drawer, picked, confirm>>

Next ==
    /\ ~crossed
    /\ \/ SetFilter \/ PickBuilding \/ PickRoom \/ PickContract \/ Refresh
       \/ \E kind \in Kinds : OpenCreate(kind) \/ AskDelete(kind) \/ \E k \in Contracts : OpenEdit(kind, k)
       \/ CloseDrawer \/ SubmitDrawer \/ CancelDelete \/ ConfirmDelete
       \/ \E c \in calls : LoadEnds(c) \/ Saved(c) \/ Deleted(c) \/ Failed(c)

Spec == Init /\ [][Next]_vars
-----------------------------------------------------------------------------
(* Properties. *)

TypeOK ==
    /\ saved \in Versions /\ table \in Table
    /\ filter \in Selection /\ picked \in Selection
    /\ drawer \in Drawer /\ confirm \in {"NONE", "ASKED", "SENT"}
    /\ calls \subseteq Call /\ crossed \in BOOLEAN

OfOnePlace(s) ==
    /\ s.room # None => s.building \in {None, BuildingOf[s.room]}
    /\ s.contract # None =>
          s.building \in {None, BuildingOf[RoomOf[s.contract]]} /\ s.room \in {None, RoomOf[s.contract]}

(***************************************************************************)
(* The building, the room and the contract a filter or a form has are of   *)
(* one place, an edit is of a row, and but for a crossing the tables have  *)
(* every change the page was told of, unless they are loading or failed to.*)
(***************************************************************************)
ShowsWhatWasSaved ==
    /\ OfOnePlace(filter) /\ OfOnePlace(picked)
    /\ drawer.kind # None /\ drawer.mode = "edit" => drawer.editing # None
    /\ ~crossed /\ ~table.loading /\ ~table.error => table.shown >= table.told
=============================================================================
