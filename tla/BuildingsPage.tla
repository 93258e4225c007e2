--------------------------- MODULE BuildingsPage ---------------------------
(***************************************************************************)
(* The page of the buildings: their list, the panel of the one selected    *)
(* with its rooms, the drawer a building is written in, and over the panel *)
(* the drawer and the dialogs of its rooms and of its deletion             *)
(* (front-end/src/pages/buildings).  Every write is followed by a reload,  *)
(* and the reload selects: so a late answer may change the building that   *)
(* the panel, and what is open over it, are about.  What the server lists  *)
(* is any set of buildings, since another tab may change it, and stands    *)
(* for a list that could not be had when it is empty.  A room is known by  *)
(* the building it is in.  The panel's skeleton of 250 ms, the layout of a *)
(* telephone and the way to a room's own page are left out.                *)
(*                                                                         *)
(* A crossing is a dialog opened while an answer is awaited that reloads   *)
(* the buildings or closes it, or a change of the building or of the       *)
(* filter while rooms of another are awaited.                              *)
(***************************************************************************)
EXTENDS FiniteSets, Integers

CONSTANTS
    Buildings,
    MaxCalls,       \* bound on the requests under way
    None

BuildingsPageAssumption == None \notin Buildings /\ MaxCalls \in Nat

VARIABLES
    list,       \* items, selectedId, loadingList
    drawer,     \* drawerOpen and drawerMode; whose values it holds, and over which building it was opened
    rooms,      \* roomsData: of which building, by which filter; the filter chosen, roomsLoading
    dialog,     \* what is open over the panel; the room it is about, and the building it was opened over
    calls,      \* requests under way
    crossed     \* history

vars == <<list, drawer, rooms, dialog, calls, crossed>>

Building == Buildings \cup {None}
Filter == {"ALL", "SOME"}
Saves == {"CREATE", "EDIT"}
RoomSaves == {"ROOM_CREATE", "ROOM_EDIT"}
Listing == {"MOUNT", "CREATED", "EDITED", "DELETED"}    \* listBuildings, and what it follows
RoomListing == {"ROOMS", "ROOM_SAVED"}                  \* listRoomsByBuildingId
BuildingCalls == Saves \cup {"DELETE"} \cup Listing
RoomCalls == RoomSaves \cup {"ROOM_DELETE"} \cup RoomListing

\* "of" is the building written, selected or listed; "on" the one whose
\* values are sent, or over whose panel the user opened the dialog.
Call == [kind : BuildingCalls \cup RoomCalls, of : Building, on : Building, filter : Filter]

List == [items : SUBSET Buildings, selected : Building, loading : BOOLEAN]
Drawer == [mode : Saves \cup {"CLOSED"}, values : Building, over : Building]
RoomTable == [of : Building, by : Filter, filter : Filter, loading : BOOLEAN]
Dialog == [kind : RoomSaves \cup {"ROOM_DELETE", "DELETE", "NONE"}, of : Building, over : Building]

Closed == [mode |-> "CLOSED", values |-> None, over |-> None]
NoDialog == [kind |-> "NONE", of |-> None, over |-> None]
Request(kind, b, on, f) == [kind |-> kind, of |-> b, on |-> on, filter |-> f]

Init ==
    /\ list = [items |-> {}, selected |-> None, loading |-> TRUE]
    /\ drawer = Closed /\ dialog = NoDialog
    /\ rooms = [of |-> None, by |-> "ALL", filter |-> "ALL", loading |-> FALSE]
    /\ calls = {Request("MOUNT", None, None, "ALL")}
    /\ crossed = FALSE
-----------------------------------------------------------------------------
ItemOf(items, b) == IF b \in items THEN b ELSE None
Item == ItemOf(list.items, list.selected)               \* selectedItem
PanelShown == Item # None /\ ~list.loading
NothingOpen == drawer = Closed /\ (dialog = NoDialog \/ ~PanelShown)

Awaited(kinds) == \E c \in calls : c.kind \in kinds
\* The rooms of a building other than b, or by a filter other than f, are to come.
Overtakes(waiting, b, f) == \E c \in waiting : c.kind \in RoomCalls /\ (c.of # b \/ c.filter # f)

Send(c) == c \notin calls /\ Cardinality(calls) < MaxCalls /\ calls' = calls \cup {c}
Answer(c) == c \in calls /\ calls' = calls \ {c}
Becomes(c, kind, b) == calls' = (calls \ {c}) \cup {[c EXCEPT !.kind = kind, !.of = b]}
-----------------------------------------------------------------------------
(* The list. *)

\* Mutant: selects the building without loading its rooms.
Select_Unloaded(b) ==
    /\ NothingOpen /\ ~list.loading
    /\ b \in list.items /\ b # list.selected
    /\ list' = [list EXCEPT !.selected = b]
    /\ crossed' = (crossed \/ Awaited(BuildingCalls) \/ Overtakes(calls, b, rooms.filter))
    /\ UNCHANGED <<drawer, rooms, dialog, calls>>

Select(b) ==
    /\ NothingOpen /\ ~list.loading
    /\ b \in list.items /\ b # list.selected
    /\ list' = [list EXCEPT !.selected = b]
    /\ Send(Request("ROOMS", b, b, rooms.filter))
    /\ rooms' = [rooms EXCEPT !.loading = TRUE]
    /\ crossed' = (crossed \/ Awaited(BuildingCalls) \/ Overtakes(calls, b, rooms.filter))
    /\ UNCHANGED <<drawer, dialog>>

\* An effect clears the panel when there is no building to show, all but a
\* drawer that is open, and loads the rooms of each building it gets to show.
\* Another refills the drawer of an edited building when that has changed.
Listed(c, items, b) ==
    /\ c.kind \in Listing /\ c \in calls
    /\ list' = [items |-> items, selected |-> b, loading |-> FALSE]
    /\ LET item == ItemOf(items, b)
           shown == item # None
           rest == calls \ {c}
       IN  /\ rooms' = [of |-> IF shown THEN rooms.of ELSE None, by |-> rooms.by, loading |-> rooms.loading \/ shown,
                        filter |-> IF shown THEN rooms.filter ELSE "ALL"]
           /\ calls' = rest \cup (IF shown THEN {Request("ROOMS", item, item, rooms.filter)} ELSE {})
           /\ drawer' = IF c.kind \in {"CREATED", "EDITED"} THEN Closed
                        ELSE IF drawer.mode = "EDIT" THEN [drawer EXCEPT !.values = item] ELSE drawer
           /\ dialog' = IF ~shown /\ dialog.kind \in RoomSaves THEN [dialog EXCEPT !.of = None]
                        ELSE IF ~shown \/ (c.kind = "DELETED" /\ dialog.kind = "DELETE") THEN NoDialog ELSE dialog
           /\ crossed' = (crossed \/ Overtakes(rest, item, rooms.filter))

\* What is written is selected, listed or not; else one that is listed, by
\* the address of the page or the first.
LoadBuildings(c) ==
    \E items \in SUBSET Buildings :
        \E b \in (IF c.kind \in {"CREATED", "EDITED"} THEN {c.of} ELSE IF items = {} THEN {None} ELSE items) :
            Listed(c, items, b)
-----------------------------------------------------------------------------
(* The drawer of a building. *)

OpenCreate ==
    /\ NothingOpen
    /\ drawer' = [mode |-> "CREATE", values |-> None, over |-> None]
    /\ crossed' = (crossed \/ Awaited(BuildingCalls \ {"MOUNT"}))
    /\ UNCHANGED <<list, rooms, dialog, calls>>

OpenEdit ==
    /\ NothingOpen /\ PanelShown
    /\ drawer' = [mode |-> "EDIT", values |-> Item, over |-> Item]
    /\ crossed' = (crossed \/ Awaited(BuildingCalls))
    /\ UNCHANGED <<list, rooms, dialog, calls>>

\* At once, or after the dialog about unsaved changes.
CloseDrawer ==
    /\ drawer # Closed
    /\ drawer' = Closed
    /\ UNCHANGED <<list, rooms, dialog, calls, crossed>>

\* With no building selected any more, which takes a crossing, it writes none.
HandleSubmit ==
    /\ drawer.mode \in Saves /\ ~Awaited(Saves \cup {"CREATED", "EDITED"})
    /\ drawer.mode = "EDIT" => Item # None
    /\ Send(Request(drawer.mode, IF drawer.mode = "EDIT" THEN Item ELSE None, drawer.values, "ALL"))
    /\ UNCHANGED <<list, drawer, rooms, dialog, crossed>>

\* createBuilding, updateBuilding and deleteBuilding, then loadBuildings.
Written(c, b) ==
    /\ c \in calls
    /\ \/ c.kind = "CREATE" /\ b \notin list.items /\ Becomes(c, "CREATED", b)
       \/ c.kind = "EDIT" /\ b = c.of /\ Becomes(c, "EDITED", b)
       \/ c.kind = "DELETE" /\ b = c.of /\ Becomes(c, "DELETED", b)
    /\ list' = [list EXCEPT !.loading = TRUE]
    /\ UNCHANGED <<drawer, rooms, dialog, crossed>>

\* The drawer and the dialogs stay as they are, for another try.
WriteFailed(c) ==
    /\ c.kind \in Saves \cup {"DELETE"} \cup RoomSaves \cup {"ROOM_DELETE"}
    /\ Answer(c)
    /\ UNCHANGED <<list, drawer, rooms, dialog, crossed>>
-----------------------------------------------------------------------------
(* The rooms of the panel. *)

SetFilter(f) ==
    /\ NothingOpen /\ PanelShown /\ f # rooms.filter
    /\ rooms' = [rooms EXCEPT !.filter = f, !.loading = TRUE]
    /\ Send(Request("ROOMS", Item, Item, f))
    /\ crossed' = (crossed \/ Overtakes(calls, Item, f))
    /\ UNCHANGED <<list, drawer, dialog>>

\* Whatever the panel shows by now; ok is false if they could not be had.
\* After a save, its drawer is closed with it.
LoadRooms(c, ok) ==
    /\ c.kind \in RoomListing
    /\ Answer(c)
    /\ rooms' = [rooms EXCEPT !.of = IF ok THEN c.of ELSE None, !.by = c.filter, !.loading = FALSE]
    /\ dialog' = IF c.kind = "ROOM_SAVED" /\ dialog.kind \in RoomSaves THEN NoDialog ELSE dialog
    /\ UNCHANGED <<list, drawer, crossed>>
-----------------------------------------------------------------------------
(* What opens over the panel.  A room is edited or deleted from its row. *)

OpenDialog(kind) ==
    /\ NothingOpen /\ PanelShown
    /\ kind \in {"ROOM_EDIT", "ROOM_DELETE"} => ~rooms.loading /\ rooms.of # None
    /\ dialog' = [kind |-> kind, over |-> Item,
                  of |-> IF kind \in {"ROOM_EDIT", "ROOM_DELETE"} THEN rooms.of ELSE None]
    /\ crossed' = (crossed \/ Awaited(BuildingCalls)
                           \/ Awaited(RoomSaves \cup {"ROOM_DELETE", "ROOM_SAVED"}))
    /\ UNCHANGED <<list, drawer, rooms, calls>>

CloseDialog ==
    /\ dialog # NoDialog /\ PanelShown
    /\ dialog' = NoDialog
    /\ UNCHANGED <<list, drawer, rooms, calls, crossed>>

\* A new room goes to the building shown, as does the deletion of a building;
\* an edited or deleted room is the row's.
Confirm ==
    /\ dialog # NoDialog /\ PanelShown
    /\ dialog.kind \in RoomSaves => ~Awaited(RoomSaves \cup {"ROOM_SAVED"})
    /\ Send(Request(dialog.kind, Item, dialog.over, rooms.filter))
    /\ UNCHANGED <<list, drawer, rooms, dialog, crossed>>

\* Then loadRooms of the panel it was sent from.
RoomWritten(c) ==
    /\ c \in calls
    /\ \/ c.kind \in RoomSaves /\ Becomes(c, "ROOM_SAVED", c.of) /\ UNCHANGED dialog
       \/ /\ c.kind = "ROOM_DELETE" /\ Becomes(c, "ROOMS", c.of)
          /\ dialog' = IF dialog.kind = "ROOM_DELETE" THEN NoDialog ELSE dialog
    /\ rooms' = [rooms EXCEPT !.loading = TRUE]
    /\ UNCHANGED <<list, drawer, crossed>>

Next ==
    /\ ~crossed
    /\ \/ OpenCreate \/ OpenEdit \/ CloseDrawer \/ HandleSubmit
       \/ CloseDialog \/ Confirm
       \/ \E b \in Buildings : Select(b)
       \/ \E f \in Filter : SetFilter(f)
       \/ \E kind \in RoomSaves \cup {"ROOM_DELETE", "DELETE"} : OpenDialog(kind)
       \/ \E c \in calls :
            \/ LoadBuildings(c) \/ WriteFailed(c) \/ RoomWritten(c)
            \/ \E b \in Buildings : Written(c, b)
            \/ \E ok \in BOOLEAN : LoadRooms(c, ok)

Spec == Init /\ [][Next]_vars
-----------------------------------------------------------------------------
(* Properties. *)

TypeOK ==
    /\ list \in List /\ drawer \in Drawer /\ rooms \in RoomTable /\ dialog \in Dialog
    /\ calls \subseteq Call
    /\ crossed \in BOOLEAN

(***************************************************************************)
(* A building is edited by its own values, and its answer closes its own   *)
(* drawer; what the user opened over a panel, to add, to edit or delete a  *)
(* room or the building, is still about that panel's building when it is   *)
(* sent; and the rooms shown are the building's, by the filter chosen.  It *)
(* takes a crossing to have it else.                                       *)
(***************************************************************************)
ActsOnItsBuilding ==
    ~crossed =>
        /\ drawer.mode = "EDIT" => Item # None /\ drawer.values = Item /\ drawer.over = Item
        /\ \A c \in calls : c.kind \in {"EDIT", "EDITED"} =>
                /\ c.on = c.of
                /\ drawer # Closed => drawer.over = c.of
        /\ dialog # NoDialog => dialog.over = Item /\ dialog.of \in {Item, None}
        /\ \A c \in calls : c.kind \in RoomCalls \cup {"DELETE"} => c.on = c.of
        /\ PanelShown /\ ~rooms.loading /\ rooms.of # None => rooms.of = Item /\ rooms.by = rooms.filter
=============================================================================
