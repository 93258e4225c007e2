-------------------------- MODULE RegistrationPage --------------------------
(***************************************************************************)
(* The page on which rooms are reserved and handed over (front-end/src/    *)
(* pages/rental-registration/RentalRegistrationPage.tsx), without its      *)
(* dialog for documents, which is RegistrationDocuments.  What a user      *)
(* begins while an answer is awaited that fills or empties the same form   *)
(* is a crossing; a behaviour is followed up to its first.                 *)
(***************************************************************************)
EXTENDS FiniteSets, Integers

CONSTANTS
    Contracts,
    Buildings,
    MaxCalls,   \* bound on the requests under way
    None

RegistrationPageAssumption == None \notin Contracts \cup Buildings /\ MaxCalls \in Nat

VARIABLES
    rooms,      \* the rooms on offer: loading, and the building they were asked for
    reserve,    \* the form: the building chosen, and the building of the room chosen
    dialog,     \* the contracts the dialogs of handover and cancellation are about
    calls,      \* requests under way
    widened,    \* history: the last load of rooms failed, or disregarded the building
    crossed     \* history

vars == <<rooms, reserve, dialog, calls, widened, crossed>>

Contract == Contracts \cup {None}
Building == Buildings \cup {None}
Dialogs == {"HANDOVER", "CANCEL"}

\* ROOMS loads the list, OPEN the contract to hand over; the others write.
Kinds == {"ROOMS", "OPEN", "RESERVE"} \cup Dialogs
Call == [kind : Kinds, of : Contract \cup Building]

Load(b) == [kind |-> "ROOMS", of |-> b]

\* No building is chosen, and every room on offer.
Init ==
    /\ rooms = [loading |-> TRUE, shown |-> None]
    /\ reserve = [building |-> None, room |-> None]
    /\ dialog = [d \in Dialogs |-> None]
    /\ calls = {Load(None)}
    /\ widened = FALSE /\ crossed = FALSE
-----------------------------------------------------------------------------
Send(kind, i) ==
    /\ [kind |-> kind, of |-> i] \notin calls
    /\ Cardinality(calls) < MaxCalls
    /\ calls' = calls \cup {[kind |-> kind, of |-> i]}

NoDialog == \A d \in Dialogs : dialog[d] = None
Awaited(kinds) == \E c \in calls : c.kind \in kinds
-----------------------------------------------------------------------------
(* Reserving a room. *)

\* Mutant: the room stays chosen.
ChooseBuilding_KeepsRoom(b) ==
    /\ NoDialog /\ b # reserve.building
    /\ Send("ROOMS", b)
    /\ reserve' = [reserve EXCEPT !.building = b]
    /\ rooms' = [rooms EXCEPT !.loading = TRUE]
    /\ widened' = FALSE
    /\ crossed' = (crossed \/ Awaited({"ROOMS", "RESERVE"} \cup Dialogs))
    /\ UNCHANGED dialog

\* The effect on the building loads its rooms and takes back the choice of one.
ChooseBuilding(b) ==
    /\ NoDialog /\ b # reserve.building
    /\ Send("ROOMS", b)
    /\ reserve' = [building |-> b, room |-> None]
    /\ rooms' = [rooms EXCEPT !.loading = TRUE]
    /\ widened' = FALSE
    /\ crossed' = (crossed \/ Awaited({"ROOMS", "RESERVE"} \cup Dialogs))
    /\ UNCHANGED dialog

RoomsLoaded(c) ==
    /\ c.kind = "ROOMS"
    /\ calls' = calls \ {c}
    /\ rooms' = [loading |-> FALSE, shown |-> c.of]
    /\ UNCHANGED <<reserve, dialog, widened, crossed>>

\* The rooms of before stay on the page.
RoomsFailed(c) ==
    /\ c.kind = "ROOMS"
    /\ calls' = calls \ {c}
    /\ rooms' = [rooms EXCEPT !.loading = FALSE]
    /\ widened' = TRUE
    /\ UNCHANGED <<reserve, dialog, crossed>>

\* A room of building b, from the list.
SelectRoom(b) ==
    /\ NoDialog /\ ~rooms.loading /\ rooms.shown \in {b, None}
    /\ reserve' = [reserve EXCEPT !.room = b]
    /\ crossed' = (crossed \/ Awaited({"RESERVE"}))
    /\ UNCHANGED <<rooms, dialog, calls, widened>>

SubmitReserve ==
    /\ NoDialog /\ reserve.room # None /\ ~Awaited({"RESERVE"})
    /\ Send("RESERVE", None)
    /\ UNCHANGED <<rooms, reserve, dialog, widened, crossed>>

\* The form is emptied, and with it the choice of a building.
Reserved(c) ==
    /\ c.kind = "RESERVE"
    /\ reserve' = [building |-> None, room |-> None]
    /\ rooms' = [rooms EXCEPT !.loading = TRUE]
    /\ calls' = (calls \ {c}) \cup {Load(None)}
    /\ crossed' = (crossed \/ Awaited({"ROOMS"}))
    /\ UNCHANGED <<dialog, widened>>
-----------------------------------------------------------------------------
(* Handing over and cancelling. *)

Opens(d, i) ==
    /\ dialog' = [dialog EXCEPT ![d] = i]
    /\ UNCHANGED <<rooms, reserve, widened>>

OpenHandover(i) ==
    /\ NoDialog
    /\ Send("OPEN", i)
    /\ crossed' = (crossed \/ Awaited({"OPEN", "HANDOVER"}))
    /\ UNCHANGED <<rooms, reserve, dialog, widened>>

HandoverOpened(c) ==
    /\ c.kind = "OPEN"
    /\ calls' = calls \ {c}
    /\ Opens("HANDOVER", c.of)
    /\ UNCHANGED crossed

OpenCancel(i) ==
    /\ NoDialog
    /\ Opens("CANCEL", i)
    /\ crossed' = (crossed \/ Awaited({"OPEN", "CANCEL"}))
    /\ UNCHANGED calls

CloseDialog(d) ==
    /\ dialog[d] # None
    /\ Opens(d, None)
    /\ UNCHANGED <<calls, crossed>>

\* submitHandover, submitCancel: for the contract the dialog is open on.
SubmitDialog(d) ==
    /\ dialog[d] # None /\ ~Awaited({d})
    /\ Send(d, dialog[d])
    /\ UNCHANGED <<rooms, reserve, dialog, widened, crossed>>

\* The dialog is closed and all rooms on offer are loaded, whichever building
\* is chosen.
DialogDone(c) ==
    /\ c.kind \in Dialogs
    /\ dialog' = [dialog EXCEPT ![c.kind] = None]
    /\ rooms' = [rooms EXCEPT !.loading = TRUE]
    /\ calls' = (calls \ {c}) \cup {Load(None)}
    /\ widened' = TRUE
    /\ UNCHANGED <<reserve, crossed>>

\* A refusal is shown, and leaves the form or the dialog as it is.
Refused(c) ==
    /\ c.kind # "ROOMS"
    /\ calls' = calls \ {c}
    /\ UNCHANGED <<rooms, reserve, dialog, widened, crossed>>

Next ==
    /\ ~crossed
    /\ \/ \E b \in Building : ChooseBuilding(b)
       \/ \E b \in Buildings : SelectRoom(b)
       \/ \E i \in Contracts : OpenHandover(i) \/ OpenCancel(i)
       \/ \E d \in Dialogs : CloseDialog(d) \/ SubmitDialog(d)
       \/ SubmitReserve
       \/ \E c \in calls :
            \/ RoomsLoaded(c) \/ RoomsFailed(c) \/ Reserved(c)
            \/ HandoverOpened(c) \/ DialogDone(c) \/ Refused(c)

Spec == Init /\ [][Next]_vars
-----------------------------------------------------------------------------
(* Properties. *)

TypeOK ==
    /\ rooms \in [loading : BOOLEAN, shown : Building]
    /\ reserve \in [building : Building, room : Building]
    /\ dialog \in [Dialogs -> Contract]
    /\ calls \subseteq Call
    /\ widened \in BOOLEAN /\ crossed \in BOOLEAN

(***************************************************************************)
(* The rooms on offer, and so the one that is reserved, are of the         *)
(* building chosen, unless their last load failed or came of a handover or *)
(* a cancellation, which asks for the rooms of all buildings; and what is  *)
(* handed over or cancelled is the contract the dialog is open on.  It     *)
(* takes a crossing to have it else.                                       *)
(***************************************************************************)
OffersWhatWasChosen ==
    ~crossed =>
        /\ ~widened /\ ~rooms.loading => rooms.shown = reserve.building
        /\ ~widened /\ reserve.room # None => reserve.building \in {reserve.room, None}
        /\ \A c \in calls : c.kind \in Dialogs => dialog[c.kind] \in {c.of, None}
        /\ dialog["HANDOVER"] = None \/ dialog["CANCEL"] = None
=============================================================================
