---------------------------- MODULE InvoiceForm ----------------------------
(***************************************************************************)
(* The drawer in which an invoice is written, and the answers that fill    *)
(* its form after the user may have moved on                               *)
(* (front-end/src/pages/invoices/InvoicesPage.tsx and                      *)
(* components/invoiceFormShared.tsx).  One form instance serves every use  *)
(* of the drawer.  What is abstracted of its values is where they come     *)
(* from; what the user types over them is not modelled.  A state update    *)
(* and the clean-up of the effects it causes are one step, as React runs   *)
(* both before the next answer is handled.                                 *)
(***************************************************************************)
CONSTANTS Drafts, None

Origins == {"DEFAULTS", "READING", "ROOM"}

InvoiceFormAssumption == None \notin Drafts /\ Drafts \cap Origins = {}

VARIABLES
    drawer,     \* open; mode "create" or "edit"; the invoice edited; made from a reading
    form,       \* where the values come from, and whether a room is chosen
    prefill,    \* the reading of the page's address: the await it is at, and
                \* whether utilityPrefillRequest is still its own
    edits,      \* invoices asked for by openEdit
    autofill,   \* the prefill of the chosen room is awaited and not cancelled
    save        \* what onSave has sent, and for which invoice

vars == <<drawer, form, prefill, edits, autofill, save>>

Default == [origin |-> "DEFAULTS", room |-> FALSE]
NoSave == [sent |-> FALSE, target |-> None, origin |-> None]
Loading == prefill.step # "NONE" /\ prefill.current

\* Changes the drawer and the form, and runs the effect if what it depends
\* on has changed.
AutoFills(d) == d.mode = "create" /\ ~d.source
Show(d, f) ==
    /\ drawer' = d /\ form' = f
    /\ autofill' = IF AutoFills(d) = AutoFills(drawer) /\ f.room = form.room /\ f.room
                   THEN autofill
                   ELSE AutoFills(d) /\ f.room

Superseded == [prefill EXCEPT !.current = FALSE]

\* The page is opened, from a reading's page or from the menu.
Init ==
    /\ prefill \in [step : {"NONE", "READING"}, current : {TRUE}]
    /\ drawer = [open |-> prefill.step = "READING", mode |-> "create", editing |-> None,
                 source |-> prefill.step = "READING"]
    /\ form = Default /\ edits = {} /\ autofill = FALSE /\ save = NoSave
-----------------------------------------------------------------------------
(* The drawer covers the list: it is opened when it is closed. *)

OpenCreate ==
    /\ ~drawer.open
    /\ Show([open |-> TRUE, mode |-> "create", editing |-> None, source |-> FALSE], Default)
    /\ prefill' = Superseded
    /\ UNCHANGED <<edits, save>>

OpenEdit(i) ==
    /\ ~drawer.open
    /\ edits' = edits \cup {i}
    /\ prefill' = Superseded
    /\ UNCHANGED <<drawer, form, autofill, save>>

\* Mutant: the answer fills the form and opens the drawer only.
EditLoaded_KeepsMode(i) ==
    /\ i \in edits
    /\ edits' = edits \ {i}
    /\ Show([drawer EXCEPT !.open = TRUE], [origin |-> i, room |-> TRUE])
    /\ UNCHANGED <<prefill, save>>

\* Nothing guards this answer: whatever the drawer shows becomes the edit of i.
EditLoaded(i) ==
    /\ i \in edits
    /\ edits' = edits \ {i}
    /\ Show([open |-> TRUE, mode |-> "edit", editing |-> i, source |-> FALSE],
            [origin |-> i, room |-> TRUE])
    /\ UNCHANGED <<prefill, save>>

EditFailed(i) ==
    /\ i \in edits
    /\ edits' = edits \ {i}
    /\ UNCHANGED <<drawer, form, prefill, autofill, save>>

CloseInvoiceDrawer ==
    /\ drawer.open
    /\ Show([drawer EXCEPT !.open = FALSE, !.source = FALSE], form)
    /\ prefill' = Superseded
    /\ UNCHANGED <<edits, save>>

\* The closed drawer's children are gone (destroyOnClose).
Destroyed ==
    /\ ~drawer.open /\ autofill
    /\ autofill' = FALSE
    /\ UNCHANGED <<drawer, form, prefill, edits, save>>
-----------------------------------------------------------------------------
(* Filling the form. *)

\* Mutant: an answer is used whoever has taken the drawer over.
IsCurrent_Always == TRUE

IsCurrent == prefill.current

Finished == [prefill EXCEPT !.step = "NONE"]

\* The reading is answered for, then what the room's contract says of its month.
ReadingLoaded ==
    /\ prefill.step = "READING"
    /\ prefill' = IF IsCurrent THEN [prefill EXCEPT !.step = "ROOM"] ELSE Finished
    /\ UNCHANGED <<drawer, form, edits, autofill, save>>

PrefillLoaded ==
    /\ prefill.step = "ROOM"
    /\ prefill' = Finished
    /\ IF IsCurrent THEN Show(drawer, [origin |-> "READING", room |-> TRUE])
                    ELSE UNCHANGED <<drawer, form, autofill>>
    /\ UNCHANGED <<edits, save>>

\* A call fails, the reading is not approved or not complete, or the room
\* has no active contract.
PrefillFailed ==
    /\ prefill.step # "NONE"
    /\ prefill' = Finished
    /\ IF IsCurrent THEN Show([drawer EXCEPT !.open = FALSE, !.source = FALSE], form)
                    ELSE UNCHANGED <<drawer, form, autofill>>
    /\ UNCHANGED <<edits, save>>

\* The user chooses a room or a month: the effect runs anew.
PickRoom ==
    /\ drawer.open /\ ~drawer.source
    /\ form' = [form EXCEPT !.room = TRUE]
    /\ autofill' = AutoFills(drawer)
    /\ UNCHANGED <<drawer, prefill, edits, save>>

AutofillLoaded ==
    /\ autofill
    /\ form' = [form EXCEPT !.origin = "ROOM"]
    /\ autofill' = FALSE
    /\ UNCHANGED <<drawer, prefill, edits, save>>
-----------------------------------------------------------------------------
(* Saving. *)

Target == IF drawer.mode = "create" THEN None ELSE drawer.editing

OnSave ==
    /\ drawer.open /\ form.room /\ ~Loading /\ save = NoSave
    /\ save' = [sent |-> TRUE, target |-> Target, origin |-> form.origin]
    /\ UNCHANGED <<drawer, form, prefill, edits, autofill>>

\* The answer closes the drawer, whatever it shows by now.
Saved ==
    /\ save # NoSave
    /\ Show([drawer EXCEPT !.open = FALSE, !.source = FALSE], form)
    /\ prefill' = Superseded /\ save' = NoSave
    /\ UNCHANGED edits

SaveFailed ==
    /\ save # NoSave
    /\ save' = NoSave
    /\ UNCHANGED <<drawer, form, prefill, edits, autofill>>

Next ==
    \/ OpenCreate \/ CloseInvoiceDrawer \/ Destroyed
    \/ \E i \in Drafts : OpenEdit(i) \/ EditLoaded(i) \/ EditFailed(i)
    \/ ReadingLoaded \/ PrefillLoaded \/ PrefillFailed
    \/ PickRoom \/ AutofillLoaded
    \/ OnSave \/ Saved \/ SaveFailed

Spec == Init /\ [][Next]_vars
-----------------------------------------------------------------------------
(* Properties. *)

TypeOK ==
    /\ drawer \in [open : BOOLEAN, mode : {"create", "edit"}, editing : Drafts \cup {None},
                   source : BOOLEAN]
    /\ form \in [origin : Origins \cup Drafts, room : BOOLEAN]
    /\ prefill \in [step : {"NONE", "READING", "ROOM"}, current : BOOLEAN]
    /\ edits \subseteq Drafts /\ autofill \in BOOLEAN
    /\ save \in [sent : BOOLEAN, target : Drafts \cup {None}, origin : Origins \cup Drafts \cup {None}]

\* What the open drawer may show.
Owns(target, source) ==
    IF target # None THEN {target} ELSE {"DEFAULTS", IF source THEN "READING" ELSE "ROOM"}

(***************************************************************************)
(* The form holds the values of what the drawer says it is: those of the   *)
(* invoice that is edited, of the reading it is made from, or of the room  *)
(* that was chosen.  No late answer puts other values into it, and so none *)
(* is saved to an invoice it does not belong to.                           *)
(***************************************************************************)
FormIsOwn ==
    /\ drawer.open => form.origin \in Owns(drawer.editing, drawer.source)
    /\ drawer.open => (drawer.mode = "edit") = (drawer.editing # None)
    /\ save.sent => save.origin \in Owns(save.target, TRUE) \cup Owns(save.target, FALSE)
=============================================================================
