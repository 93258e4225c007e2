--------------------------- MODULE TenantRoomPage --------------------------
(***************************************************************************)
(* The tenant's page: the meter readings of a chosen month, and the drawer *)
(* of a bill with its payment request, where a proof is uploaded and       *)
(* submitted (front-end/src/pages/tenant-room/TenantRoomPage.tsx).  The    *)
(* card of the current bill is there for the refresh of the page that its  *)
(* proof ends with; who lives in the room and the personal documents are   *)
(* left out.  Answers are unguarded: a crossing is as in ContractsPage.    *)
(***************************************************************************)
EXTENDS FiniteSets, Integers

CONSTANTS
    Months, Bills,
    MaxCalls,   \* bound on the requests under way
    None

TenantRoomPageAssumption == None \notin Months \cup Bills /\ Months \cap Bills = {} /\ MaxCalls \in Nat

VARIABLES
    page,       \* loading, and whether the room is known
    reading,    \* the month chosen, the month the values are of and the one the
                \* pictures were chosen under; and whether the last load failed
    bill,       \* the drawer: open, billDetailLoading, billDetail, its request, the bill
                \* the proof was uploaded under; last asked for
    calls,      \* requests under way
    crossed     \* history

vars == <<page, reading, bill, calls, crossed>>

Month == Months \cup {None}
Bill == Bills \cup {None}
OfReading == {"HYDRATE", "READING"}
OfBill == {"BILL", "REQUEST", "UPLOAD", "PROOF", "UPDATED"}
OfPage == {"CURRENT", "REFRESH", "REHYDRATE"}

\* "on" is whose values or proof are sent.
Call == [kind : OfReading \cup OfBill \cup OfPage, of : Months \cup Bills \cup {None},
         on : Months \cup Bills \cup {None}]

Page == [loading : BOOLEAN, room : BOOLEAN]
Reading == [month : Months, values : Month, evidence : Month, failed : BOOLEAN]
Drawer == [open : BOOLEAN, loading : BOOLEAN, item : Bill, request : Bill, file : Bill, asked : Bill]

Ask(kind, i) == [kind |-> kind, of |-> i, on |-> None]

\* This month is chosen when the page is opened.
Init ==
    /\ page = [loading |-> TRUE, room |-> FALSE]
    /\ reading \in [month : Months, values : {None}, evidence : {None}, failed : {FALSE}]
    /\ bill = [open |-> FALSE, loading |-> FALSE, item |-> None, request |-> None,
               file |-> None, asked |-> None]
    /\ calls = {Ask("REFRESH", None)}
    /\ crossed = FALSE
-----------------------------------------------------------------------------
Send(c) ==
    /\ ~\E d \in calls : d.kind = c.kind /\ d.of = c.of
    /\ Cardinality(calls) < MaxCalls
    /\ calls' = calls \cup {c}

Answer(c) == calls' = calls \ {c}
Awaited(kinds, i) == \E c \in calls : c.kind \in kinds /\ c.of # i

PageShown == ~page.loading /\ page.room
ListShown == PageShown /\ ~bill.open
-----------------------------------------------------------------------------
(* The page as a whole. *)

\* The effect on the room loads the month as well.
Refreshed(c) ==
    /\ c.kind = "REFRESH"
    /\ calls' = (calls \ {c}) \cup {Ask("REHYDRATE", reading.month)}
                \cup (IF page.room THEN {} ELSE {Ask("HYDRATE", reading.month)})
    /\ page' = [page EXCEPT !.room = TRUE]
    /\ UNCHANGED <<reading, bill, crossed>>

\* The calls fail, or there is no room.
RefreshFailed(c, room) ==
    /\ c.kind \in {"REFRESH", "REHYDRATE"}
    /\ Answer(c)
    /\ page' = [loading |-> FALSE, room |-> room]
    /\ room => page.room
    /\ ~room => c.kind = "REFRESH"
    /\ reading' = [reading EXCEPT !.failed = TRUE]
    /\ UNCHANGED <<bill, crossed>>

\* The proof for the current bill: the page is refreshed.
SubmitCurrentProof ==
    /\ ListShown
    /\ Send(Ask("CURRENT", None))
    /\ UNCHANGED <<page, reading, bill, crossed>>

CurrentProofAnswered(c, ok) ==
    /\ c.kind = "CURRENT"
    /\ calls' = (calls \ {c}) \cup (IF ok THEN {Ask("REFRESH", None)} ELSE {})
    /\ page' = [page EXCEPT !.loading = page.loading \/ ok]
    /\ UNCHANGED <<reading, bill, crossed>>
-----------------------------------------------------------------------------
(* The readings of a month. *)

\* The effect on the month loads its values; the old ones stay until then.
SetMonth(m) ==
    /\ ListShown /\ m # reading.month
    /\ Send(Ask("HYDRATE", m))
    /\ reading' = [reading EXCEPT !.month = m]
    /\ crossed' = (crossed \/ Awaited(OfReading \cup {"CURRENT"}, m))
    /\ UNCHANGED <<page, bill>>

\* Mutant: the pictures stay.
HydrateFormByMonth_KeepsEvidence(c) ==
    /\ c.kind \in {"HYDRATE", "REHYDRATE"}
    /\ Answer(c)
    /\ reading' = [reading EXCEPT !.values = c.of, !.failed = FALSE]
    /\ page' = [page EXCEPT !.loading = page.loading /\ c.kind = "HYDRATE"]
    /\ UNCHANGED <<bill, crossed>>

HydrateFormByMonth(c) ==
    /\ c.kind \in {"HYDRATE", "REHYDRATE"}
    /\ Answer(c)
    /\ reading' = [reading EXCEPT !.values = c.of, !.evidence = None, !.failed = FALSE]
    /\ page' = [page EXCEPT !.loading = page.loading /\ c.kind = "HYDRATE"]
    /\ UNCHANGED <<bill, crossed>>

\* An error is shown above the values of the month before.
HydrateFailed(c) ==
    /\ c.kind = "HYDRATE"
    /\ Answer(c)
    /\ reading' = [reading EXCEPT !.failed = TRUE]
    /\ UNCHANGED <<page, bill, crossed>>

SelectEvidence ==
    /\ ListShown
    /\ reading' = [reading EXCEPT !.evidence = reading.month]
    /\ UNCHANGED <<page, bill, calls, crossed>>

\* After a failed load the values are the user's own affair.
HandleSubmit ==
    /\ ListShown /\ reading.evidence # None /\ ~\E c \in calls : c.kind = "READING"
    /\ Send([kind |-> "READING", of |-> reading.month, on |-> IF reading.failed THEN None ELSE reading.values])
    /\ crossed' = (crossed \/ \E c \in calls : c.kind = "HYDRATE")
    /\ UNCHANGED <<page, reading, bill>>

\* The month that was submitted is loaded anew, whichever is chosen by then.
ReadingSubmitted(c, ok) ==
    /\ c.kind = "READING"
    /\ calls' = (calls \ {c}) \cup (IF ok THEN {Ask("HYDRATE", c.of)} ELSE {})
    /\ UNCHANGED <<page, reading, bill, crossed>>
-----------------------------------------------------------------------------
(* The drawer of a bill. *)

OpenBillDetail(i) ==
    /\ ListShown
    /\ Send(Ask("BILL", i))
    /\ bill' = [open |-> TRUE, loading |-> TRUE, item |-> None, request |-> None,
                file |-> None, asked |-> i]
    /\ crossed' = (crossed \/ Awaited(OfBill, i))
    /\ UNCHANGED <<page, reading>>

BillLoaded(c) ==
    /\ c.kind = "BILL"
    /\ bill' = [bill EXCEPT !.item = c.of]
    /\ calls' = (calls \ {c}) \cup {Ask("REQUEST", c.of)}
    /\ UNCHANGED <<page, reading, crossed>>

BillFailed(c) ==
    /\ c.kind = "BILL"
    /\ Answer(c)
    /\ bill' = [bill EXCEPT !.open = FALSE, !.loading = FALSE]
    /\ UNCHANGED <<page, reading, crossed>>

\* There may be no request, or none that could be loaded.
RequestLoaded(c, found) ==
    /\ c.kind = "REQUEST"
    /\ Answer(c)
    /\ bill' = [bill EXCEPT !.request = IF found THEN c.of ELSE None, !.loading = FALSE]
    /\ UNCHANGED <<page, reading, crossed>>

CloseBillDetail ==
    /\ PageShown /\ bill.open
    /\ bill' = [bill EXCEPT !.open = FALSE, !.item = None, !.request = None, !.file = None]
    /\ UNCHANGED <<page, reading, calls, crossed>>

BillShown == PageShown /\ bill.open /\ ~bill.loading /\ bill.item # None

\* canSubmitBillDetailPaymentProof, as far as it is about the page
CanProve == BillShown /\ bill.request # None

UploadProof ==
    /\ CanProve
    /\ Send(Ask("UPLOAD", bill.item))
    /\ UNCHANGED <<page, reading, bill, crossed>>

Uploaded(c, ok) ==
    /\ c.kind = "UPLOAD"
    /\ Answer(c)
    /\ bill' = [bill EXCEPT !.file = IF ok THEN c.of ELSE @]
    /\ UNCHANGED <<page, reading, crossed>>

HandleBillDetailPaymentProofSubmit ==
    /\ CanProve /\ bill.file # None /\ ~\E c \in calls : c.kind \in {"PROOF", "UPDATED"}
    /\ Send([kind |-> "PROOF", of |-> bill.request, on |-> bill.file])
    /\ UNCHANGED <<page, reading, bill, crossed>>

ProofAnswered(c, ok) ==
    /\ c.kind = "PROOF"
    /\ calls' = (calls \ {c}) \cup (IF ok THEN {Ask("UPDATED", c.of)} ELSE {})
    /\ UNCHANGED <<page, reading, bill, crossed>>

\* The bill and its request are put back into the drawer.
BillUpdated(c, ok) ==
    /\ c.kind = "UPDATED"
    /\ Answer(c)
    /\ bill' = IF ok THEN [bill EXCEPT !.item = c.of, !.request = c.of, !.file = None] ELSE bill
    /\ UNCHANGED <<page, reading, crossed>>

Next ==
    /\ ~crossed
    /\ \/ SubmitCurrentProof \/ SelectEvidence \/ HandleSubmit
       \/ \E m \in Months : SetMonth(m)
       \/ \E i \in Bills : OpenBillDetail(i)
       \/ CloseBillDetail \/ UploadProof \/ HandleBillDetailPaymentProofSubmit
       \/ \E c \in calls :
            \/ Refreshed(c) \/ HydrateFormByMonth(c) \/ HydrateFailed(c)
            \/ BillLoaded(c) \/ BillFailed(c)
            \/ \E ok \in BOOLEAN :
                 \/ RefreshFailed(c, ok) \/ CurrentProofAnswered(c, ok) \/ ReadingSubmitted(c, ok)
                 \/ RequestLoaded(c, ok) \/ Uploaded(c, ok) \/ ProofAnswered(c, ok) \/ BillUpdated(c, ok)

Spec == Init /\ [][Next]_vars
-----------------------------------------------------------------------------
(* Properties. *)

TypeOK ==
    /\ page \in Page /\ reading \in Reading /\ bill \in Drawer
    /\ calls \subseteq Call
    /\ crossed \in BOOLEAN

\* The form has been filled with the month chosen, and nothing else is coming.
Hydrated == PageShown /\ ~reading.failed /\ ~\E c \in calls : c.kind = "HYDRATE"

(***************************************************************************)
(* The drawer shows the bill that was asked for and its own request, and a *)
(* proof is sent to the request of the bill it was uploaded for.  Readings *)
(* are sent to the month whose values the form was filled with, with       *)
(* pictures chosen for it, if the values of that month could be had.  It   *)
(* takes a crossing to have it else.                                       *)
(***************************************************************************)
SendsWhatItShows ==
    ~crossed =>
        /\ BillShown => bill.item = bill.asked /\ bill.request \in {bill.item, None}
        /\ bill.open => bill.file \in {bill.asked, None}
        /\ \A c \in calls : c.kind = "PROOF" => c.of = c.on
        /\ Hydrated => reading.values = reading.month /\ reading.evidence \in {reading.month, None}
        /\ \A c \in calls : c.kind = "READING" => c.on \in {c.of, None}
=============================================================================
