------------------------------ MODULE Billing -------------------------------
(***************************************************************************)
(* How invoices are made from contracts and meter readings, corrected and  *)
(* replaced (backend/src/modules/invoices/invoices.core.ts), with the      *)
(* operations on readings and contracts that touch what an invoice stands  *)
(* on.  Payments are in PaymentLedger: here "ISSUED" stands for ISSUED,    *)
(* PARTIALLY_PAID and PAID, which this component never tells apart.        *)
(*                                                                         *)
(* Each operation is one transaction.  It locks the contract or invoice    *)
(* it starts from and the reading it writes; two transactions that still   *)
(* meet do so on uq_invoice_contract_month_active, where the second fails. *)
(***************************************************************************)
EXTENDS MeterReadings, FiniteSets

CONSTANTS
    Contracts,
    Invoices,   \* ids of invoice rows
    None

ASSUME BillingAssumption ==
    None \notin Contracts \cup Invoices \cup Rooms \cup Months

VARIABLES
    contract,   \* contract[c]: status and room
    invoice     \* invoice[i]: status, contract, room, month, usage billed, what it replaces

vars == <<reading, contract, invoice>>
-----------------------------------------------------------------------------
NoInvoice ==
    [status |-> "NONE", contract |-> None, room |-> None, month |-> None,
     usage |-> 0, replaces |-> None]

Draft(c, r, m, usage, replaced) ==
    [status |-> "DRAFT", contract |-> c, room |-> r, month |-> m,
     usage |-> usage, replaces |-> replaced]

Active(c) == contract[c].status = "ACTIVE"
RoomTaken(r) == \E c \in Contracts : Active(c) /\ contract[c].room = r

Live(i) == invoice[i].status \in {"DRAFT", "ISSUED"}

Bills(i, c, m) == invoice[i].contract = c /\ invoice[i].month = m

\* The live invoices of contract c for month m.
LiveFor(c, m) == {i \in Invoices : Live(i) /\ Bills(i, c, m)}

\* invoice.utility_reading_id is always the reading of its own room and month.
Refers(i, r, m) == invoice[i].room = r /\ invoice[i].month = m

ReadingOf(i) == reading[invoice[i].room][invoice[i].month]

Fresh(i) == invoice[i].status = "NONE"

Init ==
    /\ ReadingInit
    /\ contract \in [Contracts -> [status : {"DRAFT"}, room : Rooms]]
    /\ invoice = [i \in Invoices |-> NoInvoice]
-----------------------------------------------------------------------------
(* Readings, by the tenant of an active contract and the manager. *)

TenantSubmits(r, m) ==
    /\ RoomTaken(r)
    /\ SubmitReading(r, m)
    /\ UNCHANGED <<contract, invoice>>

ManagerReviews(r, m) ==
    /\ \E verdict \in {"APPROVED", "REJECTED"} : ReviewReading(r, m, verdict)
    /\ UNCHANGED <<contract, invoice>>

RequestCorrection_Unbilled(r, m) ==
    /\ ReturnReading(r, m)
    /\ \A i \in Invoices : Refers(i, r, m) => invoice[i].status # "ISSUED"
    /\ UNCHANGED <<contract, invoice>>

\* Refused while any invoice but a void one refers to the reading.
RequestCorrection(r, m) ==
    /\ ReturnReading(r, m)
    /\ \A i \in Invoices : Refers(i, r, m) => ~Live(i)
    /\ UNCHANGED <<contract, invoice>>
-----------------------------------------------------------------------------
(* Contracts, as far as billing sees them. *)

Activate(c) ==
    /\ contract[c].status = "DRAFT"
    /\ ~RoomTaken(contract[c].room)
    /\ contract' = [contract EXCEPT ![c].status = "ACTIVE"]
    /\ UNCHANGED <<reading, invoice>>

\* Activation by handover also writes the reading of the move-in month.
Handover(c, m, v) ==
    /\ contract[c].status = "DRAFT"
    /\ ~RoomTaken(contract[c].room)
    /\ contract' = [contract EXCEPT ![c].status = "ACTIVE"]
    /\ WriteHandoverReading(contract[c].room, m, v)
    /\ UNCHANGED invoice

\* Ended or cancelled: a draft or an active contract.
Close(c) ==
    /\ contract[c].status \in {"DRAFT", "ACTIVE"}
    /\ contract' = [contract EXCEPT ![c].status = "CLOSED"]
    /\ UNCHANGED <<reading, invoice>>

\* updateContract may change the room of any contract.
MoveContract(c, r) ==
    /\ r # contract[c].room
    /\ Active(c) => ~RoomTaken(r)
    /\ contract' = [contract EXCEPT ![c].room = r]
    /\ UNCHANGED <<reading, invoice>>
-----------------------------------------------------------------------------
(* Invoices. *)

\* One contract of the monthly generation, which goes through the active
\* contracts of a room, a building or the manager, each by its own rows.
GenerateInvoice(c, m, i) ==
    LET r == contract[c].room
    IN  /\ Active(c)
        /\ LiveFor(c, m) = {}
        /\ reading[r][m].status = "APPROVED"
        /\ Fresh(i)
        /\ invoice' = [invoice EXCEPT ![i] = Draft(c, r, m, Usage(reading[r][m]), None)]
        /\ UNCHANGED <<reading, contract>>

\* Like the generation, but a void invoice of the month also stands in its way.
InvoiceFromReading(c, m, i) ==
    /\ \A j \in Invoices : ~Bills(j, c, m)
    /\ GenerateInvoice(c, m, i)

ManualInvoice_Unordered(c, m, i) ==
    LET r == contract[c].room
    IN  /\ Active(c)
        /\ LiveFor(c, m) = {}
        /\ Fresh(i)
        /\ \E p, v \in Meter :
              /\ WriteInvoicedReading(r, m, p, v)
              /\ invoice' = [invoice EXCEPT ![i] = Draft(c, r, m, v - p, None)]
        /\ UNCHANGED contract

\* Written by hand, with the meter values the manager types.
ManualInvoice(c, m, i) ==
    LET r == contract[c].room
    IN  /\ Active(c)
        /\ LiveFor(c, m) = {}
        /\ Fresh(i)
        /\ \E p, v \in Meter :
              /\ p <= v
              /\ WriteInvoicedReading(r, m, p, v)
              /\ invoice' = [invoice EXCEPT ![i] = Draft(c, r, m, v - p, None)]
        /\ UNCHANGED contract

UpdateManualInvoice_Any(i, c, m) ==
    LET r == contract[c].room
    IN  /\ Live(i)
        /\ Active(c)
        /\ LiveFor(c, m) \subseteq {i}
        /\ \E p, v \in Meter :
              /\ p <= v
              /\ WriteInvoicedReading(r, m, p, v)
              /\ invoice' = [invoice EXCEPT ![i] = Draft(c, r, m, v - p, @.replaces)]
        /\ UNCHANGED contract

\* A draft may be rewritten for another contract, room and month.
UpdateManualInvoice(i, c, m) ==
    LET r == contract[c].room
    IN  /\ invoice[i].status = "DRAFT"
        /\ Active(c)
        /\ LiveFor(c, m) \subseteq {i}
        /\ \E p, v \in Meter :
              /\ p <= v
              /\ WriteInvoicedReading(r, m, p, v)
              /\ invoice' = [invoice EXCEPT ![i] = Draft(c, r, m, v - p, @.replaces)]
        /\ UNCHANGED contract

IssueInvoice(i) ==
    /\ invoice[i].status = "DRAFT"
    /\ invoice' = [invoice EXCEPT ![i].status = "ISSUED"]
    /\ MarkInvoiced(invoice[i].room, invoice[i].month)
    /\ UNCHANGED contract

\* Voiding leaves the reading as it is.
VoidInvoice(i) ==
    /\ invoice[i].status = "ISSUED"
    /\ invoice' = [invoice EXCEPT ![i].status = "VOID"]
    /\ UNCHANGED <<reading, contract>>

ReplacementBlocked_ByReplacement(v) ==
    \E j \in Invoices : invoice[j].replaces = v

\* A replacement of v exists, or its contract and month have a live invoice.
ReplacementBlocked_ByLive(v) == LiveFor(invoice[v].contract, invoice[v].month) # {}
ReplacementBlocked(v) ==
    \/ \E j \in Invoices : invoice[j].replaces = v
    \/ LiveFor(invoice[v].contract, invoice[v].month) # {}

\* A replacement starts as a copy of the void invoice, whatever its reading
\* and its contract have become.
ReplaceInvoice(v, i) ==
    /\ invoice[v].status = "VOID"
    /\ ~ReplacementBlocked(v)
    /\ Fresh(i)
    /\ invoice' = [invoice EXCEPT ![i] =
          [invoice[v] EXCEPT !.status = "DRAFT", !.replaces = v]]
    /\ UNCHANGED <<reading, contract>>

Released_Always(i) == TRUE

\* No other invoice refers to the reading of i.
Released(i) ==
    \A j \in Invoices \ {i} : ~Refers(j, invoice[i].room, invoice[i].month)

DeleteDraft(i) ==
    LET r == invoice[i].room
        m == invoice[i].month
    IN  /\ invoice[i].status = "DRAFT"
        /\ invoice' = [invoice EXCEPT ![i] = NoInvoice]
        /\ reading' =
              IF reading[r][m].status = "INVOICED" /\ Released(i)
              THEN [reading EXCEPT ![r][m].status = "APPROVED"]
              ELSE reading
        /\ UNCHANGED contract
-----------------------------------------------------------------------------
(***************************************************************************)
(* The next action the monthly billing page advises for contract c.  What  *)
(* it says of an issued invoice depends on its payments: one word here.    *)
(* Of several void invoices it links the one voided last, left out here.   *)
(***************************************************************************)
VoidFor(c, m) == {i \in Invoices : invoice[i].status = "VOID" /\ Bills(i, c, m)}

Advice_VoidFirst(c, m) ==
    LET status == reading[contract[c].room][m].status
    IN  IF \E i \in LiveFor(c, m) : invoice[i].status = "ISSUED" THEN "COLLECT"
        ELSE IF VoidFor(c, m) # {} THEN "REPLACE_VOID_INVOICE"
        ELSE IF LiveFor(c, m) # {} THEN "REVIEW_DRAFT"
        ELSE IF status = "APPROVED" THEN "GENERATE_INVOICE"
        ELSE IF status = "SUBMITTED" THEN "REVIEW_READING"
        ELSE IF status = "REJECTED" THEN "CORRECT_READING"
        ELSE "ENTER_READING"

Advice(c, m) ==
    LET status == reading[contract[c].room][m].status
    IN  IF \E i \in LiveFor(c, m) : invoice[i].status = "ISSUED" THEN "COLLECT"
        ELSE IF LiveFor(c, m) # {} THEN "REVIEW_DRAFT"
        ELSE IF VoidFor(c, m) # {} THEN "REPLACE_VOID_INVOICE"
        ELSE IF status = "APPROVED" THEN "GENERATE_INVOICE"
        ELSE IF status = "SUBMITTED" THEN "REVIEW_READING"
        ELSE IF status = "REJECTED" THEN "CORRECT_READING"
        ELSE "ENTER_READING"
-----------------------------------------------------------------------------
ReadingStep(r, m) ==
    \/ TenantSubmits(r, m)
    \/ ManagerReviews(r, m)
    \/ RequestCorrection(r, m)

ContractStep(c) ==
    \/ Activate(c)
    \/ Close(c)
    \/ \E m \in Months, v \in Meter : Handover(c, m, v)
    \/ \E r \in Rooms : MoveContract(c, r)

DraftStep(c, m, i) ==
    \/ GenerateInvoice(c, m, i)
    \/ InvoiceFromReading(c, m, i)
    \/ ManualInvoice(c, m, i)
    \/ UpdateManualInvoice(i, c, m)

InvoiceStep(i) ==
    \/ IssueInvoice(i)
    \/ VoidInvoice(i)
    \/ DeleteDraft(i)
    \/ \E v \in Invoices : ReplaceInvoice(v, i)

Next ==
    \/ \E r \in Rooms, m \in Months : ReadingStep(r, m)
    \/ \E c \in Contracts : ContractStep(c)
    \/ \E c \in Contracts, m \in Months, i \in Invoices : DraftStep(c, m, i)
    \/ \E i \in Invoices : InvoiceStep(i)

Spec == Init /\ [][Next]_vars
-----------------------------------------------------------------------------
(* Properties. *)

(***************************************************************************)
(* The rows have the columns and statuses of the schema, and what an       *)
(* invoice bills is never negative (the Math.max of calculateMeterUsage    *)
(* and the checks on typed meter values).                                  *)
(***************************************************************************)
TypeOK ==
    /\ reading \in [Rooms -> [Months -> Reading]]
    /\ contract \in [Contracts -> [status : {"DRAFT", "ACTIVE", "CLOSED"}, room : Rooms]]
    /\ invoice \in [Invoices ->
          {NoInvoice} \cup
          [status : {"DRAFT", "ISSUED", "VOID"}, contract : Contracts, room : Rooms,
           month : Months, usage : Meter, replaces : Invoices \cup {None}]]

(***************************************************************************)
(* However generation, manual invoices, edits that move a draft to another *)
(* month, replacements and deletions interleave, a contract has at most    *)
(* one invoice for a month that is not void.                               *)
(***************************************************************************)
OneLiveInvoice ==
    \A i, j \in Invoices :
        /\ Live(i) /\ Live(j)
        /\ Bills(i, invoice[j].contract, invoice[j].month)
        => i = j

(***************************************************************************)
(* What a replacement replaces is and stays void, and is replaced by that  *)
(* one only, also after drafts of replacements were deleted and made again.*)
(***************************************************************************)
ReplacesVoidOnce ==
    \A i \in Invoices : invoice[i].replaces # None =>
        /\ invoice[invoice[i].replaces].status = "VOID"
        /\ \A j \in Invoices : invoice[j].replaces = invoice[i].replaces => j = i

(***************************************************************************)
(* Nothing is billed twice, and nothing is replaced twice.                 *)
(***************************************************************************)
NothingBilledTwice == OneLiveInvoice /\ ReplacesVoidOnce

\* The bill still says what its reading says, and the reading is accepted.
BillMatches(i) ==
    /\ ReadingOf(i).status \in Metered
    /\ invoice[i].usage = Usage(ReadingOf(i))

\* In this step a contract of room r becomes active.
HandedOver(r) ==
    \E c \in Contracts : /\ contract[c].status = "DRAFT" /\ contract[c].room = r
                         /\ contract'[c].status = "ACTIVE"

\* After this step i's reading says what a draft of another contract bills.
OtherWrote(i) ==
    \E j \in Invoices : /\ invoice'[j].contract # invoice[i].contract
                        /\ invoice'[j].room = invoice[i].room
                        /\ invoice'[j].month = invoice[i].month
                        /\ invoice'[j].status = "DRAFT"
                        /\ BillMatches(j)'

BillKept(i) ==
    Live(i) /\ BillMatches(i) /\ Live(i)' =>
        \/ BillMatches(i)'
        \/ OtherWrote(i)
        \/ HandedOver(invoice[i].room)

(***************************************************************************)
(* As long as an invoice is live, its reading keeps the units it bills:    *)
(* no submission, correction, issue, void, replacement or deletion changes *)
(* it.  Only a handover of the room or a manual invoice of another         *)
(* contract for the same room and month can.                               *)
(***************************************************************************)
BillFollowsReading == [][\A i \in Invoices : BillKept(i)]_vars

(***************************************************************************)
(* "A utility reading referenced by an issued or void invoice remains      *)
(* INVOICED" (docs/business-rules.md) in every operation on readings and   *)
(* invoices, in particular when the draft of a replacement is deleted.     *)
(***************************************************************************)
InvoicedStays ==
    [][\A i \in Invoices :
        invoice[i].status \in {"ISSUED", "VOID"} /\ ReadingOf(i).status = "INVOICED" =>
            \/ reading'[invoice[i].room][invoice[i].month].status = "INVOICED"
            \/ HandedOver(invoice[i].room)]_vars

(***************************************************************************)
(* An issued invoice is never edited, moved or deleted: the only change    *)
(* it can see is to become void, and a void one sees none.                 *)
(***************************************************************************)
IssuedBillIsFinal ==
    [][\A i \in Invoices : invoice[i].status \in {"ISSUED", "VOID"} =>
        invoice'[i] \in {invoice[i], [invoice[i] EXCEPT !.status = "VOID"]}]_vars

(***************************************************************************)
(* What an issued invoice says, and what it was made from, stays.          *)
(***************************************************************************)
IssuedStays == InvoicedStays /\ IssuedBillIsFinal

(***************************************************************************)
(* When the monthly billing page says to replace a void invoice, some void *)
(* invoice of the month can be replaced: the page computes its advice from *)
(* other rows than the replacement checks.  Except when the replacement    *)
(* made for the void invoice was then rewritten for another contract or    *)
(* month.  Only this advice is spoken of: ENTER_READING, for one, is also  *)
(* said of an INVOICED reading (another contract billed the room's month,  *)
(* or a draft was moved away from it), and no submission changes that one. *)
(***************************************************************************)
ReplaceAdviceIsAccepted ==
    \A c \in Contracts, m \in Months :
        Active(c) /\ Advice(c, m) = "REPLACE_VOID_INVOICE" =>
            \E v \in VoidFor(c, m) :
                \/ ~ReplacementBlocked(v)
                \/ \E j \in Invoices : invoice[j].replaces = v /\ ~Bills(j, c, m)

(***************************************************************************)
(* docs/business-rules.md: "A utility reading referenced by an issued or   *)
(* void invoice remains INVOICED; voiding never returns it to APPROVED."   *)
(* InvoicedStays without the exception of the handover.                    *)
(***************************************************************************)
InvoicedForever ==
    [][\A i \in Invoices :
        invoice[i].status \in {"ISSUED", "VOID"} /\ ReadingOf(i).status = "INVOICED" =>
            reading'[invoice[i].room][invoice[i].month].status = "INVOICED"]_vars
=============================================================================
