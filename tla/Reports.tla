------------------------------ MODULE Reports -------------------------------
(***************************************************************************)
(* What the screens say of the money (backend/src/modules/reports and      *)
(* backend/src/modules/dashboard): eight queries, each with its own idea   *)
(* of what an invoice has had paid.  Each one is given here for a single   *)
(* invoice; the screens add it up over a month, a building or a page.      *)
(***************************************************************************)
EXTENDS PaymentLedger

Least(a, b) == IF a <= b THEN a ELSE b
Greatest(a, b) == IF a >= b THEN a ELSE b

Issued == {"ISSUED", "PARTIALLY_PAID", "PAID"}

Amounts(i, type) == SumOf({e \in EntriesOf(payment, i) : e.entry_type = type})
HasEntries(i) == EntriesOf(payment, i) # {}

-----------------------------------------------------------------------------
(* The reports. *)

\* Invoices marked PAID before there was a ledger count as paid in full.
PaidBeforeLedger(i) == IF invoice[i].status = "PAID" THEN invoice[i].total ELSE 0

ReportPaid(i) ==
    Least(IF HasEntries(i) THEN PaidAmount(i) ELSE PaidBeforeLedger(i), invoice[i].total)

\* The row of invoice_balances.
Balance(i) ==
    [paid        |-> ReportPaid(i),
     gross       |-> IF HasEntries(i) THEN Amounts(i, "PAYMENT") ELSE PaidBeforeLedger(i),
     reversals   |-> -Amounts(i, "REVERSAL"),
     outstanding |-> IF invoice[i].status = "VOID" THEN 0
                     ELSE Greatest(invoice[i].total - ReportPaid(i), 0)]

If(condition, amount) == IF condition THEN amount ELSE 0

\* By month, by building, and page by page.
Revenue(i) ==
    [billed    |-> If(invoice[i].status \in Issued, invoice[i].total),
     collected |-> Balance(i).paid,
     gross     |-> Balance(i).gross,
     reversals |-> Balance(i).reversals,
     unpaid    |-> If(invoice[i].status \in Payable, Balance(i).outstanding),
     void      |-> If(invoice[i].status = "VOID", invoice[i].total)]

\* What the list of debts shows, and what its total adds up.
IsDebt(i) == invoice[i].status \in Payable /\ Balance(i).outstanding > 0
DebtItem(i) == IF IsDebt(i) THEN Balance(i).outstanding ELSE None
DebtSummary(i) == If(IsDebt(i), Balance(i).outstanding)

\* The rows of the reconciliation, which are added up by who reads them.
Reconciliation(i) == EntriesOf(payment, i)

-----------------------------------------------------------------------------
(* The dashboard. *)

InvoiceBalance(i) ==
    LET paid == IF HasEntries(i) THEN PaidAmount(i) ELSE PaidBeforeLedger(i)
        outstanding == Greatest(invoice[i].total - Least(paid, invoice[i].total), 0)
    IN  If(invoice[i].status \in Payable, outstanding)

\* Mutant: what was given back still counts.
Chart_Gross(i) ==
    [billed    |-> If(invoice[i].status \notin {"NONE", "VOID"}, invoice[i].total),
     collected |-> IF invoice[i].status = "PAID" THEN invoice[i].total
                   ELSE Least(Amounts(i, "PAYMENT"), invoice[i].total),
     unpaid    |-> If(invoice[i].status \in Payable,
                      Greatest(invoice[i].total - Least(PaidAmount(i), invoice[i].total), 0))]

\* Here a paid invoice counts in full whatever its ledger says.
Chart(i) ==
    [billed    |-> If(invoice[i].status \notin {"NONE", "VOID"}, invoice[i].total),
     collected |-> IF invoice[i].status = "PAID" THEN invoice[i].total
                   ELSE Least(PaidAmount(i), invoice[i].total),
     unpaid    |-> If(invoice[i].status \in Payable,
                      Greatest(invoice[i].total - Least(PaidAmount(i), invoice[i].total), 0))]

RecentUnpaid(i) ==
    LET outstanding == Greatest(invoice[i].total - Least(PaidAmount(i), invoice[i].total), 0)
    IN  IF invoice[i].status \in Payable /\ outstanding > 0 THEN outstanding ELSE None
-----------------------------------------------------------------------------
(* Properties. *)

(***************************************************************************)
(* After any history of partial payments, reversals and voids the screens  *)
(* tell the same story.  The caps and the fallback for paid invoices       *)
(* without a ledger hide nothing: what is collected is what the ledger     *)
(* says, also of void invoices, and is gross less reversals.  Of an issued *)
(* invoice, what is billed is collected or owed; every invoice still       *)
(* payable is in the lists of debts, with the same amount everywhere.      *)
(* The chart of the dashboard bills drafts as well, the reports do not.    *)
(***************************************************************************)
BooksAgree ==
    \A i \in Invoices :
        LET owed == If(invoice[i].status \in Payable, Remaining(i))
        IN  /\ Revenue(i).collected = SumOf(Reconciliation(i))
            /\ Revenue(i).collected = Revenue(i).gross - Revenue(i).reversals
            /\ Chart(i).collected = Revenue(i).collected
            /\ invoice[i].status \in Issued => Revenue(i).billed = Revenue(i).collected + Revenue(i).unpaid
            /\ {Revenue(i).unpaid, DebtSummary(i), InvoiceBalance(i), Chart(i).unpaid} = {owed}
            /\ {DebtItem(i), RecentUnpaid(i)} = {IF invoice[i].status \in Payable THEN owed ELSE None}
            /\ Chart(i).billed = Revenue(i).billed + If(invoice[i].status = "DRAFT", invoice[i].total)
=============================================================================
