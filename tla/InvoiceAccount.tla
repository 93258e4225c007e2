--------------------------- MODULE InvoiceAccount ---------------------------
(***************************************************************************)
(* What the billing documents promise of one invoice, seen as an account:  *)
(* a status, a total and the net amount paid.  An invoice is drafted and   *)
(* redrafted, issued once it asks for money, paid and refunded in parts    *)
(* that never take the net amount outside 0..total, and voided with its    *)
(* money kept on record.  The status of an issued invoice is a function of *)
(* its balance at every moment.  Requests, proofs, ledger entries, retries *)
(* and expiry are invisible here: PaymentLedger implements this module.    *)
(***************************************************************************)
EXTENDS Integers

CONSTANTS
    Invoices,   \* invoice ids
    MaxTotal    \* largest invoice total

VARIABLES
    status,     \* status[i], "NONE" when no such invoice exists
    total,      \* total[i]
    paid        \* paid[i], payments less reversals

accountVars == <<status, total, paid>>

AccountStatus == {"NONE", "DRAFT", "ISSUED", "PARTIALLY_PAID", "PAID", "VOID"}

\* The status that an issued invoice of total t has when p of it is paid.
StatusOf(t, p) ==
    IF p >= t THEN "PAID" ELSE IF p > 0 THEN "PARTIALLY_PAID" ELSE "ISSUED"

AccountInit ==
    /\ status = [i \in Invoices |-> "NONE"]
    /\ total = [i \in Invoices |-> 0]
    /\ paid = [i \in Invoices |-> 0]

Redraft(i) ==
    /\ status[i] \in {"NONE", "DRAFT"}
    /\ status' = [status EXCEPT ![i] = "DRAFT"]
    /\ \E t \in 0..MaxTotal : total' = [total EXCEPT ![i] = t]
    /\ UNCHANGED paid

Discard(i) ==
    /\ status[i] = "DRAFT"
    /\ status' = [status EXCEPT ![i] = "NONE"]
    /\ total' = [total EXCEPT ![i] = 0]
    /\ UNCHANGED paid

Issue(i) ==
    /\ status[i] = "DRAFT"
    /\ total[i] > 0
    /\ status' = [status EXCEPT ![i] = "ISSUED"]
    /\ UNCHANGED <<total, paid>>

Pay(i) ==
    /\ status[i] \in {"ISSUED", "PARTIALLY_PAID"}
    /\ \E p \in (paid[i] + 1)..total[i] :
          /\ paid' = [paid EXCEPT ![i] = p]
          /\ status' = [status EXCEPT ![i] = StatusOf(total[i], p)]
    /\ UNCHANGED total

\* A void invoice keeps its status while its money is given back.
Refund(i) ==
    /\ status[i] \in {"PARTIALLY_PAID", "PAID", "VOID"}
    /\ \E p \in 0..(paid[i] - 1) :
          /\ paid' = [paid EXCEPT ![i] = p]
          /\ status' = [status EXCEPT ![i] =
                          IF @ = "VOID" THEN "VOID" ELSE StatusOf(total[i], p)]
    /\ UNCHANGED total

Void(i) ==
    /\ status[i] \in {"ISSUED", "PARTIALLY_PAID", "PAID"}
    /\ status' = [status EXCEPT ![i] = "VOID"]
    /\ UNCHANGED <<total, paid>>

AccountNext ==
    \E i \in Invoices :
        Redraft(i) \/ Discard(i) \/ Issue(i) \/ Pay(i) \/ Refund(i) \/ Void(i)

AccountSpec == AccountInit /\ [][AccountNext]_accountVars
=============================================================================
