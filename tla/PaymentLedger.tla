--------------------------- MODULE PaymentLedger ----------------------------
(***************************************************************************)
(* The money of the system: invoices, the payment requests that ask for    *)
(* them, the transfer proofs tenants submit, and the append-only ledger    *)
(* of approved payments and their reversals (backend/src/modules/payments  *)
(* and the invoice status operations of backend/src/modules/invoices).     *)
(*                                                                         *)
(* Every operation runs in one PostgreSQL transaction that locks the rows  *)
(* it decides on, so each is one action here.  A call that the code        *)
(* refuses, or answers from what is already there, changes no row and is a *)
(* stuttering step.                                                        *)
(*                                                                         *)
(* An operator X_Variant before an operator X is X with a plausible bug;   *)
(* only the mutants of PROJECT.json use it, to show that a property would  *)
(* notice.                                                                 *)
(***************************************************************************)
EXTENDS Integers, FiniteSets, FiniteSetsExt

CONSTANTS
    Invoices,   \* ids of invoice rows
    Requests,   \* ids of payment_request rows
    Proofs,     \* ids of payment_proof rows
    Keys,       \* idempotency keys the tenant's client draws
    None,       \* SQL NULL, and the fields of a row that does not exist
    MaxTotal    \* bound on an invoice's total, in units of money

ASSUME LedgerAssumption ==
    /\ None \notin Invoices \cup Requests \cup Keys
    /\ MaxTotal \in Nat

VARIABLES
    invoice,    \* invoice[i]: status and total
    request,    \* request[r]: status, invoice, expiry
    proof,      \* proof[p]: status, request, transfer amount, idempotency key
    payment     \* the rows of the payment table

vars == <<invoice, request, proof, payment>>

-----------------------------------------------------------------------------
(* Rows. *)

InvoiceStatus == {"NONE", "DRAFT", "ISSUED", "PARTIALLY_PAID", "PAID", "VOID"}
RequestStatus == {"NONE", "WAITING_TRANSFER", "TRANSFER_SUBMITTED", "VERIFIED",
                  "REJECTED", "EXPIRED", "CANCELLED"}
ProofStatus == {"NONE", "PENDING", "APPROVED", "REJECTED"}

\* expires_at: absent, still to come, or in the past.
Expiry == {"NEVER", "LATER", "PASSED"}

Payable == {"ISSUED", "PARTIALLY_PAID"}
Closed == {"CANCELLED", "EXPIRED"}

(***************************************************************************)
(* A ledger row.  A PAYMENT is identified by the proof it was approved     *)
(* from (its idempotency key is approve-proof:<proof>, and payment_proof_id *)
(* is unique); a REVERSAL by the payment it takes back (reverse-payment:   *)
(* <payment>, original_payment_id unique), hence by the same proof.        *)
(***************************************************************************)
Entry == [entry_type : {"PAYMENT", "REVERSAL"}, proof : Proofs,
          request : Requests, invoice : Invoices, amount : 1..MaxTotal]

NoInvoice == [status |-> "NONE", total |-> 0]
NoRequest == [status |-> "NONE", invoice |-> None, expiry |-> "NEVER"]
NoProof == [status |-> "NONE", request |-> None, amount |-> 0, key |-> None]

Signed(e) == IF e.entry_type = "REVERSAL" THEN -e.amount ELSE e.amount

SumOf(S) == MapThenSumSet(Signed, S)

EntriesOf(L, i) == {e \in L : e.invoice = i}

\* getInvoicePaidAmount over ledger L: payments less reversals of the invoice.
LedgerSum(L, i) == SumOf(EntriesOf(L, i))

PaidAmount(i) == LedgerSum(payment, i)

Remaining_Total(i) == invoice[i].total
Remaining(i) == invoice[i].total - PaidAmount(i)

\* What uq_payment_request_invoice_active and the queries call an active request.
ActiveRequests_Waiting(i) ==
    {r \in Requests : request[r].invoice = i /\ request[r].status = "WAITING_TRANSFER"}
ActiveRequests(i) ==
    {r \in Requests : /\ request[r].invoice = i
                      /\ request[r].status \notin Closed \cup {"NONE"}}

PendingProofs(r) == {p \in Proofs : proof[p].request = r /\ proof[p].status = "PENDING"}

InvoiceOf(p) == request[proof[p].request].invoice

\* The status an issued invoice gets from the sum of its ledger.
PaidStatus_Part(i, paid) ==
    IF paid >= invoice[i].total THEN "PAID" ELSE "PARTIALLY_PAID"
PaidStatus(i, paid) ==
    IF paid >= invoice[i].total THEN "PAID"
    ELSE IF paid > 0 THEN "PARTIALLY_PAID" ELSE "ISSUED"

OpenRequest(i, expiry) ==
    [status |-> "WAITING_TRANSFER", invoice |-> i, expiry |-> expiry]
-----------------------------------------------------------------------------
(* Invoices: a draft is written, changed and deleted freely, and issued once. *)

Init ==
    /\ invoice = [i \in Invoices |-> NoInvoice]
    /\ request = [r \in Requests |-> NoRequest]
    /\ proof = [p \in Proofs |-> NoProof]
    /\ payment = {}

\* Monthly generation, a manual invoice, a reading's invoice or a replacement.
CreateDraft(i) ==
    /\ invoice[i].status = "NONE"
    /\ \E t \in 0..MaxTotal : invoice' = [invoice EXCEPT ![i] = [status |-> "DRAFT", total |-> t]]
    /\ UNCHANGED <<request, proof, payment>>

AdjustDraft_Unchecked(i) ==
    /\ invoice[i].status = "DRAFT"
    /\ \E d \in -MaxTotal..MaxTotal : invoice' = [invoice EXCEPT ![i].total = @ + d]
    /\ UNCHANGED <<request, proof, payment>>

\* An adjustment adds a signed amount; the total must stay non-negative.
AdjustDraft(i) ==
    /\ invoice[i].status = "DRAFT"
    /\ \E d \in -MaxTotal..MaxTotal :
          /\ invoice[i].total + d >= 0
          /\ invoice[i].total + d <= MaxTotal
          /\ invoice' = [invoice EXCEPT ![i].total = @ + d]
    /\ UNCHANGED <<request, proof, payment>>

\* Refused once the draft has any payment or payment request.
DeleteDraft(i) ==
    /\ invoice[i].status = "DRAFT"
    /\ EntriesOf(payment, i) = {}
    /\ \A r \in Requests : request[r].invoice # i
    /\ invoice' = [invoice EXCEPT ![i] = NoInvoice]
    /\ UNCHANGED <<request, proof, payment>>

\* Issuing inserts the first payment request, unless the draft has one.
IssueInvoice(i, r) ==
    /\ invoice[i].status = "DRAFT"
    /\ request[r].status = "NONE"
    /\ ActiveRequests(i) = {} => Remaining(i) > 0
    /\ invoice' = [invoice EXCEPT ![i].status = "ISSUED"]
    /\ request' = IF ActiveRequests(i) = {}
                  THEN [request EXCEPT ![r] = OpenRequest(i, "NEVER")]
                  ELSE request
    /\ UNCHANGED <<proof, payment>>

VoidRejects_None(p, i) == FALSE
VoidRejects_All(p, i) == proof[p].status # "NONE" /\ InvoiceOf(p) = i
VoidRejects(p, i) == proof[p].status = "PENDING" /\ InvoiceOf(p) = i

VoidCloses(r, i) == r \in ActiveRequests(i) /\ request[r].status # "VERIFIED"

\* Voiding rejects the pending proofs and closes what is not verified.
VoidInvoice(i) ==
    /\ invoice[i].status \in {"ISSUED", "PARTIALLY_PAID", "PAID"}
    /\ invoice' = [invoice EXCEPT ![i].status = "VOID"]
    /\ proof' = [p \in Proofs |->
                    IF VoidRejects(p, i)
                    THEN [proof[p] EXCEPT !.status = "REJECTED"]
                    ELSE proof[p]]
    /\ request' = [r \in Requests |->
                    IF VoidCloses(r, i)
                    THEN [request[r] EXCEPT !.status = "CANCELLED"]
                    ELSE request[r]]
    /\ UNCHANGED payment
-----------------------------------------------------------------------------
(* Payment requests. *)

\* An active request is returned as it is, whatever its status.
CreatePaymentRequest(i, r) ==
    /\ invoice[i].status \in Payable
    /\ Remaining(i) > 0
    /\ ActiveRequests(i) = {}
    /\ request[r].status = "NONE"
    /\ \E x \in {"NEVER", "LATER"} : request' = [request EXCEPT ![r] = OpenRequest(i, x)]
    /\ UNCHANGED <<invoice, proof, payment>>

UpdatePaymentRequestStatus_Unchecked(r) ==
    /\ request[r].status \notin Closed \cup {"VERIFIED", "NONE"}
    /\ \E s \in Closed : request' = [request EXCEPT ![r].status = s]
    /\ UNCHANGED <<invoice, proof, payment>>

\* A manager cancels or expires a request that has no pending proof.
UpdatePaymentRequestStatus(r) ==
    /\ request[r].status \notin Closed \cup {"VERIFIED", "NONE"}
    /\ PendingProofs(r) = {}
    /\ \E s \in Closed : request' = [request EXCEPT ![r].status = s]
    /\ UNCHANGED <<invoice, proof, payment>>

Overdue(r) ==
    /\ request[r].expiry = "PASSED"
    /\ request[r].status \in {"WAITING_TRANSFER", "REJECTED"}
    /\ PendingProofs(r) = {}

\* The expiry job: one UPDATE over every overdue request.
ExpirePaymentRequests ==
    /\ \E r \in Requests : Overdue(r)
    /\ request' = [r \in Requests |->
                    IF Overdue(r) THEN [request[r] EXCEPT !.status = "EXPIRED"]
                    ELSE request[r]]
    /\ UNCHANGED <<invoice, proof, payment>>

\* Time goes by: a request's expires_at falls into the past.
ExpiryPasses(r) ==
    /\ request[r].expiry = "LATER"
    /\ request' = [request EXCEPT ![r].expiry = "PASSED"]
    /\ UNCHANGED <<invoice, proof, payment>>
-----------------------------------------------------------------------------
(* Proofs and the ledger. *)

KeyUsed_InRequest(r, k) == \E q \in Proofs : proof[q].key = k /\ proof[q].request = r
KeyUsed(r, k) == \E q \in Proofs : proof[q].key = k

\* A key that was used before answers with the earlier proof, or refuses when
\* that proof belongs to another request.
SubmitPaymentProof(r, p, k) ==
    /\ proof[p].status = "NONE"
    /\ ~KeyUsed(r, k)
    /\ request[r].status \in {"WAITING_TRANSFER", "REJECTED"}
    /\ invoice[request[r].invoice].status \in Payable
    /\ PendingProofs(r) = {}
    /\ \E a \in 1..MaxTotal :
          /\ a <= Remaining(request[r].invoice)
          /\ proof' = [proof EXCEPT ![p] =
                [status |-> "PENDING", request |-> r, amount |-> a, key |-> k]]
    /\ request' = [request EXCEPT ![r].status = "TRANSFER_SUBMITTED"]
    /\ UNCHANGED <<invoice, payment>>

PaymentFrom(p) ==
    [entry_type |-> "PAYMENT", proof |-> p, request |-> proof[p].request,
     invoice |-> InvoiceOf(p), amount |-> proof[p].amount]

ApproveProof(p) ==
    LET i == InvoiceOf(p)
        ledger == payment \cup {PaymentFrom(p)}
        fullyPaid == LedgerSum(ledger, i) >= invoice[i].total
    IN  /\ proof[p].status = "PENDING"
        /\ invoice[i].status \in Payable
        /\ proof[p].amount <= Remaining(i)
        /\ payment' = ledger
        /\ proof' = [proof EXCEPT ![p].status = "APPROVED"]
        /\ request' = [request EXCEPT ![proof[p].request].status =
                          IF fullyPaid THEN "VERIFIED" ELSE "WAITING_TRANSFER"]
        /\ invoice' = [invoice EXCEPT ![i].status =
                          IF fullyPaid THEN "PAID" ELSE "PARTIALLY_PAID"]

RejectProof_Reviewed(p) ==
    /\ proof[p].status \in {"PENDING", "APPROVED"}
    /\ proof' = [proof EXCEPT ![p].status = "REJECTED"]
    /\ request' = [request EXCEPT ![proof[p].request].status = "REJECTED"]
    /\ UNCHANGED <<invoice, payment>>

RejectProof(p) ==
    /\ proof[p].status = "PENDING"
    /\ proof' = [proof EXCEPT ![p].status = "REJECTED"]
    /\ request' = [request EXCEPT ![proof[p].request].status = "REJECTED"]
    /\ UNCHANGED <<invoice, payment>>

ReversalOf(e) == [e EXCEPT !.entry_type = "REVERSAL"]

StatusAfterReversal_Kept(i, paid) == invoice[i].status
StatusAfterReversal_Void(i, paid) == PaidStatus(i, paid)
StatusAfterReversal(i, paid) ==
    IF invoice[i].status = "VOID" THEN "VOID" ELSE PaidStatus(i, paid)

\* The request a reversal reopens: the payment's own, if it was verified.
Reopens(e, r) ==
    /\ invoice[e.invoice].status # "VOID"
    /\ r = e.request
    /\ request[r].status = "VERIFIED"

\* Reverses payment e, once; a void invoice and its requests stay as they are.
ReversePayment(e) ==
    LET i == e.invoice
        ledger == payment \cup {ReversalOf(e)}
    IN  /\ e.entry_type = "PAYMENT"
        /\ ReversalOf(e) \notin payment
        /\ payment' = ledger
        /\ invoice' = [invoice EXCEPT ![i].status = StatusAfterReversal(i, LedgerSum(ledger, i))]
        /\ request' = [r \in Requests |->
                          IF Reopens(e, r) THEN [request[r] EXCEPT !.status = "WAITING_TRANSFER"]
                          ELSE request[r]]
        /\ UNCHANGED proof
-----------------------------------------------------------------------------
InvoiceStep(i) ==
    \/ CreateDraft(i)
    \/ AdjustDraft(i)
    \/ DeleteDraft(i)
    \/ VoidInvoice(i)
    \/ \E r \in Requests : IssueInvoice(i, r)
    \/ \E r \in Requests : CreatePaymentRequest(i, r)

RequestStep(r) ==
    \/ UpdatePaymentRequestStatus(r)
    \/ ExpiryPasses(r)
    \/ \E p \in Proofs, k \in Keys : SubmitPaymentProof(r, p, k)

Next ==
    \/ \E i \in Invoices : InvoiceStep(i)
    \/ \E r \in Requests : RequestStep(r)
    \/ ExpirePaymentRequests
    \/ \E p \in Proofs : ApproveProof(p) \/ RejectProof(p)
    \/ \E e \in payment : ReversePayment(e)

Spec == Init /\ [][Next]_vars
-----------------------------------------------------------------------------
(* Properties. *)

(***************************************************************************)
(* The rows have the columns and enums of the schema, totals are never     *)
(* negative (the check of addInvoiceAdjustment) and the ledger holds       *)
(* positive amounts only.                                                  *)
(***************************************************************************)
TypeOK ==
    /\ invoice \in [Invoices -> [status : InvoiceStatus, total : 0..MaxTotal]]
    /\ request \in [Requests -> [status : RequestStatus,
                                 invoice : Invoices \cup {None}, expiry : Expiry]]
    /\ proof \in [Proofs -> [status : ProofStatus, request : Requests \cup {None},
                             amount : 0..MaxTotal, key : Keys \cup {None}]]
    /\ payment \subseteq Entry

(***************************************************************************)
(* Whatever sequence of requests, partial approvals, reversals and voids   *)
(* an invoice goes through, what is paid of it never exceeds its total and *)
(* never goes below zero ("A proof approval cannot make net paid exceed    *)
(* the invoice total", docs/business-rules.md).                            *)
(***************************************************************************)
NetPaidWithinTotal ==
    \A i \in Invoices : PaidAmount(i) \in 0..invoice[i].total

(***************************************************************************)
(* The stored status of an invoice, which several handlers write, always   *)
(* agrees with the sum of its ledger; drafts have no ledger at all.        *)
(***************************************************************************)
StatusMatchesLedger ==
    \A i \in Invoices :
        /\ invoice[i].status \in {"NONE", "DRAFT"} => EntriesOf(payment, i) = {}
        /\ invoice[i].status \in {"ISSUED", "PARTIALLY_PAID", "PAID"} =>
              invoice[i].status = PaidStatus(i, PaidAmount(i))

(***************************************************************************)
(* A request says TRANSFER_SUBMITTED exactly while one proof of it waits   *)
(* for review: cancelling, expiring and reopening never strand a proof.    *)
(***************************************************************************)
SubmittedMeansOnePending ==
    \A r \in Requests :
        Cardinality(PendingProofs(r)) = IF request[r].status = "TRANSFER_SUBMITTED" THEN 1 ELSE 0

(***************************************************************************)
(* A proof the manager sees as pending can always be approved: its invoice *)
(* still takes payments and its amount still fits the balance, although    *)
(* both were checked when it was submitted and the balance moves since.    *)
(***************************************************************************)
PendingProofCanBeApproved ==
    \A p \in Proofs : proof[p].status = "PENDING" =>
        /\ invoice[InvoiceOf(p)].status \in Payable
        /\ proof[p].amount <= invoice[InvoiceOf(p)].total - PaidAmount(InvoiceOf(p))

(***************************************************************************)
(* Issuing, re-requesting, expiring, cancelling and reversing never leave  *)
(* an invoice with two requests that are neither cancelled nor expired.    *)
(***************************************************************************)
OneActiveRequest ==
    \A q, r \in Requests :
        /\ request[q].status \notin Closed \cup {"NONE"}
        /\ request[r].status \notin Closed \cup {"NONE"}
        /\ request[q].invoice = request[r].invoice
        => q = r

(***************************************************************************)
(* A proof is approved exactly when the ledger holds its payment, so a     *)
(* repeated approval always finds the payment to answer with.              *)
(***************************************************************************)
ApprovedMeansPaid ==
    \A p \in Proofs : proof[p].status = "APPROVED" <=>
        \E e \in payment : e.proof = p /\ e.entry_type = "PAYMENT"

(***************************************************************************)
(* A retried submission never makes a second proof: an idempotency key     *)
(* names at most one proof, whatever requests it was sent with.            *)
(***************************************************************************)
KeyNamesOneProof ==
    \A p, q \in Proofs : proof[p].key = proof[q].key /\ proof[p].key # None => p = q

(***************************************************************************)
(* Reviewed proofs and ledger rows are never edited: no later operation on *)
(* the invoice (a void, a reversal) touches them.                          *)
(***************************************************************************)
ReviewedHistoryIsFinal ==
    [][/\ payment \subseteq payment'
       /\ \A p \in Proofs : proof[p].status \in {"APPROVED", "REJECTED"} => proof'[p] = proof[p]]_vars

(***************************************************************************)
(* A void invoice stays void, takes no further payment, and none of its    *)
(* requests opens again, even when its payments are reversed afterwards.   *)
(***************************************************************************)
VoidIsFinal ==
    [][\A i \in Invoices : invoice[i].status = "VOID" =>
        /\ invoice'[i].status = "VOID"
        /\ \A e \in EntriesOf(payment', i) \ payment : e.entry_type = "REVERSAL"
        /\ \A r \in Requests : request'[r].invoice = i =>
              request'[r].status \in Closed \cup {"VERIFIED"}]_vars

(***************************************************************************)
(* The rows of one payment tell one story: of an invoice one request is    *)
(* open, a request waits for review exactly while one proof of it does, a  *)
(* proof is approved exactly when its payment is in the ledger, and no     *)
(* retry makes a second one, in whatever order the handlers and the expiry *)
(* job come.                                                               *)
(***************************************************************************)
RequestsAndProofsAgree ==
    SubmittedMeansOnePending /\ OneActiveRequest /\ ApprovedMeansPaid /\ KeyNamesOneProof

(***************************************************************************)
(* Nothing that was decided is undone: reviewed proofs and ledger rows     *)
(* stay as they are, and what is void stays void.                          *)
(***************************************************************************)
HistoryIsFinal == ReviewedHistoryIsFinal /\ VoidIsFinal

(***************************************************************************)
(* The statuses, totals and balances of the invoices behave as the account *)
(* of InvoiceAccount: every operation of this module is one step of it or  *)
(* none.                                                                   *)
(***************************************************************************)
Account == INSTANCE InvoiceAccount WITH
    status <- [i \in Invoices |-> invoice[i].status],
    total <- [i \in Invoices |-> invoice[i].total],
    paid <- [i \in Invoices |-> PaidAmount(i)]

ImplementsAccount == Account!AccountSpec

(***************************************************************************)
(* docs/business-rules.md: "Reversing a payment recalculates the invoice   *)
(* balance and reopens its verified payment request when the invoice is    *)
(* still payable."  After a reversal that leaves the invoice payable, no   *)
(* request of it stays verified (a verified request takes no proof, cannot *)
(* be cancelled, and keeps any other request from being created).          *)
(***************************************************************************)
ReversalReopensRequest ==
    [][\A e \in payment' \ payment :
        e.entry_type = "REVERSAL" /\ invoice'[e.invoice].status \in Payable =>
            \A r \in Requests : request'[r].invoice = e.invoice =>
                request'[r].status # "VERIFIED"]_vars
=============================================================================
