--------------------------- MODULE Billing_proofs ---------------------------
(***************************************************************************)
(* Theorems of Billing, for any rooms, months, contracts and invoices and  *)
(* any range of the meters.  OneLiveInvoice and ReplacesVoidOnce are       *)
(* inductive together with TypeOK; the action properties follow from the   *)
(* invariant, action by action.                                            *)
(***************************************************************************)
EXTENDS Billing, TLAPS

BInv == TypeOK /\ OneLiveInvoice /\ ReplacesVoidOnce

InvoiceRow ==
    [status : {"DRAFT", "ISSUED", "VOID"}, contract : Contracts, room : Rooms,
     month : Months, usage : Meter, replaces : Invoices \cup {None}]

ContractRow == [status : {"DRAFT", "ACTIVE", "CLOSED"}, room : Rooms]
-----------------------------------------------------------------------------
(* What the operators return. *)

\* A reading never bills less than nothing nor more than a meter shows.
LEMMA UsageInMeter ==
  ASSUME NEW x \in Reading
  PROVE  Usage(x) \in Meter
BY MeterAssumption DEF Reading, Usage, Meter

LEMMA DraftIsRow ==
  ASSUME NEW c \in Contracts, NEW r \in Rooms, NEW m \in Months, NEW u \in Meter,
         NEW x \in Invoices \cup {None}
  PROVE  Draft(c, r, m, u, x) \in InvoiceRow
BY DEF Draft, InvoiceRow

\* Writing one invoice row keeps the type.
LEMMA InvoiceTyped ==
  ASSUME TypeOK, NEW i \in Invoices, NEW x \in {NoInvoice} \cup InvoiceRow,
         invoice' = [invoice EXCEPT ![i] = x],
         reading' \in [Rooms -> [Months -> Reading]],
         contract' \in [Contracts -> ContractRow]
  PROVE  TypeOK'
BY DEF TypeOK, InvoiceRow, ContractRow

\* ... and so does writing one reading row.
LEMMA ReadingTyped ==
  ASSUME TypeOK, NEW r \in Rooms, NEW m \in Months, NEW x \in Reading,
         reading' = [reading EXCEPT ![r][m] = x]
  PROVE  reading' \in [Rooms -> [Months -> Reading]]
BY DEF TypeOK

LEMMA RowOfReading ==
  ASSUME TypeOK, NEW r \in Rooms, NEW m \in Months
  PROVE  reading[r][m] \in Reading
BY DEF TypeOK

\* An invoice that is not fresh has a full row.
LEMMA RowOfInvoice ==
  ASSUME TypeOK, NEW i \in Invoices
  PROVE  /\ invoice[i] \in {NoInvoice} \cup InvoiceRow
         /\ invoice[i].status # "NONE" => invoice[i] \in InvoiceRow
BY DEF TypeOK, InvoiceRow, NoInvoice
-----------------------------------------------------------------------------
(* How the invariant survives each kind of change to the invoices. *)

\* Steps on readings and contracts.
LEMMA InvoicesKept ==
  ASSUME BInv, invoice' = invoice, TypeOK'
  PROVE  BInv'
BY DEF BInv, OneLiveInvoice, ReplacesVoidOnce, Live, Bills

\* A draft x is written where there was no row or another draft: nobody else
\* bills its month, and it replaces what it did or a void invoice nobody replaces.
LEMMA DraftWritten ==
  ASSUME BInv, TypeOK', NEW i \in Invoices, NEW x \in InvoiceRow, x.status = "DRAFT",
         invoice[i].status \in {"NONE", "DRAFT"},
         invoice' = [invoice EXCEPT ![i] = x],
         LiveFor(x.contract, x.month) \subseteq {i},
         \/ x.replaces = invoice[i].replaces
         \/ /\ invoice[x.replaces].status = "VOID" /\ x.replaces \in Invoices
            /\ \A j \in Invoices : invoice[j].replaces # x.replaces
  PROVE  BInv'
<1>1. /\ invoice'[i] = x
      /\ \A j \in Invoices : j # i => invoice'[j] = invoice[j]
      /\ \A j \in Invoices : invoice[j] \in {NoInvoice} \cup InvoiceRow
  BY DEF BInv, TypeOK, InvoiceRow
<1>2. OneLiveInvoice'
  BY <1>1 DEF BInv, OneLiveInvoice, LiveFor, Live, Bills
<1>3. \A v \in Invoices : invoice[v].status = "VOID" => invoice'[v] = invoice[v]
  BY <1>1
<1>4. \A j \in Invoices : invoice[j].replaces \in Invoices \cup {None}
  BY <1>1 DEF NoInvoice, InvoiceRow
<1>5. ReplacesVoidOnce'
  BY <1>1, <1>3, <1>4, BillingAssumption DEF BInv, ReplacesVoidOnce
<1> QED BY <1>2, <1>5 DEF BInv

\* A row only changes its status from DRAFT to ISSUED, or from ISSUED to VOID.
LEMMA StatusAdvanced ==
  ASSUME BInv, TypeOK', NEW i \in Invoices, NEW s \in {"ISSUED", "VOID"},
         invoice[i].status \in {"DRAFT", "ISSUED"},
         invoice' = [invoice EXCEPT ![i].status = s]
  PROVE  BInv'
<1>1. \A j \in Invoices : invoice[j] \in {NoInvoice} \cup InvoiceRow
  BY DEF BInv, TypeOK, InvoiceRow
<1>2. invoice[i] \in InvoiceRow
  BY <1>1 DEF NoInvoice
<1>3. \A j \in Invoices : /\ invoice'[j].replaces = invoice[j].replaces
                          /\ invoice'[j].contract = invoice[j].contract
                          /\ invoice'[j].month = invoice[j].month
                          /\ invoice'[j].status = IF j = i THEN s ELSE invoice[j].status
  BY <1>1, <1>2 DEF BInv, TypeOK, InvoiceRow
<1>4. OneLiveInvoice'
  BY <1>3 DEF BInv, OneLiveInvoice, Live, Bills
<1>5. \A j \in Invoices : invoice[j].replaces \in Invoices \cup {None}
  BY <1>1 DEF NoInvoice, InvoiceRow
<1>6. ReplacesVoidOnce'
  BY <1>3, <1>5 DEF BInv, ReplacesVoidOnce
<1> QED BY <1>4, <1>6 DEF BInv
-----------------------------------------------------------------------------
(* What a step writes to a reading is a row again. *)

LEMMA SubmitTyped ==
  ASSUME TypeOK, NEW r \in Rooms, NEW m \in Months, SubmitReading(r, m)
  PROVE  reading' \in [Rooms -> [Months -> Reading]]
<1>1. PICK p \in Meter, v \in Meter, reset \in BOOLEAN :
         reading' = [reading EXCEPT ![r][m] =
            [status |-> "SUBMITTED", prev |-> p, curr |-> v, reset |-> reset]]
  BY DEF SubmitReading
<1>2. [status |-> "SUBMITTED", prev |-> p, curr |-> v, reset |-> reset] \in Reading
  BY DEF Reading, ReadingStatus
<1> QED BY <1>1, <1>2, ReadingTyped

\* Steps that only change the status of a reading.
LEMMA StatusTyped ==
  ASSUME TypeOK, NEW r \in Rooms, NEW m \in Months, NEW s \in ReadingStatus,
         reading' = [reading EXCEPT ![r][m].status = s]
  PROVE  reading' \in [Rooms -> [Months -> Reading]]
<1> DEFINE x == [reading[r][m] EXCEPT !.status = s]
<1>1. x \in Reading
  BY RowOfReading DEF Reading
<1>2. reading' = [reading EXCEPT ![r][m] = x]
  BY DEF TypeOK
<1> QED BY <1>1, <1>2, ReadingTyped

LEMMA WriteInvoicedTyped ==
  ASSUME TypeOK, NEW r \in Rooms, NEW m \in Months, NEW p \in Meter, NEW v \in Meter,
         WriteInvoicedReading(r, m, p, v)
  PROVE  reading' \in [Rooms -> [Months -> Reading]]
<1>1. [status |-> "INVOICED", prev |-> p, curr |-> v, reset |-> FALSE] \in Reading
  BY DEF Reading, ReadingStatus
<1> QED BY <1>1, ReadingTyped DEF WriteInvoicedReading

LEMMA WriteHandoverTyped ==
  ASSUME TypeOK, NEW r \in Rooms, NEW m \in Months, NEW v \in Meter,
         WriteHandoverReading(r, m, v)
  PROVE  reading' \in [Rooms -> [Months -> Reading]]
<1> DEFINE x == [status |-> "APPROVED", prev |-> v, curr |-> v, reset |-> reading[r][m].reset]
<1>1. x \in Reading
  BY RowOfReading DEF Reading, ReadingStatus
<1>2. reading' = [reading EXCEPT ![r][m] = x]
  BY DEF TypeOK, WriteHandoverReading
<1> QED BY <1>1, <1>2, ReadingTyped

LEMMA MarkTyped ==
  ASSUME TypeOK, NEW r \in Rooms, NEW m \in Months, MarkInvoiced(r, m)
  PROVE  reading' \in [Rooms -> [Months -> Reading]]
<1> DEFINE s == IF reading[r][m].status = "APPROVED" THEN "INVOICED" ELSE reading[r][m].status
<1>1. s \in ReadingStatus
  BY RowOfReading DEF Reading, ReadingStatus
<1>2. reading' = [reading EXCEPT ![r][m].status = s]
  BY DEF TypeOK, MarkInvoiced
<1> QED BY <1>1, <1>2, StatusTyped
-----------------------------------------------------------------------------
(* One lemma per kind of step: it keeps the invariant. *)

LEMMA ReadingStepKeepsInv ==
  ASSUME BInv, NEW r \in Rooms, NEW m \in Months, ReadingStep(r, m)
  PROVE  BInv'
<1>1. contract' = contract /\ invoice' = invoice
  BY DEF ReadingStep, TenantSubmits, ManagerReviews, RequestCorrection
<1>2. reading' \in [Rooms -> [Months -> Reading]]
  <2>1. CASE TenantSubmits(r, m)
    BY <2>1, SubmitTyped DEF BInv, TenantSubmits
  <2>2. CASE ManagerReviews(r, m)
    BY <2>2, StatusTyped DEF BInv, ManagerReviews, ReviewReading, ReadingStatus
  <2>3. CASE RequestCorrection(r, m)
    BY <2>3, StatusTyped DEF BInv, RequestCorrection, ReturnReading, ReadingStatus
  <2> QED BY <2>1, <2>2, <2>3 DEF ReadingStep
<1>3. TypeOK'
  BY <1>1, <1>2 DEF BInv, TypeOK
<1> QED BY <1>1, <1>3, InvoicesKept

LEMMA ContractStepKeepsInv ==
  ASSUME BInv, NEW c \in Contracts, ContractStep(c)
  PROVE  BInv'
<1> USE DEF BInv
<1>1. contract[c] \in ContractRow
  BY DEF TypeOK, ContractRow
<1>2. invoice' = invoice
  BY DEF ContractStep, Activate, Close, Handover, MoveContract
<1>3. contract' \in [Contracts -> ContractRow]
  <2>1. CASE Activate(c)
    BY <2>1, <1>1 DEF Activate, TypeOK, ContractRow
  <2>2. CASE Close(c)
    BY <2>2, <1>1 DEF Close, TypeOK, ContractRow
  <2>3. ASSUME NEW m \in Months, NEW v \in Meter, Handover(c, m, v)
        PROVE  contract' \in [Contracts -> ContractRow]
    BY <2>3, <1>1 DEF Handover, TypeOK, ContractRow
  <2>4. ASSUME NEW r \in Rooms, MoveContract(c, r)
        PROVE  contract' \in [Contracts -> ContractRow]
    BY <2>4, <1>1 DEF MoveContract, TypeOK, ContractRow
  <2> QED BY <2>1, <2>2, <2>3, <2>4 DEF ContractStep
<1>4. reading' \in [Rooms -> [Months -> Reading]]
  <2>1. ASSUME NEW m \in Months, NEW v \in Meter, Handover(c, m, v)
        PROVE  reading' \in [Rooms -> [Months -> Reading]]
    <3>1. contract[c].room \in Rooms
      BY <1>1 DEF ContractRow
    <3> QED BY <2>1, <3>1, WriteHandoverTyped DEF Handover
  <2>2. CASE reading' = reading
    BY <2>2 DEF TypeOK
  <2> QED BY <2>1, <2>2 DEF ContractStep, Activate, Close, MoveContract
<1>5. TypeOK'
  BY <1>2, <1>3, <1>4 DEF TypeOK, ContractRow
<1> QED BY <1>2, <1>5, InvoicesKept

\* The three ways to write a draft for a contract, and the rewriting of one.
LEMMA DraftStepKeepsInv ==
  ASSUME BInv, NEW c \in Contracts, NEW m \in Months, NEW i \in Invoices, DraftStep(c, m, i)
  PROVE  BInv'
<1> DEFINE r == contract[c].room
<1>0. TypeOK /\ r \in Rooms /\ reading[r][m] \in Reading
  BY RowOfReading DEF BInv, TypeOK
<1>1. CASE GenerateInvoice(c, m, i)
  <2> DEFINE u == Usage(reading[r][m])
             x == Draft(c, r, m, u, None)
  <2>1. u \in Meter
    BY <1>0, UsageInMeter
  <2> HIDE DEF u
  <2>2. x \in InvoiceRow
    BY <1>0, <2>1, DraftIsRow
  <2>3. /\ x.status = "DRAFT" /\ x.contract = c /\ x.month = m /\ x.replaces = None
        /\ invoice' = [invoice EXCEPT ![i] = x]
        /\ reading' = reading /\ contract' = contract
        /\ invoice[i].status = "NONE" /\ LiveFor(c, m) = {}
    BY <1>1 DEF GenerateInvoice, Draft, Fresh, u
  <2>4. invoice[i].replaces = None
    BY <1>0, <2>3, RowOfInvoice DEF NoInvoice, InvoiceRow
  <2> HIDE DEF x
  <2>5. TypeOK'
    BY <1>0, <2>2, <2>3, InvoiceTyped DEF TypeOK, ContractRow
  <2> QED BY <2>2, <2>3, <2>4, <2>5, DraftWritten
<1>2. ASSUME NEW p \in Meter, NEW v \in Meter, p <= v,
             WriteInvoicedReading(r, m, p, v),
             invoice' = [invoice EXCEPT ![i] = Draft(c, r, m, v - p, invoice[i].replaces)],
             invoice[i].status \in {"NONE", "DRAFT"},
             LiveFor(c, m) \subseteq {i}, contract' = contract
      PROVE  BInv'
  <2> DEFINE u == v - p
             x == Draft(c, r, m, u, invoice[i].replaces)
  <2>1. u \in Meter
    BY <1>2, MeterAssumption DEF Meter
  <2>2. invoice' = [invoice EXCEPT ![i] = x]
    BY <1>2
  <2> HIDE DEF u
  <2>3. invoice[i].replaces \in Invoices \cup {None}
    BY <1>0, RowOfInvoice DEF NoInvoice, InvoiceRow
  <2>4. /\ x \in InvoiceRow
        /\ x.status = "DRAFT" /\ x.contract = c /\ x.month = m
        /\ x.replaces = invoice[i].replaces
    BY <1>0, <2>1, <2>3, DraftIsRow DEF Draft
  <2> HIDE DEF x
  <2>5. reading' \in [Rooms -> [Months -> Reading]]
    BY <1>0, <1>2, WriteInvoicedTyped
  <2>6. TypeOK'
    BY <1>0, <1>2, <2>2, <2>4, <2>5, InvoiceTyped DEF TypeOK, ContractRow
  <2> QED BY <1>2, <2>2, <2>4, <2>6, DraftWritten
<1>3. CASE ManualInvoice(c, m, i)
  <2>1. invoice[i].replaces = None
    BY <1>0, <1>3, RowOfInvoice DEF ManualInvoice, Fresh, NoInvoice, InvoiceRow
  <2> QED BY <1>2, <1>3, <2>1 DEF ManualInvoice, Fresh
<1>4. CASE UpdateManualInvoice(i, c, m)
  <2>1. PICK p \in Meter, v \in Meter :
           /\ p <= v
           /\ WriteInvoicedReading(r, m, p, v)
           /\ invoice' = [invoice EXCEPT ![i] = Draft(c, r, m, v - p, @.replaces)]
    BY <1>4 DEF UpdateManualInvoice
  <2>2. invoice' = [invoice EXCEPT ![i] = Draft(c, r, m, v - p, invoice[i].replaces)]
    BY <2>1, <1>0 DEF TypeOK
  <2> QED BY <1>2, <1>4, <2>1, <2>2 DEF UpdateManualInvoice
<1> QED BY <1>1, <1>3, <1>4 DEF DraftStep, InvoiceFromReading

LEMMA InvoiceStepKeepsInv ==
  ASSUME BInv, NEW i \in Invoices, InvoiceStep(i)
  PROVE  BInv'
<1>0. TypeOK /\ (reading' = reading => reading' \in [Rooms -> [Months -> Reading]])
      /\ (contract' = contract => contract' \in [Contracts -> ContractRow])
      /\ (invoice[i].status # "NONE" =>
            invoice[i] \in InvoiceRow /\ invoice[i].room \in Rooms /\ invoice[i].month \in Months)
  BY RowOfInvoice DEF BInv, TypeOK, ContractRow, InvoiceRow
<1>1. CASE IssueInvoice(i)
  <2>1. [invoice[i] EXCEPT !.status = "ISSUED"] \in InvoiceRow
    BY <1>0, <1>1 DEF IssueInvoice, InvoiceRow
  <2>2. invoice' = [invoice EXCEPT ![i] = [invoice[i] EXCEPT !.status = "ISSUED"]]
    BY <1>1, <1>0 DEF IssueInvoice, TypeOK
  <2>3. reading' \in [Rooms -> [Months -> Reading]]
    BY <1>0, <1>1, MarkTyped DEF IssueInvoice
  <2>4. TypeOK'
    BY <1>0, <1>1, <2>1, <2>2, <2>3, InvoiceTyped DEF IssueInvoice
  <2> QED BY <1>1, <2>4, StatusAdvanced DEF IssueInvoice
<1>2. CASE VoidInvoice(i)
  <2>1. [invoice[i] EXCEPT !.status = "VOID"] \in InvoiceRow
    BY <1>0, <1>2 DEF VoidInvoice, InvoiceRow
  <2>2. invoice' = [invoice EXCEPT ![i] = [invoice[i] EXCEPT !.status = "VOID"]]
    BY <1>2, <1>0 DEF VoidInvoice, TypeOK
  <2>3. TypeOK'
    BY <1>0, <1>2, <2>1, <2>2, InvoiceTyped DEF VoidInvoice
  <2> QED BY <1>2, <2>3, StatusAdvanced DEF VoidInvoice
<1>3. CASE DeleteDraft(i)
  <2>1. reading' \in [Rooms -> [Months -> Reading]]
    <3>1. CASE reading' = [reading EXCEPT ![invoice[i].room][invoice[i].month].status = "APPROVED"]
      BY <1>0, <1>3, <3>1, StatusTyped DEF DeleteDraft, ReadingStatus
    <3> QED BY <1>0, <1>3, <3>1 DEF DeleteDraft
  <2>2. invoice' = [invoice EXCEPT ![i] = NoInvoice] /\ contract' = contract
    BY <1>3 DEF DeleteDraft
  <2>3. TypeOK'
    BY <1>0, <2>1, <2>2, InvoiceTyped
  <2>4. /\ invoice'[i] = NoInvoice
        /\ \A j \in Invoices : j # i => invoice'[j] = invoice[j]
    BY <1>0, <2>2 DEF TypeOK
  <2>5. OneLiveInvoice'
    BY <2>4 DEF BInv, OneLiveInvoice, Live, Bills, NoInvoice
  <2>6. \A j \in Invoices : invoice[j].replaces \in Invoices \cup {None}
    BY <1>0, RowOfInvoice DEF NoInvoice, InvoiceRow
  <2>7. ReplacesVoidOnce'
    BY <1>3, <2>4, <2>6, BillingAssumption DEF BInv, ReplacesVoidOnce, NoInvoice, DeleteDraft
  <2> QED BY <2>3, <2>5, <2>7 DEF BInv
<1>4. ASSUME NEW v \in Invoices, ReplaceInvoice(v, i)
      PROVE  BInv'
  <2> DEFINE x == [invoice[v] EXCEPT !.status = "DRAFT", !.replaces = v]
  <2>1. invoice[v] \in InvoiceRow /\ invoice[v].status = "VOID"
    BY <1>0, <1>4, RowOfInvoice DEF ReplaceInvoice
  <2>2. /\ x \in InvoiceRow /\ x.status = "DRAFT" /\ x.replaces = v
        /\ x.contract = invoice[v].contract /\ x.month = invoice[v].month
    BY <2>1 DEF InvoiceRow
  <2>3. invoice' = [invoice EXCEPT ![i] = x] /\ reading' = reading /\ contract' = contract
    BY <1>4 DEF ReplaceInvoice
  <2> HIDE DEF x
  <2>4. TypeOK'
    BY <1>0, <2>2, <2>3, InvoiceTyped
  <2>5. /\ LiveFor(x.contract, x.month) = {}
        /\ \A j \in Invoices : invoice[j].replaces # v
        /\ invoice[i].status = "NONE"
    BY <1>4, <2>2 DEF ReplaceInvoice, ReplacementBlocked, Fresh
  <2> QED BY <2>1, <2>2, <2>3, <2>4, <2>5, DraftWritten
<1> QED BY <1>1, <1>2, <1>3, <1>4 DEF InvoiceStep
-----------------------------------------------------------------------------
(* The invariant holds, and with it the properties of states. *)

LEMMA InitBInv == Init => BInv
<1> SUFFICES ASSUME Init PROVE BInv
  OBVIOUS
<1>1. NoReading \in Reading
  BY MeterAssumption DEF NoReading, Reading, ReadingStatus, Meter
<1>2. TypeOK
  BY <1>1 DEF Init, ReadingInit, TypeOK
<1>3. \A i \in Invoices : invoice[i].status = "NONE" /\ invoice[i].replaces = None
  BY DEF Init, NoInvoice
<1> QED BY <1>2, <1>3 DEF BInv, OneLiveInvoice, ReplacesVoidOnce, Live

LEMMA StepBInv == BInv /\ [Next]_vars => BInv'
<1> SUFFICES ASSUME BInv, [Next]_vars PROVE BInv'
  OBVIOUS
<1>1. CASE UNCHANGED vars
  <2>1. TypeOK'
    BY <1>1 DEF vars, BInv, TypeOK
  <2> QED BY <1>1, <2>1, InvoicesKept DEF vars
<1> QED BY <1>1, ReadingStepKeepsInv, ContractStepKeepsInv, DraftStepKeepsInv,
           InvoiceStepKeepsInv DEF Next

\* The inductive invariant holds in every reachable state.
THEOREM Invariance == Spec => []BInv
<1>1. Init => BInv
  BY InitBInv
<1>2. BInv /\ [Next]_vars => BInv'
  BY StepBInv
<1> QED BY <1>1, <1>2, PTL DEF Spec

\* Rows keep the columns of the schema, and no bill is negative, for any meters.
THEOREM TypeCorrect == Spec => []TypeOK
<1>1. BInv => TypeOK
  BY DEF BInv
<1> QED BY <1>1, Invariance, PTL

\* A contract has at most one invoice of a month that is not void, whichever
\* of the operations wrote it.
THEOREM LiveUnique == Spec => []OneLiveInvoice
<1>1. BInv => OneLiveInvoice
  BY DEF BInv
<1> QED BY <1>1, Invariance, PTL

\* A void invoice is replaced at most once, and what is replaced stays void.
THEOREM ReplacedOnce == Spec => []ReplacesVoidOnce
<1>1. BInv => ReplacesVoidOnce
  BY DEF BInv
<1> QED BY <1>1, Invariance, PTL

\* No order of generating, replacing, editing and deleting bills twice.
THEOREM BilledOnce == Spec => []NothingBilledTwice
BY LiveUnique, ReplacedOnce, PTL DEF NothingBilledTwice
-----------------------------------------------------------------------------
(* What one step does to one invoice and to its reading. *)

\* A row changes only where the step writes it.
LEMMA OtherReadings ==
  ASSUME TypeOK, NEW r \in Rooms, NEW m \in Months, NEW q \in Rooms, NEW n \in Months,
         q # r \/ n # m
  PROVE  /\ SubmitReading(r, m) => reading'[q][n] = reading[q][n]
         /\ \A s : reading' = [reading EXCEPT ![r][m].status = s]
                => reading'[q][n] = reading[q][n]
         /\ \A p, v : WriteInvoicedReading(r, m, p, v) => reading'[q][n] = reading[q][n]
         /\ \A v : WriteHandoverReading(r, m, v) => reading'[q][n] = reading[q][n]
         /\ MarkInvoiced(r, m) => reading'[q][n] = reading[q][n]
BY DEF TypeOK, SubmitReading, WriteInvoicedReading, WriteHandoverReading, MarkInvoiced

\* An invoice that was issued sees nothing but its own void.
LEMMA IssuedRowKept ==
  ASSUME BInv, [Next]_vars, NEW i \in Invoices, invoice[i].status \in {"ISSUED", "VOID"}
  PROVE  invoice'[i] \in {invoice[i], [invoice[i] EXCEPT !.status = "VOID"]}
<1>0. TypeOK
  BY DEF BInv
<1>1. CASE invoice' = invoice
  BY <1>1
<1>2. ASSUME NEW j \in Invoices, NEW x, j # i, invoice' = [invoice EXCEPT ![j] = x]
      PROVE  invoice'[i] = invoice[i]
  BY <1>0, <1>2 DEF TypeOK
<1>3. ASSUME NEW c \in Contracts, NEW m \in Months, NEW j \in Invoices, DraftStep(c, m, j)
      PROVE  invoice'[i] = invoice[i]
  BY <1>0, <1>3 DEF DraftStep, InvoiceFromReading, GenerateInvoice, ManualInvoice,
                    UpdateManualInvoice, Fresh, TypeOK
<1>4. ASSUME NEW j \in Invoices, InvoiceStep(j)
      PROVE  invoice'[i] \in {invoice[i], [invoice[i] EXCEPT !.status = "VOID"]}
  <2>1. CASE IssueInvoice(j)
    BY <1>0, <2>1 DEF IssueInvoice, TypeOK
  <2>2. CASE VoidInvoice(j)
    BY <1>0, <2>2 DEF VoidInvoice, TypeOK
  <2>3. CASE DeleteDraft(j)
    BY <1>2, <2>3 DEF DeleteDraft
  <2>4. ASSUME NEW v \in Invoices, ReplaceInvoice(v, j)
        PROVE  invoice'[i] = invoice[i]
    BY <1>2, <2>4 DEF ReplaceInvoice, Fresh
  <2> QED BY <1>4, <2>1, <2>2, <2>3, <2>4 DEF InvoiceStep
<1>5. ASSUME NEW r \in Rooms, NEW m \in Months, ReadingStep(r, m)
      PROVE  invoice' = invoice
  BY <1>5 DEF ReadingStep, TenantSubmits, ManagerReviews, RequestCorrection
<1>6. ASSUME NEW c \in Contracts, ContractStep(c)
      PROVE  invoice' = invoice
  BY <1>6 DEF ContractStep, Activate, Close, Handover, MoveContract
<1> QED BY <1>1, <1>3, <1>4, <1>5, <1>6 DEF Next, vars

\* An issued invoice is never edited, moved or deleted, for any sets of rows.
THEOREM IssuedFinal == Spec => IssuedBillIsFinal
<1>1. BInv /\ [Next]_vars =>
         \A i \in Invoices : invoice[i].status \in {"ISSUED", "VOID"} =>
            invoice'[i] \in {invoice[i], [invoice[i] EXCEPT !.status = "VOID"]}
  BY IssuedRowKept
<1> QED BY <1>1, Invariance, PTL DEF Spec, IssuedBillIsFinal
-----------------------------------------------------------------------------
(* Readings behind issued invoices. *)

LEMMA InvoicedKept ==
  ASSUME BInv, [Next]_vars, NEW i \in Invoices, invoice[i].status \in {"ISSUED", "VOID"},
         ReadingOf(i).status = "INVOICED"
  PROVE  \/ reading'[invoice[i].room][invoice[i].month].status = "INVOICED"
         \/ HandedOver(invoice[i].room)
<1> DEFINE q == invoice[i].room
           n == invoice[i].month
<1>0. TypeOK /\ q \in Rooms /\ n \in Months /\ reading[q][n].status = "INVOICED"
      /\ reading[q][n] \in Reading
  BY RowOfInvoice, RowOfReading DEF BInv, InvoiceRow, ReadingOf
<1> SUFFICES reading'[q][n].status = "INVOICED" \/ HandedOver(q)
  OBVIOUS
<1> HIDE DEF q, n
<1>1. CASE reading' = reading
  BY <1>0, <1>1
<1>2. ASSUME NEW r \in Rooms, NEW m \in Months, ReadingStep(r, m)
      PROVE  reading'[q][n].status = "INVOICED"
  <2>1. q # r \/ n # m
    BY <1>0, <1>2 DEF ReadingStep, TenantSubmits, SubmitReading, ManagerReviews,
                      ReviewReading, RequestCorrection, ReturnReading
  <2>2. reading'[q][n] = reading[q][n]
    BY <1>0, <1>2, <2>1, OtherReadings
       DEF ReadingStep, TenantSubmits, ManagerReviews, ReviewReading, RequestCorrection,
           ReturnReading
  <2> QED BY <1>0, <2>2
<1>3. ASSUME NEW c \in Contracts, ContractStep(c)
      PROVE  reading'[q][n].status = "INVOICED" \/ HandedOver(q)
  <2>1. ASSUME NEW m \in Months, NEW v \in Meter, Handover(c, m, v)
        PROVE  reading'[q][n].status = "INVOICED" \/ HandedOver(q)
    <3>1. contract[c] \in ContractRow /\ contract'[c].status = "ACTIVE"
      BY <1>0, <2>1 DEF Handover, TypeOK, ContractRow
    <3>2. CASE contract[c].room = q
      BY <2>1, <3>1, <3>2 DEF HandedOver, Handover
    <3>3. CASE contract[c].room # q
      BY <1>0, <2>1, <3>1, <3>3, OtherReadings DEF Handover, ContractRow
    <3> QED BY <3>2, <3>3
  <2> QED BY <1>1, <1>3, <2>1 DEF ContractStep, Activate, Close, MoveContract
<1>4. ASSUME NEW c \in Contracts, NEW m \in Months, NEW j \in Invoices, DraftStep(c, m, j)
      PROVE  reading'[q][n].status = "INVOICED"
  <2> DEFINE r == contract[c].room
  <2>0. r \in Rooms
    BY <1>0 DEF TypeOK
  <2>1. ASSUME NEW p, NEW v, WriteInvoicedReading(r, m, p, v)
        PROVE  reading'[q][n].status = "INVOICED"
    <3>1. CASE q = r /\ n = m
      BY <1>0, <2>1, <3>1 DEF WriteInvoicedReading, TypeOK
    <3> QED BY <1>0, <2>0, <2>1, <3>1, OtherReadings
  <2> HIDE DEF r
  <2>2. reading' = reading \/ \E p, v \in Meter : WriteInvoicedReading(r, m, p, v)
    BY <1>4 DEF DraftStep, InvoiceFromReading, GenerateInvoice, ManualInvoice,
                UpdateManualInvoice, r
  <2> QED BY <1>1, <1>0, <2>1, <2>2
<1>5. ASSUME NEW j \in Invoices, InvoiceStep(j)
      PROVE  reading'[q][n].status = "INVOICED"
  <2> DEFINE r == invoice[j].room
             m == invoice[j].month
  <2>1. CASE IssueInvoice(j)
    <3>1. r \in Rooms /\ m \in Months /\ MarkInvoiced(r, m)
      BY <1>0, <2>1, RowOfInvoice DEF IssueInvoice, InvoiceRow
    <3> HIDE DEF r, m
    <3>2. CASE q = r /\ n = m
      BY <1>0, <3>1, <3>2 DEF MarkInvoiced, TypeOK
    <3> QED BY <1>0, <3>1, <3>2, OtherReadings
  <2>2. CASE DeleteDraft(j)
    <3>1. r \in Rooms /\ m \in Months /\ j # i
      BY <1>0, <2>2, RowOfInvoice DEF DeleteDraft, InvoiceRow
    <3>2. CASE q = r /\ n = m
      <4>1. ~Released(j)
        BY <3>1, <3>2 DEF Released, Refers, q, n
      <4> QED BY <1>0, <2>2, <4>1 DEF DeleteDraft
    <3>3. CASE q # r \/ n # m
      <4>1. \/ reading' = reading
            \/ reading' = [reading EXCEPT ![r][m].status = "APPROVED"]
        BY <2>2 DEF DeleteDraft
      <4> HIDE DEF r, m
      <4> QED BY <1>0, <3>1, <3>3, <4>1, OtherReadings
    <3> QED BY <3>2, <3>3
  <2> QED BY <1>0, <1>5, <2>1, <2>2 DEF InvoiceStep, VoidInvoice, ReplaceInvoice
<1> QED BY <1>1, <1>2, <1>3, <1>4, <1>5 DEF Next, vars

\* Voiding, replacing and deleting drafts never unlock the reading of an
\* issued or void invoice; only a handover of the room can.
THEOREM InvoicedReadings == Spec => InvoicedStays
<1>1. BInv /\ [Next]_vars =>
         \A i \in Invoices :
            invoice[i].status \in {"ISSUED", "VOID"} /\ ReadingOf(i).status = "INVOICED" =>
               \/ reading'[invoice[i].room][invoice[i].month].status = "INVOICED"
               \/ HandedOver(invoice[i].room)
  BY InvoicedKept
<1> QED BY <1>1, Invariance, PTL DEF Spec, InvoicedStays

\* Nothing that was issued changes, nor what it was made from.
THEOREM IssuedKept == Spec => IssuedStays
BY InvoicedReadings, IssuedFinal, PTL DEF IssuedStays
-----------------------------------------------------------------------------
(* Bills and the readings they were made from. *)

\* Written readings make the bill of the draft they are written for.
LEMMA DraftMatches ==
  ASSUME BInv, NEW c \in Contracts, NEW m \in Months, NEW j \in Invoices,
         NEW p \in Meter, NEW v \in Meter, p <= v, NEW x,
         WriteInvoicedReading(contract[c].room, m, p, v),
         invoice' = [invoice EXCEPT ![j] = Draft(c, contract[c].room, m, v - p, x)]
  PROVE  /\ BillMatches(j)'
         /\ invoice'[j].status = "DRAFT" /\ invoice'[j].contract = c
         /\ invoice'[j].room = contract[c].room /\ invoice'[j].month = m
<1> DEFINE r == contract[c].room
           y == [status |-> "INVOICED", prev |-> p, curr |-> v, reset |-> FALSE]
<1>1. TypeOK /\ r \in Rooms
  BY DEF BInv, TypeOK
<1>2. /\ invoice'[j].status = "DRAFT" /\ invoice'[j].contract = c
      /\ invoice'[j].room = r /\ invoice'[j].month = m /\ invoice'[j].usage = v - p
  BY <1>1 DEF TypeOK, Draft
<1> HIDE DEF r
<1>3. reading'[r][m] = y
  BY <1>1 DEF TypeOK, WriteInvoicedReading, r
<1>4. Usage(y) = v - p
  BY MeterAssumption DEF Usage, Meter
<1> QED BY <1>2, <1>3, <1>4 DEF BillMatches, ReadingOf, Metered, r

LEMMA BillKeptByStep ==
  ASSUME BInv, [Next]_vars, NEW i \in Invoices
  PROVE  BillKept(i)
<1> SUFFICES ASSUME Live(i), BillMatches(i), Live(i)'
             PROVE  BillMatches(i)' \/ OtherWrote(i) \/ HandedOver(invoice[i].room)
  BY DEF BillKept
<1> DEFINE q == invoice[i].room
           n == invoice[i].month
<1>0. /\ TypeOK /\ q \in Rooms /\ n \in Months /\ invoice[i] \in InvoiceRow
      /\ reading[q][n] \in Reading
      /\ reading[q][n].status \in Metered /\ invoice[i].usage = Usage(reading[q][n])
      /\ ReadingOf(i) = reading[q][n]
  BY RowOfInvoice, RowOfReading DEF BInv, Live, BillMatches, ReadingOf, InvoiceRow
<1> SUFFICES BillMatches(i)' \/ OtherWrote(i) \/ HandedOver(q)
  OBVIOUS
\* It is enough that the invoice keeps its row and the reading its units.
<1>1. ASSUME /\ invoice'[i].room = q /\ invoice'[i].month = n
             /\ invoice'[i].usage = invoice[i].usage,
             reading'[q][n].status \in Metered,
             Usage(reading'[q][n]) = Usage(reading[q][n])
      PROVE  BillMatches(i)'
  BY <1>0, <1>1 DEF BillMatches, ReadingOf, Usage
<1> HIDE DEF q, n
<1>2. ASSUME reading' = reading, invoice'[i] = invoice[i]
      PROVE  BillMatches(i)'
  BY <1>0, <1>1, <1>2 DEF q, n
<1>3. ASSUME NEW r \in Rooms, NEW m \in Months, ReadingStep(r, m)
      PROVE  BillMatches(i)'
  <2>1. q # r \/ n # m
    BY <1>0, <1>3 DEF ReadingStep, TenantSubmits, SubmitReading, ManagerReviews, Metered,
                      ReviewReading, RequestCorrection, ReturnReading, Refers, q, n
  <2>2. reading'[q][n] = reading[q][n]
    BY <1>0, <1>3, <2>1, OtherReadings
       DEF ReadingStep, TenantSubmits, ManagerReviews, ReviewReading, RequestCorrection,
           ReturnReading
  <2>3. invoice' = invoice
    BY <1>3 DEF ReadingStep, TenantSubmits, ManagerReviews, RequestCorrection
  <2> QED BY <1>0, <1>1, <2>2, <2>3 DEF q, n
<1>4. ASSUME NEW c \in Contracts, ContractStep(c)
      PROVE  BillMatches(i)' \/ HandedOver(q)
  <2>1. ASSUME NEW m \in Months, NEW v \in Meter, Handover(c, m, v)
        PROVE  BillMatches(i)' \/ HandedOver(q)
    <3>1. /\ contract[c] \in ContractRow /\ contract'[c].status = "ACTIVE"
          /\ invoice' = invoice
      BY <1>0, <2>1 DEF Handover, TypeOK, ContractRow
    <3>2. CASE contract[c].room = q
      BY <2>1, <3>1, <3>2 DEF HandedOver, Handover
    <3>3. CASE contract[c].room # q
      <4>1. reading'[q][n] = reading[q][n]
        BY <1>0, <2>1, <3>1, <3>3, OtherReadings DEF Handover, ContractRow
      <4> QED BY <1>0, <1>1, <3>1, <4>1 DEF q, n
    <3> QED BY <3>2, <3>3
  <2>2. CASE reading' = reading /\ invoice' = invoice
    BY <1>2, <2>2
  <2> QED BY <1>4, <2>1, <2>2 DEF ContractStep, Activate, Close, MoveContract
<1>5. ASSUME NEW c \in Contracts, NEW m \in Months, NEW j \in Invoices, DraftStep(c, m, j)
      PROVE  BillMatches(i)' \/ OtherWrote(i)
  <2> DEFINE r == contract[c].room
  <2>0. r \in Rooms
    BY <1>0 DEF TypeOK
  <2>1. CASE GenerateInvoice(c, m, j)
    <3>1. reading' = reading /\ j # i /\ invoice'[i] = invoice[i]
      BY <1>0, <2>1 DEF GenerateInvoice, Fresh, Live, TypeOK
    <3> QED BY <1>2, <3>1, <1>1, <1>0 DEF q, n
  <2>2. ASSUME NEW p \in Meter, NEW v \in Meter, p <= v, NEW x,
               WriteInvoicedReading(r, m, p, v),
               invoice' = [invoice EXCEPT ![j] = Draft(c, r, m, v - p, x)],
               LiveFor(c, m) \subseteq {j}
        PROVE  BillMatches(i)' \/ OtherWrote(i)
    <3>1. /\ BillMatches(j)'
          /\ invoice'[j].status = "DRAFT" /\ invoice'[j].contract = c
          /\ invoice'[j].room = r /\ invoice'[j].month = m
      BY <2>2, DraftMatches, ZenonT(30)
    <3>2. CASE j = i
      BY <3>1, <3>2
    <3>3. CASE j # i /\ q = r /\ n = m
      <4>1. c # invoice[i].contract
        BY <2>2, <3>3 DEF LiveFor, Bills, n
      <4> QED BY <3>1, <3>3, <4>1 DEF OtherWrote, q, n
    <3>4. CASE j # i /\ (q # r \/ n # m)
      <4>1. invoice'[i] = invoice[i]
        BY <1>0, <2>2, <3>4 DEF TypeOK
      <4> HIDE DEF r
      <4>2. reading'[q][n] = reading[q][n]
        BY <1>0, <2>0, <2>2, <3>4, OtherReadings
      <4> QED BY <1>0, <1>1, <4>1, <4>2 DEF q, n
    <3> QED BY <3>2, <3>3, <3>4
  <2>3. CASE ManualInvoice(c, m, j)
    BY <2>2, <2>3 DEF ManualInvoice
  <2>4. CASE UpdateManualInvoice(j, c, m)
    <3>1. PICK p \in Meter, v \in Meter :
             /\ p <= v
             /\ WriteInvoicedReading(r, m, p, v)
             /\ invoice' = [invoice EXCEPT ![j] = Draft(c, r, m, v - p, @.replaces)]
      BY <2>4 DEF UpdateManualInvoice
    <3>2. invoice' = [invoice EXCEPT ![j] = Draft(c, r, m, v - p, invoice[j].replaces)]
      BY <3>1, <1>0 DEF TypeOK
    <3> QED BY <2>2, <2>4, <3>1, <3>2 DEF UpdateManualInvoice
  <2> QED BY <1>5, <2>1, <2>3, <2>4 DEF DraftStep, InvoiceFromReading
<1>6. ASSUME NEW j \in Invoices, InvoiceStep(j)
      PROVE  BillMatches(i)'
  <2> DEFINE r == invoice[j].room
             m == invoice[j].month
  <2>1. CASE IssueInvoice(j)
    <3>1. r \in Rooms /\ m \in Months /\ MarkInvoiced(r, m)
      BY <1>0, <2>1, RowOfInvoice DEF IssueInvoice, InvoiceRow
    <3> HIDE DEF r, m
    <3>2. /\ invoice'[i].room = q /\ invoice'[i].month = n
          /\ invoice'[i].usage = invoice[i].usage
      BY <1>0, <2>1 DEF IssueInvoice, TypeOK, InvoiceRow, q, n
    <3>3. /\ reading'[q][n].status \in Metered
          /\ Usage(reading'[q][n]) = Usage(reading[q][n])
      <4> DEFINE s == IF reading[q][n].status = "APPROVED" THEN "INVOICED"
                      ELSE reading[q][n].status
      <4>1. CASE q = r /\ n = m
        <5>1. reading'[q][n] = [reading[q][n] EXCEPT !.status = s]
          BY <1>0, <3>1, <4>1 DEF MarkInvoiced, TypeOK
        <5>2. s \in Metered
          BY <1>0 DEF Metered
        <5> HIDE DEF s
        <5> QED BY <1>0, <5>1, <5>2 DEF Usage, Reading
      <4>2. CASE q # r \/ n # m
        BY <1>0, <3>1, <4>2, OtherReadings DEF Usage
      <4> QED BY <4>1, <4>2
    <3> QED BY <1>1, <3>2, <3>3
  <2>2. CASE VoidInvoice(j)
    <3>1. /\ invoice'[i].room = q /\ invoice'[i].month = n
          /\ invoice'[i].usage = invoice[i].usage /\ reading' = reading
      BY <1>0, <2>2 DEF VoidInvoice, TypeOK, InvoiceRow, q, n
    <3> QED BY <1>0, <1>1, <3>1
  <2>3. CASE DeleteDraft(j)
    <3>1. r \in Rooms /\ m \in Months
      BY <1>0, <2>3, RowOfInvoice DEF DeleteDraft, InvoiceRow
    <3>2. j # i
      BY <1>0, <2>3 DEF DeleteDraft, TypeOK, NoInvoice, Live
    <3>3. invoice'[i] = invoice[i]
      BY <1>0, <2>3, <3>2 DEF DeleteDraft, TypeOK
    <3>4. \/ reading' = reading
          \/ reading' = [reading EXCEPT ![r][m].status = "APPROVED"]
      BY <2>3 DEF DeleteDraft
    <3> HIDE DEF r, m
    <3>5. CASE reading' = reading
      BY <1>0, <1>1, <3>3, <3>5 DEF q, n
    <3>6. CASE reading' = [reading EXCEPT ![r][m].status = "APPROVED"]
      <4>1. CASE q = r /\ n = m
        <5>1. reading'[q][n] = [reading[q][n] EXCEPT !.status = "APPROVED"]
          BY <1>0, <3>1, <3>6, <4>1 DEF TypeOK
        <5>2. /\ reading'[q][n].status \in Metered
              /\ Usage(reading'[q][n]) = Usage(reading[q][n])
          BY <1>0, <5>1 DEF Usage, Reading, Metered
        <5> QED BY <1>1, <3>3, <5>2 DEF q, n
      <4>2. CASE q # r \/ n # m
        <5>1. reading'[q][n] = reading[q][n]
          BY <1>0, <3>1, <3>6, <4>2, OtherReadings
        <5> QED BY <1>0, <1>1, <3>3, <5>1 DEF q, n
      <4> QED BY <4>1, <4>2
    <3> QED BY <3>4, <3>5, <3>6
  <2>4. ASSUME NEW v \in Invoices, ReplaceInvoice(v, j)
        PROVE  BillMatches(i)'
    <3>1. reading' = reading /\ invoice'[i] = invoice[i]
      BY <1>0, <2>4 DEF ReplaceInvoice, Fresh, Live, TypeOK
    <3> QED BY <1>0, <1>1, <3>1 DEF q, n
  <2> QED BY <1>6, <2>1, <2>2, <2>3, <2>4 DEF InvoiceStep
<1> QED BY <1>2, <1>3, <1>4, <1>5, <1>6 DEF Next, vars

\* A live invoice that agrees with its reading goes on agreeing with it, unless
\* the room is handed over or another contract's draft is written for it.
THEOREM BillsFollowReadings == Spec => BillFollowsReading
<1>1. BInv /\ [Next]_vars => \A i \in Invoices : BillKept(i)
  BY BillKeptByStep
<1> QED BY <1>1, Invariance, PTL DEF Spec, BillFollowsReading
-----------------------------------------------------------------------------
(* What the monthly billing page advises. *)

\* Replacements come to an end: among any invoices there is one that none of
\* the others replaces, so that not all of them are void and replaced.
ReplacementsEnd ==
    \A S \in SUBSET Invoices : S # {} => \E v \in S : \A j \in S : invoice[j].replaces # v

\* A replacement is of an invoice that was there before it.
LEMMA NewerReplaces ==
  ASSUME BInv, NEW i \in Invoices, NEW v \in Invoices, ReplaceInvoice(v, i)
  PROVE  /\ \A j \in Invoices : j # i => invoice'[j] = invoice[j]
         /\ \A j \in Invoices : invoice'[j].replaces # i
<1>1. invoice[i].status = "NONE" /\ invoice[v].status = "VOID" /\ i # None /\ i # v
  BY BillingAssumption DEF ReplaceInvoice, Fresh
<1>2. invoice' = [invoice EXCEPT ![i] = [invoice[v] EXCEPT !.status = "DRAFT", !.replaces = v]]
  BY DEF ReplaceInvoice
<1>3. \A j \in Invoices : j # i => invoice'[j] = invoice[j]
  BY <1>2 DEF BInv, TypeOK
<1>4. invoice[v] \in InvoiceRow
  BY <1>1, RowOfInvoice DEF BInv
<1>5. invoice'[i].replaces = v
  BY <1>2, <1>4 DEF BInv, TypeOK, InvoiceRow
<1>6. \A j \in Invoices : invoice[j].replaces # i
  BY <1>1 DEF BInv, ReplacesVoidOnce
<1> QED BY <1>1, <1>3, <1>5, <1>6

\* No other step makes an invoice replace one.
LEMMA ReplacesKept ==
  ASSUME BInv, NEW i \in Invoices,
         \/ \E c \in Contracts, m \in Months : DraftStep(c, m, i)
         \/ IssueInvoice(i) \/ VoidInvoice(i) \/ DeleteDraft(i)
  PROVE  \A j \in Invoices : invoice'[j].replaces \in {None, invoice[j].replaces}
<1>0. \A j \in Invoices : invoice[j] \in {NoInvoice} \cup InvoiceRow
  BY RowOfInvoice DEF BInv
<1>1. ASSUME NEW c, NEW r, NEW m, NEW u, NEW x, invoice' = [invoice EXCEPT ![i] = Draft(c, r, m, u, x)],
             x \in {None, invoice[i].replaces}
      PROVE  \A j \in Invoices : invoice'[j].replaces \in {None, invoice[j].replaces}
  <2>1. Draft(c, r, m, u, x).replaces = x
    BY DEF Draft
  <2> QED BY <1>1, <2>1 DEF BInv, TypeOK
<1>2. ASSUME NEW c \in Contracts, NEW m \in Months, DraftStep(c, m, i)
      PROVE  \A j \in Invoices : invoice'[j].replaces \in {None, invoice[j].replaces}
  <2>1. CASE GenerateInvoice(c, m, i)
    BY <1>1, <2>1 DEF GenerateInvoice
  <2>2. CASE ManualInvoice(c, m, i)
    BY <1>1, <2>2 DEF ManualInvoice
  <2>3. CASE UpdateManualInvoice(i, c, m)
    <3>1. PICK p \in Meter, v \in Meter :
            invoice' = [invoice EXCEPT ![i] = Draft(c, contract[c].room, m, v - p, @.replaces)]
      BY <2>3 DEF UpdateManualInvoice
    <3>2. invoice' = [invoice EXCEPT ![i] = Draft(c, contract[c].room, m, v - p, invoice[i].replaces)]
      BY <3>1 DEF BInv, TypeOK
    <3> QED BY <1>1, <3>2
  <2> QED BY <1>2, <2>1, <2>2, <2>3 DEF DraftStep, InvoiceFromReading
<1>3. ASSUME NEW s \in {"ISSUED", "VOID"}, invoice' = [invoice EXCEPT ![i].status = s], invoice[i].status # "NONE"
      PROVE  \A j \in Invoices : invoice'[j].replaces \in {None, invoice[j].replaces}
  BY <1>0, <1>3 DEF BInv, TypeOK, InvoiceRow, NoInvoice
<1>4. CASE DeleteDraft(i)
  <2>1. invoice' = [invoice EXCEPT ![i] = NoInvoice] /\ NoInvoice.replaces = None
    BY <1>4 DEF DeleteDraft, NoInvoice
  <2> QED BY <2>1 DEF BInv, TypeOK
<1> QED BY <1>2, <1>3, <1>4 DEF IssueInvoice, VoidInvoice

LEMMA ReplacementsEndStep ==
  BInv /\ ReplacementsEnd /\ [Next]_vars => ReplacementsEnd'
<1> SUFFICES ASSUME BInv, ReplacementsEnd, [Next]_vars, NEW S \in SUBSET Invoices, S # {}
             PROVE  \E v \in S : \A j \in S : invoice'[j].replaces # v
  BY DEF ReplacementsEnd
<1>1. PICK w \in S : \A j \in S : invoice[j].replaces # w
  BY DEF ReplacementsEnd
<1>2. ASSUME \A j \in Invoices : invoice'[j].replaces \in {None, invoice[j].replaces}
      PROVE  \E v \in S : \A j \in S : invoice'[j].replaces # v
  BY <1>1, <1>2, BillingAssumption
<1>3. CASE invoice' = invoice
  BY <1>1, <1>3
<1>4. ASSUME NEW i \in Invoices, NEW v \in Invoices, ReplaceInvoice(v, i)
      PROVE  \E u \in S : \A j \in S : invoice'[j].replaces # u
  <2>1. /\ \A j \in Invoices : j # i => invoice'[j] = invoice[j]
        /\ \A j \in Invoices : invoice'[j].replaces # i
    BY <1>4, NewerReplaces
  <2> QED BY <1>1, <2>1
<1>5. ASSUME NEW i \in Invoices, InvoiceStep(i)
      PROVE  \E u \in S : \A j \in S : invoice'[j].replaces # u
  BY <1>2, <1>4, <1>5, ReplacesKept DEF InvoiceStep
<1>6. ASSUME NEW c \in Contracts, NEW m \in Months, NEW i \in Invoices, DraftStep(c, m, i)
      PROVE  \E u \in S : \A j \in S : invoice'[j].replaces # u
  BY <1>2, <1>6, ReplacesKept
<1>7. ASSUME NEW r \in Rooms, NEW m \in Months, ReadingStep(r, m) PROVE invoice' = invoice
  BY <1>7 DEF ReadingStep, TenantSubmits, ManagerReviews, RequestCorrection
<1>8. ASSUME NEW c \in Contracts, ContractStep(c) PROVE invoice' = invoice
  BY <1>8 DEF ContractStep, Activate, Close, Handover, MoveContract
<1> QED BY <1>3, <1>5, <1>6, <1>7, <1>8 DEF Next, vars

\* The page advises to replace a void invoice only when one of the month can be
\* replaced, or its replacement was moved away, however long the chain of
\* replacements is.
THEOREM ReplaceAdviceAccepted == Spec => []ReplaceAdviceIsAccepted
<1>1. Init => BInv /\ ReplacementsEnd
  <2> SUFFICES ASSUME Init PROVE BInv /\ ReplacementsEnd
    OBVIOUS
  <2>1. \A i \in Invoices : invoice[i].replaces = None
    BY DEF Init, NoInvoice
  <2> QED BY <2>1, InitBInv, BillingAssumption DEF ReplacementsEnd
<1>2. BInv /\ ReplacementsEnd => ReplaceAdviceIsAccepted
  <2> SUFFICES ASSUME BInv, ReplacementsEnd, NEW c \in Contracts, NEW m \in Months,
                      Advice(c, m) = "REPLACE_VOID_INVOICE"
               PROVE  \E v \in VoidFor(c, m) :
                         \/ ~ReplacementBlocked(v)
                         \/ \E j \in Invoices : invoice[j].replaces = v /\ ~Bills(j, c, m)
    BY DEF ReplaceAdviceIsAccepted
  <2>1. LiveFor(c, m) = {} /\ VoidFor(c, m) # {} /\ VoidFor(c, m) \in SUBSET Invoices
    BY DEF Advice, VoidFor
  <2>2. PICK v \in VoidFor(c, m) : \A j \in VoidFor(c, m) : invoice[j].replaces # v
    BY <2>1 DEF ReplacementsEnd
  <2>3. ASSUME NEW j \in Invoices, invoice[j].replaces = v PROVE ~Bills(j, c, m)
    <3>1. v # None
      BY <2>1, BillingAssumption
    <3>2. invoice[j] \in InvoiceRow
      BY <2>3, <3>1, RowOfInvoice DEF BInv, NoInvoice
    <3>3. j \notin VoidFor(c, m) /\ j \notin LiveFor(c, m)
      BY <2>1, <2>2, <2>3
    <3> QED BY <3>2, <3>3 DEF InvoiceRow, VoidFor, LiveFor, Live
  <2>4. ASSUME \A j \in Invoices : invoice[j].replaces # v PROVE ~ReplacementBlocked(v)
    BY <2>1, <2>4 DEF ReplacementBlocked, VoidFor, Bills
  <2> QED BY <2>3, <2>4
<1> QED BY <1>1, <1>2, StepBInv, ReplacementsEndStep, PTL DEF Spec
=============================================================================
