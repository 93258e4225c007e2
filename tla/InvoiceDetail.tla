---------------------------- MODULE InvoiceDetail ----------------------------
(***************************************************************************)
(* The drawer of an invoice and the dialogs that act on one (front-end/src *)
(* /pages/invoices/InvoicesPage.tsx); the form of the page is InvoiceForm. *)
(* To void and to delete go by the id their dialog was opened with; to     *)
(* issue, adjust and request payment by what the drawer has when the       *)
(* dialog is submitted.  To open another invoice while an answer that      *)
(* fills the drawer is awaited, or under a dialog, is a crossing, and a    *)
(* behaviour is followed up to its first.                                  *)
(***************************************************************************)
EXTENDS Integers, FiniteSets

CONSTANTS
    Invoices,
    MaxCalls,   \* bound on the requests under way
    None

InvoiceDetailAssumption == None \notin Invoices /\ MaxCalls \in Nat

VARIABLES
    phases,     \* what the server has of an invoice
    replaces,   \* and the void invoice that one stands in for
    detail,     \* detailOpen, detailLoading, detailItem and its phase; the invoice last asked for
    pay,        \* the invoice of detailPaymentRequest
    box,        \* the dialog over the page, and the invoice it was opened for
    calls,      \* requests under way
    crossed     \* history

vars == <<phases, replaces, detail, pay, box, calls, crossed>>

Invoice == Invoices \cup {None}

\* NONE is not yet made and GONE deleted; ISSUED is with a payment request, paid
\* in part or in full, or without one: what a request is at is left out.
Phase == {"NONE", "DRAFT", "ISSUED", "VOID", "REPLACED", "GONE"}

Detail == [open : BOOLEAN, loading : BOOLEAN, item : Invoice, phase : Phase, asked : Invoice]
ById == {"VOID", "DELETE"}
Own == ById \cup {"CONFIRM"}
Dialogs == Own \cup {"ISSUE", "ADJUST", "REQUEST"}
Acts == {"CANCEL", "EXPIRE", "REPLACE"}
Box == [dialog : Dialogs \cup {"NONE"}, of : Invoice]

\* A handler: what it is about, and the invoice the manager had before him, that
\* of the dialog, or of the drawer for a dialog with an id of its own.  It awaits
\* the request it SENT, the invoice and its payment request when it READs them
\* again, and then the LIST.
Call == [kind : Dialogs \cup Acts \cup {"DETAIL"}, of : Invoices, on : Invoice, step : {"SENT", "READ", "LIST"}]

NoBox == [dialog |-> "NONE", of |-> None]

Init ==
    /\ phases \in [Invoices -> {"NONE", "ISSUED", "VOID"}]
    /\ replaces = [i \in Invoices |-> None]
    /\ detail = [open |-> FALSE, loading |-> FALSE, item |-> None, phase |-> "NONE", asked |-> None]
    /\ pay = None /\ box = NoBox /\ calls = {}
    /\ crossed = FALSE
-----------------------------------------------------------------------------
(* The server. *)

RowOf(i) == IF phases[i] = "VOID" /\ \E j \in Invoices : replaces[j] = i /\ phases[j] # "GONE"
            THEN "REPLACED" ELSE phases[i]

\* getPaymentRequestForInvoice, which is asked at the same time as getInvoice: a
\* draft has no request, another may have one in force.
RequestOf(i) == {None} \cup IF phases[i] = "DRAFT" THEN {} ELSE {i}

\* What an action makes of an invoice, if it takes it.  To issue again what has a
\* request, and to approve a proof that was approved, succeed and change nothing.
Outcomes(kind, phase) ==
    CASE kind = "VOID" -> IF phase = "ISSUED" THEN {"VOID"} ELSE {}
      [] kind = "DELETE" -> IF phase = "DRAFT" THEN {"GONE"} ELSE {}
      [] kind = "ADJUST" -> {"DRAFT"} \cap {phase}
      [] kind = "ISSUE" -> IF phase \in {"DRAFT", "ISSUED"} THEN {"ISSUED"} ELSE {}
      [] kind \in {"REQUEST", "CANCEL", "EXPIRE"} -> {"ISSUED"} \cap {phase}
      [] kind = "CONFIRM" -> {"ISSUED", "VOID"} \cap {phase}
      [] OTHER -> {}

Done(c, to) ==
    /\ to \in Outcomes(c.kind, phases[c.of])
    /\ phases' = [phases EXCEPT ![c.of] = to]
    /\ UNCHANGED replaces

\* createReplacementInvoice
Replaces(i, new) ==
    /\ RowOf(i) = "VOID" /\ phases[new] = "NONE"
    /\ phases' = [phases EXCEPT ![new] = "DRAFT"]
    /\ replaces' = [replaces EXCEPT ![new] = i]
-----------------------------------------------------------------------------
(* The handlers. *)

Handler(kind, of, on, step) == [kind |-> kind, of |-> of, on |-> on, step |-> step]
Send(c) == c \notin calls /\ Cardinality(calls) < MaxCalls /\ calls' = calls \cup {c}
Becomes(c, d) == calls' = (calls \ {c}) \cup {d}
Ends(c) == calls' = calls \ {c}
Busy(kind) == \E c \in calls : c.kind = kind

\* Those which will put something in the drawer.
Fills(c) == IF c.kind \in ById THEN c.step = "SENT" /\ c.on = c.of ELSE c.step # "LIST" \/ c.kind = "REPLACE"

Asks(i) == detail' = [detail EXCEPT !.open = TRUE, !.loading = TRUE, !.asked = i]
Shown == detail.open /\ ~detail.loading /\ detail.item # None /\ box.dialog = "NONE"
Closes(dialogs) == box' = IF box.dialog \in dialogs THEN NoBox ELSE box
-----------------------------------------------------------------------------
(* The drawer. *)

\* From the list, or by the link between an invoice and its replacement.
OpenDetail(i) ==
    /\ box.dialog = "NONE" /\ phases[i] # "NONE"
    /\ \/ ~detail.open
       \/ Shown /\ (replaces[detail.item] = i \/ (detail.phase = "REPLACED" /\ replaces[i] = detail.item))
    /\ Send(Handler("DETAIL", i, i, "READ")) /\ Asks(i)
    /\ crossed' = (crossed \/ \E c \in calls : Fills(c) /\ c.of # i)
    /\ UNCHANGED <<phases, replaces, pay, box>>

CloseDetail ==
    /\ detail.open /\ box.dialog = "NONE"
    /\ detail' = [detail EXCEPT !.open = FALSE]
    /\ pay' = None
    /\ UNCHANGED <<phases, replaces, box, calls, crossed>>

\* What is read: by refreshDetailPaymentRequest, the invoice of the drawer; the
\* answer to an issue has the invoice, and its request only is read.
Read(c) == IF c.kind = "ISSUE" THEN c.of ELSE c.on
Row(c) == IF c.kind = "ISSUE" THEN "ISSUED" ELSE RowOf(Read(c))

\* Mutant: an invoice without a request leaves the one shown before.
Pays_Kept(r) == pay' = IF r = None THEN pay ELSE r
Pays(r) == pay' = r

Loads(c) == c.kind \in {"DETAIL", "REPLACE"}

\* openDetail, refreshDetailPaymentRequest and the end of onIssueInvoice
Loaded(c) ==
    /\ c.step = "READ" /\ Row(c) # "GONE"
    /\ detail' = [detail EXCEPT !.item = Read(c), !.phase = Row(c), !.loading = @ /\ ~Loads(c)]
    /\ \E r \in RequestOf(Read(c)) : Pays(r)
    /\ Closes({"ISSUE"} \cap {c.kind})
    /\ IF Loads(c) THEN Ends(c) ELSE Becomes(c, Handler(c.kind, c.of, c.on, "LIST"))
    /\ UNCHANGED <<phases, replaces, crossed>>

\* One of the two failed: openDetail closes the drawer, the others say so.
NotLoaded(c) ==
    /\ c.step = "READ"
    /\ detail' = IF Loads(c) THEN [detail EXCEPT !.loading = FALSE, !.open = FALSE] ELSE detail
    /\ Ends(c)
    /\ UNCHANGED <<phases, replaces, pay, box, crossed>>

\* A list that cannot be had does not fail its handler; createReplacement goes
\* on to open what it made, wherever the manager is by now.
Listed(c) ==
    /\ c.step = "LIST"
    /\ IF c.kind = "REPLACE"
       THEN /\ Becomes(c, [c EXCEPT !.step = "READ"])
            /\ Asks(c.of)
            /\ crossed' = (crossed \/ box.dialog \notin ById \cup {"NONE"} \/ \E d \in calls \ {c} : Fills(d))
       ELSE Ends(c) /\ UNCHANGED <<detail, crossed>>
    /\ UNCHANGED <<phases, replaces, pay, box>>
-----------------------------------------------------------------------------
(* The dialogs. *)

\* From a row of the list, which may be of an earlier time.
OpenRowDialog(dialog, i) ==
    /\ ~detail.open /\ box.dialog = "NONE" /\ phases[i] # "NONE"
    /\ box' = [dialog |-> dialog, of |-> i]
    /\ UNCHANGED <<phases, replaces, detail, pay, calls, crossed>>

\* From the drawer, by what it has; CONFIRM if a proof of the request is pending.
OpenDialog(dialog) ==
    /\ Shown
    /\ CASE dialog = "CONFIRM" -> pay # None
         [] dialog = "REQUEST" -> pay = None /\ detail.phase = "ISSUED"
         [] dialog = "VOID" -> detail.phase = "ISSUED"
         [] OTHER -> detail.phase = "DRAFT"
    /\ box' = [dialog |-> dialog, of |-> IF dialog = "CONFIRM" THEN pay ELSE detail.item]
    /\ UNCHANGED <<phases, replaces, detail, pay, calls, crossed>>

\* Some disable their buttons while they are sent; here all may be left then.
CancelDialog ==
    /\ box.dialog # "NONE"
    /\ box' = NoBox
    /\ UNCHANGED <<phases, replaces, detail, pay, calls, crossed>>

\* confirmVoid, confirmDelete, confirmInvoicePayment, onIssueInvoice,
\* submitAdjustment, onCreatePaymentRequest
SubmitDialog ==
    /\ box.dialog # "NONE" /\ ~Busy(box.dialog)
    /\ Send(IF box.dialog \in Own THEN Handler(box.dialog, box.of, detail.item, "SENT")
            ELSE Handler(box.dialog, detail.item, box.of, "SENT"))
    /\ UNCHANGED <<phases, replaces, detail, pay, box, crossed>>

\* createReplacement; runPaymentRequestAction, whose buttons share one flag, by
\* which the other can be pressed meanwhile.
Act(kind) ==
    /\ Shown
    /\ IF kind = "REPLACE" THEN detail.phase = "VOID" /\ ~Busy(kind) ELSE pay # None
    /\ Send(Handler(kind, IF kind = "REPLACE" THEN detail.item ELSE pay, detail.item, "SENT"))
    /\ UNCHANGED <<phases, replaces, detail, pay, box, crossed>>
-----------------------------------------------------------------------------
(* The answers. *)

Lists(c) == Becomes(c, [c EXCEPT !.step = "LIST"])

Voided(c) ==
    /\ c.kind = "VOID" /\ c.step = "SENT" /\ Done(c, "VOID")
    /\ detail' = IF c.on = c.of THEN [detail EXCEPT !.item = c.of, !.phase = "VOID"] ELSE detail
    /\ Closes({"VOID"}) /\ Lists(c)
    /\ UNCHANGED <<pay, crossed>>

\* closeDetail too, if that is what the drawer had.
Deleted(c) ==
    /\ c.kind = "DELETE" /\ c.step = "SENT" /\ Done(c, "GONE")
    /\ IF c.on = c.of
       THEN detail' = [detail EXCEPT !.open = FALSE] /\ pay' = None /\ Closes({"DELETE", "CONFIRM"})
       ELSE UNCHANGED <<detail, pay>> /\ Closes({"DELETE"})
    /\ Lists(c)
    /\ UNCHANGED crossed

Adjusted(c) ==
    /\ c.kind = "ADJUST" /\ c.step = "SENT" /\ Done(c, "DRAFT")
    /\ detail' = [detail EXCEPT !.item = c.of, !.phase = "DRAFT"]
    /\ Closes({"ADJUST"}) /\ Lists(c)
    /\ UNCHANGED <<pay, crossed>>

\* A new request, or the one that was there already.
Requested(c) ==
    /\ c.kind = "REQUEST" /\ c.step = "SENT" /\ Done(c, "ISSUED")
    /\ pay' = c.of
    /\ Closes({"REQUEST"}) /\ Ends(c)
    /\ UNCHANGED <<detail, crossed>>

\* Those after which the drawer is read again.
Followed(c) ==
    /\ c.kind \in {"CONFIRM", "CANCEL", "EXPIRE", "ISSUE"} /\ c.step = "SENT"
    /\ \E to \in Phase : Done(c, to)
    /\ Becomes(c, [c EXCEPT !.step = "READ"])
    /\ Closes({"CONFIRM"} \cap {c.kind})
    /\ UNCHANGED <<detail, pay, crossed>>

Replaced(c, new) ==
    /\ c.kind = "REPLACE" /\ c.step = "SENT" /\ Replaces(c.of, new)
    /\ Becomes(c, Handler("REPLACE", new, new, "LIST"))
    /\ UNCHANGED <<detail, pay, box, crossed>>

\* Refused, or its answer lost; the dialog stays.
Failed(c) ==
    /\ c.step = "SENT"
    /\ \/ UNCHANGED <<phases, replaces>>
       \/ \E to \in Phase : Done(c, to)
       \/ c.kind = "REPLACE" /\ \E new \in Invoices : Replaces(c.of, new)
    /\ Ends(c)
    /\ UNCHANGED <<detail, pay, box, crossed>>

Next ==
    /\ ~crossed
    /\ \/ \E i \in Invoices : OpenDetail(i)
       \/ \E i \in Invoices, dialog \in ById : OpenRowDialog(dialog, i)
       \/ \E dialog \in Dialogs : OpenDialog(dialog)
       \/ \E kind \in Acts : Act(kind)
       \/ CloseDetail \/ CancelDialog \/ SubmitDialog
       \/ \E c \in calls :
            \/ Loaded(c) \/ NotLoaded(c) \/ Listed(c)
            \/ Voided(c) \/ Deleted(c) \/ Adjusted(c) \/ Requested(c) \/ Followed(c) \/ Failed(c)
            \/ \E new \in Invoices : Replaced(c, new)

Spec == Init /\ [][Next]_vars
-----------------------------------------------------------------------------
(* Properties. *)

TypeOK ==
    /\ phases \in [Invoices -> Phase] /\ replaces \in [Invoices -> Invoice]
    /\ detail \in Detail /\ pay \in Invoice /\ box \in Box
    /\ calls \subseteq Call /\ crossed \in BOOLEAN

(***************************************************************************)
(* But for a crossing the drawer has the invoice that was asked for last   *)
(* and that invoice's payment request, and an action that goes by what the *)
(* drawer has is one on the invoice its dialog was opened for.             *)
(***************************************************************************)
ActsOnItsInvoice ==
    ~crossed =>
        /\ detail.open /\ ~detail.loading =>
              detail.item = detail.asked /\ pay \in {None, detail.item}
        /\ \A c \in calls : c.kind \notin ById => c.of = c.on
=============================================================================
