--------------------------- MODULE ContractsPage ---------------------------
(***************************************************************************)
(* The page of the contracts: a list, the drawer of one contract with the  *)
(* dialog that closes it and its document form, and the drawer in which    *)
(* one is written (front-end/src/pages/contracts/ContractsPage.tsx).  No   *)
(* answer is guarded: each fills whatever it finds open.  What a user does *)
(* to one contract while the answer about another is awaited is a          *)
(* crossing; a behaviour is followed up to its first.                      *)
(***************************************************************************)
EXTENDS FiniteSets, Integers

CONSTANTS
    Contracts,
    MaxCalls,   \* bound on the requests under way
    None

ContractsPageAssumption == None \notin Contracts /\ MaxCalls \in Nat

VARIABLES
    detail,     \* its drawer: open, detailLoading, detailItem; and the contract last asked for
    form,       \* its drawer: open, loading, editingId, and whose values it holds
    modal,      \* the contract the closing dialog was opened on
    upload,     \* the contract in whose drawer a file waits to be saved
    calls,      \* requests under way
    crossed     \* history

vars == <<detail, form, modal, upload, calls, crossed>>

Contract == Contracts \cup {None}

\* SAVE_SHOWN saves the contract the drawer below shows; RELOAD then fetches it.
Saving == {"SAVE", "SAVE_SHOWN", "RELOAD"}
Kinds == Saving \cup {"DETAIL", "EDIT", "ACTIVATE", "CLOSE", "TENANTS", "DOCUMENT"}

\* "on" is what the form or the dialog was about when the request was sent.
Call == [kind : Kinds, of : Contract, on : Contract]

Detail == [open : BOOLEAN, loading : BOOLEAN, item : Contract, asked : Contract]
Form == [open : BOOLEAN, loading : BOOLEAN, editing : Contract, values : Contract]

\* The address may name a contract to open.
Init ==
    /\ \E asked \in Contract :
         /\ detail = [open |-> asked # None, loading |-> asked # None, item |-> None, asked |-> asked]
         /\ calls = IF asked = None THEN {} ELSE {[kind |-> "DETAIL", of |-> asked, on |-> None]}
    /\ form = [open |-> FALSE, loading |-> FALSE, editing |-> None, values |-> None]
    /\ modal = None /\ upload = None
    /\ crossed = FALSE
-----------------------------------------------------------------------------
\* Whose answers open or fill the drawer of a contract.
Filling == {c \in calls : c.kind \notin {"EDIT", "SAVE"}}

\* Contracts the drawer has to do with, now or when an answer comes.
Busy == {c.of : c \in Filling} \cup ({modal, upload} \ {None})

Asks(i) == crossed' = (crossed \/ Busy \ {i} # {})

Begin(kind, i, on) ==
    /\ ~\E c \in calls : c.kind = kind /\ c.of = i
    /\ Cardinality(calls) < MaxCalls
    /\ calls' = calls \cup {[kind |-> kind, of |-> i, on |-> on]}

\* When the call c has succeeded the detail of its contract is asked for.
Refetch(c, kind) ==
    /\ detail' = [detail EXCEPT !.open = TRUE, !.loading = TRUE, !.asked = c.of]
    /\ calls' = (calls \ {c}) \cup {[c EXCEPT !.kind = kind]}

ListShown == ~detail.open /\ ~form.open /\ modal = None
DetailShown == detail.open /\ ~detail.loading /\ detail.item # None /\ ~form.open /\ modal = None

\* Where the buttons of contract i are: in the list, or in its drawer.
Offered(i) == ListShown \/ (DetailShown /\ detail.item = i)
-----------------------------------------------------------------------------
(* The drawer of a contract. *)

\* From the list, or by the browser's back and forward over anything.
OpenDetail(i) ==
    /\ Begin("DETAIL", i, None)
    /\ detail' = [detail EXCEPT !.open = TRUE, !.loading = TRUE, !.asked = i]
    /\ Asks(i)
    /\ UNCHANGED <<form, modal, upload>>

\* A saved form is closed once the drawer below it has been answered for.
ClosesForm(c) == form' = [form EXCEPT !.open = form.open /\ c.kind = "DETAIL"]

DetailLoaded(c) ==
    /\ c.kind \in {"DETAIL", "RELOAD"}
    /\ calls' = calls \ {c}
    /\ detail' = [detail EXCEPT !.loading = FALSE, !.item = c.of]
    /\ ClosesForm(c)
    /\ UNCHANGED <<modal, upload, crossed>>

\* Mutant: a failure leaves the drawer open, and so the contract it had before.
DetailFailed_StaysOpen(c) ==
    /\ c.kind \in {"DETAIL", "RELOAD"}
    /\ calls' = calls \ {c}
    /\ detail' = [detail EXCEPT !.loading = FALSE]
    /\ ClosesForm(c)
    /\ UNCHANGED <<modal, upload, crossed>>

DetailFailed(c) ==
    /\ c.kind \in {"DETAIL", "RELOAD"}
    /\ calls' = calls \ {c}
    /\ detail' = [detail EXCEPT !.loading = FALSE, !.open = FALSE]
    /\ ClosesForm(c)
    /\ UNCHANGED <<modal, upload, crossed>>

CloseDetail ==
    /\ detail.open /\ ~form.open /\ modal = None
    /\ detail' = [detail EXCEPT !.open = FALSE]
    /\ UNCHANGED <<form, modal, upload, calls, crossed>>

\* A file is uploaded into the document form, of which there is one.
Uploaded ==
    /\ DetailShown
    /\ upload' = detail.item
    /\ crossed' = (crossed \/ Busy \ {detail.item} # {})
    /\ UNCHANGED <<detail, form, modal, calls>>
-----------------------------------------------------------------------------
(* Writing a contract. *)

\* What the drawer is opened for finds no answer for it still awaited.
FormAwaited == {c \in calls : c.kind \in Saving \cup {"EDIT"}}

OpenCreate ==
    /\ ListShown
    /\ form' = [form EXCEPT !.open = TRUE, !.editing = None, !.values = None]
    /\ crossed' = (crossed \/ FormAwaited # {})
    /\ UNCHANGED <<detail, modal, upload, calls>>

OpenEdit(i) ==
    /\ Offered(i)
    /\ Begin("EDIT", i, None)
    /\ form' = [form EXCEPT !.open = TRUE, !.loading = TRUE, !.editing = i]
    /\ crossed' = (crossed \/ FormAwaited # {})
    /\ UNCHANGED <<detail, modal, upload>>

EditLoaded(c) ==
    /\ c.kind = "EDIT"
    /\ calls' = calls \ {c}
    /\ form' = [form EXCEPT !.loading = FALSE, !.values = c.of]
    /\ UNCHANGED <<detail, modal, upload, crossed>>

EditFailed(c) ==
    /\ c.kind = "EDIT"
    /\ calls' = calls \ {c}
    /\ form' = [form EXCEPT !.loading = FALSE, !.open = FALSE]
    /\ UNCHANGED <<detail, modal, upload, crossed>>

CloseForm ==
    /\ form.open
    /\ form' = [form EXCEPT !.open = FALSE]
    /\ UNCHANGED <<detail, modal, upload, calls, crossed>>

CanSubmit == form.open /\ ~form.loading /\ ~\E c \in calls : c.kind \in Saving

SubmitContractForm ==
    /\ CanSubmit
    /\ IF form.editing # None /\ detail.item = form.editing
       THEN Begin("SAVE_SHOWN", form.editing, form.values) /\ Asks(form.editing)
       ELSE Begin("SAVE", form.editing, form.values) /\ UNCHANGED crossed
    /\ UNCHANGED <<detail, form, modal, upload>>

FormSaved(c) ==
    \/ /\ c.kind = "SAVE"
       /\ form' = [form EXCEPT !.open = FALSE]
       /\ calls' = calls \ {c}
       /\ UNCHANGED <<detail, modal, upload, crossed>>
    \/ /\ c.kind = "SAVE_SHOWN"
       /\ Refetch(c, "RELOAD")
       /\ UNCHANGED <<form, modal, upload, crossed>>
-----------------------------------------------------------------------------
(* Operations on a contract: each ends with its detail asked for and shown. *)

HandleActivate(i) ==
    /\ Offered(i)
    /\ Begin("ACTIVATE", i, None)
    /\ Asks(i)
    /\ UNCHANGED <<detail, form, modal, upload>>

OpenCloseModal ==
    /\ DetailShown
    /\ modal' = detail.item
    /\ Asks(detail.item)
    /\ UNCHANGED <<detail, form, upload, calls>>

CancelModal ==
    /\ modal # None
    /\ modal' = None
    /\ UNCHANGED <<detail, form, upload, calls, crossed>>

\* The contract that is closed is the one the drawer holds by now.
SubmitCloseAction ==
    /\ modal # None /\ ~\E c \in calls : c.kind = "CLOSE"
    /\ Begin("CLOSE", detail.item, modal)
    /\ UNCHANGED <<detail, form, modal, upload, crossed>>

Closed(c) ==
    /\ c.kind = "CLOSE"
    /\ modal' = None
    /\ Refetch(c, "DETAIL")
    /\ UNCHANGED <<form, upload, crossed>>

\* submitAddTenant, handleMakePrimary, handleRemoveTenant
ChangeTenants ==
    /\ DetailShown
    /\ Begin("TENANTS", detail.item, None)
    /\ Asks(detail.item)
    /\ UNCHANGED <<detail, form, modal, upload>>

Changed(c) ==
    /\ c.kind \in {"ACTIVATE", "TENANTS"}
    /\ Refetch(c, "DETAIL")
    /\ UNCHANGED <<form, modal, upload, crossed>>

SubmitContractDocument ==
    /\ DetailShown /\ upload # None
    /\ ~\E c \in calls : c.kind = "DOCUMENT"
    /\ Begin("DOCUMENT", detail.item, upload)
    /\ UNCHANGED <<detail, form, modal, upload, crossed>>

DocumentSaved(c) ==
    /\ c.kind = "DOCUMENT"
    /\ upload' = None
    /\ Refetch(c, "DETAIL")
    /\ UNCHANGED <<form, modal, crossed>>

\* A refusal is shown and changes nothing on the page.
Refused(c) ==
    /\ c.kind \notin {"DETAIL", "RELOAD", "EDIT"}
    /\ calls' = calls \ {c}
    /\ UNCHANGED <<detail, form, modal, upload, crossed>>

Next ==
    /\ ~crossed
    /\ \/ \E i \in Contracts : OpenDetail(i) \/ OpenEdit(i) \/ HandleActivate(i)
       \/ CloseDetail \/ Uploaded \/ OpenCreate \/ CloseForm \/ SubmitContractForm
       \/ OpenCloseModal \/ CancelModal \/ SubmitCloseAction
       \/ ChangeTenants \/ SubmitContractDocument
       \/ \E c \in calls :
            \/ DetailLoaded(c) \/ DetailFailed(c) \/ EditLoaded(c) \/ EditFailed(c)
            \/ FormSaved(c) \/ Closed(c) \/ Changed(c) \/ DocumentSaved(c) \/ Refused(c)

Spec == Init /\ [][Next]_vars
-----------------------------------------------------------------------------
(* Properties. *)

TypeOK ==
    /\ detail \in Detail /\ form \in Form
    /\ modal \in Contract /\ upload \in Contract
    /\ calls \subseteq Call
    /\ crossed \in BOOLEAN

(***************************************************************************)
(* What is shown, saved, closed or filed is about one contract: the drawer *)
(* shows the one last asked for, the form holds the values of the one it   *)
(* edits, the dialog closes the one it was opened on, and a file goes to   *)
(* the contract it was uploaded for.  It takes a crossing to have it else. *)
(***************************************************************************)
ActsOnWhatItShows ==
    ~crossed =>
        /\ detail.open /\ ~detail.loading => detail.item = detail.asked
        /\ CanSubmit => form.values = form.editing
        /\ modal # None => detail.item = modal
        /\ \A c \in calls : c.kind \in Saving /\ form.open => form.editing = c.of
        /\ \A c \in calls : c.kind \in Saving \cup {"CLOSE", "DOCUMENT"} => c.of = c.on
=============================================================================
