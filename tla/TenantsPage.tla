---------------------------- MODULE TenantsPage ----------------------------
(***************************************************************************)
(* The page of the tenants: the drawer of one tenant, the drawer in which  *)
(* one is written together with the pictures of the identity card, and the *)
(* dialogs that delete a tenant and switch its account                     *)
(* (front-end/src/pages/tenants/TenantsPage.tsx).  A tenant is saved in    *)
(* two calls, first the profile and then the pictures, so a save may half  *)
(* succeed and be tried again.  The list is reloaded as in UtilitiesPage   *)
(* and is left out.  A crossing is as in ContractsPage.                    *)
(***************************************************************************)
EXTENDS FiniteSets, Integers

CONSTANTS
    Tenants, New,   \* the tenants listed, and the one a form creates
    MaxCalls,       \* bound on the requests under way
    None

TenantsPageAssumption == New \notin Tenants /\ None \notin Tenants \cup {New} /\ MaxCalls \in Nat

VARIABLES
    detail,     \* its drawer: open, detailLoading, selectedTenant; last asked for, and in vain
    form,       \* its drawer: open, drawerLoading, editingTenantId, whose values it holds
    initial,    \* drawerInitialValues: whose
    created,    \* history: the drawer's save has created a tenant
    target,     \* the tenants the two dialogs are about
    calls,      \* requests under way
    crossed     \* history

vars == <<detail, form, initial, created, target, calls, crossed>>

Tenant == Tenants \cup {New, None}
Dialogs == {"DELETE", "ACCOUNT"}
Saving == {"CREATE", "UPDATE", "PICTURES"}

\* "on" is whose values are sent; "shown" is true if the drawer of the tenant
\* held it when the request was sent.
Call == [kind : Saving \cup Dialogs \cup {"VIEW", "EDIT", "REVIEW"}, of : Tenant, on : Tenant, shown : BOOLEAN]

Detail == [open : BOOLEAN, loading : BOOLEAN, item : Tenant, asked : Tenant, failed : BOOLEAN]
Form == [open : BOOLEAN, loading : BOOLEAN, editing : Tenant, values : Tenant]

Init ==
    /\ detail = [open |-> FALSE, loading |-> FALSE, item |-> None, asked |-> None, failed |-> FALSE]
    /\ form = [open |-> FALSE, loading |-> FALSE, editing |-> None, values |-> None]
    /\ initial = None /\ created = FALSE
    /\ target = [d \in Dialogs |-> None]
    /\ calls = {} /\ crossed = FALSE
-----------------------------------------------------------------------------
NoDialog == \A d \in Dialogs : target[d] = None
ListShown == ~detail.open /\ ~form.open /\ NoDialog

Send(kind, i, on) ==
    /\ ~\E c \in calls : c.kind = kind /\ c.of = i
    /\ Cardinality(calls) < MaxCalls
    /\ calls' = calls \cup {[kind |-> kind, of |-> i, on |-> on, shown |-> kind \in Dialogs /\ detail.item = i]}

Answer(c) == c \in calls /\ calls' = calls \ {c}
Becomes(c, kind, i) == calls' = (calls \ {c}) \cup {[c EXCEPT !.kind = kind, !.of = i]}

DetailAwaited(i) == \E c \in calls : c.of # i /\ c.kind \in {"VIEW", "REVIEW", "ACCOUNT"}
FormAwaited == \E c \in calls : c.kind \in Saving \cup {"EDIT"}
-----------------------------------------------------------------------------
(* The drawer of a tenant. *)

HandleView(i) ==
    /\ ListShown
    /\ Send("VIEW", i, None)
    /\ detail' = [detail EXCEPT !.open = TRUE, !.loading = TRUE, !.asked = i]
    /\ crossed' = (crossed \/ DetailAwaited(i))
    /\ UNCHANGED <<form, initial, created, target>>

\* REVIEW is the drawer's tenant fetched anew after its account was switched.
Viewed(c) ==
    /\ c.kind \in {"VIEW", "REVIEW"}
    /\ Answer(c)
    /\ detail' = [detail EXCEPT !.item = c.of, !.loading = detail.loading /\ c.kind = "REVIEW",
                                !.failed = detail.failed /\ c.kind = "REVIEW"]
    /\ UNCHANGED <<form, initial, created, target, crossed>>

\* The drawer stays open, and shows the tenant it had before.
ViewFailed(c) ==
    /\ c.kind \in {"VIEW", "REVIEW"}
    /\ Answer(c)
    /\ detail' = IF c.kind = "REVIEW" THEN detail ELSE [detail EXCEPT !.loading = FALSE, !.failed = TRUE]
    /\ UNCHANGED <<form, initial, created, target, crossed>>

CloseDetail ==
    /\ detail.open
    /\ detail' = [detail EXCEPT !.open = FALSE]
    /\ UNCHANGED <<form, initial, created, target, calls, crossed>>
-----------------------------------------------------------------------------
(* Writing a tenant.  An effect fills the form when the drawer opens, and  *)
(* when the values of an edited tenant have been loaded.                   *)

OpenCreate ==
    /\ ListShown
    /\ initial' = None
    /\ form' = [form EXCEPT !.open = TRUE, !.editing = None, !.values = None]
    /\ created' = FALSE
    /\ crossed' = (crossed \/ FormAwaited)
    /\ UNCHANGED <<detail, target, calls>>

OpenEdit(i) ==
    /\ ListShown
    /\ Send("EDIT", i, None)
    /\ form' = [open |-> TRUE, loading |-> TRUE, editing |-> i, values |-> initial]
    /\ created' = FALSE
    /\ crossed' = (crossed \/ FormAwaited)
    /\ UNCHANGED <<detail, initial, target>>

EditLoaded(c) ==
    /\ c.kind = "EDIT"
    /\ Answer(c)
    /\ initial' = c.of
    /\ form' = [form EXCEPT !.loading = FALSE, !.values = IF form.open THEN c.of ELSE @]
    /\ UNCHANGED <<detail, created, target, crossed>>

EditFailed(c) ==
    /\ c.kind = "EDIT"
    /\ Answer(c)
    /\ form' = [form EXCEPT !.loading = FALSE, !.open = FALSE]
    /\ UNCHANGED <<detail, initial, created, target, crossed>>

\* At once, or after the dialog about unsaved changes.
RequestCloseDrawer ==
    /\ form.open
    /\ form' = [form EXCEPT !.open = FALSE]
    /\ UNCHANGED <<detail, initial, created, target, calls, crossed>>

CanSubmit == form.open /\ ~form.loading /\ ~\E c \in calls : c.kind \in Saving

SubmitForm ==
    /\ CanSubmit
    /\ Send(IF form.editing = None THEN "CREATE" ELSE "UPDATE", form.editing, form.values)
    /\ UNCHANGED <<detail, form, initial, created, target, crossed>>

\* Mutant: the drawer goes on creating, and a retry does so again.
Created_StaysCreate(c) ==
    /\ c.kind = "CREATE"
    /\ Becomes(c, "PICTURES", New)
    /\ created' = TRUE
    /\ UNCHANGED <<detail, form, initial, target, crossed>>

Created(c) ==
    /\ c.kind = "CREATE"
    /\ Becomes(c, "PICTURES", New)
    /\ form' = [form EXCEPT !.editing = New]
    /\ created' = TRUE
    /\ UNCHANGED <<detail, initial, target, crossed>>

Updated(c) ==
    /\ c.kind = "UPDATE"
    /\ Becomes(c, "PICTURES", c.of)
    /\ UNCHANGED <<detail, form, initial, created, target, crossed>>

\* Also when no picture has changed and none is sent.
PicturesSaved(c) ==
    /\ c.kind = "PICTURES"
    /\ Answer(c)
    /\ form' = [form EXCEPT !.open = FALSE]
    /\ UNCHANGED <<detail, initial, created, target, crossed>>

\* The drawer stays as it is, for another try.
SaveFailed(c) ==
    /\ c.kind \in Saving
    /\ Answer(c)
    /\ UNCHANGED <<detail, form, initial, created, target, crossed>>
-----------------------------------------------------------------------------
(* The dialogs. *)

\* While a tenant is deleted, no other can be chosen for it.
SetTarget(d, i) ==
    /\ ListShown
    /\ d = "DELETE" => ~\E c \in calls : c.kind = "DELETE"
    /\ target' = [target EXCEPT ![d] = i]
    /\ crossed' = (crossed \/ \E c \in calls : c.kind = d)
    /\ UNCHANGED <<detail, form, initial, created, calls>>

CancelDialog(d) ==
    /\ target[d] # None
    /\ target' = [target EXCEPT ![d] = None]
    /\ UNCHANGED <<detail, form, initial, created, calls, crossed>>

\* confirmDeleteTenant, confirmAccountStatusChange: one call at a time.
Confirm(d) ==
    /\ target[d] # None /\ ~\E c \in calls : c.kind = d
    /\ Send(d, target[d], None)
    /\ UNCHANGED <<detail, form, initial, created, target, crossed>>

Deleted(c) ==
    /\ c.kind = "DELETE"
    /\ Answer(c)
    /\ target' = [target EXCEPT !["DELETE"] = None]
    /\ detail' = IF c.shown THEN [detail EXCEPT !.open = FALSE, !.item = None] ELSE detail
    /\ UNCHANGED <<form, initial, created, crossed>>

AccountSwitched(c) ==
    /\ c.kind = "ACCOUNT"
    /\ IF c.shown THEN Becomes(c, "REVIEW", c.of) ELSE Answer(c)
    /\ target' = [target EXCEPT !["ACCOUNT"] = None]
    /\ UNCHANGED <<detail, form, initial, created, crossed>>

DialogFailed(c) ==
    /\ c.kind \in Dialogs
    /\ Answer(c)
    /\ UNCHANGED <<detail, form, initial, created, target, crossed>>

Next ==
    /\ ~crossed
    /\ \/ CloseDetail \/ OpenCreate \/ RequestCloseDrawer \/ SubmitForm
       \/ \E i \in Tenants : HandleView(i) \/ OpenEdit(i) \/ \E d \in Dialogs : SetTarget(d, i)
       \/ \E d \in Dialogs : CancelDialog(d) \/ Confirm(d)
       \/ \E c \in calls :
            \/ Viewed(c) \/ ViewFailed(c) \/ EditLoaded(c) \/ EditFailed(c)
            \/ Created(c) \/ Updated(c) \/ PicturesSaved(c) \/ SaveFailed(c)
            \/ Deleted(c) \/ AccountSwitched(c) \/ DialogFailed(c)

Spec == Init /\ [][Next]_vars
-----------------------------------------------------------------------------
(* Properties. *)

TypeOK ==
    /\ detail \in Detail /\ form \in Form
    /\ initial \in Tenant /\ created \in BOOLEAN
    /\ target \in [Dialogs -> Tenant]
    /\ calls \subseteq Call
    /\ crossed \in BOOLEAN

(***************************************************************************)
(* The drawer shows the tenant last asked for, if that could be had; what  *)
(* is saved to a tenant are its values, and its answer closes its drawer;  *)
(* and one drawer creates one tenant: what is saved again, after the       *)
(* pictures have failed, goes to the tenant the first try has created.  It *)
(* takes a crossing to have it else.                                       *)
(***************************************************************************)
WritesOneTenant ==
    ~crossed =>
        /\ detail.open /\ ~detail.loading /\ ~detail.failed => detail.item = detail.asked
        /\ created /\ form.open => form.editing = New
        /\ \A c \in calls : c.kind = "CREATE" => ~created
        /\ CanSubmit => form.values = (IF created THEN None ELSE form.editing)
        /\ \A c \in calls : c.kind \in Saving /\ form.open => form.editing = c.of
        /\ \A c \in calls : c.kind \in Saving => c.on \in {c.of, None} /\ (c.on = None => c.of \in {New, None})
=============================================================================
