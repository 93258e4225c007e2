--------------------------- MODULE UtilitiesPage ---------------------------
(***************************************************************************)
(* The page of the utilities: the readings that wait for a decision and    *)
(* the unit prices, each a list under a filter, with a drawer and a dialog *)
(* for a reading and a drawer for a price                                  *)
(* (front-end/src/pages/utilities/UtilitiesPage.tsx).  A function that     *)
(* loads a list belongs to the filter it was made under: what is sent      *)
(* under one filter reloads the list under it, whatever the filter is by   *)
(* then.  A crossing is as in ContractsPage.                               *)
(***************************************************************************)
EXTENDS FiniteSets, Integers

CONSTANTS
    Readings, Rates,
    Filters,    \* values of a list's filter (search, building, room, month, status, page)
    MaxCalls,   \* bound on the requests under way
    None

UtilitiesPageAssumption ==
    None \notin Readings \cup Rates \cup Filters /\ Readings \cap Rates = {} /\ MaxCalls \in Nat

VARIABLES
    list,       \* the two lists: filter, loading, and the filter of the rows shown
    detail,     \* the drawer of a reading: open, detailLoading, detailItem; last asked for
    target,     \* the reading the dialog rejects or returns for correction
    form,       \* the drawer of a price: open, loading, editingRateId, whose values it holds
    calls,      \* requests under way
    crossed     \* history

vars == <<list, detail, target, form, calls, crossed>>

Lists == {"READINGS", "RATES"}
OfReadings == {"READINGS", "DETAIL", "APPROVE", "REJECT"}
OfRates == {"RATES", "EDIT", "SAVE", "DELETE"}

\* "on" is what the dialog or the form was about, "under" the filter it was sent under.
Call == [kind : OfReadings \cup OfRates, of : Readings \cup Rates \cup {None},
         on : Rates \cup {None}, under : Filters \cup {None}]

List == [filter : Filters, loading : BOOLEAN, shown : Filters \cup {None}]
Reading == Readings \cup {None}
Rate == Rates \cup {None}
Detail == [open : BOOLEAN, loading : BOOLEAN, item : Reading, asked : Reading]
Form == [open : BOOLEAN, loading : BOOLEAN, editing : Rate, values : Rate]

ListCall(l, f) == [kind |-> l, of |-> None, on |-> None, under |-> f]
DetailCall(i) == [kind |-> "DETAIL", of |-> i, on |-> None, under |-> None]

\* The address may name the building and the month to list.
Init ==
    /\ list \in [Lists -> [filter : Filters, loading : {TRUE}, shown : {None}]]
    /\ detail = [open |-> FALSE, loading |-> FALSE, item |-> None, asked |-> None]
    /\ target = None
    /\ form = [open |-> FALSE, loading |-> FALSE, editing |-> None, values |-> None]
    /\ calls = {ListCall(l, list[l].filter) : l \in Lists}
    /\ crossed = FALSE
-----------------------------------------------------------------------------
\* The list a call is of, and the reading whose drawer it fills.
ListOf(c) == IF c.kind \in OfReadings THEN "READINGS" ELSE "RATES"
Reloading(l) == {c \in calls : ListOf(c) = l /\ c.under # None}
Busy == {c.of : c \in {d \in calls : d.kind \in OfReadings \ {"READINGS"}}}

Begin(c) ==
    /\ ~\E d \in calls : d.kind = c.kind /\ d.of = c.of
    /\ Cardinality(calls) < MaxCalls
    /\ calls' = calls \cup {c}

Under(l) == list[l].filter
Loads(l) == list' = [list EXCEPT ![l].loading = TRUE]

NoDialog == target = None /\ ~form.open
ListShown(l) == ~detail.open /\ NoDialog /\ ~list[l].loading /\ list[l].shown # None
DetailShown == detail.open /\ ~detail.loading /\ detail.item # None /\ NoDialog
Offered(i) == ListShown("READINGS") \/ (DetailShown /\ detail.item = i)
-----------------------------------------------------------------------------
(* The lists. *)

\* A filter is chosen, and the effect loads the list under it; or a refresh.
SetFilter(l, f) ==
    /\ ~detail.open /\ NoDialog
    /\ Begin(ListCall(l, f))
    /\ list' = [list EXCEPT ![l].filter = f, ![l].loading = TRUE]
    /\ crossed' = (crossed \/ \E c \in Reloading(l) : c.under # f)
    /\ UNCHANGED <<detail, target, form>>

ListLoaded(c) ==
    /\ c.kind \in Lists
    /\ calls' = calls \ {c}
    /\ list' = [list EXCEPT ![c.kind].loading = FALSE, ![c.kind].shown = c.under]
    /\ UNCHANGED <<detail, target, form, crossed>>

\* An error is shown in place of the rows.
ListFailed(c) ==
    /\ c.kind \in Lists
    /\ calls' = calls \ {c}
    /\ list' = [list EXCEPT ![c.kind].loading = FALSE, ![c.kind].shown = None]
    /\ UNCHANGED <<detail, target, form, crossed>>
-----------------------------------------------------------------------------
(* A reading. *)

Opened(i) == [detail EXCEPT !.open = TRUE, !.loading = TRUE, !.asked = i]

OpenReadingDetail(i) ==
    /\ ListShown("READINGS")
    /\ Begin(DetailCall(i))
    /\ detail' = Opened(i)
    /\ crossed' = (crossed \/ Busy \ {i} # {})
    /\ UNCHANGED <<list, target, form>>

DetailLoaded(c) ==
    /\ c.kind = "DETAIL"
    /\ calls' = calls \ {c}
    /\ detail' = [detail EXCEPT !.loading = FALSE, !.item = c.of]
    /\ UNCHANGED <<list, target, form, crossed>>

DetailFailed(c) ==
    /\ c.kind = "DETAIL"
    /\ calls' = calls \ {c}
    /\ detail' = [detail EXCEPT !.loading = FALSE, !.open = FALSE]
    /\ UNCHANGED <<list, target, form, crossed>>

CloseDetail ==
    /\ detail.open /\ NoDialog
    /\ detail' = [detail EXCEPT !.open = FALSE]
    /\ UNCHANGED <<list, target, form, calls, crossed>>

HandleApprove(i) ==
    /\ Offered(i)
    /\ Begin([kind |-> "APPROVE", of |-> i, on |-> None, under |-> Under("READINGS")])
    /\ crossed' = (crossed \/ Busy \ {i} # {})
    /\ UNCHANGED <<list, detail, target, form>>

\* Also a correction: which of the two it is follows from the row's status.
OpenReject(i) ==
    /\ Offered(i)
    /\ target' = i
    /\ crossed' = (crossed \/ Busy \ {i} # {})
    /\ UNCHANGED <<list, detail, form, calls>>

CancelReject ==
    /\ target # None
    /\ target' = None
    /\ UNCHANGED <<list, detail, form, calls, crossed>>

SubmitReject ==
    /\ target # None /\ ~\E c \in calls : c.kind = "REJECT"
    /\ Begin([kind |-> "REJECT", of |-> target, on |-> None, under |-> Under("READINGS")])
    /\ UNCHANGED <<list, detail, target, form, crossed>>

\* The list is reloaded under the filter of then, and the drawer opened.
Decided(c) ==
    /\ c.kind \in {"APPROVE", "REJECT"}
    /\ target' = IF c.kind = "REJECT" THEN None ELSE target
    /\ Loads("READINGS")
    /\ detail' = Opened(c.of)
    /\ calls' = (calls \ {c}) \cup {ListCall("READINGS", c.under), DetailCall(c.of)}
    /\ UNCHANGED <<form, crossed>>
-----------------------------------------------------------------------------
(* A unit price. *)

FormAwaited == {c \in calls : c.kind \in {"EDIT", "SAVE"}}

\* Mutant: a price is written as the one edited before.
OpenCreateRate_KeepsId ==
    /\ ~detail.open /\ NoDialog
    /\ form' = [form EXCEPT !.open = TRUE, !.values = None]
    /\ crossed' = (crossed \/ FormAwaited # {})
    /\ UNCHANGED <<list, detail, target, calls>>

OpenCreateRate ==
    /\ ~detail.open /\ NoDialog
    /\ form' = [form EXCEPT !.open = TRUE, !.editing = None, !.values = None]
    /\ crossed' = (crossed \/ FormAwaited # {})
    /\ UNCHANGED <<list, detail, target, calls>>

OpenEditRate(r) ==
    /\ ListShown("RATES")
    /\ Begin([kind |-> "EDIT", of |-> r, on |-> None, under |-> None])
    /\ form' = [form EXCEPT !.open = TRUE, !.loading = TRUE, !.editing = r]
    /\ crossed' = (crossed \/ FormAwaited # {})
    /\ UNCHANGED <<list, detail, target>>

RateLoaded(c) ==
    /\ c.kind = "EDIT"
    /\ calls' = calls \ {c}
    /\ form' = [form EXCEPT !.loading = FALSE, !.values = c.of]
    /\ UNCHANGED <<list, detail, target, crossed>>

RateFailed(c) ==
    /\ c.kind = "EDIT"
    /\ calls' = calls \ {c}
    /\ form' = [form EXCEPT !.loading = FALSE, !.open = FALSE]
    /\ UNCHANGED <<list, detail, target, crossed>>

CloseForm ==
    /\ form.open
    /\ form' = [form EXCEPT !.open = FALSE]
    /\ UNCHANGED <<list, detail, target, calls, crossed>>

CanSubmit == form.open /\ ~form.loading /\ ~\E c \in calls : c.kind = "SAVE"

SubmitRate ==
    /\ CanSubmit
    /\ Begin([kind |-> "SAVE", of |-> form.editing, on |-> form.values, under |-> Under("RATES")])
    /\ UNCHANGED <<list, detail, target, form, crossed>>

\* The confirmation names the price it deletes, and covers the page until answered.
ConfirmDeleteRate(r) ==
    /\ ListShown("RATES")
    /\ Begin([kind |-> "DELETE", of |-> r, on |-> None, under |-> Under("RATES")])
    /\ UNCHANGED <<list, detail, target, form, crossed>>

RatesChanged(c) ==
    /\ c.kind \in {"SAVE", "DELETE"}
    /\ form' = IF c.kind = "SAVE" THEN [form EXCEPT !.open = FALSE] ELSE form
    /\ Loads("RATES")
    /\ calls' = (calls \ {c}) \cup {ListCall("RATES", c.under)}
    /\ UNCHANGED <<detail, target, crossed>>

\* A refusal is shown and changes nothing on the page.
Refused(c) ==
    /\ c.kind \in {"APPROVE", "REJECT", "SAVE", "DELETE"}
    /\ calls' = calls \ {c}
    /\ UNCHANGED <<list, detail, target, form, crossed>>

Next ==
    /\ ~crossed
    /\ \/ \E l \in Lists, f \in Filters : SetFilter(l, f)
       \/ \E i \in Readings : OpenReadingDetail(i) \/ HandleApprove(i) \/ OpenReject(i)
       \/ CloseDetail \/ CancelReject \/ SubmitReject
       \/ OpenCreateRate \/ CloseForm \/ SubmitRate
       \/ \E r \in Rates : OpenEditRate(r) \/ ConfirmDeleteRate(r)
       \/ \E c \in calls :
            \/ ListLoaded(c) \/ ListFailed(c) \/ DetailLoaded(c) \/ DetailFailed(c)
            \/ Decided(c) \/ RateLoaded(c) \/ RateFailed(c) \/ RatesChanged(c) \/ Refused(c)

Spec == Init /\ [][Next]_vars
-----------------------------------------------------------------------------
(* Properties. *)

TypeOK ==
    /\ list \in [Lists -> List]
    /\ detail \in Detail /\ target \in Reading /\ form \in Form
    /\ calls \subseteq Call
    /\ crossed \in BOOLEAN

(***************************************************************************)
(* A list shows the rows of the filter above it, the drawer the reading    *)
(* last asked for, and the form the price it edits, which is what is saved *)
(* and whose answer closes it.  It takes a crossing to have it else.       *)
(***************************************************************************)
ShowsWhatWasAsked ==
    ~crossed =>
        /\ \A l \in Lists : ~list[l].loading => list[l].shown \in {list[l].filter, None}
        /\ detail.open /\ ~detail.loading => detail.item = detail.asked
        /\ CanSubmit => form.values = form.editing
        /\ \A c \in calls : c.kind = "SAVE" => c.of = c.on /\ (form.open => form.editing = c.of)
=============================================================================
