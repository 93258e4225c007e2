---------------------------- MODULE PaymentsPage ----------------------------
(***************************************************************************)
(* The list of payment requests and the review of proofs in bulk           *)
(* (front-end/src/pages/payments/PaymentsPage.tsx, without its drawer,     *)
(* which is PaymentsDrawer).  What a tick remembers is the request; the    *)
(* proof that is sent is the one the list has for it by then.  To change   *)
(* the filter while a list of another is awaited is a crossing, and a      *)
(* behaviour is followed up to its first.                                  *)
(***************************************************************************)
EXTENDS Integers, FiniteSets

CONSTANTS
    Requests,
    Filters,    \* a filter is the set of requests it lists
    MaxProofs,  \* bound on the proofs of a request
    MaxCalls,   \* bound on the requests under way
    None

PaymentsPageAssumption ==
    /\ Filters \subseteq SUBSET Requests
    /\ None \notin Filters
    /\ MaxProofs \in Nat \ {0} /\ MaxCalls \in Nat

VARIABLES
    latest,     \* latest[r]: the newest proof of a request, and whether it is PENDING
    list,       \* filters, loading, items, and whether their last load failed
    ticks,      \* ticks[r]: the proof the list had for r when it was ticked, 0 if it is not
    bulk,       \* the dialogs over the ticked requests, and the proofs a confirmation captured
    calls,      \* requests under way
    overtaken,  \* history: ticked requests whose proof was reviewed by other ways
    crossed     \* history

vars == <<latest, list, ticks, bulk, calls, overtaken, crossed>>

Proofs == Requests \X (1..MaxProofs)
Latest == [Requests -> [n : 1..MaxProofs, pending : BOOLEAN]]

List == [filter : Filters, loading : BOOLEAN, failed : BOOLEAN, shown : Filters, rows : Latest]
Bulk == [dialog : {"NONE", "APPROVE", "REJECT"}, proofs : SUBSET Proofs]

\* A load of the list, or a review of some proofs; "under" is the filter when
\* the handler was called.
Call == [kind : {"LIST", "BULK"}, proofs : SUBSET Proofs, under : Filters]

NoBulk == [dialog |-> "NONE", proofs |-> {}]
Load(f) == [kind |-> "LIST", proofs |-> {}, under |-> f]

Init ==
    /\ latest = [r \in Requests |-> [n |-> 1, pending |-> TRUE]]
    /\ \E f \in Filters :
         list = [filter |-> f, loading |-> FALSE, failed |-> FALSE, shown |-> f, rows |-> latest]
    /\ ticks = [r \in Requests |-> 0] /\ overtaken = {}
    /\ bulk = NoBulk /\ calls = {}
    /\ crossed = FALSE
-----------------------------------------------------------------------------
Selected == {r \in Requests : ticks[r] # 0}
ReviewedAs(ps) == [r \in Requests |-> IF <<r, latest[r].n>> \in ps
                                      THEN [latest[r] EXCEPT !.pending = FALSE] ELSE latest[r]]

Send(c) == c \notin calls /\ Cardinality(calls) < MaxCalls /\ calls' = calls \cup {c}
Reviewing == \E c \in calls : c.kind = "BULK"
-----------------------------------------------------------------------------
(* What others do, and the drawer of this page. *)

SubmitProof(r) ==
    /\ ~latest[r].pending /\ latest[r].n < MaxProofs
    /\ latest' = [latest EXCEPT ![r] = [n |-> @.n + 1, pending |-> TRUE]]
    /\ UNCHANGED <<list, ticks, bulk, calls, overtaken, crossed>>

ReviewedElsewhere(r) ==
    /\ latest[r].pending
    /\ latest' = [latest EXCEPT ![r].pending = FALSE]
    /\ overtaken' = overtaken \cup ({r} \cap Selected)
    /\ UNCHANGED <<list, ticks, bulk, calls, crossed>>
-----------------------------------------------------------------------------
(* The list. *)

\* A filter is chosen, or the list refreshed.
LoadData(f) ==
    /\ bulk.dialog = "NONE"
    /\ Send(Load(f))
    /\ list' = [list EXCEPT !.filter = f, !.loading = TRUE]
    /\ crossed' = (crossed \/ (f # list.filter /\ calls # {}))
    /\ UNCHANGED <<latest, ticks, bulk, overtaken>>

ListLoaded(c) ==
    /\ c.kind = "LIST"
    /\ calls' = calls \ {c}
    /\ list' = [list EXCEPT !.loading = FALSE, !.failed = FALSE, !.shown = c.under, !.rows = latest]
    /\ UNCHANGED <<latest, ticks, bulk, overtaken, crossed>>

ListFailed(c) ==
    /\ c.kind = "LIST"
    /\ calls' = calls \ {c}
    /\ list' = [list EXCEPT !.loading = FALSE, !.failed = TRUE]
    /\ UNCHANGED <<latest, ticks, bulk, overtaken, crossed>>

\* The table lets go of ticks outside its rows when one is set or taken back.
Tick(r) ==
    /\ bulk.dialog = "NONE" /\ ~list.loading
    /\ r \in list.shown /\ list.rows[r].pending
    /\ ticks' = [q \in Requests |-> IF q \notin list.shown THEN 0
                                    ELSE IF q # r THEN ticks[q]
                                    ELSE IF ticks[r] = 0 THEN list.rows[r].n ELSE 0]
    /\ overtaken' = ((overtaken \cap list.shown) \ {r})
                      \cup (IF ticks[r] # 0 \/ latest[r] = list.rows[r] THEN {} ELSE {r})
    /\ UNCHANGED <<latest, list, bulk, calls, crossed>>
-----------------------------------------------------------------------------
(* Reviewing in bulk, which goes on when its dialog is cancelled. *)

SelectedProofIds == {<<r, list.rows[r].n>> : r \in {q \in Selected \cap list.shown : list.rows[q].pending}}

\* The confirmation keeps what was selected when it was opened.
OpenBulk(dialog) ==
    /\ bulk.dialog = "NONE" /\ SelectedProofIds # {} /\ ~Reviewing
    /\ bulk' = [dialog |-> dialog, proofs |-> IF dialog = "APPROVE" THEN SelectedProofIds ELSE {}]
    /\ UNCHANGED <<latest, list, ticks, calls, overtaken, crossed>>

CancelBulk ==
    /\ bulk.dialog # "NONE"
    /\ bulk' = NoBulk
    /\ UNCHANGED <<latest, list, ticks, calls, overtaken, crossed>>

RunBulkReview ==
    /\ bulk.dialog # "NONE" /\ ~Reviewing
    /\ LET ps == IF bulk.dialog = "APPROVE" THEN bulk.proofs ELSE SelectedProofIds
       IN  ps # {} /\ Send([kind |-> "BULK", proofs |-> ps, under |-> list.filter])
    /\ UNCHANGED <<latest, list, ticks, bulk, overtaken, crossed>>

\* Then the list is loaded under the filter of when the review was begun.
Reloads(c) ==
    /\ calls' = (calls \ {c}) \cup {Load(c.under)}
    /\ list' = [list EXCEPT !.loading = TRUE]

\* Mutant: what was reviewed stays ticked.
BulkReviewed_KeepsTicks(c, done) ==
    /\ c.kind = "BULK"
    /\ latest' = ReviewedAs(done)
    /\ bulk' = NoBulk
    /\ Reloads(c)
    /\ UNCHANGED <<ticks, overtaken, crossed>>

\* Some of the proofs may be refused.
BulkReviewed(c, done) ==
    /\ c.kind = "BULK"
    /\ latest' = ReviewedAs(done)
    /\ ticks' = [r \in Requests |-> 0] /\ overtaken' = {}
    /\ bulk' = NoBulk
    /\ Reloads(c)
    /\ UNCHANGED crossed

\* A confirmation is closed by a failure too, the form for a reason is not; the
\* review may have been done and its answer lost.
BulkFailed(c, done) ==
    /\ c.kind = "BULK"
    /\ calls' = calls \ {c}
    /\ bulk' = IF bulk.dialog = "APPROVE" THEN NoBulk ELSE bulk
    /\ latest' = ReviewedAs(done)
    /\ overtaken' = overtaken \cup ({p[1] : p \in done} \cap Selected)
    /\ UNCHANGED <<list, ticks, crossed>>

Next ==
    /\ ~crossed
    /\ \/ \E r \in Requests : SubmitProof(r) \/ ReviewedElsewhere(r) \/ Tick(r)
       \/ \E f \in Filters : LoadData(f)
       \/ \E dialog \in {"APPROVE", "REJECT"} : OpenBulk(dialog)
       \/ CancelBulk \/ RunBulkReview
       \/ \E c \in calls :
            \/ ListLoaded(c) \/ ListFailed(c)
            \/ \E done \in SUBSET c.proofs : BulkReviewed(c, done) \/ BulkFailed(c, done)

Spec == Init /\ [][Next]_vars
-----------------------------------------------------------------------------
(* Properties. *)

TypeOK ==
    /\ latest \in Latest /\ list \in List
    /\ ticks \in [Requests -> 0..MaxProofs]
    /\ bulk \in Bulk /\ calls \subseteq Call
    /\ overtaken \subseteq Selected /\ crossed \in BOOLEAN

(***************************************************************************)
(* What a bulk review is about to send is what was ticked, unless somebody *)
(* else reviewed the proof that was and the tenant sent another in its     *)
(* place, which the tick then stands for.  And but for a crossing the list *)
(* is the one of its filter, if its last load did not fail.                *)
(***************************************************************************)
SendsWhatWasTicked ==
    /\ \A p \in SelectedProofIds \cup bulk.proofs : ticks[p[1]] = p[2] \/ p[1] \in overtaken
    /\ ~crossed /\ ~list.loading /\ ~list.failed => list.shown = list.filter
=============================================================================
