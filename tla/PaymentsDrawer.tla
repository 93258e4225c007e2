--------------------------- MODULE PaymentsDrawer ---------------------------
(***************************************************************************)
(* The drawer of a payment request, where one proof is approved or         *)
(* rejected or one payment reversed (front-end/src/pages/payments/         *)
(* PaymentsPage.tsx, without its list, which is PaymentsPage).  The two    *)
(* dialogs know a proof or a payment and not its request; after a review   *)
(* the drawer is filled with the request it had when the review was sent.  *)
(* To open another request while such an answer is awaited is a crossing,  *)
(* and a behaviour is followed up to its first.                            *)
(***************************************************************************)
EXTENDS Integers, FiniteSets

CONSTANTS
    Requests,
    MaxCalls,   \* bound on the requests under way
    None

PaymentsDrawerAssumption == None \notin Requests /\ MaxCalls \in Nat

VARIABLES
    pending,    \* the requests with a proof to review
    detail,     \* detailOpen, detailLoading, detailItem, whether it has such a proof; the
                \* request last asked for
    target,     \* rejectProofId, reversePaymentId: the dialog, and the request of what it is about
    loading,    \* reviewLoading: what is being reviewed, and the request it is of
    calls,      \* requests under way
    crossed     \* history

vars == <<pending, detail, target, loading, calls, crossed>>

Request == Requests \cup {None}
Detail == [open : BOOLEAN, loading : BOOLEAN, item : Request, proof : BOOLEAN, asked : Request]
Target == [dialog : {"NONE", "REJECT", "REVERSE"}, of : Request]

Reviews == {"APPROVE", "REJECT", "REVERSE"}

\* What a call reviews is of the request "of"; "on" is the one the drawer had.
Call == [kind : {"DETAIL", "REFETCH"} \cup Reviews, of : Requests, on : Request]

NoTarget == [dialog |-> "NONE", of |-> None]
Proof(r) == <<"PROOF", r>>
Payment(r) == <<"PAYMENT", r>>
Loading == {Proof(r) : r \in Requests} \cup {Payment(r) : r \in Requests} \cup {<<>>}

Init ==
    /\ pending = Requests
    /\ detail = [open |-> FALSE, loading |-> FALSE, item |-> None, proof |-> FALSE, asked |-> None]
    /\ target = NoTarget /\ loading = <<>> /\ calls = {}
    /\ crossed = FALSE
-----------------------------------------------------------------------------
Send(c) == c \notin calls /\ Cardinality(calls) < MaxCalls /\ calls' = calls \cup {c}

Shows(r) == [detail EXCEPT !.loading = FALSE, !.item = r, !.proof = r \in pending]
DetailShown == detail.open /\ ~detail.loading /\ detail.item # None /\ target.dialog = "NONE"
-----------------------------------------------------------------------------
\* The tenant sends a proof, or the manager reviews one from elsewhere.
Toggle(r) ==
    /\ pending' = IF r \in pending THEN pending \ {r} ELSE pending \cup {r}
    /\ UNCHANGED <<loading, detail, target, calls, crossed>>

OpenDetail(r) ==
    /\ ~detail.open /\ target.dialog = "NONE"
    /\ Send([kind |-> "DETAIL", of |-> r, on |-> None])
    /\ detail' = [detail EXCEPT !.open = TRUE, !.loading = TRUE, !.asked = r]
    /\ crossed' = (crossed \/ \E c \in calls : r \notin {c.of, c.on})
    /\ UNCHANGED <<loading, pending, target>>

DetailLoaded(c) ==
    /\ c.kind = "DETAIL"
    /\ calls' = calls \ {c}
    /\ detail' = Shows(c.of)
    /\ UNCHANGED <<loading, pending, target, crossed>>

\* Mutant: the drawer stays open on the request it had before.
DetailFailed_StaysOpen(c) ==
    /\ c.kind = "DETAIL"
    /\ calls' = calls \ {c}
    /\ detail' = [detail EXCEPT !.loading = FALSE]
    /\ UNCHANGED <<loading, pending, target, crossed>>

DetailFailed(c) ==
    /\ c.kind = "DETAIL"
    /\ calls' = calls \ {c}
    /\ detail' = [detail EXCEPT !.loading = FALSE, !.open = FALSE]
    /\ UNCHANGED <<loading, pending, target, crossed>>

CloseDetail ==
    /\ detail.open /\ target.dialog = "NONE"
    /\ detail' = [detail EXCEPT !.open = FALSE]
    /\ UNCHANGED <<loading, pending, target, calls, crossed>>

ApproveProof ==
    /\ DetailShown /\ detail.proof /\ loading # Proof(detail.item)
    /\ loading' = Proof(detail.item)
    /\ Send([kind |-> "APPROVE", of |-> detail.item, on |-> detail.item])
    /\ UNCHANGED <<pending, detail, target, crossed>>

\* For a pending proof, or for any payment.
OpenDialog(dialog) ==
    /\ DetailShown
    /\ dialog = "REJECT" => detail.proof /\ loading # Proof(detail.item)
    /\ target' = [dialog |-> dialog, of |-> detail.item]
    /\ UNCHANGED <<loading, pending, detail, calls, crossed>>

CancelDialog ==
    /\ target.dialog # "NONE"
    /\ target' = NoTarget
    /\ UNCHANGED <<loading, pending, detail, calls, crossed>>

\* rejectProof, reverseApprovedPayment
SubmitDialog ==
    /\ target.dialog # "NONE" /\ loading = <<>>
    /\ loading' = IF target.dialog = "REJECT" THEN Proof(target.of) ELSE Payment(target.of)
    /\ Send([kind |-> target.dialog, of |-> target.of, on |-> detail.item])
    /\ UNCHANGED <<pending, detail, target, crossed>>

Taken(c) == IF c.kind = "REVERSE" THEN pending ELSE pending \ {c.of}

Reviewed(c) ==
    /\ c.kind \in Reviews
    /\ pending' = Taken(c)
    /\ target' = IF target.dialog = c.kind THEN NoTarget ELSE target
    /\ calls' = (calls \ {c}) \cup {[kind |-> "REFETCH", of |-> c.on, on |-> c.on]}
    /\ UNCHANGED <<loading, detail, crossed>>

\* Refused, or done and the answer lost.
ReviewFailed(c, done) ==
    /\ c.kind \in Reviews
    /\ pending' = IF done THEN Taken(c) ELSE pending
    /\ calls' = calls \ {c} /\ loading' = <<>>
    /\ UNCHANGED <<detail, target, crossed>>

\* refreshDetail
Refetched(c) ==
    /\ c.kind = "REFETCH"
    /\ calls' = calls \ {c} /\ loading' = <<>>
    /\ detail' = [Shows(c.of) EXCEPT !.loading = detail.loading]
    /\ UNCHANGED <<pending, target, crossed>>

RefetchFailed(c) ==
    /\ c.kind = "REFETCH"
    /\ calls' = calls \ {c} /\ loading' = <<>>
    /\ UNCHANGED <<pending, detail, target, crossed>>

Next ==
    /\ ~crossed
    /\ \/ \E r \in Requests : Toggle(r) \/ OpenDetail(r)
       \/ \E dialog \in {"REJECT", "REVERSE"} : OpenDialog(dialog)
       \/ CloseDetail \/ ApproveProof \/ CancelDialog \/ SubmitDialog
       \/ \E c \in calls :
            \/ DetailLoaded(c) \/ DetailFailed(c) \/ Reviewed(c) \/ Refetched(c) \/ RefetchFailed(c)
            \/ \E done \in BOOLEAN : ReviewFailed(c, done)

Spec == Init /\ [][Next]_vars
-----------------------------------------------------------------------------
(* Properties. *)

TypeOK ==
    /\ pending \subseteq Requests
    /\ detail \in Detail /\ target \in Target /\ loading \in Loading
    /\ calls \subseteq Call /\ crossed \in BOOLEAN

(***************************************************************************)
(* But for a crossing the drawer has the request that was asked for last,  *)
(* a dialog over it is about a proof or a payment of that request, and     *)
(* what is reviewed is of the request the manager has before him.          *)
(***************************************************************************)
ReviewsWhatItShows ==
    ~crossed =>
        /\ detail.open /\ ~detail.loading => detail.item = detail.asked
        /\ target.dialog # "NONE" => detail.open /\ target.of = detail.item
        /\ \A c \in calls : c.kind \in Reviews =>
              c.of = c.on /\ (detail.open /\ ~detail.loading => detail.item = c.of)
=============================================================================
