----------------------- MODULE RegistrationDocuments -----------------------
(***************************************************************************)
(* The dialog that files documents with a reserved contract (front-end/    *)
(* src/pages/rental-registration/RentalRegistrationPage.tsx).  Saving      *)
(* deletes and adds one document after another and strikes each from the   *)
(* dialog when it is done, so that a retry goes on where a failure stopped *)
(* it.  The dialog may be cancelled, and opened for another contract,      *)
(* while a save goes on with what it was given.  Working in it while it is *)
(* about to be opened anew is a crossing, and a behaviour is followed up   *)
(* to its first.                                                           *)
(***************************************************************************)
EXTENDS Integers, FiniteSets

CONSTANTS
    Contracts,
    Files,
    MaxCopies,  \* bound on the documents made of one file
    None

RegistrationDocumentsAssumption == None \notin Contracts /\ MaxCopies \in Nat

VARIABLES
    documents,  \* rows of contract_document, deleted ones included
    chosen,     \* history: the contract each file was chosen for
    box,        \* the dialog: documentContract, files, uploadedDocuments, documentIdsToDelete
    saving,     \* the save under way: what submitDocument was called with and has yet to do
    asked,      \* contracts whose detail is awaited
    lost,       \* history: files with an answer that was lost
    dropped,    \* history: files removed from the dialog, or cancelled with it
    crossed     \* history

vars == <<documents, chosen, box, saving, asked, lost, dropped, crossed>>

Contract == Contracts \cup {None}
Document == [of : Contracts, file : Files, copy : 1..MaxCopies, live : BOOLEAN]
Box == [of : Contract, files : SUBSET Files, uploaded : SUBSET Files, deletions : SUBSET Document]

Closed == [of |-> None, files |-> {}, uploaded |-> {}, deletions |-> {}]

Init ==
    /\ documents = {} /\ chosen = [f \in Files |-> None]
    /\ box = Closed /\ saving = Closed
    /\ asked = {} /\ lost = {} /\ dropped = {}
    /\ crossed = FALSE

Idle == saving.of = None
Live(c) == {d \in documents : d.of = c /\ d.live}
Deleted(d) == (documents \ {d}) \cup {[d EXCEPT !.live = FALSE]}

Works == crossed' = (crossed \/ asked # {})
-----------------------------------------------------------------------------
(* The dialog. *)

\* From the list, which the dialog covers.
OpenDocument(c) ==
    /\ box.of = None /\ c \notin asked
    /\ asked' = asked \cup {c}
    /\ UNCHANGED <<documents, chosen, box, saving, lost, dropped, crossed>>

DocumentOpened(c) ==
    /\ c \in asked
    /\ asked' = asked \ {c}
    /\ box' = [Closed EXCEPT !.of = c]
    /\ UNCHANGED <<documents, chosen, saving, lost, dropped, crossed>>

OpenFailed(c) ==
    /\ c \in asked
    /\ asked' = asked \ {c}
    /\ UNCHANGED <<documents, chosen, box, saving, lost, dropped, crossed>>

\* Cancelling does not stop a save.
CancelBox ==
    /\ box.of # None
    /\ box' = Closed
    /\ dropped' = dropped \cup box.files
    /\ UNCHANGED <<documents, chosen, saving, asked, lost, crossed>>

\* Choosing a file again is to choose another.
SelectFile(f) ==
    /\ box.of # None /\ Idle /\ chosen[f] = None
    /\ chosen' = [chosen EXCEPT ![f] = box.of]
    /\ box' = [box EXCEPT !.files = @ \cup {f}]
    /\ Works
    /\ UNCHANGED <<documents, saving, asked, lost, dropped>>

RemoveFile(f) ==
    /\ Idle /\ f \in box.files
    /\ box' = [box EXCEPT !.files = @ \ {f}, !.uploaded = @ \ {f}]
    /\ dropped' = dropped \cup {f}
    /\ Works
    /\ UNCHANGED <<documents, chosen, saving, asked, lost>>

MarkDeletion(d) ==
    /\ box.of # None /\ Idle /\ d \in Live(box.of)
    /\ box' = [box EXCEPT !.deletions = @ \cup {d}]
    /\ Works
    /\ UNCHANGED <<documents, chosen, saving, asked, lost, dropped>>
-----------------------------------------------------------------------------
(* submitDocument.  An outcome of a call: it is done, it is refused, or it *)
(* is done and the answer lost; but for the first the save ends there.     *)

Outcomes == {"DONE", "REFUSED", "LOST"}
Ends == saving' = Closed

SubmitDocument ==
    /\ box.of # None /\ Idle
    /\ box.files # {} \/ box.deletions # {}
    /\ saving' = box
    /\ Works
    /\ UNCHANGED <<documents, chosen, box, asked, lost, dropped>>

Records(f, outcome) == lost' = IF outcome = "LOST" THEN lost \cup {f} ELSE lost

\* A document that is gone by now is not found.
DeleteContractDocument(d, outcome) ==
    /\ d \in saving.deletions
    /\ d \notin documents => outcome = "REFUSED"
    /\ documents' = IF outcome = "REFUSED" THEN documents ELSE Deleted(d)
    /\ IF outcome = "DONE"
       THEN /\ saving' = [saving EXCEPT !.deletions = @ \ {d}]
            /\ box' = [box EXCEPT !.deletions = @ \ {d}]
       ELSE Ends /\ UNCHANGED box
    /\ Records(d.file, outcome)
    /\ UNCHANGED <<chosen, asked, dropped, crossed>>

NextFile(f) == ~Idle /\ saving.deletions = {} /\ f \in saving.files

UploadFile(f, ok) ==
    /\ NextFile(f) /\ f \notin saving.uploaded
    /\ IF ok
       THEN /\ saving' = [saving EXCEPT !.uploaded = @ \cup {f}]
            /\ box' = [box EXCEPT !.uploaded = @ \cup {f}]
       ELSE Ends /\ UNCHANGED box
    /\ UNCHANGED <<documents, chosen, asked, lost, dropped, crossed>>

Copies(f) == Cardinality({d \in documents : d.file = f})
Added(f) == documents \cup {[of |-> saving.of, file |-> f, copy |-> Copies(f) + 1, live |-> TRUE]}

\* Mutant: what was saved stays in the dialog until all is.
AddContractDocument_Kept(f, outcome) ==
    /\ NextFile(f) /\ f \in saving.uploaded
    /\ outcome # "REFUSED" => Copies(f) < MaxCopies
    /\ documents' = IF outcome = "REFUSED" THEN documents ELSE Added(f)
    /\ IF outcome = "DONE" THEN saving' = [saving EXCEPT !.files = @ \ {f}] ELSE Ends
    /\ Records(f, outcome)
    /\ UNCHANGED <<box, chosen, asked, dropped, crossed>>

AddContractDocument(f, outcome) ==
    /\ NextFile(f) /\ f \in saving.uploaded
    /\ outcome # "REFUSED" => Copies(f) < MaxCopies
    /\ documents' = IF outcome = "REFUSED" THEN documents ELSE Added(f)
    /\ IF outcome = "DONE"
       THEN /\ saving' = [saving EXCEPT !.files = @ \ {f}]
            /\ box' = [box EXCEPT !.files = @ \ {f}, !.uploaded = @ \ {f}]
       ELSE Ends /\ UNCHANGED box
    /\ Records(f, outcome)
    /\ UNCHANGED <<chosen, asked, dropped, crossed>>

\* Whatever contract the dialog is open for by now, it is closed.
AllSaved ==
    /\ ~Idle /\ saving.files = {} /\ saving.deletions = {}
    /\ Ends
    /\ box' = [box EXCEPT !.of = None]
    /\ UNCHANGED <<documents, chosen, asked, lost, dropped, crossed>>

Next ==
    /\ ~crossed
    /\ \/ \E c \in Contracts : OpenDocument(c) \/ DocumentOpened(c) \/ OpenFailed(c)
       \/ CancelBox \/ SubmitDocument \/ AllSaved
       \/ \E f \in Files :
             \/ SelectFile(f) \/ RemoveFile(f)
             \/ \E ok \in BOOLEAN : UploadFile(f, ok)
             \/ \E outcome \in Outcomes : AddContractDocument(f, outcome)
       \/ \E d \in documents : MarkDeletion(d)
       \/ \E d \in saving.deletions, outcome \in Outcomes : DeleteContractDocument(d, outcome)

Spec == Init /\ [][Next]_vars
-----------------------------------------------------------------------------
(* Properties. *)

TypeOK ==
    /\ documents \subseteq Document
    /\ chosen \in [Files -> Contract]
    /\ box \in Box /\ saving \in Box
    /\ asked \subseteq Contracts /\ lost \subseteq Files /\ dropped \subseteq Files
    /\ crossed \in BOOLEAN

(***************************************************************************)
(* A file goes to the contract it was chosen for, cancelled, reopened and  *)
(* retried as the dialog may be; it is filed once, and what a failed save  *)
(* leaves in the dialog has not been done, unless an answer was lost; and  *)
(* no file is forgotten: it is filed, or about to be, or was taken back,   *)
(* unless the dialog was opened anew under the user's hands.               *)
(***************************************************************************)
FiledOnce ==
    /\ \A d \in documents : d.of = chosen[d.file]
    /\ \A f \in Files \ lost :
          /\ Copies(f) <= 1
          /\ Idle /\ f \in box.files => Copies(f) = 0
          /\ Idle => \A d \in box.deletions : d.file = f => d \in documents
    /\ ~crossed => \A f \in Files :
          chosen[f] # None => f \in box.files \cup saving.files \cup dropped \/ Copies(f) > 0
=============================================================================
