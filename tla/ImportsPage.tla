---------------------------- MODULE ImportsPage -----------------------------
(***************************************************************************)
(* The page that shows a file, has it validated and imports it             *)
(* (front-end/src/pages/imports/ImportsPage.tsx).  Nothing is disabled     *)
(* while an answer is awaited but the button that asked.                   *)
(***************************************************************************)
CONSTANTS Files, Entities, None

ImportsPageAssumption == None \notin Files

VARIABLES
    page,       \* the entity and the file chosen, and the choice last found valid
    asked,      \* the choice whose validation is awaited
    sent,       \* the choice whose import is awaited
    crossed     \* history: the choice changed while an answer was awaited

vars == <<page, asked, sent, crossed>>

Choice == [entity : Entities, file : Files]
Nothing == [entity |-> None, file |-> None]

Init ==
    /\ page \in [entity : Entities, file : {None}, valid : {Nothing}]
    /\ asked = Nothing /\ sent = Nothing
    /\ crossed = FALSE

Chosen == [entity |-> page.entity, file |-> page.file]
Awaiting == asked # Nothing \/ sent # Nothing

\* Mutant: what was said of the last file stays.
Reset_Valid(entity, file) == page' = [page EXCEPT !.entity = entity, !.file = file]

Reset(entity, file) == page' = [entity |-> entity, file |-> file, valid |-> Nothing]
-----------------------------------------------------------------------------
\* An unreadable file, or one that is empty or too long, empties the page.
ReadCsv ==
    /\ \E f \in Files \cup {None} : Reset(page.entity, f)
    /\ crossed' = (crossed \/ Awaiting)
    /\ UNCHANGED <<asked, sent>>

SetEntity(e) ==
    /\ e # page.entity
    /\ Reset(e, None)
    /\ crossed' = (crossed \/ Awaiting)
    /\ UNCHANGED <<asked, sent>>

RunPreview ==
    /\ page.file # None /\ asked = Nothing
    /\ asked' = Chosen
    /\ UNCHANGED <<page, sent, crossed>>

PreviewAnswered(valid) ==
    /\ asked # Nothing
    /\ page' = [page EXCEPT !.valid = IF valid THEN asked ELSE Nothing]
    /\ asked' = Nothing
    /\ UNCHANGED <<sent, crossed>>

PreviewFailed ==
    /\ asked # Nothing
    /\ asked' = Nothing
    /\ UNCHANGED <<page, sent, crossed>>

\* What is on the page is sent, whatever it was that was found valid.
RunCommit ==
    /\ page.valid # Nothing /\ sent = Nothing
    /\ sent' = Chosen
    /\ UNCHANGED <<page, asked, crossed>>

\* The page is emptied, and is back at the entity that was imported.
CommitAnswered ==
    /\ sent # Nothing
    /\ Reset(sent.entity, None)
    /\ sent' = Nothing
    /\ crossed' = (crossed \/ asked # Nothing)
    /\ UNCHANGED asked

CommitFailed ==
    /\ sent # Nothing
    /\ sent' = Nothing
    /\ UNCHANGED <<page, asked, crossed>>

Next ==
    \/ ReadCsv
    \/ \E e \in Entities : SetEntity(e)
    \/ RunPreview \/ \E v \in BOOLEAN : PreviewAnswered(v)
    \/ PreviewFailed \/ RunCommit \/ CommitAnswered \/ CommitFailed

Spec == Init /\ [][Next]_vars
-----------------------------------------------------------------------------
(* Properties. *)

TypeOK ==
    /\ page \in [entity : Entities, file : Files \cup {None}, valid : Choice \cup {Nothing}]
    /\ asked \in Choice \cup {Nothing}
    /\ sent \in [entity : Entities, file : Files \cup {None}] \cup {Nothing}
    /\ crossed \in BOOLEAN

(***************************************************************************)
(* What the page says is valid, and offers to import, is the file it shows *)
(* for the entity it shows; what it imports is a file that was found valid.*)
(* It takes a choice made while an answer was awaited to have it else.     *)
(***************************************************************************)
OffersWhatItShows ==
    ~crossed => /\ page.valid \in {Nothing, Chosen}
                /\ sent # Nothing => sent.file # None
                /\ sent # Nothing /\ page.valid # Nothing => sent.entity = page.entity
=============================================================================
