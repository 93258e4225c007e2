----------------------------- MODULE Pages_proofs -----------------------------
(***************************************************************************)
(* Theorems about the pages MCOffice opens, for any invoices, contracts,   *)
(* rooms and so on: each page keeps an invariant of its own, which says    *)
(* what the answers still to come are about, and MCOffice keeps that of    *)
(* the page it has opened.                                                 *)
(***************************************************************************)
EXTENDS MCOffice, Sequences, FiniteSetTheorems, TLAPS

-----------------------------------------------------------------------------
(* The page of the imports. *)

\* Unless the choice was changed meanwhile, an awaited answer is about it.
AwaitsItsChoice ==
    ~crossing => /\ asked # ImportPage!Nothing => asked = ImportPage!Chosen /\ asked.file # None
                 /\ requests # ImportPage!Nothing => requests = ImportPage!Chosen
                 /\ form.valid # ImportPage!Nothing => form.valid.file # None

ImportPageInv == ImportPage!TypeOK /\ ImportPage!OffersWhatItShows /\ AwaitsItsChoice

\* The page of the imports opens in its invariant.
LEMMA ImportPageInit == ASSUME ImportPage!Init PROVE ImportPageInv
BY DEF ImportPage!Init, ImportPageInv, ImportPage!TypeOK, ImportPage!OffersWhatItShows, AwaitsItsChoice,
       ImportPage!Choice, ImportPage!Nothing, ImportPage!Chosen

\* Every step of the page of the imports keeps its invariant.
LEMMA ImportPageStep ==
  ASSUME ImportPage!ImportsPageAssumption, ImportPageInv, [ImportPage!Next]_(ImportPage!vars)
  PROVE  ImportPageInv'
<1> USE DEF ImportPageInv, ImportPage!ImportsPageAssumption, ImportPage!TypeOK, ImportPage!OffersWhatItShows,
            AwaitsItsChoice, ImportPage!Choice, ImportPage!Nothing, ImportPage!Chosen, ImportPage!Awaiting
<1>1. CASE ImportPage!ReadCsv
  <2>1. crossing' \in BOOLEAN /\ (~crossing' => ~crossing /\ ~ImportPage!Awaiting)
    BY <1>1, Zenon DEF ImportPage!ReadCsv
  <2>2. PICK f \in Files \cup {None} : ImportPage!Reset(form.entity, f)
    BY <1>1 DEF ImportPage!ReadCsv
  <2>3. asked' = asked /\ requests' = requests
    BY <1>1 DEF ImportPage!ReadCsv
  <2> QED BY <2>1, <2>2, <2>3 DEF ImportPage!Reset
<1>2. ASSUME NEW e \in Sheets, ImportPage!SetEntity(e)
      PROVE  ImportPageInv'
  <2>1. crossing' \in BOOLEAN /\ (~crossing' => ~crossing /\ ~ImportPage!Awaiting)
    BY <1>2, Zenon DEF ImportPage!SetEntity
  <2>2. ImportPage!Reset(e, None) /\ asked' = asked /\ requests' = requests
    BY <1>2 DEF ImportPage!SetEntity
  <2> QED BY <2>1, <2>2 DEF ImportPage!Reset
<1>3. CASE ImportPage!RunPreview
  BY <1>3 DEF ImportPage!RunPreview
<1>4. CASE \E v \in BOOLEAN : ImportPage!PreviewAnswered(v)
  BY <1>4 DEF ImportPage!PreviewAnswered
<1>5. CASE ImportPage!PreviewFailed
  BY <1>5 DEF ImportPage!PreviewFailed
<1>6. CASE ImportPage!RunCommit
  BY <1>6 DEF ImportPage!RunCommit
<1>7. CASE ImportPage!CommitAnswered
  BY <1>7 DEF ImportPage!CommitAnswered, ImportPage!Reset
<1>8. CASE ImportPage!CommitFailed
  BY <1>8 DEF ImportPage!CommitFailed
<1>9. CASE UNCHANGED ImportPage!vars
  BY <1>9 DEF ImportPage!vars
<1> QED BY <1>1, <1>2, <1>3, <1>4, <1>5, <1>6, <1>7, <1>8, <1>9 DEF ImportPage!Next
-----------------------------------------------------------------------------
(* The drawer of a payment request. *)

\* Every answer that is awaited is about the request asked for last; while its
\* detail is awaited the drawer is loading, and no dialog is over it.
DrawerHasItsRequest ==
    ~crossing =>
        /\ \A c \in requests : /\ c.of = detail.asked
                               /\ c.kind = "DETAIL" => c.on = None /\ detail.loading
                               /\ c.kind # "DETAIL" => c.on = c.of
        /\ box.dialog # "NONE" => ~detail.loading /\ box.of # None

ProofPageInv == ProofPage!TypeOK /\ ProofPage!ReviewsWhatItShows /\ DrawerHasItsRequest

\* The page of one request's proofs opens in its invariant.
LEMMA ProofPageInit == ASSUME ProofPage!Init PROVE ProofPageInv
BY DEF ProofPage!Init, ProofPageInv, ProofPage!TypeOK, ProofPage!ReviewsWhatItShows, DrawerHasItsRequest,
       ProofPage!Request, ProofPage!Detail, ProofPage!Target, ProofPage!NoTarget, ProofPage!Loading

\* The detail of a request is asked for once.
LEMMA OneDetail ==
  ASSUME ProofPageInv, ~crossing, NEW c \in requests, NEW e \in requests, c.kind = "DETAIL", e.kind = "DETAIL"
  PROVE  c = e
BY DEF ProofPageInv, ProofPage!TypeOK, ProofPage!Call, DrawerHasItsRequest

\* What the drawer shows of a request whose detail has come.
LEMMA Shown ==
  ASSUME ProofPage!TypeOK, NEW r \in Requests
  PROVE  /\ ProofPage!Shows(r) \in ProofPage!Detail
         /\ [ProofPage!Shows(r) EXCEPT !.loading = detail.loading] \in ProofPage!Detail
         /\ ProofPage!Shows(r).loading = FALSE
         /\ ProofPage!Shows(r).item = r /\ ProofPage!Shows(r).asked = detail.asked
         /\ ProofPage!Shows(r).open = detail.open
<1> DEFINE p == r \in data
<1>1. p \in BOOLEAN
  OBVIOUS
<1>2. ProofPage!Shows(r) = [detail EXCEPT !.loading = FALSE, !.item = r, !.proof = p]
  BY Zenon DEF ProofPage!Shows
<1> HIDE DEF p
<1> QED BY <1>1, <1>2 DEF ProofPage!TypeOK, ProofPage!Detail, ProofPage!Request

\* Every step of the page of one request's proofs keeps its invariant.
LEMMA ProofPageStep ==
  ASSUME ProofPage!PaymentsDrawerAssumption, ProofPageInv, [ProofPage!Next]_(ProofPage!vars)
  PROVE  ProofPageInv'
<1> USE DEF ProofPageInv, ProofPage!PaymentsDrawerAssumption, ProofPage!TypeOK, ProofPage!ReviewsWhatItShows,
            DrawerHasItsRequest, ProofPage!Request, ProofPage!Detail, ProofPage!Target, ProofPage!NoTarget,
            ProofPage!Reviews, ProofPage!Call
<1>1. CASE UNCHANGED ProofPage!vars
  BY <1>1 DEF ProofPage!vars
<1> SUFFICES ASSUME ProofPage!Next, ~crossing
             PROVE  ProofPageInv'
  BY <1>1 DEF ProofPage!Next
<1>2. ASSUME NEW r \in Requests, ProofPage!Toggle(r)
      PROVE  ProofPageInv'
  BY <1>2 DEF ProofPage!Toggle
<1>3. ASSUME NEW r \in Requests, ProofPage!OpenDetail(r)
      PROVE  ProofPageInv'
  <2>1. crossing' \in BOOLEAN /\ (~crossing' => \A c \in requests : r \in {c.of, c.on})
    BY <1>3, Zenon DEF ProofPage!OpenDetail
  <2>2. /\ detail' \in ProofPage!Detail /\ detail'.open /\ detail'.loading /\ detail'.asked = r
        /\ detail'.item = detail.item
    BY <1>3 DEF ProofPage!OpenDetail
  <2>3. /\ requests' = requests \cup {[kind |-> "DETAIL", of |-> r, on |-> None]}
        /\ UNCHANGED <<form, data, box>> /\ box.dialog = "NONE"
    BY <1>3 DEF ProofPage!OpenDetail, ProofPage!Send
  <2>4. ~crossing' => \A c \in requests : c.of = r
    BY <2>1
  <2> QED BY <2>1, <2>2, <2>3, <2>4
<1>4. ASSUME NEW d \in {"REJECT", "REVERSE"}, ProofPage!OpenDialog(d)
      PROVE  ProofPageInv'
  BY <1>4 DEF ProofPage!OpenDialog, ProofPage!DetailShown
<1>5. CASE ProofPage!CloseDetail
  BY <1>5 DEF ProofPage!CloseDetail
<1>6. CASE ProofPage!ApproveProof
  BY <1>6 DEF ProofPage!ApproveProof, ProofPage!DetailShown, ProofPage!Send, ProofPage!Loading
<1>7. CASE ProofPage!CancelDialog
  BY <1>7 DEF ProofPage!CancelDialog
<1>8. CASE ProofPage!SubmitDialog
  BY <1>8 DEF ProofPage!SubmitDialog, ProofPage!Send, ProofPage!Loading
<1>9. ASSUME NEW c \in requests, ProofPage!DetailLoaded(c)
      PROVE  ProofPageInv'
  <2>1. \A e \in requests : e.kind = "DETAIL" => e = c
    BY <1>9, OneDetail DEF ProofPage!DetailLoaded
  <2>2. /\ detail.loading /\ detail' \in ProofPage!Detail /\ detail'.loading = FALSE
        /\ detail'.item = c.of /\ detail'.asked = detail.asked /\ detail'.open = detail.open
    BY <1>9, Shown DEF ProofPage!DetailLoaded
  <2> QED BY <1>9, <2>1, <2>2 DEF ProofPage!DetailLoaded
<1>10. ASSUME NEW c \in requests, ProofPage!DetailFailed(c)
       PROVE  ProofPageInv'
  <2>1. \A e \in requests : e.kind = "DETAIL" => e = c
    BY <1>10, OneDetail DEF ProofPage!DetailFailed
  <2> QED BY <1>10, <2>1 DEF ProofPage!DetailFailed
<1>11. ASSUME NEW c \in requests, ProofPage!Reviewed(c)
       PROVE  ProofPageInv'
  BY <1>11 DEF ProofPage!Reviewed, ProofPage!Taken
<1>12. ASSUME NEW c \in requests, ProofPage!Refetched(c)
       PROVE  ProofPageInv'
  <2>1. /\ detail' \in ProofPage!Detail /\ detail'.loading = detail.loading
        /\ detail'.item = c.of /\ detail'.asked = detail.asked /\ detail'.open = detail.open
    BY <1>12, Shown DEF ProofPage!Refetched
  <2>2. requests' = requests \ {c} /\ form' = <<>> /\ UNCHANGED <<data, box, crossing>>
    BY <1>12 DEF ProofPage!Refetched
  <2>3. c.of = detail.asked
    OBVIOUS
  <2> QED BY <2>1, <2>2, <2>3 DEF ProofPage!Loading
<1>13. ASSUME NEW c \in requests, ProofPage!RefetchFailed(c)
       PROVE  ProofPageInv'
  BY <1>13 DEF ProofPage!RefetchFailed, ProofPage!Loading
<1>14. ASSUME NEW c \in requests, NEW settled \in BOOLEAN, ProofPage!ReviewFailed(c, settled)
       PROVE  ProofPageInv'
  BY <1>14 DEF ProofPage!ReviewFailed, ProofPage!Taken, ProofPage!Loading
<1> QED BY <1>2, <1>3, <1>4, <1>5, <1>6, <1>7, <1>8, <1>9, <1>10, <1>11, <1>12, <1>13, <1>14 DEF ProofPage!Next
-----------------------------------------------------------------------------
(* The page of the registrations. *)

\* What an awaited answer is about; a contract to hand over is awaited alone,
\* and no dialog is open meanwhile.
RegistrationAwaits ==
    /\ \A c \in requests : /\ c.kind = "ROOMS" => c.of \in RentalPage!Building
                           /\ c.kind \in {"OPEN", "HANDOVER", "CANCEL"} => c.of \in Contracts
    /\ ~crossing =>
        /\ \A c \in requests : c.kind = "ROOMS" /\ ~cause => c.of = form.building
        /\ \A c \in requests : c.kind = "OPEN" =>
              /\ RentalPage!NoDialog
              /\ \A e \in requests : e.kind # "HANDOVER" /\ (e.kind = "OPEN" => e = c)

RentalPageInv == RentalPage!TypeOK /\ RentalPage!OffersWhatWasChosen /\ RegistrationAwaits

\* The page of the registrations opens in its invariant.
LEMMA RentalPageInit == ASSUME RentalPage!Init PROVE RentalPageInv
<1> USE DEF RentalPage!Init, RentalPage!Building, RentalPage!Contract, RentalPage!Dialogs, RentalPage!Load
<1>1. RentalPage!TypeOK
  <2>1. data \in [loading : BOOLEAN, shown : RentalPage!Building] /\ form \in [building : RentalPage!Building, room : RentalPage!Building]
    OBVIOUS
  <2>2. box \in [RentalPage!Dialogs -> RentalPage!Contract] /\ cause \in BOOLEAN /\ crossing \in BOOLEAN
    OBVIOUS
  <2>3. requests \subseteq RentalPage!Call
    BY DEF RentalPage!Kinds, RentalPage!Call
  <2> QED BY <2>1, <2>2, <2>3 DEF RentalPage!TypeOK
<1>2. RentalPage!OffersWhatWasChosen
  BY DEF RentalPage!OffersWhatWasChosen
<1>3. RegistrationAwaits
  BY DEF RegistrationAwaits
<1> QED BY <1>1, <1>2, <1>3 DEF RentalPageInv

\* What opening or closing a dialog changes.
LEMMA RentalDialog ==
  ASSUME RentalPage!TypeOK, NEW d \in RentalPage!Dialogs, NEW i \in RentalPage!Contract,
         box' = [box EXCEPT ![d] = i]
  PROVE  /\ box' \in [RentalPage!Dialogs -> RentalPage!Contract]
         /\ \A e \in RentalPage!Dialogs : box'[e] = IF e = d THEN i ELSE box[e]
BY DEF RentalPage!TypeOK

\* Every step of the page of the registrations keeps its invariant.
LEMMA RentalPageStep ==
  ASSUME RentalPage!RegistrationPageAssumption, RentalPageInv, [RentalPage!Next]_(RentalPage!vars)
  PROVE  RentalPageInv'
<1> USE DEF RentalPageInv, RentalPage!RegistrationPageAssumption, RentalPage!TypeOK, RentalPage!OffersWhatWasChosen,
            RegistrationAwaits, RentalPage!Building, RentalPage!Contract, RentalPage!Dialogs, RentalPage!Kinds,
            RentalPage!Call, RentalPage!Load, RentalPage!Send, RentalPage!NoDialog
<1>1. CASE UNCHANGED RentalPage!vars
  BY <1>1 DEF RentalPage!vars
<1> SUFFICES ASSUME RentalPage!Next, ~crossing
             PROVE  RentalPageInv'
  BY <1>1 DEF RentalPage!Next
<1>2. ASSUME NEW b \in RentalPage!Building, RentalPage!ChooseBuilding(b)
      PROVE  RentalPageInv'
  <2>1. crossing' \in BOOLEAN /\ (~crossing' => \A c \in requests : c.kind \notin {"ROOMS", "RESERVE", "HANDOVER", "CANCEL"})
    BY <1>2, Zenon DEF RentalPage!ChooseBuilding, RentalPage!Awaited
  <2>2. /\ data' \in [loading : BOOLEAN, shown : RentalPage!Building] /\ data'.loading = TRUE
        /\ form' = [building |-> b, room |-> None] /\ cause' = FALSE /\ UNCHANGED box /\ RentalPage!NoDialog
        /\ requests' = requests \cup {[kind |-> "ROOMS", of |-> b]}
    BY <1>2 DEF RentalPage!ChooseBuilding
  <2>3. RentalPage!TypeOK'
    <3>1. [kind |-> "ROOMS", of |-> b] \in RentalPage!Call
      OBVIOUS
    <3>2. form' \in [building : RentalPage!Building, room : RentalPage!Building]
      BY <2>2
    <3> QED BY <2>1, <2>2, <3>1, <3>2
  <2>4. RentalPage!OffersWhatWasChosen'
    BY <2>1, <2>2
  <2>5. RegistrationAwaits'
    BY <2>1, <2>2
  <2> QED BY <2>3, <2>4, <2>5
<1>3. ASSUME NEW c \in requests, RentalPage!RoomsLoaded(c)
      PROVE  RentalPageInv'
  BY <1>3 DEF RentalPage!RoomsLoaded
<1>4. ASSUME NEW c \in requests, RentalPage!RoomsFailed(c)
      PROVE  RentalPageInv'
  BY <1>4 DEF RentalPage!RoomsFailed
<1>5. ASSUME NEW b \in Buildings, RentalPage!SelectRoom(b)
      PROVE  RentalPageInv'
  <2>1. crossing' \in BOOLEAN
    BY <1>5, Zenon DEF RentalPage!SelectRoom
  <2> QED BY <1>5, <2>1 DEF RentalPage!SelectRoom
<1>6. CASE RentalPage!SubmitReserve
  BY <1>6 DEF RentalPage!SubmitReserve
<1>7. ASSUME NEW c \in requests, RentalPage!Reserved(c)
      PROVE  RentalPageInv'
  <2>1. crossing' \in BOOLEAN /\ (~crossing' => \A e \in requests : e.kind # "ROOMS")
    BY <1>7, Zenon DEF RentalPage!Reserved, RentalPage!Awaited
  <2>2. /\ data' \in [loading : BOOLEAN, shown : RentalPage!Building] /\ data'.loading = TRUE
        /\ form' = [building |-> None, room |-> None] /\ UNCHANGED <<box, cause>>
        /\ requests' = (requests \ {c}) \cup {[kind |-> "ROOMS", of |-> None]}
    BY <1>7 DEF RentalPage!Reserved
  <2> QED BY <2>1, <2>2
<1>8. ASSUME NEW i \in Contracts, RentalPage!OpenHandover(i)
      PROVE  RentalPageInv'
  <2>1. crossing' \in BOOLEAN /\ (~crossing' => \A e \in requests : e.kind \notin {"OPEN", "HANDOVER"})
    BY <1>8, Zenon DEF RentalPage!OpenHandover, RentalPage!Awaited
  <2> QED BY <1>8, <2>1 DEF RentalPage!OpenHandover
<1>9. ASSUME NEW c \in requests, RentalPage!HandoverOpened(c)
      PROVE  RentalPageInv'
  <2>1. box' = [box EXCEPT !["HANDOVER"] = c.of] /\ c.of \in Contracts
    BY <1>9 DEF RentalPage!HandoverOpened, RentalPage!Opens
  <2> QED BY <1>9, <2>1, RentalDialog DEF RentalPage!HandoverOpened, RentalPage!Opens
<1>10. ASSUME NEW i \in Contracts, RentalPage!OpenCancel(i)
       PROVE  RentalPageInv'
  <2>1. crossing' \in BOOLEAN /\ (~crossing' => \A e \in requests : e.kind \notin {"OPEN", "CANCEL"})
    BY <1>10, Zenon DEF RentalPage!OpenCancel, RentalPage!Awaited
  <2> QED BY <1>10, <2>1, RentalDialog DEF RentalPage!OpenCancel, RentalPage!Opens
<1>11. ASSUME NEW d \in RentalPage!Dialogs, RentalPage!CloseDialog(d)
       PROVE  RentalPageInv'
  BY <1>11, RentalDialog DEF RentalPage!CloseDialog, RentalPage!Opens
<1>12. ASSUME NEW d \in RentalPage!Dialogs, RentalPage!SubmitDialog(d)
       PROVE  RentalPageInv'
  BY <1>12 DEF RentalPage!SubmitDialog
<1>13. ASSUME NEW c \in requests, RentalPage!DialogDone(c)
       PROVE  RentalPageInv'
  <2>1. box' = [box EXCEPT ![c.kind] = None]
    BY <1>13 DEF RentalPage!DialogDone
  <2>2. data' \in [loading : BOOLEAN, shown : RentalPage!Building] /\ data'.loading = TRUE
    BY <1>13 DEF RentalPage!DialogDone
  <2>3. requests' = (requests \ {c}) \cup {[kind |-> "ROOMS", of |-> None]} /\ cause' = TRUE /\ UNCHANGED <<form, crossing>>
    BY <1>13 DEF RentalPage!DialogDone
  <2>4. requests' \subseteq RentalPage!Call
    BY <2>3
  <2>5. c.kind \in RentalPage!Dialogs
    BY <1>13 DEF RentalPage!DialogDone
  <2>6. RentalPage!TypeOK'
    BY <2>1, <2>2, <2>3, <2>4, <2>5, RentalDialog
  <2>7. RentalPage!OffersWhatWasChosen'
    BY <2>1, <2>2, <2>3, <2>4, <2>5, RentalDialog
  <2>8. RegistrationAwaits'
    BY <2>1, <2>2, <2>3, <2>4, <2>5, RentalDialog
  <2> QED BY <2>6, <2>7, <2>8
<1>14. ASSUME NEW c \in requests, RentalPage!Refused(c)
       PROVE  RentalPageInv'
  BY <1>14 DEF RentalPage!Refused
<1> QED BY <1>2, <1>3, <1>4, <1>5, <1>6, <1>7, <1>8, <1>9, <1>10, <1>11, <1>12, <1>13, <1>14 DEF RentalPage!Next
-----------------------------------------------------------------------------
(* The page of the fixed charges. *)

\* The page is told of no change before it is made, and a load that is awaited
\* began after the changes it was told of.
LoadsWhatWasTold ==
    /\ detail.told <= data
    /\ ~crossing => \A c \in requests : c.step = "LOAD" => detail.told <= c.from

FeePageInv == FeePage!TypeOK /\ FeePage!ShowsWhatWasSaved /\ LoadsWhatWasTold

\* The page of the fixed charges opens in its invariant.
LEMMA FeePageInit == ASSUME FeePage!FixedChargesPageAssumption, FeePage!Init PROVE FeePageInv
<1> USE DEF FeePage!FixedChargesPageAssumption, FeePage!Init, FeePage!Nothing, FeePage!Versions
<1>1. FeePage!TypeOK
  <2>1. detail \in FeePage!Table /\ data \in FeePage!Versions
    BY DEF FeePage!Table
  <2>2. asked \in FeePage!Selection /\ form \in FeePage!Selection
    BY DEF FeePage!Selection
  <2>3. box \in FeePage!Drawer /\ requests \subseteq FeePage!Call
    BY DEF FeePage!Drawer, FeePage!Call, FeePage!Kinds
  <2> QED BY <2>1, <2>2, <2>3 DEF FeePage!TypeOK
<1>2. FeePage!ShowsWhatWasSaved
  BY DEF FeePage!ShowsWhatWasSaved, FeePage!OfOnePlace
<1>3. LoadsWhatWasTold
  BY DEF LoadsWhatWasTold
<1> QED BY <1>1, <1>2, <1>3 DEF FeePageInv

\* A choice in one selector keeps a filter and a form of one place.
LEMMA FeeChoice ==
  ASSUME FeePage!FixedChargesPageAssumption, NEW s \in FeePage!Selection, FeePage!OfOnePlace(s)
  PROVE  /\ \A b \in Buildings \cup {None} : /\ FeePage!InBuilding(b) \in FeePage!Selection
                                             /\ FeePage!OfOnePlace(FeePage!InBuilding(b))
         /\ \A r \in FeePage!RoomsOf(s) \cup {None} : /\ FeePage!InRoom(s, r) \in FeePage!Selection
                                                      /\ FeePage!OfOnePlace(FeePage!InRoom(s, r))
         /\ \A k \in FeePage!ContractsOf(s) \cup {None} : /\ [s EXCEPT !.contract = k] \in FeePage!Selection
                                                          /\ FeePage!OfOnePlace([s EXCEPT !.contract = k])
<1> USE DEF FeePage!FixedChargesPageAssumption, FeePage!Selection, FeePage!OfOnePlace
<1>1. ASSUME NEW b \in Buildings \cup {None}
      PROVE  /\ FeePage!InBuilding(b) \in FeePage!Selection
             /\ FeePage!OfOnePlace(FeePage!InBuilding(b))
  BY DEF FeePage!InBuilding, FeePage!Nothing
<1>2. ASSUME NEW r \in FeePage!RoomsOf(s) \cup {None}
      PROVE  /\ FeePage!InRoom(s, r) \in FeePage!Selection
             /\ FeePage!OfOnePlace(FeePage!InRoom(s, r))
  BY DEF FeePage!InRoom, FeePage!RoomsOf
<1>3. ASSUME NEW k \in FeePage!ContractsOf(s) \cup {None}
      PROVE  /\ [s EXCEPT !.contract = k] \in FeePage!Selection
             /\ FeePage!OfOnePlace([s EXCEPT !.contract = k])
  BY DEF FeePage!ContractsOf
<1> QED BY <1>1, <1>2, <1>3

\* A row is of one place.
LEMMA FeeRow ==
  ASSUME FeePage!FixedChargesPageAssumption, NEW kind \in FeePage!Kinds, NEW k \in Contracts
  PROVE  FeePage!Row(kind, k) \in FeePage!Selection /\ FeePage!OfOnePlace(FeePage!Row(kind, k))
<1>1. RoomOf[k] \in Rooms /\ BuildingOf[RoomOf[k]] \in Buildings
  BY DEF FeePage!FixedChargesPageAssumption
<1> USE <1>1 DEF FeePage!FixedChargesPageAssumption, FeePage!Selection, FeePage!OfOnePlace, FeePage!Nothing,
                 FeePage!InBuilding, FeePage!InRoom, FeePage!Of
<1>2. CASE kind = "catalog"
  BY <1>2 DEF FeePage!Row
<1>3. CASE kind = "building"
  BY <1>3 DEF FeePage!Row
<1>4. CASE kind = "contract"
  BY <1>4 DEF FeePage!Row
<1>5. CASE kind \notin {"catalog", "building", "contract"}
  BY <1>5 DEF FeePage!Row
<1> QED BY <1>2, <1>3, <1>4, <1>5

\* A load that begins.
LEMMA FeeLoad ==
  ASSUME FeePage!FixedChargesPageAssumption, FeePageInv, ~crossing,
         NEW c \in FeePage!Call, NEW told \in FeePage!Versions,
         data' \in FeePage!Versions, data <= data', told <= data',
         FeePage!BeginLoad(c, data', told)
  PROVE  /\ detail' \in FeePage!Table /\ requests' \subseteq FeePage!Call /\ crossing' \in BOOLEAN
         /\ detail'.loading /\ LoadsWhatWasTold'
<1> USE DEF FeePage!FixedChargesPageAssumption, FeePageInv, FeePage!TypeOK, FeePage!Table, FeePage!Versions
<1> DEFINE e == [c EXCEPT !.step = "LOAD", !.from = data']
<1>1. e \in FeePage!Call /\ e.step = "LOAD" /\ e.from = data'
  BY DEF FeePage!Call
<1> HIDE DEF e
<1>2. requests' = (requests \ {c}) \cup {e}
  BY DEF FeePage!BeginLoad, e
<1>3. detail' = [detail EXCEPT !.loading = TRUE, !.error = FALSE, !.told = told]
  BY DEF FeePage!BeginLoad
<1>4. crossing' \in BOOLEAN /\ (~crossing' => \A d \in requests \ {c} : d.step # "LOAD")
  BY Zenon DEF FeePage!BeginLoad
<1>5. detail' \in FeePage!Table /\ detail'.loading /\ detail'.told = told
  BY <1>3
<1>6. requests' \subseteq FeePage!Call
  BY <1>1, <1>2
<1>7. LoadsWhatWasTold'
  BY <1>1, <1>2, <1>4, <1>5 DEF LoadsWhatWasTold
<1> QED BY <1>4, <1>5, <1>6, <1>7

\* Every step of the page of the fixed charges keeps its invariant.
LEMMA FeePageStep ==
  ASSUME FeePage!FixedChargesPageAssumption, FeePageInv, [FeePage!Next]_(FeePage!vars)
  PROVE  FeePageInv'
<1> USE DEF FeePageInv, FeePage!FixedChargesPageAssumption, FeePage!TypeOK, FeePage!ShowsWhatWasSaved,
            FeePage!OfOnePlace, LoadsWhatWasTold, FeePage!tables
<1>1. CASE UNCHANGED FeePage!vars
  BY <1>1 DEF FeePage!vars
<1> SUFFICES ASSUME FeePage!Next, ~crossing
             PROVE  FeePageInv'
  BY <1>1 DEF FeePage!Next
<1>2. CASE FeePage!SetFilter
  <2>1. asked' \in FeePage!Selection /\ FeePage!OfOnePlace(asked')
    <3>1. FeePage!OfOnePlace(asked) /\ asked \in FeePage!Selection
      OBVIOUS
    <3> HIDE DEF FeePage!OfOnePlace
    <3>2. \/ \E b \in Buildings \cup {None} : asked' = FeePage!InBuilding(b)
          \/ \E r \in FeePage!RoomsOf(asked) \cup {None} : asked' = FeePage!InRoom(asked, r)
          \/ \E k \in FeePage!ContractsOf(asked) \cup {None} : asked' = [asked EXCEPT !.contract = k]
      BY <1>2, Zenon DEF FeePage!SetFilter
    <3> QED BY <3>1, <3>2, FeeChoice
  <2> QED BY <1>2, <2>1 DEF FeePage!SetFilter
<1>3. CASE FeePage!PickBuilding \/ FeePage!PickRoom \/ FeePage!PickContract
  <2>1. form' \in FeePage!Selection /\ FeePage!OfOnePlace(form')
    <3>1. FeePage!OfOnePlace(form) /\ form \in FeePage!Selection
      OBVIOUS
    <3> HIDE DEF FeePage!OfOnePlace
    <3>2. CASE FeePage!PickBuilding
      BY <3>1, <3>2, FeeChoice DEF FeePage!PickBuilding, FeePage!ClearIf
    <3>3. CASE FeePage!PickRoom
      BY <3>1, <3>3, FeeChoice DEF FeePage!PickRoom, FeePage!ClearIf
    <3>4. CASE FeePage!PickContract
      BY <3>1, <3>4, FeeChoice DEF FeePage!PickContract
    <3> QED BY <1>3, <3>2, <3>3, <3>4
  <2>2. UNCHANGED <<data, detail, asked, box, cause, requests, crossing>>
    BY <1>3 DEF FeePage!PickBuilding, FeePage!PickRoom, FeePage!PickContract
  <2> QED BY <2>1, <2>2
<1>4. CASE FeePage!Refresh
  <2>1. [kind |-> "REFRESH", step |-> "LOAD", from |-> 0] \in FeePage!Call
    BY DEF FeePage!Call, FeePage!Versions
  <2>2. detail.told \in FeePage!Versions /\ data' = data
    BY <1>4 DEF FeePage!Refresh, FeePage!Table
  <2>3. FeePage!BeginLoad([kind |-> "REFRESH", step |-> "LOAD", from |-> 0], data', detail.told)
    BY <1>4, <2>2 DEF FeePage!Refresh
  <2>4. data <= data'
    BY <2>2 DEF FeePage!Versions
  <2>5. UNCHANGED <<asked, box, form, cause>>
    BY <1>4 DEF FeePage!Refresh
  <2> QED BY <2>1, <2>2, <2>3, <2>4, <2>5, FeeLoad
<1>5. ASSUME NEW c \in requests, FeePage!LoadEnds(c)
      PROVE  FeePageInv'
  <2>1. c.step = "LOAD" /\ requests' = requests \ {c}
    BY <1>5, Zenon DEF FeePage!LoadEnds
  <2>2. \/ detail' = [detail EXCEPT !.loading = FALSE, !.error = TRUE]
        \/ \E v \in c.from..data : detail' = [detail EXCEPT !.loading = FALSE, !.shown = v]
    BY <1>5, Zenon DEF FeePage!LoadEnds
  <2>3. cause' = "NONE" \/ cause' = cause
    BY <1>5, Zenon DEF FeePage!LoadEnds
  <2>4. UNCHANGED <<data, asked, box, form, crossing>>
    BY <1>5, Zenon DEF FeePage!LoadEnds
  <2>5. c.from \in FeePage!Versions /\ detail.told <= c.from
    BY <2>1 DEF FeePage!Call
  <2>6. /\ detail' \in FeePage!Table /\ detail'.told = detail.told
        /\ detail'.error \/ detail'.told <= detail'.shown
    <3>1. CASE detail' = [detail EXCEPT !.loading = FALSE, !.error = TRUE]
      BY <3>1 DEF FeePage!Table
    <3>2. ASSUME NEW v \in c.from..data, detail' = [detail EXCEPT !.loading = FALSE, !.shown = v]
          PROVE  /\ detail' \in FeePage!Table /\ detail'.told = detail.told
                 /\ detail'.told <= detail'.shown
      <4>1. v \in FeePage!Versions /\ c.from <= v
        BY <2>5, <3>2 DEF FeePage!Versions
      <4>2. detail' \in FeePage!Table /\ detail'.told = detail.told /\ detail'.shown = v
        BY <3>2, <4>1 DEF FeePage!Table
      <4> QED BY <2>5, <4>1, <4>2 DEF FeePage!Table, FeePage!Versions
    <3> QED BY <2>2, <3>1, <3>2, Zenon
  <2>7. FeePage!TypeOK'
    BY <2>1, <2>3, <2>4, <2>6
  <2>8. detail'.told \in Int /\ detail'.shown \in Int
    BY <2>6 DEF FeePage!Table, FeePage!Versions
  <2>9. FeePage!ShowsWhatWasSaved'
    BY <2>4, <2>6, <2>8
  <2>10. LoadsWhatWasTold'
    BY <2>1, <2>4, <2>6
  <2> QED BY <2>7, <2>9, <2>10
<1>6. ASSUME NEW kind \in FeePage!Kinds, FeePage!OpenCreate(kind)
      PROVE  FeePageInv'
  <2>1. box' \in FeePage!Drawer /\ box'.mode = "create"
    BY <1>6 DEF FeePage!OpenCreate, FeePage!Drawer
  <2>2. form' \in FeePage!Selection /\ FeePage!OfOnePlace(form')
    BY <1>6 DEF FeePage!OpenCreate, FeePage!Nothing, FeePage!Selection
  <2> QED BY <1>6, <2>1, <2>2 DEF FeePage!OpenCreate
<1>7. ASSUME NEW kind \in FeePage!Kinds, NEW k \in Contracts, FeePage!OpenEdit(kind, k)
      PROVE  FeePageInv'
  <2>1. box' \in FeePage!Drawer /\ box'.editing # None
    BY <1>7 DEF FeePage!OpenEdit, FeePage!Drawer
  <2>2. form' = FeePage!Row(kind, k)
    BY <1>7 DEF FeePage!OpenEdit
  <2>3. form' \in FeePage!Selection /\ FeePage!OfOnePlace(form')
    BY <2>2, FeeRow
  <2> QED BY <1>7, <2>1, <2>3 DEF FeePage!OpenEdit
<1>8. ASSUME FeePage!Closed
      PROVE  /\ box' \in FeePage!Drawer /\ box'.kind = None
             /\ form' \in FeePage!Selection /\ FeePage!OfOnePlace(form')
  BY <1>8 DEF FeePage!Closed, FeePage!Drawer, FeePage!Nothing, FeePage!Selection
<1>9. CASE FeePage!CloseDrawer
  BY <1>8, <1>9 DEF FeePage!CloseDrawer
<1>10. CASE FeePage!SubmitDrawer
  BY <1>10 DEF FeePage!SubmitDrawer, FeePage!Send, FeePage!Call, FeePage!Versions
<1>11. ASSUME FeePage!Changed
       PROVE  data' \in FeePage!Versions /\ data <= data' /\ data' <= data'
  BY <1>11 DEF FeePage!Changed, FeePage!Versions
<1>12. ASSUME NEW c \in requests, FeePage!Saved(c)
       PROVE  FeePageInv'
  <2>1. FeePage!BeginLoad(c, data', data') /\ FeePage!Changed /\ FeePage!Closed /\ UNCHANGED <<asked, cause>>
    BY <1>12 DEF FeePage!Saved
  <2> QED BY <1>8, <1>11, <2>1, FeeLoad
<1>13. ASSUME NEW c \in requests, FeePage!Deleted(c)
       PROVE  FeePageInv'
  <2>1. FeePage!BeginLoad(c, data', data') /\ FeePage!Changed /\ UNCHANGED <<asked, box, form, cause>>
    BY <1>13 DEF FeePage!Deleted
  <2> QED BY <1>11, <2>1, FeeLoad
<1>14. ASSUME NEW c \in requests, FeePage!Failed(c)
       PROVE  FeePageInv'
  <2>1. data' \in FeePage!Versions /\ data <= data'
    BY <1>11, <1>14 DEF FeePage!Failed, FeePage!Versions
  <2>2. cause' \in {"NONE", "ASKED", "SENT"} /\ requests' = requests \ {c} /\ UNCHANGED <<detail, asked, box, form, crossing>>
    BY <1>14 DEF FeePage!Failed
  <2>3. detail.told <= data'
    BY <2>1 DEF FeePage!Table, FeePage!Versions
  <2> QED BY <2>1, <2>2, <2>3
<1>15. ASSUME NEW kind \in FeePage!Kinds, FeePage!AskDelete(kind)
       PROVE  FeePageInv'
  BY <1>15 DEF FeePage!AskDelete
<1>16. CASE FeePage!CancelDelete
  BY <1>16 DEF FeePage!CancelDelete
<1>17. CASE FeePage!ConfirmDelete
  BY <1>17 DEF FeePage!ConfirmDelete, FeePage!Send, FeePage!Call, FeePage!Versions
<1> QED BY <1>2, <1>3, <1>4, <1>5, <1>6, <1>7, <1>9, <1>10, <1>12, <1>13, <1>14, <1>15, <1>16, <1>17 DEF FeePage!Next
-----------------------------------------------------------------------------
(* The drawer in which an invoice is written. *)

\* What the drawer is used for is of one piece; what fills the form by itself
\* does so only for a use that has it.
DrawerIsOfOneUse ==
    /\ box.mode = "edit" <=> box.editing # None
    /\ box.source => box.open /\ box.mode = "create"
    /\ cause => FormPage!AutoFills(box)
    /\ data.current /\ data.step # "NONE" => box.source
    /\ asked # {} => ~data.current

FormPageInv == FormPage!TypeOK /\ FormPage!FormIsOwn /\ DrawerIsOfOneUse

\* The form of an invoice opens in its invariant.
LEMMA FormPageInit == ASSUME FormPage!InvoiceFormAssumption, FormPage!Init PROVE FormPageInv
<1> USE DEF FormPage!InvoiceFormAssumption, FormPage!Init, FormPage!Default, FormPage!NoSave, FormPage!Origins
<1>1. PICK s \in {"NONE", "READING"} : data = [step |-> s, current |-> TRUE]
  OBVIOUS
<1>2. box.open \in BOOLEAN /\ box.source \in BOOLEAN /\ (box.open <=> s = "READING") /\ (box.source <=> s = "READING")
  BY <1>1
<1>3. box.mode = "create" /\ box.editing = None
  OBVIOUS
<1>4. box \in [open : BOOLEAN, mode : {"create", "edit"}, editing : Drafts \cup {None}, source : BOOLEAN]
  <2> DEFINE o == data.step = "READING"
  <2>1. o \in BOOLEAN /\ box = [open |-> o, mode |-> "create", editing |-> None, source |-> o]
    OBVIOUS
  <2> HIDE DEF o
  <2> QED BY <2>1
<1>5. FormPage!TypeOK
  BY <1>1, <1>4 DEF FormPage!TypeOK
<1>6. FormPage!FormIsOwn
  BY <1>3 DEF FormPage!FormIsOwn, FormPage!Owns
<1>7. DrawerIsOfOneUse
  BY <1>1, <1>2, <1>3 DEF DrawerIsOfOneUse
<1> QED BY <1>5, <1>6, <1>7 DEF FormPageInv

\* The effect of the chosen room runs only in a drawer that has it.
LEMMA FormShown ==
  ASSUME FormPageInv, NEW d, NEW f, FormPage!Show(d, f), f.room \in BOOLEAN
  PROVE  cause' \in BOOLEAN /\ (cause' => FormPage!AutoFills(d))
<1>1. cause \in BOOLEAN /\ (cause => FormPage!AutoFills(box))
  BY DEF FormPageInv, FormPage!TypeOK, DrawerIsOfOneUse
<1>2. FormPage!AutoFills(d) \in BOOLEAN /\ FormPage!AutoFills(box) \in BOOLEAN
  BY DEF FormPage!AutoFills
<1>3. cause' = IF FormPage!AutoFills(d) = FormPage!AutoFills(box) /\ f.room = form.room /\ f.room
               THEN cause ELSE FormPage!AutoFills(d) /\ f.room
  BY Zenon DEF FormPage!Show
<1>4. CASE FormPage!AutoFills(d) = FormPage!AutoFills(box) /\ f.room = form.room /\ f.room
  <2>1. cause' = cause
    BY <1>3, <1>4, Zenon
  <2> QED BY <1>1, <1>4, <2>1, Zenon
<1>5. CASE ~(FormPage!AutoFills(d) = FormPage!AutoFills(box) /\ f.room = form.room /\ f.room)
  <2>1. cause' = (FormPage!AutoFills(d) /\ f.room)
    BY <1>3, <1>5, Zenon
  <2> QED BY <2>1, Zenon
<1> QED BY <1>4, <1>5

\* The drawer that closes.
LEMMA FormCloses ==
  ASSUME FormPage!InvoiceFormAssumption, FormPageInv, FormPage!Show([box EXCEPT !.open = FALSE, !.source = FALSE], form),
         data' \in [step : {"NONE", "READING", "ROOM"}, current : BOOLEAN],
         data'.current => data'.step = "NONE", asked' \subseteq asked, data'.current => data.current,
         requests' \in {requests, FormPage!NoSave}
  PROVE  FormPageInv'
<1> USE DEF FormPage!InvoiceFormAssumption, FormPageInv, FormPage!TypeOK
<1>1. cause' \in BOOLEAN /\ (cause' => FormPage!AutoFills([box EXCEPT !.open = FALSE, !.source = FALSE]))
  BY FormShown
<1>2. box' = [box EXCEPT !.open = FALSE, !.source = FALSE] /\ form' = form
  BY DEF FormPage!Show
<1>3. FormPage!TypeOK'
  <2>1. box' \in [open : BOOLEAN, mode : {"create", "edit"}, editing : Drafts \cup {None}, source : BOOLEAN]
    BY <1>2
  <2>2. requests' \in [sent : BOOLEAN, target : Drafts \cup {None}, origin : FormPage!Origins \cup Drafts \cup {None}]
    <3>1. FormPage!NoSave \in [sent : BOOLEAN, target : Drafts \cup {None}, origin : FormPage!Origins \cup Drafts \cup {None}]
      BY DEF FormPage!NoSave
    <3> QED BY <3>1, Zenon
  <2> QED BY <1>1, <1>2, <2>1, <2>2
<1>4. FormPage!FormIsOwn'
  BY <1>2 DEF FormPage!FormIsOwn, FormPage!Owns, FormPage!NoSave
<1>5. DrawerIsOfOneUse'
  BY <1>1, <1>2 DEF DrawerIsOfOneUse, FormPage!AutoFills
<1> QED BY <1>3, <1>4, <1>5

\* Every step of the form of an invoice keeps its invariant.
LEMMA FormPageStep ==
  ASSUME FormPage!InvoiceFormAssumption, FormPageInv, [FormPage!Next]_(FormPage!vars)
  PROVE  FormPageInv'
<1> USE DEF FormPageInv, FormPage!InvoiceFormAssumption, FormPage!TypeOK, FormPage!FormIsOwn, FormPage!Owns,
            DrawerIsOfOneUse, FormPage!Origins
<1>1. CASE UNCHANGED FormPage!vars
  BY <1>1 DEF FormPage!vars, FormPage!AutoFills
<1>2. data' = FormPage!Superseded => /\ data' \in [step : {"NONE", "READING", "ROOM"}, current : BOOLEAN]
                                     /\ data'.current = FALSE
  BY DEF FormPage!Superseded
<1>3. CASE FormPage!OpenCreate
  <2>1. cause' \in BOOLEAN /\ FormPage!AutoFills(box')
    BY <1>3, FormShown DEF FormPage!OpenCreate, FormPage!Default, FormPage!AutoFills, FormPage!Show
  <2> QED BY <1>2, <1>3, <2>1 DEF FormPage!OpenCreate, FormPage!Show, FormPage!Default
<1>4. ASSUME NEW i \in Drafts, FormPage!OpenEdit(i)
      PROVE  FormPageInv'
  BY <1>2, <1>4 DEF FormPage!OpenEdit, FormPage!AutoFills
<1>5. ASSUME NEW i \in Drafts, FormPage!EditLoaded(i)
      PROVE  FormPageInv'
  <2> DEFINE d == [open |-> TRUE, mode |-> "edit", editing |-> i, source |-> FALSE]
             f == [origin |-> i, room |-> TRUE]
  <2>1. cause' \in BOOLEAN /\ (cause' => FormPage!AutoFills(d))
    <3>1. FormPage!Show(d, f) /\ f.room \in BOOLEAN
      BY <1>5 DEF FormPage!EditLoaded
    <3> HIDE DEF d, f, FormPageInv
    <3> QED BY <3>1, FormShown
  <2>2. ~cause'
    BY <2>1 DEF FormPage!AutoFills
  <2>3. box' = d /\ form' = f /\ data' = data /\ requests' = requests /\ asked' = asked \ {i} /\ i \in asked
    BY <1>5 DEF FormPage!EditLoaded, FormPage!Show
  <2> QED BY <2>1, <2>2, <2>3
<1>6. ASSUME NEW i \in Drafts, FormPage!EditFailed(i)
      PROVE  FormPageInv'
  BY <1>6 DEF FormPage!EditFailed, FormPage!AutoFills
<1>7. CASE FormPage!CloseInvoiceDrawer
  BY <1>2, <1>7, FormCloses DEF FormPage!CloseInvoiceDrawer
<1>8. CASE FormPage!Destroyed
  <2>1. UNCHANGED <<box, form, data, asked, requests>> /\ cause' = FALSE
    BY <1>8 DEF FormPage!Destroyed
  <2>2. cause' \in BOOLEAN /\ ~cause'
    BY <2>1, Zenon
  <2> QED BY <2>1, <2>2 DEF FormPage!AutoFills
<1>9. CASE FormPage!ReadingLoaded
  BY <1>9 DEF FormPage!ReadingLoaded, FormPage!IsCurrent, FormPage!Finished, FormPage!AutoFills
<1>10. data' = FormPage!Finished => /\ data' \in [step : {"NONE", "READING", "ROOM"}, current : BOOLEAN]
                                    /\ data'.step = "NONE" /\ data'.current = data.current
  BY DEF FormPage!Finished
<1>11. CASE FormPage!PrefillLoaded /\ data.current
  <2> DEFINE f == [origin |-> "READING", room |-> TRUE]
  <2>1. FormPage!Show(box, f) /\ data' = FormPage!Finished /\ UNCHANGED <<asked, requests>> /\ box.source
    BY <1>11 DEF FormPage!PrefillLoaded, FormPage!IsCurrent
  <2>2. cause' \in BOOLEAN /\ (cause' => FormPage!AutoFills(box))
    BY <2>1, FormShown
  <2>3. box' = box /\ form' = f
    BY <2>1 DEF FormPage!Show
  <2> QED BY <1>10, <2>1, <2>2, <2>3 DEF FormPage!AutoFills
<1>12. CASE FormPage!PrefillLoaded /\ ~data.current
  BY <1>10, <1>12 DEF FormPage!PrefillLoaded, FormPage!IsCurrent, FormPage!AutoFills
<1>13. CASE FormPage!PrefillFailed /\ data.current
  BY <1>10, <1>13, FormCloses DEF FormPage!PrefillFailed, FormPage!IsCurrent
<1>14. CASE FormPage!PrefillFailed /\ ~data.current
  BY <1>10, <1>14 DEF FormPage!PrefillFailed, FormPage!IsCurrent, FormPage!AutoFills
<1>15. CASE FormPage!PickRoom
  <2>1. cause' \in BOOLEAN /\ (cause' => FormPage!AutoFills(box))
    BY <1>15 DEF FormPage!PickRoom, FormPage!AutoFills
  <2> QED BY <1>15, <2>1 DEF FormPage!PickRoom, FormPage!AutoFills
<1>16. CASE FormPage!AutofillLoaded
  BY <1>16 DEF FormPage!AutofillLoaded, FormPage!AutoFills
<1>17. CASE FormPage!OnSave
  BY <1>17 DEF FormPage!OnSave, FormPage!Target, FormPage!AutoFills
<1>18. CASE FormPage!Saved
  BY <1>2, <1>18, FormCloses DEF FormPage!Saved
<1>19. CASE FormPage!SaveFailed
  BY <1>19 DEF FormPage!SaveFailed, FormPage!NoSave, FormPage!AutoFills
<1> QED BY <1>1, <1>3, <1>4, <1>5, <1>6, <1>7, <1>8, <1>9, <1>11, <1>12, <1>13, <1>14, <1>15, <1>16, <1>17, <1>18, <1>19
        DEF FormPage!Next
-----------------------------------------------------------------------------
(* The page of the contracts. *)

\* What opens or fills the drawer of a contract, now or when an answer comes,
\* is about contract i.
AllAbout(i) ==
    /\ \A c \in requests : c.kind \notin {"EDIT", "SAVE"} => c.of = i
    /\ box \in {i, None} /\ data \in {i, None}

\* It is about one contract, which is the one asked for last if the drawer is
\* open; and what is awaited for the form is about the one it edits.
DrawersOfOneContract ==
    ~crossing =>
        /\ \E i \in ContractPage!Contract : AllAbout(i)
        /\ detail.open => AllAbout(detail.asked)
        /\ detail.open /\ detail.loading =>
              \E c \in requests : c.kind \in {"DETAIL", "RELOAD"} /\ c.of = detail.asked
        /\ \A c \in requests : c.kind \in ContractPage!Saving \cup {"EDIT"} => c.of = form.editing
        /\ form.open /\ ~form.loading => form.values = form.editing

ContractPageInv == ContractPage!TypeOK /\ ContractPage!ActsOnWhatItShows /\ DrawersOfOneContract

\* The page of the contracts opens in its invariant.
LEMMA ContractPageInit ==
  ASSUME ContractPage!ContractsPageAssumption, ContractPage!Init PROVE ContractPageInv
<1>1. PICK asks \in ContractPage!Contract :
        /\ detail = [open |-> asks # None, loading |-> asks # None, item |-> None, asked |-> asks]
        /\ requests = IF asks = None THEN {} ELSE {[kind |-> "DETAIL", of |-> asks, on |-> None]}
  BY Zenon DEF ContractPage!Init
<1>2. /\ form = [open |-> FALSE, loading |-> FALSE, editing |-> None, values |-> None]
      /\ box = None /\ data = None /\ crossing = FALSE
  BY Zenon DEF ContractPage!Init
<1>3. /\ detail \in ContractPage!Detail /\ (detail.open <=> asks # None) /\ (detail.loading <=> asks # None)
      /\ detail.item = None /\ detail.asked = asks
  <2> DEFINE o == asks # None
  <2>1. o \in BOOLEAN /\ detail = [open |-> o, loading |-> o, item |-> None, asked |-> asks]
    BY <1>1
  <2>2. o <=> asks # None
    OBVIOUS
  <2> HIDE DEF o
  <2> QED BY <2>1, <2>2 DEF ContractPage!Detail, ContractPage!Contract
<1>4. ContractPage!TypeOK
  <2>1. requests \subseteq ContractPage!Call
    BY <1>1 DEF ContractPage!Call, ContractPage!Kinds, ContractPage!Saving, ContractPage!Contract
  <2> QED BY <1>2, <1>3, <2>1 DEF ContractPage!TypeOK, ContractPage!Form, ContractPage!Contract
<1>5. \A c \in requests : c.kind = "DETAIL" /\ c.of = asks
  BY <1>1
<1>6. ContractPage!ActsOnWhatItShows
  BY <1>2, <1>3, <1>5 DEF ContractPage!ActsOnWhatItShows, ContractPage!CanSubmit, ContractPage!Saving
<1>7. DrawersOfOneContract
  BY <1>1, <1>2, <1>3, <1>5 DEF DrawersOfOneContract, AllAbout, ContractPage!Saving
<1> QED BY <1>4, <1>6, <1>7 DEF ContractPageInv

\* Short of a crossing what is asked for contract i finds all about it.
LEMMA ContractAsks ==
  ASSUME NEW i, ContractPage!Asks(i), crossing \in BOOLEAN
  PROVE  crossing' \in BOOLEAN /\ (~crossing' => AllAbout(i))
<1>1. crossing' \in BOOLEAN /\ (~crossing' => ContractPage!Busy \ {i} = {})
  BY Zenon DEF ContractPage!Asks
<1>2. ASSUME ContractPage!Busy \ {i} = {}
      PROVE  AllAbout(i)
  BY <1>2 DEF AllAbout, ContractPage!Busy, ContractPage!Filling
<1> QED BY <1>1, <1>2

\* The detail of c's contract is asked for, and the drawer opened.
LEMMA ContractRefetch ==
  ASSUME ContractPage!TypeOK, NEW c \in requests, NEW kind \in {"DETAIL", "RELOAD"}, ContractPage!Refetch(c, kind)
  PROVE  /\ detail' \in ContractPage!Detail /\ detail'.open /\ detail'.asked = c.of /\ detail'.loading
         /\ detail'.item = detail.item
         /\ \E e \in ContractPage!Call : /\ e.kind = kind /\ e.of = c.of /\ e.on = c.on
                                       /\ requests' = (requests \ {c}) \cup {e}
<1>1. /\ detail' = [detail EXCEPT !.open = TRUE, !.loading = TRUE, !.asked = c.of]
      /\ requests' = (requests \ {c}) \cup {[c EXCEPT !.kind = kind]}
  BY Zenon DEF ContractPage!Refetch
<1>2. c \in ContractPage!Call
  BY DEF ContractPage!TypeOK
<1> QED BY <1>1, <1>2 DEF ContractPage!TypeOK, ContractPage!Detail, ContractPage!Call, ContractPage!Kinds, ContractPage!Saving

\* Every step of the page of the contracts keeps its invariant.
LEMMA ContractPageStep ==
  ASSUME ContractPage!ContractsPageAssumption, ContractPageInv, [ContractPage!Next]_(ContractPage!vars)
  PROVE  ContractPageInv'
<1> USE DEF ContractPageInv, ContractPage!ContractsPageAssumption, ContractPage!TypeOK, ContractPage!ActsOnWhatItShows,
            DrawersOfOneContract, AllAbout, ContractPage!Contract, ContractPage!Detail, ContractPage!Form,
            ContractPage!Saving, ContractPage!Kinds, ContractPage!Call, ContractPage!CanSubmit
<1>1. CASE UNCHANGED ContractPage!vars
  BY <1>1 DEF ContractPage!vars
<1> SUFFICES ASSUME ContractPage!Next, ~crossing
             PROVE  ContractPageInv'
  BY <1>1 DEF ContractPage!Next
<1>2. ASSUME NEW i \in Contracts, ContractPage!OpenDetail(i)
      PROVE  ContractPageInv'
  <2>1. crossing' \in BOOLEAN /\ (~crossing' => AllAbout(i))
    BY <1>2, ContractAsks DEF ContractPage!OpenDetail
  <2>2. /\ detail' \in ContractPage!Detail /\ detail'.open /\ detail'.asked = i /\ detail'.loading
        /\ detail'.item = detail.item
    BY <1>2 DEF ContractPage!OpenDetail
  <2>3. PICK e \in ContractPage!Call : /\ e.kind = "DETAIL" /\ e.of = i /\ requests' = requests \cup {e}
                                       /\ UNCHANGED <<form, box, data>>
    BY <1>2 DEF ContractPage!OpenDetail, ContractPage!Begin
  <2>4. ContractPage!TypeOK'
    BY <2>1, <2>2, <2>3
  <2>5. ContractPage!ActsOnWhatItShows'
    BY <2>1, <2>2, <2>3
  <2>6. DrawersOfOneContract'
    BY <2>1, <2>2, <2>3
  <2> QED BY <2>4, <2>5, <2>6
<1>3. ASSUME NEW c \in requests, ContractPage!DetailLoaded(c)
      PROVE  ContractPageInv'
  BY <1>3 DEF ContractPage!DetailLoaded, ContractPage!ClosesForm
<1>4. ASSUME NEW c \in requests, ContractPage!DetailFailed(c)
      PROVE  ContractPageInv'
  BY <1>4 DEF ContractPage!DetailFailed, ContractPage!ClosesForm
<1>5. CASE ContractPage!CloseDetail
  BY <1>5 DEF ContractPage!CloseDetail
<1>6. CASE ContractPage!Uploaded
  <2>1. crossing' \in BOOLEAN /\ (~crossing' => AllAbout(detail.item))
    BY <1>6, ContractAsks DEF ContractPage!Uploaded, ContractPage!Asks
  <2> QED BY <1>6, <2>1 DEF ContractPage!Uploaded, ContractPage!DetailShown
<1>7. CASE ContractPage!OpenCreate
  <2>1. crossing' \in BOOLEAN /\ (~crossing' => ContractPage!FormAwaited = {})
    BY <1>7, Zenon DEF ContractPage!OpenCreate
  <2> QED BY <1>7, <2>1 DEF ContractPage!OpenCreate, ContractPage!FormAwaited
<1>8. ASSUME NEW i \in Contracts, ContractPage!OpenEdit(i)
      PROVE  ContractPageInv'
  <2>1. crossing' \in BOOLEAN /\ (~crossing' => ContractPage!FormAwaited = {})
    BY <1>8, Zenon DEF ContractPage!OpenEdit
  <2>2. \A c \in requests : ~crossing' => c.kind \notin ContractPage!Saving \cup {"EDIT"}
    BY <2>1 DEF ContractPage!FormAwaited
  <2>3. form' \in ContractPage!Form /\ form'.open /\ form'.loading /\ form'.editing = i
    BY <1>8 DEF ContractPage!OpenEdit
  <2>4. requests' = requests \cup {[kind |-> "EDIT", of |-> i, on |-> None]} /\ UNCHANGED <<detail, box, data>>
    BY <1>8 DEF ContractPage!OpenEdit, ContractPage!Begin
  <2>5. ContractPage!TypeOK'
    BY <2>1, <2>3, <2>4
  <2>6. ContractPage!ActsOnWhatItShows'
    BY <2>2, <2>3, <2>4
  <2>7. DrawersOfOneContract'
    BY <2>2, <2>3, <2>4
  <2> QED BY <2>5, <2>6, <2>7
<1>9. ASSUME NEW c \in requests, ContractPage!EditLoaded(c)
      PROVE  ContractPageInv'
  BY <1>9 DEF ContractPage!EditLoaded
<1>10. ASSUME NEW c \in requests, ContractPage!EditFailed(c)
       PROVE  ContractPageInv'
  BY <1>10 DEF ContractPage!EditFailed
<1>11. CASE ContractPage!CloseForm
  BY <1>11 DEF ContractPage!CloseForm
<1>12. CASE ContractPage!SubmitContractForm
  <2>1. CASE form.editing # None /\ detail.item = form.editing
    <3>1. ContractPage!Begin("SAVE_SHOWN", form.editing, form.values) /\ ContractPage!Asks(form.editing)
      BY <1>12, <2>1 DEF ContractPage!SubmitContractForm
    <3>2. crossing' \in BOOLEAN /\ (~crossing' => AllAbout(form.editing))
      BY <3>1, ContractAsks
    <3> QED BY <1>12, <2>1, <3>1, <3>2 DEF ContractPage!SubmitContractForm, ContractPage!Begin
  <2>2. CASE ~(form.editing # None /\ detail.item = form.editing)
    BY <1>12, <2>2 DEF ContractPage!SubmitContractForm, ContractPage!Begin
  <2> QED BY <2>1, <2>2
<1>13. ASSUME NEW c \in requests, ContractPage!FormSaved(c)
       PROVE  ContractPageInv'
  <2>1. CASE c.kind = "SAVE"
    <3>1. form' = [form EXCEPT !.open = FALSE] /\ requests' = requests \ {c} /\ UNCHANGED <<detail, box, data, crossing>>
      BY <1>13, <2>1 DEF ContractPage!FormSaved
    <3> QED BY <2>1, <3>1
  <2>2. CASE c.kind # "SAVE"
    <3>1. ContractPage!Refetch(c, "RELOAD") /\ c.kind = "SAVE_SHOWN" /\ UNCHANGED <<form, box, data, crossing>>
      BY <1>13, <2>2 DEF ContractPage!FormSaved
    <3>2. PICK e \in ContractPage!Call : /\ e.kind = "RELOAD" /\ e.of = c.of /\ e.on = c.on
                                         /\ requests' = (requests \ {c}) \cup {e}
      BY <3>1, ContractRefetch
    <3>3. /\ detail' \in ContractPage!Detail /\ detail'.open /\ detail'.asked = c.of /\ detail'.loading
          /\ detail'.item = detail.item
      BY <3>1, ContractRefetch
    <3>4. ContractPage!TypeOK'
      BY <3>1, <3>2, <3>3
    <3>5. ContractPage!ActsOnWhatItShows'
      BY <3>1, <3>2, <3>3
    <3>6. DrawersOfOneContract'
      BY <3>1, <3>2, <3>3
    <3> QED BY <3>4, <3>5, <3>6
  <2> QED BY <2>1, <2>2
<1>14. ASSUME NEW i \in Contracts, ContractPage!HandleActivate(i)
       PROVE  ContractPageInv'
  <2>1. crossing' \in BOOLEAN /\ (~crossing' => AllAbout(i))
    BY <1>14, ContractAsks DEF ContractPage!HandleActivate
  <2> QED BY <1>14, <2>1 DEF ContractPage!HandleActivate, ContractPage!Begin, ContractPage!Offered,
                            ContractPage!ListShown, ContractPage!DetailShown
<1>15. CASE ContractPage!OpenCloseModal
  <2>1. crossing' \in BOOLEAN /\ (~crossing' => AllAbout(detail.item))
    BY <1>15, ContractAsks DEF ContractPage!OpenCloseModal
  <2> QED BY <1>15, <2>1 DEF ContractPage!OpenCloseModal, ContractPage!DetailShown
<1>16. CASE ContractPage!CancelModal
  BY <1>16 DEF ContractPage!CancelModal
<1>17. CASE ContractPage!SubmitCloseAction
  BY <1>17 DEF ContractPage!SubmitCloseAction, ContractPage!Begin
<1>18. ASSUME NEW c \in requests, ContractPage!Closed(c)
       PROVE  ContractPageInv'
  <2>1. ContractPage!Refetch(c, "DETAIL") /\ box' = None /\ UNCHANGED <<form, data, crossing>> /\ c.kind = "CLOSE"
    BY <1>18 DEF ContractPage!Closed
  <2>2. PICK e \in ContractPage!Call : /\ e.kind = "DETAIL" /\ e.of = c.of /\ e.on = c.on
                                       /\ requests' = (requests \ {c}) \cup {e}
    BY <2>1, ContractRefetch
  <2>3. /\ detail' \in ContractPage!Detail /\ detail'.open /\ detail'.asked = c.of /\ detail'.loading
        /\ detail'.item = detail.item
    BY <2>1, ContractRefetch
  <2>4. ContractPage!TypeOK'
    BY <2>1, <2>2, <2>3
  <2>5. ContractPage!ActsOnWhatItShows'
    BY <2>1, <2>2, <2>3
  <2>6. DrawersOfOneContract'
    BY <2>1, <2>2, <2>3
  <2> QED BY <2>4, <2>5, <2>6
<1>19. CASE ContractPage!ChangeTenants
  <2>1. crossing' \in BOOLEAN /\ (~crossing' => AllAbout(detail.item))
    BY <1>19, ContractAsks DEF ContractPage!ChangeTenants
  <2> QED BY <1>19, <2>1 DEF ContractPage!ChangeTenants, ContractPage!DetailShown, ContractPage!Begin
<1>20. ASSUME NEW c \in requests, ContractPage!Changed(c)
       PROVE  ContractPageInv'
  <2>1. ContractPage!Refetch(c, "DETAIL") /\ UNCHANGED <<form, box, data, crossing>> /\ c.kind \in {"ACTIVATE", "TENANTS"}
    BY <1>20 DEF ContractPage!Changed
  <2>2. PICK e \in ContractPage!Call : /\ e.kind = "DETAIL" /\ e.of = c.of /\ e.on = c.on
                                       /\ requests' = (requests \ {c}) \cup {e}
    BY <2>1, ContractRefetch
  <2>3. /\ detail' \in ContractPage!Detail /\ detail'.open /\ detail'.asked = c.of /\ detail'.loading
        /\ detail'.item = detail.item
    BY <2>1, ContractRefetch
  <2>4. ContractPage!TypeOK'
    BY <2>1, <2>2, <2>3
  <2>5. ContractPage!ActsOnWhatItShows'
    BY <2>1, <2>2, <2>3
  <2>6. DrawersOfOneContract'
    BY <2>1, <2>2, <2>3
  <2> QED BY <2>4, <2>5, <2>6
<1>21. CASE ContractPage!SubmitContractDocument
  BY <1>21 DEF ContractPage!SubmitContractDocument, ContractPage!DetailShown, ContractPage!Begin
<1>22. ASSUME NEW c \in requests, ContractPage!DocumentSaved(c)
       PROVE  ContractPageInv'
  <2>1. ContractPage!Refetch(c, "DETAIL") /\ data' = None /\ UNCHANGED <<form, box, crossing>> /\ c.kind = "DOCUMENT"
    BY <1>22 DEF ContractPage!DocumentSaved
  <2>2. PICK e \in ContractPage!Call : /\ e.kind = "DETAIL" /\ e.of = c.of /\ e.on = c.on
                                       /\ requests' = (requests \ {c}) \cup {e}
    BY <2>1, ContractRefetch
  <2>3. /\ detail' \in ContractPage!Detail /\ detail'.open /\ detail'.asked = c.of /\ detail'.loading
        /\ detail'.item = detail.item
    BY <2>1, ContractRefetch
  <2>4. ContractPage!TypeOK'
    BY <2>1, <2>2, <2>3
  <2>5. ContractPage!ActsOnWhatItShows'
    BY <2>1, <2>2, <2>3
  <2>6. DrawersOfOneContract'
    BY <2>1, <2>2, <2>3
  <2> QED BY <2>4, <2>5, <2>6
<1>23. ASSUME NEW c \in requests, ContractPage!Refused(c)
       PROVE  ContractPageInv'
  BY <1>23 DEF ContractPage!Refused
<1> QED BY <1>2, <1>3, <1>4, <1>5, <1>6, <1>7, <1>8, <1>9, <1>10, <1>11, <1>12, <1>13, <1>14, <1>15, <1>16, <1>17,
           <1>18, <1>19, <1>20, <1>21, <1>22, <1>23 DEF ContractPage!Next
-----------------------------------------------------------------------------
(* The page of the utilities. *)

\* What a request is about, by its kind.
UtilityCalls ==
    \A c \in requests :
        /\ c.kind \in {"DETAIL", "APPROVE", "REJECT"} => c.of \in Readings
        /\ c.kind \in {"EDIT", "SAVE", "DELETE"} => c.of \in UtilityPage!Rate

\* The readings that are decided on or whose drawer is filled are reading i.
OnlyReading(i) ==
    /\ \A c \in requests : c.kind \in {"DETAIL", "APPROVE", "REJECT"} => c.of = i
    /\ box \in {i, None}

\* What is sent under a filter is sent under the one the list still has; what
\* is awaited for a drawer is about the reading or the price it has.
UtilitiesOfOneChoice ==
    ~crossing =>
        /\ \A c \in requests : c.under # None => c.under = data[UtilityPage!ListOf(c)].filter
        /\ \E i \in UtilityPage!Reading : OnlyReading(i)
        /\ detail.open => OnlyReading(detail.asked)
        /\ \A c \in requests : c.kind \in {"EDIT", "SAVE"} => c.of = form.editing
        /\ form.open /\ ~form.loading => form.values = form.editing

UtilityPageInv == UtilityPage!TypeOK /\ UtilityPage!ShowsWhatWasAsked /\ UtilityCalls /\ UtilitiesOfOneChoice

\* The page of the readings opens in its invariant.
LEMMA UtilityPageInit ==
  ASSUME UtilityPage!UtilitiesPageAssumption, UtilityPage!Init PROVE UtilityPageInv
<1>1. /\ data \in [UtilityPage!Lists -> [filter : Filters, loading : {TRUE}, shown : {None}]]
      /\ detail = [open |-> FALSE, loading |-> FALSE, item |-> None, asked |-> None]
      /\ form = [open |-> FALSE, loading |-> FALSE, editing |-> None, values |-> None]
      /\ box = None /\ crossing = FALSE
      /\ requests = {UtilityPage!ListCall(l, data[l].filter) : l \in UtilityPage!Lists}
  BY DEF UtilityPage!Init
<1>2. \A l \in UtilityPage!Lists : data[l] \in [filter : Filters, loading : {TRUE}, shown : {None}]
  BY <1>1
<1>3. \A c \in requests : \E l \in UtilityPage!Lists :
        c = [kind |-> l, of |-> None, on |-> None, under |-> data[l].filter]
  BY <1>1 DEF UtilityPage!ListCall
<1>4. UtilityPage!TypeOK
  <2>1. requests \subseteq UtilityPage!Call
    <3>1. ASSUME NEW l \in UtilityPage!Lists
          PROVE  [kind |-> l, of |-> None, on |-> None, under |-> data[l].filter] \in UtilityPage!Call
      BY <1>2 DEF UtilityPage!Lists, UtilityPage!Call, UtilityPage!OfReadings, UtilityPage!OfRates
    <3> QED BY <1>3, <3>1
  <2>2. data \in [UtilityPage!Lists -> UtilityPage!List]
    BY <1>1, <1>2 DEF UtilityPage!List
  <2>3. detail \in UtilityPage!Detail /\ form \in UtilityPage!Form /\ box \in UtilityPage!Reading
    BY <1>1 DEF UtilityPage!Detail, UtilityPage!Form, UtilityPage!Reading, UtilityPage!Rate
  <2> QED BY <1>1, <2>1, <2>2, <2>3 DEF UtilityPage!TypeOK
<1>5. UtilityPage!ShowsWhatWasAsked
  BY <1>1, <1>2, <1>3 DEF UtilityPage!ShowsWhatWasAsked, UtilityPage!Lists, UtilityPage!CanSubmit
<1>6. UtilityCalls
  BY <1>3 DEF UtilityCalls, UtilityPage!Lists
<1>7. UtilitiesOfOneChoice
  BY <1>1, <1>3 DEF UtilitiesOfOneChoice, OnlyReading, UtilityPage!Lists, UtilityPage!Reading, UtilityPage!ListOf,
                    UtilityPage!OfReadings
<1> QED BY <1>4, <1>5, <1>6, <1>7 DEF UtilityPageInv

\* A list that begins to be loaded, under a filter or as it is.
LEMMA UtilityLoads ==
  ASSUME UtilityPage!TypeOK, NEW l \in UtilityPage!Lists, NEW f \in Filters,
         data' = [data EXCEPT ![l].filter = f, ![l].loading = TRUE]
  PROVE  /\ data' \in [UtilityPage!Lists -> UtilityPage!List]
         /\ data'[l].loading /\ data'[l].filter = f
         /\ \A m \in UtilityPage!Lists : m # l => data'[m] = data[m]
BY DEF UtilityPage!TypeOK, UtilityPage!List

\* One that is loaded again as it was asked for.
LEMMA UtilityReloads ==
  ASSUME UtilityPage!TypeOK, NEW l \in UtilityPage!Lists, data' = [data EXCEPT ![l].loading = TRUE]
  PROVE  /\ data' \in [UtilityPage!Lists -> UtilityPage!List]
         /\ data'[l].loading /\ data'[l].filter = data[l].filter
         /\ \A m \in UtilityPage!Lists : m # l => data'[m] = data[m]
BY DEF UtilityPage!TypeOK, UtilityPage!List

\* One that ends to be loaded.
LEMMA UtilityLoaded ==
  ASSUME UtilityPage!TypeOK, NEW l \in UtilityPage!Lists, NEW f \in Filters \cup {None},
         data' = [data EXCEPT ![l].loading = FALSE, ![l].shown = f]
  PROVE  /\ data' \in [UtilityPage!Lists -> UtilityPage!List]
         /\ data'[l].filter = data[l].filter /\ data'[l].shown = f
         /\ \A m \in UtilityPage!Lists : m # l => data'[m] = data[m]
BY DEF UtilityPage!TypeOK, UtilityPage!List

\* Short of a crossing what a reading is asked for finds no other busy.
LEMMA UtilityBusy ==
  ASSUME NEW i, ~crossing, crossing' = (crossing \/ UtilityPage!Busy \ {i} # {})
  PROVE  /\ crossing' \in BOOLEAN
         /\ ~crossing' => \A c \in requests : c.kind \in {"DETAIL", "APPROVE", "REJECT"} => c.of = i
<1>1. crossing' \in BOOLEAN /\ (~crossing' => UtilityPage!Busy \ {i} = {})
  BY Zenon
<1> QED BY <1>1 DEF UtilityPage!Busy, UtilityPage!OfReadings

\* Every step of the page of the readings keeps its invariant.
LEMMA UtilityPageStep ==
  ASSUME UtilityPage!UtilitiesPageAssumption, UtilityPageInv, [UtilityPage!Next]_(UtilityPage!vars)
  PROVE  UtilityPageInv'
<1> USE DEF UtilityPageInv, UtilityPage!UtilitiesPageAssumption, UtilityPage!TypeOK, UtilityPage!ShowsWhatWasAsked,
            UtilityCalls, UtilitiesOfOneChoice, OnlyReading, UtilityPage!Reading, UtilityPage!Rate,
            UtilityPage!Detail, UtilityPage!Form, UtilityPage!Call, UtilityPage!CanSubmit, UtilityPage!Lists,
            UtilityPage!ListOf, UtilityPage!OfReadings, UtilityPage!OfRates
<1>1. CASE UNCHANGED UtilityPage!vars
  BY <1>1 DEF UtilityPage!vars
<1> SUFFICES ASSUME UtilityPage!Next, ~crossing
             PROVE  UtilityPageInv'
  BY <1>1 DEF UtilityPage!Next
<1>a. \A l \in UtilityPage!Lists : data[l] \in UtilityPage!List /\ data[l].filter \in Filters
  BY DEF UtilityPage!List
<1>2. ASSUME NEW l \in UtilityPage!Lists, NEW f \in Filters, UtilityPage!SetFilter(l, f)
      PROVE  UtilityPageInv'
  <2>1. crossing' \in BOOLEAN /\ (~crossing' => \A c \in UtilityPage!Reloading(l) : c.under = f)
    BY <1>2, Zenon DEF UtilityPage!SetFilter
  <2>2. ~crossing' => \A c \in requests : UtilityPage!ListOf(c) = l /\ c.under # None => c.under = f
    BY <2>1 DEF UtilityPage!Reloading
  <2>3. /\ data' \in [UtilityPage!Lists -> UtilityPage!List] /\ data'[l].loading /\ data'[l].filter = f
        /\ \A m \in UtilityPage!Lists : m # l => data'[m] = data[m]
    <3>1. data' = [data EXCEPT ![l].filter = f, ![l].loading = TRUE] /\ UtilityPage!TypeOK
      BY <1>2 DEF UtilityPage!SetFilter
    <3> HIDE DEF UtilityPage!TypeOK, UtilityPage!Lists
    <3> QED BY <3>1, UtilityLoads
  <2>4. PICK e \in UtilityPage!Call : /\ e.kind = l /\ e.under = f /\ requests' = requests \cup {e}
                                      /\ UNCHANGED <<detail, box, form>>
    BY <1>2 DEF UtilityPage!SetFilter, UtilityPage!Begin, UtilityPage!ListCall
  <2>5. UtilityPage!TypeOK' /\ UtilityCalls'
    BY <2>1, <2>3, <2>4
  <2>6. UtilityPage!ShowsWhatWasAsked'
    BY <2>1, <2>3, <2>4
  <2>7. UtilitiesOfOneChoice'
    BY <2>1, <2>2, <2>3, <2>4
  <2> QED BY <2>5, <2>6, <2>7
<1>3. ASSUME NEW c \in requests, UtilityPage!ListLoaded(c) \/ UtilityPage!ListFailed(c)
      PROVE  UtilityPageInv'
  <2>1. PICK f \in {c.under, None} : data' = [data EXCEPT ![c.kind].loading = FALSE, ![c.kind].shown = f]
    BY <1>3 DEF UtilityPage!ListLoaded, UtilityPage!ListFailed
  <2>2. c.kind \in UtilityPage!Lists /\ requests' = requests \ {c} /\ UNCHANGED <<detail, box, form, crossing>>
    BY <1>3 DEF UtilityPage!ListLoaded, UtilityPage!ListFailed
  <2>3. f \in Filters \cup {None}
    BY <2>1
  <2>4. /\ data' \in [UtilityPage!Lists -> UtilityPage!List]
        /\ data'[c.kind].filter = data[c.kind].filter /\ data'[c.kind].shown = f
        /\ \A m \in UtilityPage!Lists : m # c.kind => data'[m] = data[m]
    <3>1. UtilityPage!TypeOK
      OBVIOUS
    <3> HIDE DEF UtilityPage!TypeOK, UtilityPage!Lists
    <3> QED BY <2>1, <2>2, <2>3, <3>1, UtilityLoaded
  <2>5. UtilityPage!TypeOK' /\ UtilityCalls'
    BY <2>2, <2>4
  <2>6. UtilityPage!ShowsWhatWasAsked'
    BY <2>1, <2>2, <2>4
  <2>7. UtilitiesOfOneChoice'
    BY <2>2, <2>4
  <2> QED BY <2>5, <2>6, <2>7
<1>4. ASSUME NEW i \in Readings, UtilityPage!OpenReadingDetail(i)
      PROVE  UtilityPageInv'
  <2>1. /\ crossing' \in BOOLEAN
        /\ ~crossing' => \A c \in requests : c.kind \in {"DETAIL", "APPROVE", "REJECT"} => c.of = i
    BY <1>4, UtilityBusy DEF UtilityPage!OpenReadingDetail
  <2>2. /\ detail' \in UtilityPage!Detail /\ detail'.open /\ detail'.loading /\ detail'.asked = i
    BY <1>4 DEF UtilityPage!OpenReadingDetail, UtilityPage!Opened
  <2>3. PICK e \in UtilityPage!Call : /\ e.kind = "DETAIL" /\ e.of = i /\ e.under = None /\ requests' = requests \cup {e}
                                      /\ UNCHANGED <<data, box, form>> /\ box = None
    BY <1>4 DEF UtilityPage!OpenReadingDetail, UtilityPage!Begin, UtilityPage!DetailCall, UtilityPage!ListShown,
                UtilityPage!NoDialog
  <2>4. UtilityPage!TypeOK' /\ UtilityCalls'
    BY <2>1, <2>2, <2>3
  <2>5. UtilityPage!ShowsWhatWasAsked'
    BY <2>1, <2>2, <2>3
  <2>6. UtilitiesOfOneChoice'
    BY <2>1, <2>2, <2>3
  <2> QED BY <2>4, <2>5, <2>6
<1>5. ASSUME NEW c \in requests, UtilityPage!DetailLoaded(c)
      PROVE  UtilityPageInv'
  <2>1. /\ detail' \in UtilityPage!Detail /\ ~detail'.loading /\ detail'.item = c.of
        /\ detail'.open = detail.open /\ detail'.asked = detail.asked
    BY <1>5 DEF UtilityPage!DetailLoaded
  <2>2. c.kind = "DETAIL" /\ requests' = requests \ {c} /\ UNCHANGED <<data, box, form, crossing>>
    BY <1>5 DEF UtilityPage!DetailLoaded
  <2>3. UtilityPage!TypeOK' /\ UtilityCalls'
    BY <2>1, <2>2
  <2>4. UtilityPage!ShowsWhatWasAsked'
    BY <2>1, <2>2
  <2>5. UtilitiesOfOneChoice'
    BY <2>1, <2>2
  <2> QED BY <2>3, <2>4, <2>5
<1>6. ASSUME NEW c \in requests, UtilityPage!DetailFailed(c)
      PROVE  UtilityPageInv'
  <2>1. detail' \in UtilityPage!Detail /\ ~detail'.loading /\ ~detail'.open
    BY <1>6 DEF UtilityPage!DetailFailed
  <2>2. requests' = requests \ {c} /\ UNCHANGED <<data, box, form, crossing>>
    BY <1>6 DEF UtilityPage!DetailFailed
  <2>3. UtilityPage!TypeOK' /\ UtilityCalls'
    BY <2>1, <2>2
  <2>4. UtilityPage!ShowsWhatWasAsked'
    BY <2>1, <2>2
  <2>5. UtilitiesOfOneChoice'
    BY <2>1, <2>2
  <2> QED BY <2>3, <2>4, <2>5
<1>7. CASE UtilityPage!CloseDetail
  BY <1>7 DEF UtilityPage!CloseDetail
<1>8. ASSUME NEW i \in Readings, UtilityPage!HandleApprove(i)
      PROVE  UtilityPageInv'
  <2>1. /\ crossing' \in BOOLEAN
        /\ ~crossing' => \A c \in requests : c.kind \in {"DETAIL", "APPROVE", "REJECT"} => c.of = i
    BY <1>8, UtilityBusy DEF UtilityPage!HandleApprove
  <2>2. PICK e \in UtilityPage!Call : /\ e.kind = "APPROVE" /\ e.of = i /\ e.under = data["READINGS"].filter
                                      /\ requests' = requests \cup {e} /\ UNCHANGED <<data, detail, box, form>>
    BY <1>8, <1>a DEF UtilityPage!HandleApprove, UtilityPage!Begin, UtilityPage!Under
  <2>3. box = None /\ (detail.open => i = detail.asked)
    BY <1>8 DEF UtilityPage!HandleApprove, UtilityPage!Offered, UtilityPage!ListShown, UtilityPage!DetailShown,
                UtilityPage!NoDialog
  <2>4. UtilityPage!TypeOK' /\ UtilityCalls'
    BY <2>1, <2>2
  <2>5. UtilityPage!ShowsWhatWasAsked'
    BY <2>1, <2>2
  <2>6. UtilitiesOfOneChoice'
    BY <2>1, <2>2, <2>3
  <2> QED BY <2>4, <2>5, <2>6
<1>9. ASSUME NEW i \in Readings, UtilityPage!OpenReject(i)
      PROVE  UtilityPageInv'
  <2>1. /\ crossing' \in BOOLEAN
        /\ ~crossing' => \A c \in requests : c.kind \in {"DETAIL", "APPROVE", "REJECT"} => c.of = i
    BY <1>9, UtilityBusy DEF UtilityPage!OpenReject
  <2>2. detail.open => i = detail.asked
    BY <1>9 DEF UtilityPage!OpenReject, UtilityPage!Offered, UtilityPage!ListShown, UtilityPage!DetailShown
  <2> QED BY <1>9, <2>1, <2>2 DEF UtilityPage!OpenReject
<1>10. CASE UtilityPage!CancelReject
  BY <1>10 DEF UtilityPage!CancelReject
<1>11. CASE UtilityPage!SubmitReject
  <2>1. PICK e \in UtilityPage!Call : /\ e.kind = "REJECT" /\ e.of = box /\ e.under = data["READINGS"].filter
                                      /\ requests' = requests \cup {e} /\ UNCHANGED <<data, detail, box, form, crossing>>
                                      /\ box # None
    BY <1>11, <1>a DEF UtilityPage!SubmitReject, UtilityPage!Begin, UtilityPage!Under
  <2>2. UtilityPage!TypeOK' /\ UtilityCalls'
    BY <2>1
  <2>3. UtilityPage!ShowsWhatWasAsked'
    BY <2>1
  <2>4. UtilitiesOfOneChoice'
    BY <2>1
  <2> QED BY <2>2, <2>3, <2>4
<1>12. ASSUME NEW c \in requests, UtilityPage!Decided(c)
       PROVE  UtilityPageInv'
  <2>1. c.kind \in {"APPROVE", "REJECT"} /\ box' \in {box, None} /\ UNCHANGED <<form, crossing>>
    BY <1>12 DEF UtilityPage!Decided
  <2>2. /\ detail' \in UtilityPage!Detail /\ detail'.open /\ detail'.loading /\ detail'.asked = c.of
    BY <1>12 DEF UtilityPage!Decided, UtilityPage!Opened
  <2>3. PICK d \in UtilityPage!Call, e \in UtilityPage!Call :
          /\ d.kind = "READINGS" /\ d.under = c.under /\ e.kind = "DETAIL" /\ e.of = c.of /\ e.under = None
          /\ requests' = (requests \ {c}) \cup {d, e}
    BY <1>12 DEF UtilityPage!Decided, UtilityPage!ListCall, UtilityPage!DetailCall
  <2>4. data' = [data EXCEPT !["READINGS"].loading = TRUE]
    BY <1>12 DEF UtilityPage!Decided, UtilityPage!Loads
  <2>5. /\ data' \in [UtilityPage!Lists -> UtilityPage!List] /\ data'["READINGS"].loading
        /\ data'["READINGS"].filter = data["READINGS"].filter /\ data'["RATES"] = data["RATES"]
    <3>1. UtilityPage!TypeOK /\ "READINGS" \in UtilityPage!Lists /\ "RATES" \in UtilityPage!Lists
      OBVIOUS
    <3> HIDE DEF UtilityPage!TypeOK, UtilityPage!Lists
    <3> QED BY <2>4, <3>1, UtilityReloads
  <2>6. UtilityPage!TypeOK' /\ UtilityCalls'
    BY <2>1, <2>2, <2>3, <2>5
  <2>7. UtilityPage!ShowsWhatWasAsked'
    BY <2>1, <2>2, <2>3, <2>5
  <2>8. UtilitiesOfOneChoice'
    BY <2>1, <2>2, <2>3, <2>5
  <2> QED BY <2>6, <2>7, <2>8
<1>13. CASE UtilityPage!OpenCreateRate
  <2>1. crossing' \in BOOLEAN /\ (~crossing' => UtilityPage!FormAwaited = {})
    BY <1>13, Zenon DEF UtilityPage!OpenCreateRate
  <2> QED BY <1>13, <2>1 DEF UtilityPage!OpenCreateRate, UtilityPage!FormAwaited
<1>14. ASSUME NEW r \in Rates, UtilityPage!OpenEditRate(r)
       PROVE  UtilityPageInv'
  <2>1. crossing' \in BOOLEAN /\ (~crossing' => UtilityPage!FormAwaited = {})
    BY <1>14, Zenon DEF UtilityPage!OpenEditRate
  <2>2. \A c \in requests : ~crossing' => c.kind \notin {"EDIT", "SAVE"}
    BY <2>1 DEF UtilityPage!FormAwaited
  <2>3. form' \in UtilityPage!Form /\ form'.open /\ form'.loading /\ form'.editing = r
    BY <1>14 DEF UtilityPage!OpenEditRate
  <2>4. PICK e \in UtilityPage!Call : /\ e.kind = "EDIT" /\ e.of = r /\ e.under = None
                                      /\ requests' = requests \cup {e} /\ UNCHANGED <<data, detail, box>>
    BY <1>14 DEF UtilityPage!OpenEditRate, UtilityPage!Begin
  <2>5. UtilityPage!TypeOK' /\ UtilityCalls'
    BY <2>1, <2>3, <2>4
  <2>6. UtilityPage!ShowsWhatWasAsked'
    BY <2>2, <2>3, <2>4
  <2>7. UtilitiesOfOneChoice'
    BY <2>2, <2>3, <2>4
  <2> QED BY <2>5, <2>6, <2>7
<1>15. ASSUME NEW c \in requests, UtilityPage!RateLoaded(c)
       PROVE  UtilityPageInv'
  <2>1. /\ form' \in UtilityPage!Form /\ form'.values = c.of /\ form'.editing = form.editing
    BY <1>15 DEF UtilityPage!RateLoaded
  <2>2. form'.open = form.open /\ ~form'.loading
    BY <1>15 DEF UtilityPage!RateLoaded
  <2>3. c.kind = "EDIT" /\ requests' = requests \ {c} /\ UNCHANGED <<data, detail, box, crossing>>
    BY <1>15 DEF UtilityPage!RateLoaded
  <2>4. UtilityPage!TypeOK' /\ UtilityCalls'
    BY <2>1, <2>2, <2>3
  <2>5. UtilityPage!ShowsWhatWasAsked'
    BY <2>1, <2>2, <2>3
  <2>6. UtilitiesOfOneChoice'
    BY <2>1, <2>2, <2>3
  <2> QED BY <2>4, <2>5, <2>6
<1>16. ASSUME NEW c \in requests, UtilityPage!RateFailed(c)
       PROVE  UtilityPageInv'
  <2>1. form' \in UtilityPage!Form /\ ~form'.open /\ form'.editing = form.editing
    BY <1>16 DEF UtilityPage!RateFailed
  <2>2. requests' = requests \ {c} /\ UNCHANGED <<data, detail, box, crossing>>
    BY <1>16 DEF UtilityPage!RateFailed
  <2>3. UtilityPage!TypeOK' /\ UtilityCalls'
    BY <2>1, <2>2
  <2>4. UtilityPage!ShowsWhatWasAsked'
    BY <2>1, <2>2
  <2>5. UtilitiesOfOneChoice'
    BY <2>1, <2>2
  <2> QED BY <2>3, <2>4, <2>5
<1>17. CASE UtilityPage!CloseForm
  BY <1>17 DEF UtilityPage!CloseForm
<1>18. CASE UtilityPage!SubmitRate
  <2>1. PICK e \in UtilityPage!Call : /\ e.kind = "SAVE" /\ e.of = form.editing /\ e.on = form.values
                                      /\ e.under = data["RATES"].filter
                                      /\ requests' = requests \cup {e} /\ UNCHANGED <<data, detail, box, form, crossing>>
    BY <1>18, <1>a DEF UtilityPage!SubmitRate, UtilityPage!Begin, UtilityPage!Under
  <2>2. form.values = form.editing
    BY <1>18 DEF UtilityPage!SubmitRate
  <2>3. UtilityPage!TypeOK' /\ UtilityCalls'
    BY <2>1
  <2>4. UtilityPage!ShowsWhatWasAsked'
    BY <2>1, <2>2
  <2>5. UtilitiesOfOneChoice'
    BY <2>1
  <2> QED BY <2>3, <2>4, <2>5
<1>19. ASSUME NEW r \in Rates, UtilityPage!ConfirmDeleteRate(r)
       PROVE  UtilityPageInv'
  <2>1. PICK e \in UtilityPage!Call : /\ e.kind = "DELETE" /\ e.of = r /\ e.under = data["RATES"].filter
                                      /\ requests' = requests \cup {e} /\ UNCHANGED <<data, detail, box, form, crossing>>
    BY <1>19, <1>a DEF UtilityPage!ConfirmDeleteRate, UtilityPage!Begin, UtilityPage!Under
  <2>2. UtilityPage!TypeOK' /\ UtilityCalls'
    BY <2>1
  <2>3. UtilityPage!ShowsWhatWasAsked'
    BY <2>1
  <2>4. UtilitiesOfOneChoice'
    BY <2>1
  <2> QED BY <2>2, <2>3, <2>4
<1>20. ASSUME NEW c \in requests, UtilityPage!RatesChanged(c)
       PROVE  UtilityPageInv'
  <2>1. /\ c.kind \in {"SAVE", "DELETE"} /\ UNCHANGED <<detail, box, crossing>>
        /\ form' \in UtilityPage!Form /\ form'.editing = form.editing /\ form'.values = form.values
        /\ form'.loading = form.loading /\ (form'.open => form.open)
    BY <1>20 DEF UtilityPage!RatesChanged
  <2>2. PICK d \in UtilityPage!Call :
          /\ d.kind = "RATES" /\ d.under = c.under /\ requests' = (requests \ {c}) \cup {d}
    BY <1>20 DEF UtilityPage!RatesChanged, UtilityPage!ListCall
  <2>3. data' = [data EXCEPT !["RATES"].loading = TRUE]
    BY <1>20 DEF UtilityPage!RatesChanged, UtilityPage!Loads
  <2>4. /\ data' \in [UtilityPage!Lists -> UtilityPage!List] /\ data'["RATES"].loading
        /\ data'["RATES"].filter = data["RATES"].filter /\ data'["READINGS"] = data["READINGS"]
    <3>1. UtilityPage!TypeOK /\ "READINGS" \in UtilityPage!Lists /\ "RATES" \in UtilityPage!Lists
      OBVIOUS
    <3> HIDE DEF UtilityPage!TypeOK, UtilityPage!Lists
    <3> QED BY <2>3, <3>1, UtilityReloads
  <2>5. UtilityPage!TypeOK' /\ UtilityCalls'
    BY <2>1, <2>2, <2>4
  <2>6. UtilityPage!ShowsWhatWasAsked'
    BY <2>1, <2>2, <2>4
  <2>7. UtilitiesOfOneChoice'
    BY <2>1, <2>2, <2>4
  <2> QED BY <2>5, <2>6, <2>7
<1>21. ASSUME NEW c \in requests, UtilityPage!Refused(c)
       PROVE  UtilityPageInv'
  BY <1>21 DEF UtilityPage!Refused
<1> HIDE DEF UtilityPageInv
<1> QED BY <1>2, <1>3, <1>4, <1>5, <1>6, <1>7, <1>8, <1>9, <1>10, <1>11, <1>12, <1>13, <1>14, <1>15, <1>16, <1>17,
           <1>18, <1>19, <1>20, <1>21, Zenon DEF UtilityPage!Next
-----------------------------------------------------------------------------
(* The page of a tenant's room. *)

\* The page is refreshed by one request at a time, and covered meanwhile.
RefreshedOnce ==
    /\ \A c, d \in requests : c.kind \in RoomPage!OfPage /\ d.kind \in RoomPage!OfPage => c = d
    /\ \A c \in requests : /\ c.kind \in {"REFRESH", "REHYDRATE"} => data.loading
                           /\ c.kind = "CURRENT" => c.of = None

\* What is awaited is about the month that is chosen or the bill asked for last,
\* and the drawer has nothing of another bill.
RoomOfOneChoice ==
    ~crossing =>
        /\ \A c \in requests : /\ c.kind \in {"HYDRATE", "READING", "REHYDRATE"} => c.of = form.month
                               /\ c.kind \in RoomPage!OfBill => c.of = detail.asked
        /\ detail.item \in {detail.asked, None} /\ detail.request \in {detail.asked, None}
        /\ detail.file \in {detail.asked, None}

RoomPageInv == RoomPage!TypeOK /\ RoomPage!SendsWhatItShows /\ RefreshedOnce /\ RoomOfOneChoice

\* The tenant's page of the room opens in its invariant.
LEMMA RoomPageInit ==
  ASSUME RoomPage!TenantRoomPageAssumption, RoomPage!Init PROVE RoomPageInv
<1>1. /\ data = [loading |-> TRUE, room |-> FALSE]
      /\ form \in [month : Months, values : {None}, evidence : {None}, failed : {FALSE}]
      /\ detail = [open |-> FALSE, loading |-> FALSE, item |-> None, request |-> None, file |-> None, asked |-> None]
      /\ requests = {[kind |-> "REFRESH", of |-> None, on |-> None]} /\ crossing = FALSE
  BY DEF RoomPage!Init, RoomPage!Ask
<1>2. RoomPage!TypeOK
  <2>1. requests \subseteq RoomPage!Call
    BY <1>1 DEF RoomPage!Call, RoomPage!OfPage
  <2>2. data \in RoomPage!Page /\ form \in RoomPage!Reading
    BY <1>1 DEF RoomPage!Page, RoomPage!Reading, RoomPage!Month
  <2>3. detail \in RoomPage!Drawer
    BY <1>1 DEF RoomPage!Drawer, RoomPage!Bill
  <2> QED BY <1>1, <2>1, <2>2, <2>3 DEF RoomPage!TypeOK
<1>3. RoomPage!SendsWhatItShows
  BY <1>1 DEF RoomPage!SendsWhatItShows, RoomPage!BillShown, RoomPage!Hydrated, RoomPage!PageShown
<1>4. RefreshedOnce
  BY <1>1 DEF RefreshedOnce
<1>5. RoomOfOneChoice
  BY <1>1 DEF RoomOfOneChoice, RoomPage!OfBill
<1> QED BY <1>2, <1>3, <1>4, <1>5 DEF RoomPageInv

\* Every step of the tenant's page of the room keeps its invariant.
LEMMA RoomPageStep ==
  ASSUME RoomPage!TenantRoomPageAssumption, RoomPageInv, [RoomPage!Next]_(RoomPage!vars)
  PROVE  RoomPageInv'
<1> USE DEF RoomPageInv, RoomPage!TenantRoomPageAssumption, RoomPage!TypeOK, RoomPage!SendsWhatItShows,
            RefreshedOnce, RoomOfOneChoice, RoomPage!Month, RoomPage!Bill, RoomPage!OfReading, RoomPage!OfBill,
            RoomPage!OfPage, RoomPage!Call, RoomPage!Page, RoomPage!Reading, RoomPage!Drawer,
            RoomPage!BillShown, RoomPage!Hydrated, RoomPage!PageShown
<1>1. CASE UNCHANGED RoomPage!vars
  BY <1>1 DEF RoomPage!vars
<1> SUFFICES ASSUME RoomPage!Next, ~crossing
             PROVE  RoomPageInv'
  BY <1>1 DEF RoomPage!Next
<1>2. ASSUME NEW c \in requests, RoomPage!Refreshed(c)
      PROVE  RoomPageInv'
  <2>1. c.kind = "REFRESH" /\ data' = [data EXCEPT !.room = TRUE] /\ UNCHANGED <<form, detail, crossing>>
    BY <1>2 DEF RoomPage!Refreshed
  <2>2. PICK d \in RoomPage!Call, e \in RoomPage!Call :
          /\ d.kind = "REHYDRATE" /\ d.of = form.month /\ e.kind = "HYDRATE" /\ e.of = form.month
          /\ requests' = (requests \ {c}) \cup {d} \cup (IF data.room THEN {} ELSE {e})
    BY <1>2 DEF RoomPage!Refreshed, RoomPage!Ask
  <2>3. requests' \subseteq (requests \ {c}) \cup {d, e}
    BY <2>2
  <2>4. data' \in RoomPage!Page /\ data'.loading = data.loading
    BY <2>1
  <2>5. RoomPage!TypeOK'
    BY <2>1, <2>3, <2>4
  <2>6. RoomPage!SendsWhatItShows'
    <3>1. data.loading
      BY <2>1
    <3>2. ~crossing' /\ data'.loading /\ detail' = detail
      BY <2>1, <2>4, <3>1
    <3>3. \A x \in requests' : x.kind \in {"PROOF", "READING"} => x \in requests
      BY <2>2, <2>3
    <3> QED BY <3>2, <3>3
  <2>7. RefreshedOnce'
    <3>1. \A x \in requests \ {c} : x.kind \notin RoomPage!OfPage
      BY <2>1
    <3>2. data'.loading
      BY <2>1, <2>4
    <3> QED BY <2>2, <2>3, <3>1, <3>2
  <2>8. RoomOfOneChoice'
    <3>1. \A x \in requests' : x \in requests \/ x \in {d, e}
      BY <2>3
    <3>2. ~crossing' /\ form' = form /\ detail' = detail
      BY <2>1
    <3> HIDE <2>1, <2>4
    <3> QED BY <2>2, <3>1, <3>2
  <2> QED BY <2>5, <2>6, <2>7, <2>8
<1>3. ASSUME NEW c \in requests, NEW ok \in BOOLEAN, RoomPage!RefreshFailed(c, ok)
      PROVE  RoomPageInv'
  <2>1. /\ c.kind \in {"REFRESH", "REHYDRATE"} /\ requests' = requests \ {c} /\ UNCHANGED <<detail, crossing>>
        /\ data' = [loading |-> FALSE, room |-> ok] /\ form' = [form EXCEPT !.failed = TRUE]
    BY <1>3 DEF RoomPage!RefreshFailed, RoomPage!Answer
  <2>2. RoomPage!TypeOK'
    BY <2>1
  <2>3. RoomPage!SendsWhatItShows'
    BY <2>1
  <2>4. RefreshedOnce' /\ RoomOfOneChoice'
    BY <2>1
  <2> QED BY <2>2, <2>3, <2>4
<1>4. CASE RoomPage!SubmitCurrentProof
  <2>1. PICK e \in RoomPage!Call : /\ e.kind = "CURRENT" /\ e.of = None /\ requests' = requests \cup {e}
                                   /\ ~\E d \in requests : d.kind = e.kind /\ d.of = e.of
                                   /\ UNCHANGED <<data, form, detail, crossing>>
    BY <1>4 DEF RoomPage!SubmitCurrentProof, RoomPage!Send, RoomPage!Ask
  <2>2. ~data.loading
    BY <1>4 DEF RoomPage!SubmitCurrentProof, RoomPage!ListShown
  <2>3. \A d \in requests : d.kind \notin RoomPage!OfPage
    BY <2>1, <2>2
  <2>4. RoomPage!TypeOK' /\ RoomPage!SendsWhatItShows'
    BY <2>1
  <2>5. RefreshedOnce' /\ RoomOfOneChoice'
    BY <2>1, <2>3
  <2> QED BY <2>4, <2>5
<1>5. ASSUME NEW c \in requests, NEW ok \in BOOLEAN, RoomPage!CurrentProofAnswered(c, ok)
      PROVE  RoomPageInv'
  <2>1. c.kind = "CURRENT" /\ UNCHANGED <<form, detail, crossing>>
    BY <1>5 DEF RoomPage!CurrentProofAnswered
  <2>2. CASE ok
    <3>1. data' = [data EXCEPT !.loading = TRUE]
      <4>1. data' = [data EXCEPT !.loading = data.loading \/ ok]
        BY <1>5, Zenon DEF RoomPage!CurrentProofAnswered
      <4> QED BY <2>2, <4>1
    <3>2. PICK e \in RoomPage!Call : e.kind = "REFRESH" /\ requests' = (requests \ {c}) \cup {e}
      BY <1>5, <2>2 DEF RoomPage!CurrentProofAnswered, RoomPage!Ask
    <3>3. data' \in RoomPage!Page /\ data'.loading
      BY <3>1
    <3> HIDE <3>1
    <3>4. RoomPage!TypeOK'
      BY <2>1, <3>3, <3>2
    <3>5. RoomPage!SendsWhatItShows'
      BY <2>1, <3>3, <3>2
    <3>6. RefreshedOnce' /\ RoomOfOneChoice'
      BY <2>1, <3>3, <3>2
    <3> QED BY <3>4, <3>5, <3>6
  <2>3. CASE ~ok
    <3>1. data' = [data EXCEPT !.loading = data.loading]
      <4>1. data' = [data EXCEPT !.loading = data.loading \/ ok]
        BY <1>5, Zenon DEF RoomPage!CurrentProofAnswered
      <4> QED BY <2>3, <4>1
    <3>2. requests' = requests \ {c}
      BY <1>5, <2>3 DEF RoomPage!CurrentProofAnswered
    <3>3. data' = data
      BY <3>1
    <3> QED BY <2>1, <3>2, <3>3
  <2> QED BY <2>2, <2>3
<1>6. ASSUME NEW m \in Months, RoomPage!SetMonth(m)
      PROVE  RoomPageInv'
  <2>1. crossing' \in BOOLEAN /\ (~crossing' => ~RoomPage!Awaited(RoomPage!OfReading \cup {"CURRENT"}, m))
    BY <1>6, Zenon DEF RoomPage!SetMonth
  <2>2. ~crossing' => \A c \in requests : c.kind \in {"HYDRATE", "READING", "CURRENT"} => c.of = m
    BY <2>1 DEF RoomPage!Awaited
  <2>3. form' = [form EXCEPT !.month = m] /\ UNCHANGED <<data, detail>> /\ ~data.loading
    BY <1>6 DEF RoomPage!SetMonth, RoomPage!ListShown
  <2>4. PICK e \in RoomPage!Call : e.kind = "HYDRATE" /\ e.of = m /\ requests' = requests \cup {e}
    BY <1>6 DEF RoomPage!SetMonth, RoomPage!Send, RoomPage!Ask
  <2>5. RoomPage!TypeOK'
    BY <2>1, <2>3, <2>4
  <2>6. RoomPage!SendsWhatItShows'
    BY <2>2, <2>3, <2>4
  <2>7. RefreshedOnce' /\ RoomOfOneChoice'
    BY <2>2, <2>3, <2>4
  <2> QED BY <2>5, <2>6, <2>7
<1>7. ASSUME NEW c \in requests, RoomPage!HydrateFormByMonth(c)
      PROVE  RoomPageInv'
  <2>1. c.kind \in {"HYDRATE", "REHYDRATE"} /\ requests' = requests \ {c} /\ UNCHANGED <<detail, crossing>>
    BY <1>7 DEF RoomPage!HydrateFormByMonth, RoomPage!Answer
  <2>2. form' \in RoomPage!Reading /\ form'.values = form.month /\ form'.evidence = None /\ form'.month = form.month
    BY <1>7, <2>1 DEF RoomPage!HydrateFormByMonth
  <2>3. data' \in RoomPage!Page /\ (c.kind = "HYDRATE" => data'.loading = data.loading)
    BY <1>7 DEF RoomPage!HydrateFormByMonth
  <2>4. RoomPage!TypeOK' /\ RoomPage!SendsWhatItShows'
    BY <2>1, <2>2, <2>3
  <2>5. RefreshedOnce' /\ RoomOfOneChoice'
    BY <2>1, <2>2, <2>3
  <2> QED BY <2>4, <2>5
<1>8. ASSUME NEW c \in requests, RoomPage!HydrateFailed(c)
      PROVE  RoomPageInv'
  <2>1. c.kind = "HYDRATE" /\ requests' = requests \ {c} /\ UNCHANGED <<data, detail, crossing>>
    BY <1>8 DEF RoomPage!HydrateFailed, RoomPage!Answer
  <2>2. /\ form' \in RoomPage!Reading /\ form'.values = form.values /\ form'.evidence = form.evidence
        /\ form'.month = form.month /\ form'.failed
    <3>1. form' = [form EXCEPT !.failed = TRUE]
      BY <1>8 DEF RoomPage!HydrateFailed
    <3> QED BY <3>1
  <2>3. RoomPage!TypeOK'
    BY <2>1, <2>2
  <2>4. RoomPage!SendsWhatItShows'
    BY <2>1, <2>2
  <2>5. RefreshedOnce' /\ RoomOfOneChoice'
    BY <2>1, <2>2
  <2> QED BY <2>3, <2>4, <2>5
<1>9. CASE RoomPage!SelectEvidence
  BY <1>9 DEF RoomPage!SelectEvidence
<1>10. CASE RoomPage!HandleSubmit
  <2>1. crossing' \in BOOLEAN /\ (~crossing' => ~\E c \in requests : c.kind = "HYDRATE")
    BY <1>10, Zenon DEF RoomPage!HandleSubmit
  <2>2. PICK e \in RoomPage!Call : /\ e.kind = "READING" /\ e.of = form.month
                                   /\ e.on = IF form.failed THEN None ELSE form.values
                                   /\ requests' = requests \cup {e}
    BY <1>10 DEF RoomPage!HandleSubmit, RoomPage!Send
  <2>3. UNCHANGED <<data, form, detail>> /\ RoomPage!PageShown
    BY <1>10 DEF RoomPage!HandleSubmit, RoomPage!ListShown
  <2>4. ~crossing' => e.on \in {e.of, None}
    BY <2>1, <2>2, <2>3
  <2>5. RoomPage!TypeOK'
    BY <2>1, <2>2, <2>3
  <2>6. RoomPage!SendsWhatItShows'
    BY <2>1, <2>2, <2>3, <2>4
  <2>7. RefreshedOnce' /\ RoomOfOneChoice'
    BY <2>1, <2>2, <2>3
  <2> QED BY <2>5, <2>6, <2>7
<1>11. ASSUME NEW c \in requests, NEW ok \in BOOLEAN, RoomPage!ReadingSubmitted(c, ok)
       PROVE  RoomPageInv'
  <2>1. c.kind = "READING" /\ UNCHANGED <<data, form, detail, crossing>>
    BY <1>11 DEF RoomPage!ReadingSubmitted
  <2>2. PICK e \in RoomPage!Call : /\ e.kind = "HYDRATE" /\ e.of = c.of
                                   /\ requests' \subseteq (requests \ {c}) \cup {e}
    <3> DEFINE e == RoomPage!Ask("HYDRATE", c.of)
    <3>1. e \in RoomPage!Call /\ e.kind = "HYDRATE" /\ e.of = c.of
      BY <2>1 DEF RoomPage!Ask
    <3>2. requests' \subseteq (requests \ {c}) \cup {e}
      BY <1>11 DEF RoomPage!ReadingSubmitted
    <3> HIDE DEF e
    <3> QED BY <3>1, <3>2
  <2>3. RoomPage!TypeOK'
    BY <2>1, <2>2
  <2>4. RoomPage!SendsWhatItShows'
    <3>1. \A x \in requests' : x.kind \in {"PROOF", "READING"} => x \in requests
      BY <2>2
    <3>2. \A x \in requests : x.kind = "HYDRATE" => x \in requests'
      BY <1>11, <2>1 DEF RoomPage!ReadingSubmitted
    <3> QED BY <2>1, <3>1, <3>2
  <2>5. RefreshedOnce' /\ RoomOfOneChoice'
    BY <2>1, <2>2
  <2> QED BY <2>3, <2>4, <2>5
<1>12. ASSUME NEW i \in Bills, RoomPage!OpenBillDetail(i)
       PROVE  RoomPageInv'
  <2>1. crossing' \in BOOLEAN /\ (~crossing' => ~RoomPage!Awaited(RoomPage!OfBill, i))
    BY <1>12, Zenon DEF RoomPage!OpenBillDetail
  <2>2. ~crossing' => \A c \in requests : c.kind \in RoomPage!OfBill => c.of = i
    BY <2>1 DEF RoomPage!Awaited
  <2>3. /\ detail' = [open |-> TRUE, loading |-> TRUE, item |-> None, request |-> None, file |-> None, asked |-> i]
        /\ UNCHANGED <<data, form>>
    BY <1>12 DEF RoomPage!OpenBillDetail
  <2>4. PICK e \in RoomPage!Call : e.kind = "BILL" /\ e.of = i /\ requests' = requests \cup {e}
    BY <1>12 DEF RoomPage!OpenBillDetail, RoomPage!Send, RoomPage!Ask
  <2>5. RoomPage!TypeOK'
    BY <2>1, <2>3, <2>4
  <2>6. RoomPage!SendsWhatItShows'
    BY <2>2, <2>3, <2>4
  <2>7. RefreshedOnce' /\ RoomOfOneChoice'
    BY <2>2, <2>3, <2>4
  <2> QED BY <2>5, <2>6, <2>7
<1>13. ASSUME NEW c \in requests, RoomPage!BillLoaded(c)
       PROVE  RoomPageInv'
  <2>1. c.kind = "BILL" /\ detail' = [detail EXCEPT !.item = c.of] /\ UNCHANGED <<data, form, crossing>>
    BY <1>13 DEF RoomPage!BillLoaded
  <2>2. PICK e \in RoomPage!Call : e.kind = "REQUEST" /\ e.of = c.of /\ requests' = (requests \ {c}) \cup {e}
    BY <1>13 DEF RoomPage!BillLoaded, RoomPage!Ask
  <2>3. RoomPage!TypeOK' /\ RoomPage!SendsWhatItShows'
    BY <2>1, <2>2
  <2>4. RefreshedOnce' /\ RoomOfOneChoice'
    BY <2>1, <2>2
  <2> QED BY <2>3, <2>4
<1>14. ASSUME NEW c \in requests, RoomPage!BillFailed(c)
       PROVE  RoomPageInv'
  BY <1>14 DEF RoomPage!BillFailed, RoomPage!Answer
<1>15. ASSUME NEW c \in requests, NEW ok \in BOOLEAN, RoomPage!RequestLoaded(c, ok)
       PROVE  RoomPageInv'
  <2>1. /\ c.kind = "REQUEST" /\ requests' = requests \ {c} /\ UNCHANGED <<data, form, crossing>>
        /\ detail' = [detail EXCEPT !.request = IF ok THEN c.of ELSE None, !.loading = FALSE]
    BY <1>15 DEF RoomPage!RequestLoaded, RoomPage!Answer
  <2>2. c.of \in RoomPage!Bill
    BY <2>1
  <2>3. RoomPage!TypeOK'
    BY <2>1, <2>2
  <2>4. RoomPage!SendsWhatItShows'
    BY <2>1, <2>2
  <2>5. RefreshedOnce' /\ RoomOfOneChoice'
    BY <2>1, <2>2
  <2> QED BY <2>3, <2>4, <2>5
<1>16. CASE RoomPage!CloseBillDetail
  BY <1>16 DEF RoomPage!CloseBillDetail
<1>17. CASE RoomPage!UploadProof
  <2>1. PICK e \in RoomPage!Call : /\ e.kind = "UPLOAD" /\ e.of = detail.asked /\ requests' = requests \cup {e}
                                   /\ UNCHANGED <<data, form, detail, crossing>>
    BY <1>17 DEF RoomPage!UploadProof, RoomPage!CanProve, RoomPage!Send, RoomPage!Ask
  <2>2. RoomPage!TypeOK' /\ RoomPage!SendsWhatItShows'
    BY <2>1
  <2>3. RefreshedOnce' /\ RoomOfOneChoice'
    BY <2>1
  <2> QED BY <2>2, <2>3
<1>18. ASSUME NEW c \in requests, NEW ok \in BOOLEAN, RoomPage!Uploaded(c, ok)
       PROVE  RoomPageInv'
  BY <1>18 DEF RoomPage!Uploaded, RoomPage!Answer
<1>19. CASE RoomPage!HandleBillDetailPaymentProofSubmit
  <2>1. PICK e \in RoomPage!Call : /\ e.kind = "PROOF" /\ e.of = detail.asked /\ e.on = detail.asked
                                   /\ requests' = requests \cup {e} /\ UNCHANGED <<data, form, detail, crossing>>
    BY <1>19 DEF RoomPage!HandleBillDetailPaymentProofSubmit, RoomPage!CanProve, RoomPage!Send
  <2>2. RoomPage!TypeOK' /\ RoomPage!SendsWhatItShows'
    BY <2>1
  <2>3. RefreshedOnce' /\ RoomOfOneChoice'
    BY <2>1
  <2> QED BY <2>2, <2>3
<1>20. ASSUME NEW c \in requests, NEW ok \in BOOLEAN, RoomPage!ProofAnswered(c, ok)
       PROVE  RoomPageInv'
  <2>1. c.kind = "PROOF" /\ UNCHANGED <<data, form, detail, crossing>>
    BY <1>20 DEF RoomPage!ProofAnswered
  <2>2. PICK e \in RoomPage!Call : /\ e.kind = "UPDATED" /\ e.of = c.of
                                   /\ requests' \subseteq (requests \ {c}) \cup {e}
    <3> DEFINE e == RoomPage!Ask("UPDATED", c.of)
    <3>1. e \in RoomPage!Call /\ e.kind = "UPDATED" /\ e.of = c.of
      BY <2>1 DEF RoomPage!Ask
    <3>2. requests' \subseteq (requests \ {c}) \cup {e}
      BY <1>20 DEF RoomPage!ProofAnswered
    <3> HIDE DEF e
    <3> QED BY <3>1, <3>2
  <2>3. RoomPage!TypeOK'
    BY <2>1, <2>2
  <2>4. RoomPage!SendsWhatItShows'
    <3>1. \A x \in requests' : x.kind \in {"PROOF", "READING"} => x \in requests
      BY <2>2
    <3>2. \A x \in requests : x.kind = "HYDRATE" => x \in requests'
      BY <1>20, <2>1 DEF RoomPage!ProofAnswered
    <3> QED BY <2>1, <3>1, <3>2
  <2>5. RefreshedOnce' /\ RoomOfOneChoice'
    BY <2>1, <2>2
  <2> QED BY <2>3, <2>4, <2>5
<1>21. ASSUME NEW c \in requests, NEW ok \in BOOLEAN, RoomPage!BillUpdated(c, ok)
       PROVE  RoomPageInv'
  <2>1. /\ c.kind = "UPDATED" /\ requests' = requests \ {c} /\ UNCHANGED <<data, form, crossing>>
        /\ detail' = IF ok THEN [detail EXCEPT !.item = c.of, !.request = c.of, !.file = None] ELSE detail
    BY <1>21 DEF RoomPage!BillUpdated, RoomPage!Answer
  <2>2. CASE ~ok
    BY <2>1, <2>2
  <2>3. CASE ok
    BY <2>1, <2>3
  <2> QED BY <2>2, <2>3
<1> HIDE DEF RoomPageInv
<1>22. ASSUME NEW c \in requests, NEW ok \in BOOLEAN,
              \/ RoomPage!RefreshFailed(c, ok) \/ RoomPage!CurrentProofAnswered(c, ok)
              \/ RoomPage!ReadingSubmitted(c, ok) \/ RoomPage!RequestLoaded(c, ok)
              \/ RoomPage!Uploaded(c, ok) \/ RoomPage!ProofAnswered(c, ok) \/ RoomPage!BillUpdated(c, ok)
       PROVE  RoomPageInv'
  BY <1>3, <1>5, <1>11, <1>15, <1>18, <1>20, <1>21, <1>22, Zenon
<1>23. ASSUME NEW c \in requests,
              \/ RoomPage!Refreshed(c) \/ RoomPage!HydrateFormByMonth(c) \/ RoomPage!HydrateFailed(c)
              \/ RoomPage!BillLoaded(c) \/ RoomPage!BillFailed(c)
       PROVE  RoomPageInv'
  BY <1>2, <1>7, <1>8, <1>13, <1>14, <1>23, Zenon
<1> QED BY <1>4, <1>6, <1>9, <1>10, <1>12, <1>16, <1>17, <1>19, <1>22, <1>23, Zenon DEF RoomPage!Next
-----------------------------------------------------------------------------
(* The page of the tenants. *)

\* The drawer of a tenant covers the dialogs, and what it waits for is of the
\* tenant asked for last.
TenantAsked ==
    /\ detail.open => TenantPage!NoDialog
    /\ ~crossing /\ detail.open =>
         \A c \in requests : c.kind \in {"VIEW", "REVIEW", "ACCOUNT"} => c.of = detail.asked

\* One request is under way for the drawer that is written in, and it has the
\* values of the tenant it is about unless these are still awaited.
TenantWritten ==
    ~crossing =>
        /\ \A c, d \in requests :
             c.kind \in TenantPage!Saving \cup {"EDIT"} /\ d.kind \in TenantPage!Saving \cup {"EDIT"} => c = d
        /\ \A c \in requests : /\ c.kind = "CREATE" => c.of = None
                               /\ c.kind = "EDIT" => /\ form.loading
                                                     /\ form.open => form.editing = c.of /\ ~asked
        /\ form.open /\ ~form.loading => form.values = (IF asked THEN None ELSE form.editing)

TenantPageInv == TenantPage!TypeOK /\ TenantPage!WritesOneTenant /\ TenantAsked /\ TenantWritten

\* The page of the tenants opens in its invariant.
LEMMA TenantPageInit ==
  ASSUME TenantPage!TenantsPageAssumption, TenantPage!Init PROVE TenantPageInv
<1> USE DEF TenantPage!Init
<1>1. TenantPage!TypeOK
  BY DEF TenantPage!TypeOK, TenantPage!Detail, TenantPage!Form, TenantPage!Tenant, TenantPage!Dialogs, TenantPage!Call
<1>2. TenantPage!WritesOneTenant
  BY DEF TenantPage!WritesOneTenant, TenantPage!CanSubmit
<1>3. TenantAsked
  BY DEF TenantAsked
<1>4. TenantWritten
  BY DEF TenantWritten
<1> QED BY <1>1, <1>2, <1>3, <1>4 DEF TenantPageInv

\* Every step of the page of the tenants keeps its invariant.
LEMMA TenantPageStep ==
  ASSUME TenantPage!TenantsPageAssumption, TenantPageInv, [TenantPage!Next]_(TenantPage!vars)
  PROVE  TenantPageInv'
<1> USE DEF TenantPageInv, TenantPage!TenantsPageAssumption, TenantPage!TypeOK, TenantPage!WritesOneTenant,
            TenantAsked, TenantWritten, TenantPage!Detail, TenantPage!Form, TenantPage!Tenant,
            TenantPage!Dialogs, TenantPage!Call, TenantPage!Saving, TenantPage!NoDialog, TenantPage!CanSubmit
<1>1. CASE UNCHANGED TenantPage!vars
  BY <1>1 DEF TenantPage!vars
<1> SUFFICES ASSUME TenantPage!Next, ~crossing
             PROVE  TenantPageInv'
  BY <1>1 DEF TenantPage!Next
<1>2. ASSUME NEW i \in Tenants, TenantPage!HandleView(i)
      PROVE  TenantPageInv'
  <2>1. crossing' \in BOOLEAN /\ (~crossing' => ~TenantPage!DetailAwaited(i))
    BY <1>2, Zenon DEF TenantPage!HandleView
  <2>2. ~crossing' => \A c \in requests : c.kind \in {"VIEW", "REVIEW", "ACCOUNT"} => c.of = i
    BY <2>1 DEF TenantPage!DetailAwaited
  <2>3. /\ detail' = [detail EXCEPT !.open = TRUE, !.loading = TRUE, !.asked = i]
        /\ UNCHANGED <<form, data, asked, box>> /\ TenantPage!NoDialog
    BY <1>2 DEF TenantPage!HandleView, TenantPage!ListShown
  <2>4. PICK e \in TenantPage!Call : e.kind = "VIEW" /\ e.of = i /\ requests' = requests \cup {e}
    <3> DEFINE p == "VIEW" \in TenantPage!Dialogs /\ detail.item = i
               e == [kind |-> "VIEW", of |-> i, on |-> None, shown |-> p]
    <3>1. requests' = requests \cup {e}
      BY <1>2, Zenon DEF TenantPage!HandleView, TenantPage!Send
    <3>2. p \in BOOLEAN
      OBVIOUS
    <3> HIDE DEF p
    <3> QED BY <3>1, <3>2
  <2>5. TenantPage!TypeOK'
    BY <2>1, <2>3, <2>4
  <2>6. TenantPage!WritesOneTenant'
    BY <2>1, <2>3, <2>4
  <2>7. TenantAsked'
    BY <2>2, <2>3, <2>4
  <2>8. TenantWritten'
    BY <2>3, <2>4
  <2> QED BY <2>5, <2>6, <2>7, <2>8
<1>3. ASSUME NEW c \in requests, TenantPage!Viewed(c)
      PROVE  TenantPageInv'
  <2>1. /\ c.kind \in {"VIEW", "REVIEW"} /\ requests' = requests \ {c}
        /\ UNCHANGED <<form, data, asked, box, crossing>>
    BY <1>3 DEF TenantPage!Viewed, TenantPage!Answer
  <2>2. detail' \in TenantPage!Detail /\ detail'.item = c.of /\ detail'.open = detail.open /\ detail'.asked = detail.asked
    <3> DEFINE p == detail.loading /\ c.kind = "REVIEW"
               q == detail.failed /\ c.kind = "REVIEW"
    <3>1. detail' = [detail EXCEPT !.item = c.of, !.loading = p, !.failed = q]
      BY <1>3, Zenon DEF TenantPage!Viewed
    <3>2. p \in BOOLEAN /\ q \in BOOLEAN
      OBVIOUS
    <3> HIDE DEF p, q
    <3> QED BY <3>1, <3>2
  <2>3. TenantPage!TypeOK'
    BY <2>1, <2>2
  <2>4. TenantPage!WritesOneTenant'
    BY <2>1, <2>2
  <2>5. TenantAsked'
    BY <2>1, <2>2
  <2>6. TenantWritten'
    BY <2>1, <2>2
  <2> QED BY <2>3, <2>4, <2>5, <2>6
<1>4. ASSUME NEW c \in requests, TenantPage!ViewFailed(c)
      PROVE  TenantPageInv'
  <2>1. /\ requests' = requests \ {c} /\ c.kind \in {"VIEW", "REVIEW"}
        /\ UNCHANGED <<form, data, asked, box, crossing>>
    BY <1>4 DEF TenantPage!ViewFailed, TenantPage!Answer
  <2>2. /\ detail' \in TenantPage!Detail /\ detail'.open = detail.open /\ detail'.asked = detail.asked
        /\ detail'.item = detail.item
        /\ ~detail'.loading /\ ~detail'.failed => ~detail.loading /\ ~detail.failed
    <3>1. detail' = detail \/ detail' = [detail EXCEPT !.loading = FALSE, !.failed = TRUE]
      BY <1>4 DEF TenantPage!ViewFailed
    <3> QED BY <3>1
  <2>3. TenantPage!TypeOK'
    BY <2>1, <2>2
  <2>4. TenantPage!WritesOneTenant'
    BY <2>1, <2>2
  <2>5. TenantAsked'
    BY <2>1, <2>2
  <2>6. TenantWritten'
    BY <2>1
  <2> QED BY <2>3, <2>4, <2>5, <2>6
<1>5. CASE TenantPage!CloseDetail
  BY <1>5 DEF TenantPage!CloseDetail
<1>6. CASE TenantPage!OpenCreate
  <2>1. crossing' \in BOOLEAN /\ (~crossing' => ~TenantPage!FormAwaited)
    BY <1>6, Zenon DEF TenantPage!OpenCreate
  <2>2. ~crossing' => \A c \in requests : c.kind \notin TenantPage!Saving \cup {"EDIT"}
    BY <2>1 DEF TenantPage!FormAwaited
  <2>3. /\ form' = [form EXCEPT !.open = TRUE, !.editing = None, !.values = None]
        /\ data' = None /\ asked' = FALSE /\ UNCHANGED <<detail, box, requests>>
    BY <1>6 DEF TenantPage!OpenCreate
  <2>4. TenantPage!TypeOK'
    BY <2>1, <2>3
  <2>5. TenantPage!WritesOneTenant'
    BY <2>2, <2>3
  <2>6. TenantAsked' /\ TenantWritten'
    BY <2>2, <2>3
  <2> QED BY <2>4, <2>5, <2>6
<1>7. ASSUME NEW i \in Tenants, TenantPage!OpenEdit(i)
      PROVE  TenantPageInv'
  <2>1. crossing' \in BOOLEAN /\ (~crossing' => ~TenantPage!FormAwaited)
    BY <1>7, Zenon DEF TenantPage!OpenEdit
  <2>2. ~crossing' => \A c \in requests : c.kind \notin TenantPage!Saving \cup {"EDIT"}
    BY <2>1 DEF TenantPage!FormAwaited
  <2>3. /\ form' = [open |-> TRUE, loading |-> TRUE, editing |-> i, values |-> data]
        /\ asked' = FALSE /\ UNCHANGED <<detail, data, box>>
    BY <1>7 DEF TenantPage!OpenEdit
  <2>4. PICK e \in TenantPage!Call : e.kind = "EDIT" /\ e.of = i /\ requests' = requests \cup {e}
    <3> DEFINE p == "EDIT" \in TenantPage!Dialogs /\ detail.item = i
               e == [kind |-> "EDIT", of |-> i, on |-> None, shown |-> p]
    <3>1. requests' = requests \cup {e}
      BY <1>7, Zenon DEF TenantPage!OpenEdit, TenantPage!Send
    <3>2. p \in BOOLEAN
      OBVIOUS
    <3> HIDE DEF p
    <3> QED BY <3>1, <3>2
  <2>5. TenantPage!TypeOK'
    BY <2>1, <2>3, <2>4
  <2>6. TenantPage!WritesOneTenant'
    BY <2>2, <2>3, <2>4
  <2>7. TenantAsked'
    BY <2>1, <2>3, <2>4
  <2>8. TenantWritten'
    BY <2>2, <2>3, <2>4
  <2> QED BY <2>5, <2>6, <2>7, <2>8
<1>8. ASSUME NEW c \in requests, TenantPage!EditLoaded(c)
      PROVE  TenantPageInv'
  <2>1. /\ c.kind = "EDIT" /\ requests' = requests \ {c} /\ data' = c.of
        /\ UNCHANGED <<detail, asked, box, crossing>>
    BY <1>8 DEF TenantPage!EditLoaded, TenantPage!Answer
  <2>2. /\ form' \in TenantPage!Form /\ form'.open = form.open /\ form'.editing = form.editing
        /\ form.open => form'.values = c.of
    BY <1>8, <2>1 DEF TenantPage!EditLoaded
  <2>3. TenantPage!TypeOK'
    BY <2>1, <2>2
  <2>4. \A d \in requests' : d.kind \notin TenantPage!Saving \cup {"EDIT"}
    BY <2>1
  <2>5. form.open => form.editing = c.of /\ ~asked
    BY <2>1
  <2>6. TenantPage!WritesOneTenant'
    BY <2>1, <2>2, <2>4, <2>5
  <2>7. TenantAsked'
    BY <2>1
  <2>8. TenantWritten'
    BY <2>1, <2>2, <2>4, <2>5
  <2> QED BY <2>3, <2>6, <2>7, <2>8
<1>9. ASSUME NEW c \in requests, TenantPage!EditFailed(c)
      PROVE  TenantPageInv'
  <2>1. /\ c.kind = "EDIT" /\ requests' = requests \ {c}
        /\ UNCHANGED <<detail, data, asked, box, crossing>>
    BY <1>9 DEF TenantPage!EditFailed, TenantPage!Answer
  <2>2. form' = [form EXCEPT !.loading = FALSE, !.open = FALSE]
    BY <1>9 DEF TenantPage!EditFailed
  <2>3. TenantPage!TypeOK'
    BY <2>1, <2>2
  <2>4. \A d \in requests' : d.kind \notin TenantPage!Saving \cup {"EDIT"}
    BY <2>1
  <2>5. TenantPage!WritesOneTenant'
    BY <2>1, <2>2, <2>4
  <2>6. TenantAsked' /\ TenantWritten'
    BY <2>1, <2>2, <2>4
  <2> QED BY <2>3, <2>5, <2>6
<1>10. CASE TenantPage!RequestCloseDrawer
  <2>1. form' = [form EXCEPT !.open = FALSE] /\ UNCHANGED <<detail, data, asked, box, requests, crossing>>
    BY <1>10 DEF TenantPage!RequestCloseDrawer
  <2>2. form' \in TenantPage!Form /\ ~form'.open /\ form'.loading = form.loading
    BY <2>1
  <2>3. TenantPage!TypeOK'
    BY <2>1, <2>2
  <2>4. TenantPage!WritesOneTenant'
    BY <2>1, <2>2
  <2>5. TenantAsked'
    BY <2>1
  <2>6. TenantWritten'
    BY <2>1, <2>2
  <2> QED BY <2>3, <2>4, <2>5, <2>6
<1>11. CASE TenantPage!SubmitForm
  <2> DEFINE kind == IF form.editing = None THEN "CREATE" ELSE "UPDATE"
  <2>1. /\ TenantPage!CanSubmit /\ UNCHANGED <<detail, form, data, asked, box, crossing>>
    BY <1>11 DEF TenantPage!SubmitForm
  <2>2. PICK e \in TenantPage!Call : /\ e.kind = kind /\ e.of = form.editing /\ e.on = form.values
                                     /\ requests' = requests \cup {e}
    <3> DEFINE p == kind \in TenantPage!Dialogs /\ detail.item = form.editing
               e == [kind |-> kind, of |-> form.editing, on |-> form.values, shown |-> p]
    <3>1. requests' = requests \cup {e}
      BY <1>11, Zenon DEF TenantPage!SubmitForm, TenantPage!Send
    <3>2. p \in BOOLEAN /\ kind \in TenantPage!Saving
      OBVIOUS
    <3> HIDE DEF p, kind
    <3>3. e \in TenantPage!Call
      BY <3>2
    <3> QED BY <3>1, <3>3
  <2>3. \A c \in requests : c.kind \notin TenantPage!Saving \cup {"EDIT"}
    BY <2>1
  <2>4. e.kind = "CREATE" => ~asked /\ e.of = None
    BY <2>1, <2>2
  <2>5. e.on \in {e.of, None} /\ (e.on = None => e.of \in {New, None})
    BY <2>1, <2>2
  <2>6. TenantPage!TypeOK'
    BY <2>1, <2>2
  <2>7. TenantPage!WritesOneTenant'
    BY <2>1, <2>2, <2>3, <2>4, <2>5
  <2>8. TenantAsked'
    BY <2>1, <2>2
  <2>9. TenantWritten'
    BY <2>1, <2>2, <2>3, <2>4
  <2> QED BY <2>6, <2>7, <2>8, <2>9
<1>12. ASSUME NEW c \in requests, TenantPage!Created(c)
       PROVE  TenantPageInv'
  <2>1. /\ c.kind = "CREATE" /\ form' = [form EXCEPT !.editing = New] /\ asked' = TRUE
        /\ UNCHANGED <<detail, data, box, crossing>>
    BY <1>12 DEF TenantPage!Created
  <2>2. PICK e \in TenantPage!Call : /\ e.kind = "PICTURES" /\ e.of = New /\ e.on = c.on
                                     /\ requests' = (requests \ {c}) \cup {e}
    <3> DEFINE e == [c EXCEPT !.kind = "PICTURES", !.of = New]
    <3>1. requests' = (requests \ {c}) \cup {e}
      BY <1>12 DEF TenantPage!Created, TenantPage!Becomes
    <3>2. c \in TenantPage!Call
      OBVIOUS
    <3>3. e \in TenantPage!Call /\ e.kind = "PICTURES" /\ e.of = New /\ e.on = c.on
      BY <3>2
    <3> HIDE DEF e
    <3> QED BY <3>1, <3>3
  <2>3. \A d \in requests \ {c} : d.kind \notin TenantPage!Saving \cup {"EDIT"}
    BY <2>1
  <2>4. c.on = None /\ c.of = None /\ (form.open /\ ~form.loading => form.values = None)
    BY <2>1
  <2>5. TenantPage!TypeOK'
    BY <2>1, <2>2
  <2>6. TenantPage!WritesOneTenant'
    BY <2>1, <2>2, <2>3, <2>4
  <2>7. TenantAsked'
    BY <2>1, <2>2
  <2>8. TenantWritten'
    BY <2>1, <2>2, <2>3, <2>4
  <2> QED BY <2>5, <2>6, <2>7, <2>8
<1>13. ASSUME NEW c \in requests, TenantPage!Updated(c)
       PROVE  TenantPageInv'
  <2>1. c.kind = "UPDATE" /\ UNCHANGED <<detail, form, data, asked, box, crossing>>
    BY <1>13 DEF TenantPage!Updated
  <2>2. PICK e \in TenantPage!Call : /\ e.kind = "PICTURES" /\ e.of = c.of /\ e.on = c.on
                                     /\ requests' = (requests \ {c}) \cup {e}
    <3> DEFINE e == [c EXCEPT !.kind = "PICTURES", !.of = c.of]
    <3>1. requests' = (requests \ {c}) \cup {e}
      BY <1>13 DEF TenantPage!Updated, TenantPage!Becomes
    <3>2. c \in TenantPage!Call
      OBVIOUS
    <3>3. e \in TenantPage!Call /\ e.kind = "PICTURES" /\ e.of = c.of /\ e.on = c.on
      BY <3>2
    <3> HIDE DEF e
    <3> QED BY <3>1, <3>3
  <2>3. TenantPage!TypeOK'
    BY <2>1, <2>2
  <2>4. TenantPage!WritesOneTenant'
    BY <2>1, <2>2
  <2>5. TenantAsked'
    BY <2>1, <2>2
  <2>6. TenantWritten'
    BY <2>1, <2>2
  <2> QED BY <2>3, <2>4, <2>5, <2>6
<1>14. ASSUME NEW c \in requests, TenantPage!PicturesSaved(c)
       PROVE  TenantPageInv'
  <2>1. /\ requests' = requests \ {c} /\ form' = [form EXCEPT !.open = FALSE]
        /\ UNCHANGED <<detail, data, asked, box, crossing>>
    BY <1>14 DEF TenantPage!PicturesSaved, TenantPage!Answer
  <2>2. form' \in TenantPage!Form /\ ~form'.open /\ form'.loading = form.loading
    BY <2>1
  <2>3. TenantPage!TypeOK'
    BY <2>1, <2>2
  <2>4. TenantPage!WritesOneTenant'
    BY <2>1, <2>2
  <2>5. TenantAsked'
    BY <2>1
  <2>6. TenantWritten'
    BY <2>1, <2>2
  <2> QED BY <2>3, <2>4, <2>5, <2>6
<1>15. ASSUME NEW c \in requests, TenantPage!SaveFailed(c)
       PROVE  TenantPageInv'
  BY <1>15 DEF TenantPage!SaveFailed, TenantPage!Answer
<1>16. ASSUME NEW d \in TenantPage!Dialogs, NEW i \in Tenants, TenantPage!SetTarget(d, i)
       PROVE  TenantPageInv'
  <2>1. crossing' \in BOOLEAN
    BY <1>16, Zenon DEF TenantPage!SetTarget
  <2>2. box' = [box EXCEPT ![d] = i] /\ UNCHANGED <<detail, form, data, asked, requests>> /\ ~detail.open
    BY <1>16 DEF TenantPage!SetTarget, TenantPage!ListShown
  <2> QED BY <2>1, <2>2
<1>17. ASSUME NEW d \in TenantPage!Dialogs, TenantPage!CancelDialog(d)
       PROVE  TenantPageInv'
  BY <1>17 DEF TenantPage!CancelDialog
<1>18. ASSUME NEW d \in TenantPage!Dialogs, TenantPage!Confirm(d)
       PROVE  TenantPageInv'
  <2>1. box[d] # None /\ UNCHANGED <<detail, form, data, asked, box, crossing>>
    BY <1>18 DEF TenantPage!Confirm
  <2>2. PICK e \in TenantPage!Call : e.kind = d /\ requests' = requests \cup {e}
    <3> DEFINE p == d \in TenantPage!Dialogs /\ detail.item = box[d]
               e == [kind |-> d, of |-> box[d], on |-> None, shown |-> p]
    <3>1. requests' = requests \cup {e}
      BY <1>18, Zenon DEF TenantPage!Confirm, TenantPage!Send
    <3>2. p \in BOOLEAN
      OBVIOUS
    <3> HIDE DEF p
    <3> QED BY <3>1, <3>2
  <2>3. ~detail.open
    BY <2>1
  <2>4. TenantPage!TypeOK'
    BY <2>1, <2>2
  <2>5. TenantPage!WritesOneTenant'
    BY <2>1, <2>2, <2>3
  <2>6. TenantAsked' /\ TenantWritten'
    BY <2>1, <2>2, <2>3
  <2> QED BY <2>4, <2>5, <2>6
<1>19. ASSUME NEW c \in requests, TenantPage!Deleted(c)
       PROVE  TenantPageInv'
  <2>1. /\ c.kind = "DELETE" /\ requests' = requests \ {c} /\ box' = [box EXCEPT !["DELETE"] = None]
        /\ UNCHANGED <<form, data, asked, crossing>>
    BY <1>19 DEF TenantPage!Deleted, TenantPage!Answer
  <2>2. detail' = detail \/ detail' = [detail EXCEPT !.open = FALSE, !.item = None]
    BY <1>19 DEF TenantPage!Deleted
  <2>3. TenantPage!TypeOK'
    BY <2>1, <2>2
  <2>4. TenantPage!WritesOneTenant'
    BY <2>1, <2>2
  <2>5. TenantAsked' /\ TenantWritten'
    BY <2>1, <2>2
  <2> QED BY <2>3, <2>4, <2>5
<1>20. ASSUME NEW c \in requests, TenantPage!AccountSwitched(c)
       PROVE  TenantPageInv'
  <2>1. /\ c.kind = "ACCOUNT" /\ box' = [box EXCEPT !["ACCOUNT"] = None]
        /\ UNCHANGED <<detail, form, data, asked, crossing>>
    BY <1>20 DEF TenantPage!AccountSwitched
  <2>2. PICK e \in TenantPage!Call : /\ e.kind = "REVIEW" /\ e.of = c.of
                                     /\ requests' \subseteq (requests \ {c}) \cup {e}
    <3> DEFINE e == [c EXCEPT !.kind = "REVIEW", !.of = c.of]
    <3>1. requests' \subseteq (requests \ {c}) \cup {e}
      BY <1>20 DEF TenantPage!AccountSwitched, TenantPage!Becomes, TenantPage!Answer
    <3>2. c \in TenantPage!Call
      OBVIOUS
    <3>3. e \in TenantPage!Call /\ e.kind = "REVIEW" /\ e.of = c.of
      BY <3>2
    <3> HIDE DEF e
    <3> QED BY <3>1, <3>3
  <2>3. TenantPage!TypeOK'
    BY <2>1, <2>2
  <2>4. TenantPage!WritesOneTenant'
    BY <2>1, <2>2
  <2>5. TenantAsked' /\ TenantWritten'
    BY <2>1, <2>2
  <2> QED BY <2>3, <2>4, <2>5
<1>21. ASSUME NEW c \in requests, TenantPage!DialogFailed(c)
       PROVE  TenantPageInv'
  BY <1>21 DEF TenantPage!DialogFailed, TenantPage!Answer
<1> HIDE DEF TenantPageInv
<1>22. ASSUME NEW c \in requests,
              \/ TenantPage!Viewed(c) \/ TenantPage!ViewFailed(c) \/ TenantPage!EditLoaded(c) \/ TenantPage!EditFailed(c)
              \/ TenantPage!Created(c) \/ TenantPage!Updated(c) \/ TenantPage!PicturesSaved(c)
              \/ TenantPage!SaveFailed(c) \/ TenantPage!Deleted(c) \/ TenantPage!AccountSwitched(c)
              \/ TenantPage!DialogFailed(c)
       PROVE  TenantPageInv'
  BY <1>3, <1>4, <1>8, <1>9, <1>12, <1>13, <1>14, <1>15, <1>19, <1>20, <1>21, <1>22, Zenon
<1> QED BY <1>2, <1>5, <1>6, <1>7, <1>10, <1>11, <1>16, <1>17, <1>18, <1>22, Zenon DEF TenantPage!Next
-----------------------------------------------------------------------------
(* The list of payments. *)

\* A tick stands for the proof that waits for its review, but for those that
\* others were faster with; and nothing is confirmed while no dialog asks.
TicksArePending ==
    /\ \A r \in PaymentPage!Selected \ cause : data[r].n = detail[r] /\ data[r].pending
    /\ box.dialog = "NONE" => box.proofs = {}

\* What is awaited is of the filter that is chosen.
ListOfItsFilter == ~crossing => \A c \in requests : c.under = form.filter

PaymentPageInv == PaymentPage!TypeOK /\ PaymentPage!SendsWhatWasTicked /\ TicksArePending /\ ListOfItsFilter

\* Ticked requests are offered with the proof of their row, which is its own.
LEMMA OfferedProofs ==
  ASSUME PaymentPage!PaymentsPageAssumption, PaymentPage!TypeOK
  PROVE  /\ PaymentPage!SelectedProofIds \subseteq PaymentPage!Proofs
         /\ \A p \in PaymentPage!SelectedProofIds :
              /\ p[1] \in PaymentPage!Selected /\ p[1] \in form.shown
              /\ form.rows[p[1]].pending /\ p[2] = form.rows[p[1]].n
<1> USE DEF PaymentPage!TypeOK, PaymentPage!SelectedProofIds
<1>1. SUFFICES ASSUME NEW r \in PaymentPage!Selected, r \in form.shown, form.rows[r].pending
               PROVE  <<r, form.rows[r].n>> \in PaymentPage!Proofs
  OBVIOUS
<1>2. r \in Requests /\ form.rows[r].n \in 1..MaxProofs
  BY <1>1 DEF PaymentPage!Selected, PaymentPage!List, PaymentPage!Latest
<1> QED BY <1>2 DEF PaymentPage!Proofs

\* The page of the payments opens in its invariant.
LEMMA PaymentPageInit ==
  ASSUME PaymentPage!PaymentsPageAssumption, PaymentPage!Init PROVE PaymentPageInv
<1>1. /\ data = [r \in Requests |-> [n |-> 1, pending |-> TRUE]]
      /\ detail = [r \in Requests |-> 0] /\ cause = {}
      /\ box = [dialog |-> "NONE", proofs |-> {}] /\ requests = {} /\ crossing = FALSE
  BY DEF PaymentPage!Init, PaymentPage!NoBulk
<1>2. PICK f \in ProofFilters :
        form = [filter |-> f, loading |-> FALSE, failed |-> FALSE, shown |-> f, rows |-> data]
  BY DEF PaymentPage!Init
<1>3. data \in PaymentPage!Latest
  BY <1>1 DEF PaymentPage!Latest, PaymentPage!PaymentsPageAssumption
<1>4. form \in PaymentPage!List
  BY <1>2, <1>3 DEF PaymentPage!List
<1>5. PaymentPage!Selected = {}
  BY <1>1 DEF PaymentPage!Selected
<1>6. PaymentPage!TypeOK
  <2>1. box \in PaymentPage!Bulk /\ requests \subseteq PaymentPage!Call /\ crossing \in BOOLEAN
    BY <1>1 DEF PaymentPage!Bulk
  <2>2. detail \in [Requests -> 0..MaxProofs]
    BY <1>1 DEF PaymentPage!PaymentsPageAssumption
  <2> QED BY <1>1, <1>3, <1>4, <2>1, <2>2 DEF PaymentPage!TypeOK
<1>7. PaymentPage!SendsWhatWasTicked
  BY <1>1, <1>2, <1>5 DEF PaymentPage!SendsWhatWasTicked, PaymentPage!SelectedProofIds
<1> QED BY <1>1, <1>5, <1>6, <1>7 DEF PaymentPageInv, TicksArePending, ListOfItsFilter

\* Every step of the page of the payments keeps its invariant.
LEMMA PaymentPageStep ==
  ASSUME PaymentPage!PaymentsPageAssumption, PaymentPageInv, [PaymentPage!Next]_(PaymentPage!vars)
  PROVE  PaymentPageInv'
<1> USE DEF PaymentPageInv, PaymentPage!PaymentsPageAssumption, PaymentPage!TypeOK, PaymentPage!SendsWhatWasTicked,
            TicksArePending, ListOfItsFilter, PaymentPage!Latest, PaymentPage!List, PaymentPage!Bulk,
            PaymentPage!Call, PaymentPage!NoBulk, PaymentPage!Selected
<1>1. CASE UNCHANGED PaymentPage!vars
  <2>1. PaymentPage!SelectedProofIds' = PaymentPage!SelectedProofIds
    BY <1>1 DEF PaymentPage!vars, PaymentPage!SelectedProofIds
  <2> QED BY <1>1, <2>1 DEF PaymentPage!vars
<1>a. ~crossing => \A p \in PaymentPage!SelectedProofIds : detail[p[1]] = p[2] \/ p[1] \in cause
  OBVIOUS
<1> SUFFICES ASSUME PaymentPage!Next, ~crossing
             PROVE  PaymentPageInv'
  BY <1>1 DEF PaymentPage!Next
<1>2. ASSUME NEW r \in Requests, PaymentPage!SubmitProof(r)
      PROVE  PaymentPageInv'
  <2>1. /\ ~data[r].pending /\ data[r].n < MaxProofs
        /\ data' = [data EXCEPT ![r] = [n |-> data[r].n + 1, pending |-> TRUE]]
        /\ UNCHANGED <<form, detail, box, requests, cause, crossing>>
    BY <1>2 DEF PaymentPage!SubmitProof
  <2>2. data' \in PaymentPage!Latest
    BY <2>1
  <2>3. PaymentPage!SelectedProofIds' = PaymentPage!SelectedProofIds
    BY <2>1 DEF PaymentPage!SelectedProofIds
  <2>4. TicksArePending'
    BY <2>1
  <2> QED BY <2>1, <2>2, <2>3, <2>4
<1>3. ASSUME NEW r \in Requests, PaymentPage!ReviewedElsewhere(r)
      PROVE  PaymentPageInv'
  <2>1. /\ data' = [data EXCEPT ![r].pending = FALSE]
        /\ cause' = cause \cup ({r} \cap PaymentPage!Selected)
        /\ UNCHANGED <<form, detail, box, requests, crossing>>
    BY <1>3 DEF PaymentPage!ReviewedElsewhere
  <2>2. data' \in PaymentPage!Latest
    <3>1. data[r] \in [n : 1..MaxProofs, pending : BOOLEAN]
      OBVIOUS
    <3>2. [data[r] EXCEPT !.pending = FALSE] \in [n : 1..MaxProofs, pending : BOOLEAN]
      BY <3>1
    <3>3. data' = [data EXCEPT ![r] = [data[r] EXCEPT !.pending = FALSE]]
      BY <2>1
    <3> QED BY <3>2, <3>3
  <2>3. PaymentPage!SelectedProofIds' = PaymentPage!SelectedProofIds
    BY <2>1 DEF PaymentPage!SelectedProofIds
  <2>4. TicksArePending'
    BY <2>1
  <2> QED BY <2>1, <2>2, <2>3, <2>4
<1>4. ASSUME NEW f \in ProofFilters, PaymentPage!LoadData(f)
      PROVE  PaymentPageInv'
  <2>1. crossing' \in BOOLEAN /\ (~crossing' => ~(f # form.filter /\ requests # {}))
    BY <1>4, Zenon DEF PaymentPage!LoadData
  <2>2. /\ form' = [form EXCEPT !.filter = f, !.loading = TRUE]
        /\ UNCHANGED <<data, detail, box, cause>>
    BY <1>4 DEF PaymentPage!LoadData
  <2>3. PICK e \in PaymentPage!Call : e.under = f /\ requests' = requests \cup {e}
    BY <1>4 DEF PaymentPage!LoadData, PaymentPage!Send, PaymentPage!Load
  <2>4. form' \in PaymentPage!List /\ form'.loading /\ form'.shown = form.shown /\ form'.rows = form.rows
    BY <2>2
  <2>5. PaymentPage!SelectedProofIds' = PaymentPage!SelectedProofIds
    BY <2>2, <2>4 DEF PaymentPage!SelectedProofIds
  <2>6. ListOfItsFilter'
    BY <2>1, <2>2, <2>3
  <2>7. PaymentPage!TypeOK'
    BY <2>1, <2>2, <2>3, <2>4
  <2>8. PaymentPage!SendsWhatWasTicked' /\ TicksArePending'
    BY <2>2, <2>4, <2>5
  <2> QED BY <2>6, <2>7, <2>8
<1>5. ASSUME NEW c \in requests, PaymentPage!ListLoaded(c)
      PROVE  PaymentPageInv'
  <2>1. /\ requests' = requests \ {c}
        /\ form' = [form EXCEPT !.loading = FALSE, !.failed = FALSE, !.shown = c.under, !.rows = data]
        /\ UNCHANGED <<data, detail, box, cause, crossing>>
    BY <1>5 DEF PaymentPage!ListLoaded
  <2>2. /\ form' \in PaymentPage!List /\ form'.shown = c.under /\ form'.filter = form.filter /\ form'.rows = data
    BY <2>1
  <2>3. PaymentPage!TypeOK'
    BY <2>1, <2>2
  <2>4. \A p \in PaymentPage!SelectedProofIds' : detail'[p[1]] = p[2] \/ p[1] \in cause'
    <3>1. \A p \in PaymentPage!SelectedProofIds' : p[1] \in PaymentPage!Selected' /\ p[2] = form'.rows[p[1]].n
      BY DEF PaymentPage!SelectedProofIds
    <3> QED BY <2>1, <2>2, <3>1
  <2>5. PaymentPage!SendsWhatWasTicked'
    BY <2>1, <2>2, <2>4
  <2> QED BY <2>1, <2>2, <2>3, <2>5
<1>6. ASSUME NEW c \in requests, PaymentPage!ListFailed(c)
      PROVE  PaymentPageInv'
  <2>1. /\ requests' = requests \ {c} /\ form' = [form EXCEPT !.loading = FALSE, !.failed = TRUE]
        /\ UNCHANGED <<data, detail, box, cause, crossing>>
    BY <1>6 DEF PaymentPage!ListFailed
  <2>2. PaymentPage!SelectedProofIds' = PaymentPage!SelectedProofIds
    BY <2>1 DEF PaymentPage!SelectedProofIds
  <2> QED BY <2>1, <2>2
<1>7. ASSUME NEW r \in Requests, PaymentPage!Tick(r)
      PROVE  PaymentPageInv'
  <2>1. /\ box.dialog = "NONE" /\ r \in form.shown /\ form.rows[r].pending
        /\ detail' = [q \in Requests |-> IF q \notin form.shown THEN 0
                                         ELSE IF q # r THEN detail[q]
                                         ELSE IF detail[r] = 0 THEN form.rows[r].n ELSE 0]
        /\ cause' = ((cause \cap form.shown) \ {r})
                      \cup (IF detail[r] # 0 \/ data[r] = form.rows[r] THEN {} ELSE {r})
        /\ UNCHANGED <<data, form, box, requests, crossing>>
    BY <1>7 DEF PaymentPage!Tick
  <2>2. form.rows[r].n \in 1..MaxProofs /\ box.proofs = {}
    BY <2>1
  <2>3. detail' \in [Requests -> 0..MaxProofs]
    BY <2>1, <2>2
  <2>4. cause' \subseteq PaymentPage!Selected'
    BY <2>1, <2>2
  <2>5. PaymentPage!TypeOK'
    BY <2>1, <2>3, <2>4
  <2>6. TicksArePending'
    BY <2>1, <2>2
  <2>7. ASSUME NEW p \in PaymentPage!SelectedProofIds'
        PROVE  detail'[p[1]] = p[2] \/ p[1] \in cause'
    <3>1. /\ p[1] \in PaymentPage!Selected' /\ p[1] \in form.shown /\ form.rows[p[1]].pending
          /\ p[2] = form.rows[p[1]].n
      <4>1. /\ p[1] \in PaymentPage!Selected' /\ p[1] \in form'.shown /\ form'.rows[p[1]].pending
            /\ p[2] = form'.rows[p[1]].n
        BY DEF PaymentPage!SelectedProofIds
      <4> QED BY <2>1, <4>1
    <3>2. CASE p[1] = r
      BY <2>1, <3>1, <3>2
    <3>3. CASE p[1] # r
      <4>1. p[1] \in Requests /\ detail'[p[1]] = detail[p[1]] /\ p[1] \in PaymentPage!Selected
        BY <2>1, <3>1, <3>3
      <4>2. <<p[1], form.rows[p[1]].n>> \in PaymentPage!SelectedProofIds
        BY <3>1, <4>1 DEF PaymentPage!SelectedProofIds
      <4>3. detail[p[1]] = p[2] \/ p[1] \in cause
        BY <3>1, <4>2
      <4> QED BY <2>1, <3>1, <3>3, <4>1, <4>3
    <3> QED BY <3>2, <3>3
  <2>8. PaymentPage!SendsWhatWasTicked'
    BY <2>1, <2>2, <2>7
  <2> QED BY <2>1, <2>5, <2>6, <2>8
<1>8. ASSUME NEW dialog \in {"APPROVE", "REJECT"}, PaymentPage!OpenBulk(dialog)
      PROVE  PaymentPageInv'
  <2>1. /\ box' = [dialog |-> dialog, proofs |-> IF dialog = "APPROVE" THEN PaymentPage!SelectedProofIds ELSE {}]
        /\ UNCHANGED <<data, form, detail, requests, cause, crossing>>
    BY <1>8 DEF PaymentPage!OpenBulk
  <2>2. PaymentPage!SelectedProofIds' = PaymentPage!SelectedProofIds
    BY <2>1 DEF PaymentPage!SelectedProofIds
  <2>3. PaymentPage!SelectedProofIds \subseteq PaymentPage!Proofs
    BY OfferedProofs, Zenon
  <2>4. box'.proofs \subseteq PaymentPage!SelectedProofIds /\ box'.dialog # "NONE"
    BY <2>1
  <2>5. PaymentPage!TypeOK'
    BY <2>1, <2>3
  <2> QED BY <2>1, <2>2, <2>4, <2>5
<1>9. CASE PaymentPage!CancelBulk
  <2>1. box' = [dialog |-> "NONE", proofs |-> {}] /\ UNCHANGED <<data, form, detail, requests, cause, crossing>>
    BY <1>9 DEF PaymentPage!CancelBulk
  <2>2. PaymentPage!SelectedProofIds' = PaymentPage!SelectedProofIds
    BY <2>1 DEF PaymentPage!SelectedProofIds
  <2> QED BY <2>1, <2>2
<1>10. CASE PaymentPage!RunBulkReview
  <2>1. UNCHANGED <<data, form, detail, box, cause, crossing>>
    BY <1>10 DEF PaymentPage!RunBulkReview
  <2>2. PaymentPage!SelectedProofIds' = PaymentPage!SelectedProofIds
    BY <2>1 DEF PaymentPage!SelectedProofIds
  <2>3. PaymentPage!SelectedProofIds \subseteq PaymentPage!Proofs
    BY OfferedProofs, Zenon
  <2>4. PICK e \in PaymentPage!Call : e.under = form.filter /\ requests' = requests \cup {e}
    BY <1>10, <2>3 DEF PaymentPage!RunBulkReview, PaymentPage!Send
  <2> QED BY <2>1, <2>2, <2>4
<1>11. ASSUME NEW c \in requests, NEW settled \in SUBSET c.proofs
       PROVE  /\ PaymentPage!ReviewedAs(settled) \in PaymentPage!Latest
              /\ \A r \in Requests :
                   /\ PaymentPage!ReviewedAs(settled)[r].n = data[r].n
                   /\ (PaymentPage!ReviewedAs(settled)[r].pending <=> (data[r].pending /\ <<r, data[r].n>> \notin settled))
  <2> DEFINE Row(r) == IF <<r, data[r].n>> \in settled THEN [data[r] EXCEPT !.pending = FALSE] ELSE data[r]
  <2>1. ASSUME NEW r \in Requests
        PROVE  /\ Row(r) \in [n : 1..MaxProofs, pending : BOOLEAN] /\ Row(r).n = data[r].n
               /\ (Row(r).pending <=> (data[r].pending /\ <<r, data[r].n>> \notin settled))
    <3>1. data[r] \in [n : 1..MaxProofs, pending : BOOLEAN]
      OBVIOUS
    <3>2. CASE <<r, data[r].n>> \in settled
      BY <3>1, <3>2
    <3>3. CASE <<r, data[r].n>> \notin settled
      BY <3>1, <3>3
    <3> QED BY <3>2, <3>3
  <2>2. PaymentPage!ReviewedAs(settled) = [r \in Requests |-> Row(r)]
    BY DEF PaymentPage!ReviewedAs
  <2> HIDE DEF Row
  <2>3. PaymentPage!ReviewedAs(settled) \in PaymentPage!Latest
    <3>1. \A r \in Requests : Row(r) \in [n : 1..MaxProofs, pending : BOOLEAN]
      BY <2>1, Zenon
    <3> HIDE <2>1
    <3> QED BY <2>2, <3>1
  <2>4. \A r \in Requests : PaymentPage!ReviewedAs(settled)[r] = Row(r)
    BY <2>2, Zenon
  <2> QED BY <2>1, <2>3, <2>4, Zenon
<1>12. ASSUME NEW c \in requests, NEW settled \in SUBSET c.proofs, PaymentPage!BulkReviewed(c, settled)
       PROVE  PaymentPageInv'
  <2>1. /\ data' = PaymentPage!ReviewedAs(settled) /\ detail' = [r \in Requests |-> 0] /\ cause' = {}
        /\ box' = [dialog |-> "NONE", proofs |-> {}] /\ form' = [form EXCEPT !.loading = TRUE]
        /\ UNCHANGED crossing
    BY <1>12 DEF PaymentPage!BulkReviewed, PaymentPage!Reloads
  <2>2. PICK e \in PaymentPage!Call : e.under = c.under /\ requests' = (requests \ {c}) \cup {e}
    BY <1>12 DEF PaymentPage!BulkReviewed, PaymentPage!Reloads, PaymentPage!Load
  <2>3. PaymentPage!Selected' = {}
    BY <2>1
  <2>4. PaymentPage!SelectedProofIds' = {}
    BY <2>3 DEF PaymentPage!SelectedProofIds
  <2>5. PaymentPage!TypeOK'
    <3>1. data' \in PaymentPage!Latest
      BY <1>11, <2>1, Zenon
    <3>2. form' \in PaymentPage!List /\ box' \in PaymentPage!Bulk
      BY <2>1
    <3>3. detail' \in [Requests -> 0..MaxProofs]
      BY <2>1
    <3> QED BY <2>1, <2>2, <3>1, <3>2, <3>3
  <2> QED BY <2>1, <2>2, <2>3, <2>4, <2>5
<1>13. ASSUME NEW c \in requests, NEW settled \in SUBSET c.proofs, PaymentPage!BulkFailed(c, settled)
       PROVE  PaymentPageInv'
  <2>1. /\ data' = PaymentPage!ReviewedAs(settled) /\ requests' = requests \ {c}
        /\ cause' = cause \cup ({p[1] : p \in settled} \cap PaymentPage!Selected)
        /\ box' \in {box, [dialog |-> "NONE", proofs |-> {}]}
        /\ UNCHANGED <<form, detail, crossing>>
    BY <1>13 DEF PaymentPage!BulkFailed
  <2>2. PaymentPage!SelectedProofIds' = PaymentPage!SelectedProofIds
    BY <2>1 DEF PaymentPage!SelectedProofIds
  <2>3. PaymentPage!TypeOK'
    BY <1>11, <2>1
  <2>4. PaymentPage!SendsWhatWasTicked'
    BY <2>1, <2>2
  <2>5. TicksArePending'
    <3>1. SUFFICES ASSUME NEW r \in PaymentPage!Selected, r \notin cause'
                   PROVE  data'[r].n = detail'[r] /\ data'[r].pending
      BY <2>1
    <3>2. r \in Requests /\ r \notin cause /\ <<r, data[r].n>> \notin settled
      BY <2>1, <3>1
    <3> QED BY <1>11, <2>1, <3>1, <3>2
  <2> QED BY <2>1, <2>3, <2>4, <2>5
<1> HIDE DEF PaymentPageInv
<1> QED BY <1>2, <1>3, <1>4, <1>5, <1>6, <1>7, <1>8, <1>9, <1>10, <1>12, <1>13, Zenon DEF PaymentPage!Next
-----------------------------------------------------------------------------
(* The drawer of an invoice. *)

\* The answers that can put an invoice into the drawer: to delete one does not,
\* and one that is void is not voided again.
Puts(c) == /\ InvoicePage!Fills(c) /\ c.kind # "DELETE"
           /\ c.kind = "VOID" => data[c.of] # "VOID"

ReplacementListed(c) == c.kind = "REPLACE" /\ c.step = "LIST"

\* The drawer is open, or a dialog that goes by it.
InvoiceHeld == detail.open \/ box.dialog \notin InvoicePage!ById \cup {"NONE"}

\* A dialog is about an invoice, and one that goes by the drawer about what that
\* has; one replacement is made at a time.
DialogOfItsInvoice ==
    /\ box.dialog # "NONE" => box.of \in Invoices
    /\ \A c \in requests : c.kind \in InvoicePage!ById => c.step # "READ"
    /\ \A c, d \in requests : c.kind = "REPLACE" /\ d.kind = "REPLACE" => c = d
    /\ ~crossing =>
         /\ box.dialog \notin InvoicePage!ById \cup {"NONE"} => detail.item = box.of /\ detail.asked = box.of
         /\ detail.open /\ box.dialog # "NONE" =>
              detail.item \in Invoices /\ (detail.item = detail.asked \/ data[detail.item] = "VOID")

\* What is awaited for the drawer is of the invoice asked for last.
DrawerAwaitsItsInvoice ==
    ~crossing /\ InvoiceHeld =>
        \A c \in requests : Puts(c) /\ ~ReplacementListed(c) => c.of = detail.asked

\* While an invoice is replaced the drawer has it or its replacement.
DrawerOfTheReplaced ==
    ~crossing => \A c \in requests : c.kind = "REPLACE" =>
        LET old == IF c.step = "SENT" THEN c.of ELSE asked[c.of]
        IN  /\ c.step # "SENT" => old \in Invoices /\ data[old] = "VOID"
            /\ detail.item \in {old, c.of}
            /\ \A d \in requests : Puts(d) => d.of \in {old, c.of}

InvoicePageInv ==
    /\ InvoicePage!TypeOK /\ InvoicePage!ActsOnItsInvoice
    /\ DialogOfItsInvoice /\ DrawerAwaitsItsInvoice /\ DrawerOfTheReplaced

\* The page of the invoices opens in its invariant.
LEMMA InvoicePageInit ==
  ASSUME InvoicePage!InvoiceDetailAssumption, InvoicePage!Init PROVE InvoicePageInv
<1> USE DEF InvoicePage!Init, InvoicePage!NoBox
<1>1. InvoicePage!TypeOK
  <2>1. data \in [Invoices -> InvoicePage!Phase] /\ asked \in [Invoices -> InvoicePage!Invoice]
    BY DEF InvoicePage!Phase, InvoicePage!Invoice
  <2>2. detail \in InvoicePage!Detail /\ box \in InvoicePage!Box
    BY DEF InvoicePage!Phase, InvoicePage!Invoice, InvoicePage!Detail, InvoicePage!Box
  <2> QED BY <2>1, <2>2 DEF InvoicePage!TypeOK, InvoicePage!Invoice
<1>2. InvoicePage!ActsOnItsInvoice
  BY DEF InvoicePage!ActsOnItsInvoice
<1>3. DialogOfItsInvoice
  BY DEF DialogOfItsInvoice
<1>4. DrawerAwaitsItsInvoice
  BY DEF DrawerAwaitsItsInvoice
<1>5. DrawerOfTheReplaced
  BY DEF DrawerOfTheReplaced
<1> QED BY <1>1, <1>2, <1>3, <1>4, <1>5 DEF InvoicePageInv

\* What a request makes of an invoice leaves one that is void as it is.
LEMMA VoidStays ==
  ASSUME InvoicePage!TypeOK, NEW c \in requests, NEW to, InvoicePage!Done(c, to)
  PROVE  /\ data' \in [Invoices -> InvoicePage!Phase] /\ asked' = asked
         /\ \A i \in Invoices : data[i] = "VOID" => data'[i] = "VOID"
         /\ data'[c.of] = to
<1> USE DEF InvoicePage!TypeOK, InvoicePage!Call
<1>1. /\ to \in InvoicePage!Outcomes(c.kind, data[c.of]) /\ data' = [data EXCEPT ![c.of] = to] /\ asked' = asked
  BY DEF InvoicePage!Done
<1>2. to \in InvoicePage!Phase /\ (data[c.of] = "VOID" => to = "VOID")
  BY <1>1 DEF InvoicePage!Outcomes, InvoicePage!Phase, InvoicePage!Dialogs, InvoicePage!Own, InvoicePage!ById,
              InvoicePage!Acts
<1> QED BY <1>1, <1>2

\* An invoice that is replaced is void, and stays so.
LEMMA VoidIsReplaced ==
  ASSUME InvoicePage!TypeOK, NEW i \in Invoices, NEW new \in Invoices, InvoicePage!Replaces(i, new)
  PROVE  /\ data' \in [Invoices -> InvoicePage!Phase] /\ asked' \in [Invoices -> InvoicePage!Invoice]
         /\ \A j \in Invoices : data[j] = "VOID" => data'[j] = "VOID"
         /\ data[i] = "VOID" /\ asked'[new] = i
<1>1. /\ InvoicePage!RowOf(i) = "VOID" /\ data[new] = "NONE"
      /\ data' = [data EXCEPT ![new] = "DRAFT"] /\ asked' = [asked EXCEPT ![new] = i]
  BY DEF InvoicePage!Replaces
<1>2. data[i] = "VOID"
  BY <1>1 DEF InvoicePage!RowOf
<1> QED BY <1>1, <1>2 DEF InvoicePage!TypeOK, InvoicePage!Phase, InvoicePage!Invoice

\* A request that is answered, or goes on with its next, and may have put its
\* invoice into the drawer.
LEMMA InvoiceAnswered ==
  ASSUME InvoicePageInv, ~crossing, NEW c \in requests, NEW e \in InvoicePage!Call,
         \/ requests' \subseteq requests \ {c}
         \/ c.kind # "REPLACE" /\ requests' \subseteq (requests \ {c}) \cup {e},
         e.kind = c.kind, e.of = c.of, e.on = c.on,
         e.step = "LIST" \/ (e.step = "READ" /\ c.step = "SENT" /\ c.kind \notin InvoicePage!ById),
         data' \in [Invoices -> InvoicePage!Phase], asked' \in [Invoices -> InvoicePage!Invoice],
         c.kind = "REPLACE" \/ asked' = asked,
         \A i \in Invoices : data[i] = "VOID" => data'[i] = "VOID",
         box' \in {box, InvoicePage!NoBox}, crossing' = crossing,
         form' \in InvoicePage!Invoice, detail' \in InvoicePage!Detail,
         detail'.open => detail.open, detail'.asked = detail.asked,
         \/ detail'.item = detail.item
         \/ Puts(c) /\ ~ReplacementListed(c) /\ detail'.item = c.of,
         detail'.open /\ ~detail'.loading => detail'.item = detail.asked /\ form' \in {None, detail'.item}
  PROVE  InvoicePageInv'
<1> USE DEF InvoicePageInv, InvoicePage!NoBox
<1>1. \A d \in requests' : (d \in requests /\ d # c) \/ d = e
  OBVIOUS
<1>2. \A d \in requests : Puts(d)' => Puts(d)
  BY DEF Puts, InvoicePage!TypeOK, InvoicePage!Call, InvoicePage!Fills
<1>3. e \in requests' /\ e \notin requests => c.kind # "REPLACE" /\ (Puts(e)' => Puts(c)) /\ ~ReplacementListed(c)
  BY DEF Puts, InvoicePage!Fills, ReplacementListed, InvoicePage!ById, InvoicePage!TypeOK, InvoicePage!Call
<1>4. InvoicePage!TypeOK'
  <2>1. box' \in InvoicePage!Box
    BY DEF InvoicePage!TypeOK, InvoicePage!Box, InvoicePage!Invoice
  <2> QED BY <1>1, <2>1 DEF InvoicePage!TypeOK
<1>5. InvoicePage!ActsOnItsInvoice'
  <2>1. \A d \in requests' : d.kind \notin InvoicePage!ById => d.of = d.on
    BY <1>1 DEF InvoicePage!ActsOnItsInvoice
  <2> QED BY <2>1 DEF InvoicePage!ActsOnItsInvoice
<1>6. InvoiceHeld' => InvoiceHeld
  BY DEF InvoiceHeld
<1>7. InvoiceHeld => detail'.item \in {detail.item, detail.asked}
  BY DEF DrawerAwaitsItsInvoice
<1>8. DialogOfItsInvoice'
  <2>1. box'.dialog # "NONE" => box' = box
    OBVIOUS
  <2>2. box'.dialog # "NONE" => box'.of \in Invoices
    BY <2>1 DEF DialogOfItsInvoice
  <2>3. \A d \in requests' : d.kind \in InvoicePage!ById => d.step # "READ"
    BY <1>1 DEF DialogOfItsInvoice
  <2>4. \A d, r \in requests' : d.kind = "REPLACE" /\ r.kind = "REPLACE" => d = r
    BY <1>1, <1>3 DEF DialogOfItsInvoice
  <2>5. box'.dialog \notin InvoicePage!ById \cup {"NONE"} => detail'.item = box'.of /\ detail'.asked = box'.of
    BY <1>7, <2>1 DEF DialogOfItsInvoice, InvoiceHeld
  <2>6. ASSUME detail'.open, box'.dialog # "NONE"
        PROVE  detail'.item \in Invoices /\ (detail'.item = detail'.asked \/ data'[detail'.item] = "VOID")
    <3>1. detail.open /\ box.dialog # "NONE"
      BY <2>1, <2>6
    <3>2. CASE detail'.item = detail.item
      BY <3>1, <3>2 DEF DialogOfItsInvoice
    <3>3. CASE Puts(c) /\ ~ReplacementListed(c) /\ detail'.item = c.of
      BY <3>1, <3>3 DEF DrawerAwaitsItsInvoice, InvoiceHeld, InvoicePage!TypeOK, InvoicePage!Call
    <3> QED BY <3>2, <3>3
  <2> HIDE DEF InvoicePageInv
  <2> QED BY <2>2, <2>3, <2>4, <2>5, <2>6 DEF DialogOfItsInvoice
<1>9. DrawerAwaitsItsInvoice'
  <2>1. SUFFICES ASSUME InvoiceHeld, NEW d \in requests', Puts(d)', ~ReplacementListed(d)
                 PROVE  d.of = detail.asked
    BY <1>6 DEF DrawerAwaitsItsInvoice, ReplacementListed
  <2>2. CASE d \in requests
    BY <1>2, <2>1, <2>2 DEF DrawerAwaitsItsInvoice
  <2>3. CASE d = e /\ e \notin requests
    BY <1>3, <2>1, <2>3 DEF DrawerAwaitsItsInvoice
  <2> QED BY <1>1, <2>2, <2>3
<1>10. DrawerOfTheReplaced'
  <2>1. SUFFICES ASSUME NEW r \in requests', r.kind = "REPLACE"
                 PROVE  LET old == IF r.step = "SENT" THEN r.of ELSE asked'[r.of]
                        IN  /\ r.step # "SENT" => old \in Invoices /\ data'[old] = "VOID"
                            /\ detail'.item \in {old, r.of}
                            /\ \A d \in requests' : Puts(d)' => d.of \in {old, r.of}
    BY DEF DrawerOfTheReplaced
  <2> DEFINE old == IF r.step = "SENT" THEN r.of ELSE asked[r.of]
  <2>2. r \in requests /\ r # c
    BY <1>1, <1>3, <2>1
  <2>3. asked' = asked
    BY <2>1, <2>2 DEF DialogOfItsInvoice
  <2>4. /\ r.step # "SENT" => old \in Invoices /\ data[old] = "VOID"
        /\ detail.item \in {old, r.of}
        /\ \A d \in requests : Puts(d) => d.of \in {old, r.of}
    BY <2>1, <2>2 DEF DrawerOfTheReplaced
  <2>5. detail'.item \in {old, r.of}
    BY <2>4
  <2>6. ASSUME NEW d \in requests', Puts(d)'
        PROVE  d.of \in {old, r.of}
    <3>1. CASE d \in requests
      BY <1>2, <2>4, <2>6, <3>1
    <3>2. CASE d = e /\ e \notin requests
      BY <1>3, <2>4, <2>6, <3>2
    <3> QED BY <1>1, <3>1, <3>2
  <2> QED BY <2>3, <2>4, <2>5, <2>6
<1> QED BY <1>4, <1>5, <1>8, <1>9, <1>10

\* A request that a dialog or a button of the drawer sends.
LEMMA InvoiceAsked ==
  ASSUME InvoicePageInv, ~crossing, NEW e \in InvoicePage!Call, requests' = requests \cup {e}, e.step = "SENT",
         UNCHANGED <<data, asked, detail, form, box, crossing>>,
         e.kind \notin InvoicePage!ById => e.of = e.on,
         Puts(e) => e.of = detail.item /\ (InvoiceHeld => e.of = detail.asked),
         e.kind = "REPLACE" => InvoiceHeld /\ \A d \in requests : d.kind # "REPLACE"
  PROVE  InvoicePageInv'
<1> USE DEF InvoicePageInv
<1>1. \A d \in requests' : d \in requests \/ d = e
  OBVIOUS
<1>2. \A d \in requests' : Puts(d)' <=> Puts(d)
  BY DEF Puts, InvoicePage!Fills
<1>3. InvoicePage!TypeOK' /\ InvoicePage!ActsOnItsInvoice'
  BY <1>1 DEF InvoicePage!TypeOK, InvoicePage!ActsOnItsInvoice
<1>4. DialogOfItsInvoice'
  BY <1>1 DEF DialogOfItsInvoice
<1>5. DrawerAwaitsItsInvoice'
  <2>1. InvoiceHeld' <=> InvoiceHeld
    BY DEF InvoiceHeld
  <2> QED BY <1>1, <1>2, <2>1 DEF DrawerAwaitsItsInvoice, ReplacementListed
<1>6. DrawerOfTheReplaced'
  <2>1. SUFFICES ASSUME NEW r \in requests', r.kind = "REPLACE"
                 PROVE  LET old == IF r.step = "SENT" THEN r.of ELSE asked[r.of]
                        IN  /\ r.step # "SENT" => old \in Invoices /\ data[old] = "VOID"
                            /\ detail.item \in {old, r.of}
                            /\ \A d \in requests' : Puts(d) => d.of \in {old, r.of}
    BY <1>2 DEF DrawerOfTheReplaced
  <2>2. CASE r \in requests
    <3> DEFINE old == IF r.step = "SENT" THEN r.of ELSE asked[r.of]
    <3>1. /\ r.step # "SENT" => old \in Invoices /\ data[old] = "VOID"
          /\ detail.item \in {old, r.of}
          /\ \A d \in requests : Puts(d) => d.of \in {old, r.of}
      BY <2>1, <2>2 DEF DrawerOfTheReplaced
    <3>2. Puts(e) => e.of \in {old, r.of}
      BY <3>1
    <3> QED BY <1>1, <3>1, <3>2
  <2>3. CASE r = e
    <3>1. Puts(e)
      BY <2>1, <2>3 DEF Puts, InvoicePage!Fills, InvoicePage!ById
    <3>2. InvoiceHeld /\ \A d \in requests : d.kind # "REPLACE"
      BY <2>1, <2>3
    <3>3. \A d \in requests : Puts(d) => d.of = detail.asked
      BY <3>2 DEF DrawerAwaitsItsInvoice, ReplacementListed
    <3>4. e.of = detail.item /\ e.of = detail.asked
      BY <3>1, <3>2
    <3> QED BY <1>1, <2>3, <3>3, <3>4
  <2> QED BY <1>1, <2>2, <2>3
<1> QED BY <1>3, <1>4, <1>5, <1>6

\* A dialog that closes.
LEMMA InvoiceDialogCloses ==
  ASSUME InvoicePageInv, box' \in {box, InvoicePage!NoBox}, UNCHANGED <<data, asked, detail, form, requests, crossing>>
  PROVE  InvoicePageInv'
<1> USE DEF InvoicePageInv, InvoicePage!NoBox
<1>1. InvoicePage!TypeOK' /\ InvoicePage!ActsOnItsInvoice'
  BY DEF InvoicePage!TypeOK, InvoicePage!ActsOnItsInvoice, InvoicePage!Box, InvoicePage!Invoice
<1>2. DialogOfItsInvoice'
  BY DEF DialogOfItsInvoice
<1>3. \A d \in requests : Puts(d)' <=> Puts(d)
  BY DEF Puts, InvoicePage!Fills
<1>4. DrawerAwaitsItsInvoice'
  BY <1>3 DEF DrawerAwaitsItsInvoice, InvoiceHeld, ReplacementListed
<1>5. DrawerOfTheReplaced'
  BY <1>3 DEF DrawerOfTheReplaced
<1> QED BY <1>1, <1>2, <1>4, <1>5

\* Every step of the page of the invoices keeps its invariant.
LEMMA InvoicePageStep ==
  ASSUME InvoicePage!InvoiceDetailAssumption, InvoicePageInv, [InvoicePage!Next]_(InvoicePage!vars)
  PROVE  InvoicePageInv'
<1>1. CASE UNCHANGED InvoicePage!vars
  <2> USE <1>1 DEF InvoicePage!vars
  <2>1. InvoicePage!TypeOK' /\ InvoicePage!ActsOnItsInvoice' /\ DialogOfItsInvoice'
    BY DEF InvoicePageInv, InvoicePage!TypeOK, InvoicePage!ActsOnItsInvoice, DialogOfItsInvoice
  <2>2. \A d \in requests : Puts(d)' <=> Puts(d)
    BY DEF Puts, InvoicePage!Fills
  <2>3. DrawerAwaitsItsInvoice' /\ DrawerOfTheReplaced'
    BY <2>2 DEF InvoicePageInv, DrawerAwaitsItsInvoice, DrawerOfTheReplaced, InvoiceHeld, ReplacementListed
  <2> QED BY <2>1, <2>3 DEF InvoicePageInv
<1> SUFFICES ASSUME InvoicePage!Next, ~crossing
             PROVE  InvoicePageInv'
  BY <1>1 DEF InvoicePage!Next
<1>a. /\ detail \in InvoicePage!Detail /\ form \in InvoicePage!Invoice /\ box \in InvoicePage!Box
      /\ data \in [Invoices -> InvoicePage!Phase] /\ asked \in [Invoices -> InvoicePage!Invoice]
      /\ requests \subseteq InvoicePage!Call
      /\ detail.open /\ ~detail.loading => detail.item = detail.asked /\ form \in {None, detail.item}
      /\ \A c \in requests : c.kind \notin InvoicePage!ById => c.of = c.on
      /\ detail.open => \A c \in requests : Puts(c) /\ ~ReplacementListed(c) => c.of = detail.asked
  BY DEF InvoicePageInv, InvoicePage!TypeOK, InvoicePage!ActsOnItsInvoice, DrawerAwaitsItsInvoice, InvoiceHeld
<1>b. ASSUME NEW c \in requests, NEW s \in {"READ", "LIST"}
      PROVE  /\ [c EXCEPT !.step = s] \in InvoicePage!Call
             /\ [c EXCEPT !.step = s].kind = c.kind /\ [c EXCEPT !.step = s].of = c.of
             /\ [c EXCEPT !.step = s].on = c.on /\ [c EXCEPT !.step = s].step = s
  <2>1. c \in InvoicePage!Call
    BY <1>a
  <2> QED BY <2>1 DEF InvoicePage!Call
<1>c. \A dialogs : InvoicePage!Closes(dialogs) => box' \in {box, InvoicePage!NoBox}
  BY DEF InvoicePage!Closes
<1>2. ASSUME NEW c \in requests, InvoicePage!Loaded(c)
      PROVE  InvoicePageInv'
  <2> DEFINE e == [c EXCEPT !.step = "LIST"]
             p == detail.loading /\ ~InvoicePage!Loads(c)
  <2>1. e \in InvoicePage!Call /\ e.kind = c.kind /\ e.of = c.of /\ e.on = c.on /\ e.step = "LIST"
    BY <1>b
  <2>2. c.step = "READ" /\ c.kind \notin InvoicePage!ById
    BY <1>2 DEF InvoicePage!Loaded, InvoicePageInv, DialogOfItsInvoice
  <2>3. c.of = c.on /\ InvoicePage!Read(c) = c.of /\ Puts(c) /\ ~ReplacementListed(c)
    BY <1>a, <2>2 DEF InvoicePage!Read, Puts, ReplacementListed, InvoicePage!Fills, InvoicePage!ById
  <2>4. c.of \in Invoices
    BY <1>a DEF InvoicePage!Call
  <2>5. InvoicePage!Row(c) \in InvoicePage!Phase
    BY <1>a, <2>3, <2>4 DEF InvoicePage!Row, InvoicePage!RowOf, InvoicePage!Phase
  <2>6. detail' = [detail EXCEPT !.item = c.of, !.phase = InvoicePage!Row(c), !.loading = p]
    BY <1>2, <2>3, Zenon DEF InvoicePage!Loaded
  <2>7. p \in BOOLEAN
    BY <1>a DEF InvoicePage!Detail
  <2> HIDE DEF p
  <2>8. /\ detail' \in InvoicePage!Detail /\ detail'.item = c.of /\ detail'.open = detail.open
        /\ detail'.asked = detail.asked
    BY <1>a, <2>4, <2>5, <2>6, <2>7 DEF InvoicePage!Detail, InvoicePage!Invoice
  <2>9. form' \in {None, c.of}
    BY <1>2, <2>3 DEF InvoicePage!Loaded, InvoicePage!Pays, InvoicePage!RequestOf
  <2>10. box' \in {box, InvoicePage!NoBox}
    BY <1>2, <1>c DEF InvoicePage!Loaded
  <2>11. \/ requests' \subseteq requests \ {c}
         \/ c.kind # "REPLACE" /\ requests' \subseteq (requests \ {c}) \cup {e}
    <3>1. CASE InvoicePage!Loads(c)
      BY <1>2, <3>1 DEF InvoicePage!Loaded, InvoicePage!Ends
    <3>2. CASE ~InvoicePage!Loads(c)
      <4>1. InvoicePage!Handler(c.kind, c.of, c.on, "LIST") = e
        BY <1>a DEF InvoicePage!Handler, InvoicePage!Call
      <4>2. requests' = (requests \ {c}) \cup {e}
        BY <1>2, <3>2, <4>1, Zenon DEF InvoicePage!Loaded, InvoicePage!Becomes
      <4>3. c.kind # "REPLACE"
        BY <3>2 DEF InvoicePage!Loads
      <4> QED BY <4>2, <4>3
    <3> QED BY <3>1, <3>2
  <2>12. UNCHANGED <<data, asked, crossing>>
    BY <1>2 DEF InvoicePage!Loaded
  <2>13. detail'.open /\ ~detail'.loading => detail'.item = detail.asked /\ form' \in {None, detail'.item}
    BY <1>a, <2>3, <2>8, <2>9
  <2>14. form' \in InvoicePage!Invoice
    BY <2>4, <2>9 DEF InvoicePage!Invoice
  <2> HIDE DEF e
  <2> QED BY <1>a, <2>1, <2>3, <2>8, <2>10, <2>11, <2>12, <2>13, <2>14, InvoiceAnswered
<1>3. ASSUME NEW c \in requests, requests' = requests \ {c},
             data' \in [Invoices -> InvoicePage!Phase], asked' \in [Invoices -> InvoicePage!Invoice],
             c.kind = "REPLACE" \/ asked' = asked,
             \A i \in Invoices : data[i] = "VOID" => data'[i] = "VOID",
             detail' \in {detail, [detail EXCEPT !.loading = FALSE, !.open = FALSE]},
             UNCHANGED <<form, box, crossing>>
      PROVE  InvoicePageInv'
  <2> DEFINE e == [c EXCEPT !.step = "LIST"]
  <2>1. e \in InvoicePage!Call /\ e.kind = c.kind /\ e.of = c.of /\ e.on = c.on /\ e.step = "LIST"
    BY <1>b
  <2>2. /\ detail' \in InvoicePage!Detail /\ detail'.item = detail.item /\ detail'.asked = detail.asked
        /\ detail'.open => detail' = detail
    BY <1>3, <1>a DEF InvoicePage!Detail
  <2> HIDE DEF e
  <2> QED BY <1>3, <1>a, <2>1, <2>2, InvoiceAnswered
<1>4. ASSUME NEW c \in requests, InvoicePage!NotLoaded(c)
      PROVE  InvoicePageInv'
  BY <1>4, <1>3, <1>a DEF InvoicePage!NotLoaded, InvoicePage!Ends
<1>5. ASSUME NEW c \in requests, InvoicePage!Listed(c)
      PROVE  InvoicePageInv'
  <2>1. CASE c.kind # "REPLACE"
    BY <1>5, <2>1, <1>3, <1>a DEF InvoicePage!Listed, InvoicePage!Ends
  <2>2. CASE c.kind = "REPLACE"
    <3> DEFINE e == [c EXCEPT !.step = "READ"]
    <3>1. /\ c.step = "LIST" /\ UNCHANGED <<data, asked, form, box>>
          /\ requests' = (requests \ {c}) \cup {e}
          /\ detail' = [detail EXCEPT !.open = TRUE, !.loading = TRUE, !.asked = c.of]
      BY <1>5, <2>2 DEF InvoicePage!Listed, InvoicePage!Becomes, InvoicePage!Asks
    <3>2. /\ crossing' \in BOOLEAN
          /\ ~crossing' => ~(box.dialog \notin InvoicePage!ById \cup {"NONE"} \/ \E d \in requests \ {c} : InvoicePage!Fills(d))
      BY <1>5, <2>2, Zenon DEF InvoicePage!Listed
    <3>3. e \in InvoicePage!Call /\ e.kind = c.kind /\ e.of = c.of /\ e.on = c.on /\ e.step = "READ"
      BY <1>b
    <3>4. c.of \in Invoices
      BY <1>a DEF InvoicePage!Call
    <3>5. /\ detail' \in InvoicePage!Detail /\ detail'.open /\ detail'.loading /\ detail'.asked = c.of
          /\ detail'.item = detail.item
      BY <1>a, <3>1, <3>4 DEF InvoicePage!Detail, InvoicePage!Invoice
    <3> HIDE DEF e
    <3>6. ~crossing' => \A d \in requests' : Puts(d)' => d = e
      BY <3>1, <3>2 DEF Puts, InvoicePage!Fills
    <3>7. asked[c.of] \in Invoices /\ data[asked[c.of]] = "VOID" /\ detail.item \in {asked[c.of], c.of}
      BY <2>2, <3>1 DEF InvoicePageInv, DrawerOfTheReplaced
    <3>8. InvoicePage!TypeOK'
      BY <1>a, <3>1, <3>2, <3>3, <3>5 DEF InvoicePage!TypeOK
    <3>9. InvoicePage!ActsOnItsInvoice'
      BY <1>a, <3>1, <3>3, <3>5 DEF InvoicePage!ActsOnItsInvoice
    <3>10. DialogOfItsInvoice'
      <4>1. \A d \in requests' : d.kind \in InvoicePage!ById => d.step # "READ"
        BY <2>2, <3>1, <3>3 DEF InvoicePageInv, DialogOfItsInvoice, InvoicePage!ById
      <4>2. \A d, r \in requests' : d.kind = "REPLACE" /\ r.kind = "REPLACE" => d = r
        BY <2>2, <3>1 DEF InvoicePageInv, DialogOfItsInvoice
      <4>3. detail'.item \in Invoices /\ (detail'.item = detail'.asked \/ data'[detail'.item] = "VOID")
        BY <3>1, <3>4, <3>5, <3>7
      <4>4. box'.dialog # "NONE" => box'.of \in Invoices
        BY <3>1 DEF InvoicePageInv, DialogOfItsInvoice
      <4>5. ~crossing' => box'.dialog \in InvoicePage!ById \cup {"NONE"}
        BY <3>1, <3>2
      <4> QED BY <4>1, <4>2, <4>3, <4>4, <4>5 DEF DialogOfItsInvoice
    <3>11. DrawerAwaitsItsInvoice'
      BY <3>3, <3>5, <3>6 DEF DrawerAwaitsItsInvoice
    <3>12. DrawerOfTheReplaced'
      <4>1. \A r \in requests' : r.kind = "REPLACE" => r = e
        BY <2>2, <3>1 DEF InvoicePageInv, DialogOfItsInvoice
      <4> QED BY <3>1, <3>3, <3>5, <3>6, <3>7, <4>1 DEF DrawerOfTheReplaced
    <3> QED BY <3>8, <3>9, <3>10, <3>11, <3>12 DEF InvoicePageInv
  <2> QED BY <2>1, <2>2
<1>6. ASSUME NEW c \in requests, NEW e \in InvoicePage!Call,
             c.step = "SENT", requests' = (requests \ {c}) \cup {e}, c.kind # "REPLACE",
             e.kind = c.kind, e.of = c.of, e.on = c.on,
             e.step = "LIST" \/ (e.step = "READ" /\ c.kind \notin InvoicePage!ById),
             NEW to, InvoicePage!Done(c, to), box' \in {box, InvoicePage!NoBox}, crossing' = crossing,
             form' \in InvoicePage!Invoice, detail' \in InvoicePage!Detail,
             detail'.open => detail.open, detail'.asked = detail.asked,
             detail'.item = detail.item \/ (Puts(c) /\ detail'.item = c.of),
             detail'.open /\ ~detail'.loading => detail'.item = detail.asked /\ form' \in {None, detail'.item}
      PROVE  InvoicePageInv'
  <2>1. ~ReplacementListed(c)
    BY <1>6 DEF ReplacementListed
  <2>2. /\ data' \in [Invoices -> InvoicePage!Phase] /\ asked' = asked
        /\ \A i \in Invoices : data[i] = "VOID" => data'[i] = "VOID"
    BY <1>6, VoidStays DEF InvoicePageInv
  <2> QED BY <1>6, <1>a, <2>1, <2>2, InvoiceAnswered
<1>7. ASSUME NEW c \in requests, InvoicePage!Voided(c)
      PROVE  InvoicePageInv'
  <2> DEFINE e == [c EXCEPT !.step = "LIST"]
  <2>1. e \in InvoicePage!Call /\ e.kind = c.kind /\ e.of = c.of /\ e.on = c.on /\ e.step = "LIST"
    BY <1>b
  <2>2. /\ c.kind = "VOID" /\ c.step = "SENT" /\ InvoicePage!Done(c, "VOID") /\ requests' = (requests \ {c}) \cup {e}
        /\ box' \in {box, InvoicePage!NoBox} /\ UNCHANGED <<form, crossing>>
        /\ detail' = IF c.on = c.of THEN [detail EXCEPT !.item = c.of, !.phase = "VOID"] ELSE detail
    BY <1>7, <1>c DEF InvoicePage!Voided, InvoicePage!Lists, InvoicePage!Becomes
  <2>3. data[c.of] # "VOID"
    BY <2>2 DEF InvoicePage!Done, InvoicePage!Outcomes
  <2>4. c.on = c.of => Puts(c) /\ ~ReplacementListed(c)
    BY <2>2, <2>3 DEF Puts, ReplacementListed, InvoicePage!Fills, InvoicePage!ById
  <2>5. c.of \in Invoices
    BY <1>a DEF InvoicePage!Call
  <2>6. /\ detail' \in InvoicePage!Detail /\ detail'.open = detail.open /\ detail'.asked = detail.asked
        /\ detail'.loading = detail.loading
        /\ detail'.item = IF c.on = c.of THEN c.of ELSE detail.item
    BY <1>a, <2>2, <2>5 DEF InvoicePage!Detail, InvoicePage!Invoice, InvoicePage!Phase
  <2>7. detail'.open /\ ~detail'.loading => detail'.item = detail.asked /\ form' \in {None, detail'.item}
    BY <1>a, <2>2, <2>4, <2>6
  <2> HIDE DEF e
  <2>8. detail'.item = detail.item \/ (Puts(c) /\ detail'.item = c.of)
    BY <2>4, <2>6
  <2> QED BY <1>6, <1>a, <2>1, <2>2, <2>6, <2>7, <2>8
<1>8. ASSUME NEW c \in requests, InvoicePage!Deleted(c)
      PROVE  InvoicePageInv'
  <2> DEFINE e == [c EXCEPT !.step = "LIST"]
  <2>1. e \in InvoicePage!Call /\ e.kind = c.kind /\ e.of = c.of /\ e.on = c.on /\ e.step = "LIST"
    BY <1>b
  <2>2. /\ c.kind = "DELETE" /\ c.step = "SENT" /\ InvoicePage!Done(c, "GONE") /\ requests' = (requests \ {c}) \cup {e}
        /\ box' \in {box, InvoicePage!NoBox} /\ crossing' = crossing
    BY <1>8, <1>c DEF InvoicePage!Deleted, InvoicePage!Lists, InvoicePage!Becomes
  <2>3. \/ detail' = detail /\ form' = form
        \/ detail' = [detail EXCEPT !.open = FALSE] /\ form' = None
    BY <1>8 DEF InvoicePage!Deleted
  <2>4. /\ detail' \in InvoicePage!Detail /\ detail'.item = detail.item /\ detail'.asked = detail.asked
        /\ detail'.open => detail' = detail /\ form' = form
        /\ form' \in InvoicePage!Invoice
    BY <1>a, <2>3 DEF InvoicePage!Detail, InvoicePage!Invoice
  <2> HIDE DEF e
  <2>5. detail'.open /\ ~detail'.loading => detail'.item = detail.asked /\ form' \in {None, detail'.item}
    BY <1>a, <2>4
  <2> QED BY <1>6, <2>1, <2>2, <2>4, <2>5
<1>9. ASSUME NEW c \in requests, InvoicePage!Adjusted(c)
      PROVE  InvoicePageInv'
  <2> DEFINE e == [c EXCEPT !.step = "LIST"]
  <2>1. e \in InvoicePage!Call /\ e.kind = c.kind /\ e.of = c.of /\ e.on = c.on /\ e.step = "LIST"
    BY <1>b
  <2>2. /\ c.kind = "ADJUST" /\ c.step = "SENT" /\ InvoicePage!Done(c, "DRAFT")
        /\ requests' = (requests \ {c}) \cup {e}
        /\ box' \in {box, InvoicePage!NoBox} /\ UNCHANGED <<form, crossing>>
        /\ detail' = [detail EXCEPT !.item = c.of, !.phase = "DRAFT"]
    BY <1>9, <1>c DEF InvoicePage!Adjusted, InvoicePage!Lists, InvoicePage!Becomes
  <2>3. Puts(c) /\ ~ReplacementListed(c)
    BY <2>2 DEF Puts, ReplacementListed, InvoicePage!Fills, InvoicePage!ById
  <2>4. c.of \in Invoices
    BY <1>a DEF InvoicePage!Call
  <2>5. /\ detail' \in InvoicePage!Detail /\ detail'.open = detail.open /\ detail'.asked = detail.asked
        /\ detail'.loading = detail.loading /\ detail'.item = c.of
    BY <1>a, <2>2, <2>4 DEF InvoicePage!Detail, InvoicePage!Invoice, InvoicePage!Phase
  <2>6. detail'.open /\ ~detail'.loading => detail'.item = detail.asked /\ form' \in {None, detail'.item}
    BY <1>a, <2>2, <2>3, <2>5
  <2> HIDE DEF e
  <2> QED BY <1>6, <1>a, <2>1, <2>2, <2>3, <2>5, <2>6
<1>10. ASSUME NEW c \in requests, InvoicePage!Requested(c)
       PROVE  InvoicePageInv'
  <2> DEFINE e == [c EXCEPT !.step = "LIST"]
  <2>1. e \in InvoicePage!Call /\ e.kind = c.kind /\ e.of = c.of /\ e.on = c.on /\ e.step = "LIST"
    BY <1>b
  <2>2. /\ c.kind = "REQUEST" /\ c.step = "SENT" /\ InvoicePage!Done(c, "ISSUED") /\ requests' = requests \ {c}
        /\ box' \in {box, InvoicePage!NoBox} /\ UNCHANGED <<detail, crossing>> /\ form' = c.of
    BY <1>10, <1>c DEF InvoicePage!Requested, InvoicePage!Ends
  <2>3. Puts(c) /\ ~ReplacementListed(c)
    BY <2>2 DEF Puts, ReplacementListed, InvoicePage!Fills, InvoicePage!ById
  <2>4. form' \in InvoicePage!Invoice
    BY <1>a, <2>2 DEF InvoicePage!Call, InvoicePage!Invoice
  <2>5. detail'.open /\ ~detail'.loading => detail'.item = detail.asked /\ form' \in {None, detail'.item}
    BY <1>a, <2>2, <2>3
  <2>6. /\ data' \in [Invoices -> InvoicePage!Phase] /\ asked' = asked
        /\ \A i \in Invoices : data[i] = "VOID" => data'[i] = "VOID"
    BY <2>2, VoidStays DEF InvoicePageInv
  <2> HIDE DEF e
  <2> QED BY <1>a, <2>1, <2>2, <2>4, <2>5, <2>6, InvoiceAnswered
<1>11. ASSUME NEW c \in requests, InvoicePage!Followed(c)
       PROVE  InvoicePageInv'
  <2> DEFINE e == [c EXCEPT !.step = "READ"]
  <2>1. e \in InvoicePage!Call /\ e.kind = c.kind /\ e.of = c.of /\ e.on = c.on /\ e.step = "READ"
    BY <1>b
  <2>2. PICK to \in InvoicePage!Phase : InvoicePage!Done(c, to)
    BY <1>11 DEF InvoicePage!Followed
  <2>3. /\ c.kind \in {"CONFIRM", "CANCEL", "EXPIRE", "ISSUE"} /\ c.step = "SENT"
        /\ requests' = (requests \ {c}) \cup {e}
        /\ box' \in {box, InvoicePage!NoBox} /\ UNCHANGED <<detail, form, crossing>>
    BY <1>11, <1>c DEF InvoicePage!Followed, InvoicePage!Becomes
  <2>4. c.kind \notin InvoicePage!ById /\ c.kind # "REPLACE"
    BY <2>3 DEF InvoicePage!ById
  <2> HIDE DEF e
  <2> QED BY <1>6, <1>a, <2>1, <2>2, <2>3, <2>4
<1>12. ASSUME NEW c \in requests, InvoicePage!Failed(c)
       PROVE  InvoicePageInv'
  <2>1. requests' = requests \ {c} /\ UNCHANGED <<detail, form, box, crossing>>
    BY <1>12 DEF InvoicePage!Failed, InvoicePage!Ends
  <2>2. CASE UNCHANGED <<data, asked>>
    BY <1>3, <1>a, <2>1, <2>2
  <2>3. CASE \E to \in InvoicePage!Phase : InvoicePage!Done(c, to)
    <3>1. /\ data' \in [Invoices -> InvoicePage!Phase] /\ asked' = asked
          /\ \A i \in Invoices : data[i] = "VOID" => data'[i] = "VOID"
      BY <2>3, VoidStays DEF InvoicePageInv
    <3> QED BY <1>3, <1>a, <2>1, <3>1
  <2>4. CASE c.kind = "REPLACE" /\ \E new \in Invoices : InvoicePage!Replaces(c.of, new)
    <3>1. c.of \in Invoices
      BY <1>a DEF InvoicePage!Call
    <3>2. /\ data' \in [Invoices -> InvoicePage!Phase] /\ asked' \in [Invoices -> InvoicePage!Invoice]
          /\ \A i \in Invoices : data[i] = "VOID" => data'[i] = "VOID"
      BY <2>4, <3>1, VoidIsReplaced DEF InvoicePageInv
    <3> QED BY <1>3, <1>a, <2>1, <2>4, <3>2
  <2> QED BY <1>12, <2>2, <2>3, <2>4 DEF InvoicePage!Failed
<1>13. ASSUME NEW c \in requests, NEW new \in Invoices, InvoicePage!Replaced(c, new)
       PROVE  InvoicePageInv'
  <2> DEFINE e == [kind |-> "REPLACE", of |-> new, on |-> new, step |-> "LIST"]
  <2>1. /\ c.kind = "REPLACE" /\ c.step = "SENT" /\ InvoicePage!Replaces(c.of, new)
        /\ requests' = (requests \ {c}) \cup {e} /\ UNCHANGED <<detail, form, box, crossing>>
    BY <1>13 DEF InvoicePage!Replaced, InvoicePage!Becomes, InvoicePage!Handler
  <2>2. e \in InvoicePage!Call /\ e.kind = "REPLACE" /\ e.of = new /\ e.on = new /\ e.step = "LIST"
    BY DEF InvoicePage!Call, InvoicePage!Acts, InvoicePage!Invoice
  <2> HIDE DEF e
  <2>3. c.of \in Invoices
    BY <1>a DEF InvoicePage!Call
  <2>4. /\ data' \in [Invoices -> InvoicePage!Phase] /\ asked' \in [Invoices -> InvoicePage!Invoice]
        /\ \A j \in Invoices : data[j] = "VOID" => data'[j] = "VOID"
        /\ data[c.of] = "VOID" /\ asked'[new] = c.of
    BY <2>1, <2>3, VoidIsReplaced DEF InvoicePageInv
  <2>5. \A d \in requests : Puts(d)' => Puts(d)
    BY <1>a, <2>4 DEF Puts, InvoicePage!Call, InvoicePage!Fills
  <2>6. \A r \in requests' : r.kind = "REPLACE" => r = e
    BY <2>1 DEF InvoicePageInv, DialogOfItsInvoice
  <2>7. InvoicePage!TypeOK'
    <3>1. crossing \in BOOLEAN
      BY DEF InvoicePageInv, InvoicePage!TypeOK
    <3> QED BY <1>a, <2>1, <2>2, <2>4, <3>1 DEF InvoicePage!TypeOK
  <2>8. InvoicePage!ActsOnItsInvoice'
    BY <1>a, <2>1, <2>2 DEF InvoicePage!ActsOnItsInvoice
  <2>9. DialogOfItsInvoice'
    <3>1. \A d \in requests' : d.kind \in InvoicePage!ById => d.step # "READ"
      BY <2>1, <2>2 DEF InvoicePageInv, DialogOfItsInvoice
    <3> QED BY <2>1, <2>4, <2>6, <3>1 DEF InvoicePageInv, DialogOfItsInvoice
  <2>10. DrawerAwaitsItsInvoice'
    <3>1. ReplacementListed(e)
      BY <2>2 DEF ReplacementListed
    <3> QED BY <2>1, <2>5, <3>1 DEF InvoicePageInv, DrawerAwaitsItsInvoice, InvoiceHeld, ReplacementListed
  <2>11. DrawerOfTheReplaced'
    <3>1. detail.item = c.of /\ \A d \in requests : Puts(d) => d.of = c.of
      BY <2>1 DEF InvoicePageInv, DrawerOfTheReplaced
    <3>2. \A d \in requests' : Puts(d)' => d.of \in {c.of, new}
      BY <2>1, <2>2, <2>5, <3>1
    <3> QED BY <2>1, <2>2, <2>3, <2>4, <2>6, <3>1, <3>2 DEF DrawerOfTheReplaced
  <2> QED BY <2>7, <2>8, <2>9, <2>10, <2>11 DEF InvoicePageInv
<1>14. ASSUME NEW i \in Invoices, InvoicePage!OpenDetail(i)
       PROVE  InvoicePageInv'
  <2> DEFINE e == [kind |-> "DETAIL", of |-> i, on |-> i, step |-> "READ"]
  <2>1. /\ box.dialog = "NONE" /\ requests' = requests \cup {e} /\ UNCHANGED <<data, asked, form, box>>
        /\ detail' = [detail EXCEPT !.open = TRUE, !.loading = TRUE, !.asked = i]
    BY <1>14 DEF InvoicePage!OpenDetail, InvoicePage!Send, InvoicePage!Handler, InvoicePage!Asks
  <2>2. crossing' \in BOOLEAN /\ (~crossing' => ~\E c \in requests : InvoicePage!Fills(c) /\ c.of # i)
    BY <1>14, Zenon DEF InvoicePage!OpenDetail
  <2>3. e \in InvoicePage!Call /\ e.kind = "DETAIL" /\ e.of = i /\ e.on = i /\ e.step = "READ"
    BY DEF InvoicePage!Call, InvoicePage!Invoice
  <2> HIDE DEF e
  <2>4. /\ detail' \in InvoicePage!Detail /\ detail'.open /\ detail'.loading /\ detail'.asked = i
        /\ detail'.item = detail.item
    BY <1>a, <2>1 DEF InvoicePage!Detail, InvoicePage!Invoice
  <2>5. ~crossing' => \A d \in requests' : Puts(d)' => d.of = i
    BY <2>1, <2>2, <2>3 DEF Puts, InvoicePage!Fills
  <2>6. InvoicePage!TypeOK'
    BY <1>a, <2>1, <2>2, <2>3, <2>4 DEF InvoicePage!TypeOK
  <2>7. InvoicePage!ActsOnItsInvoice'
    BY <1>a, <2>1, <2>3, <2>4 DEF InvoicePage!ActsOnItsInvoice
  <2>8. DialogOfItsInvoice'
    <3>1. \A d \in requests' : d.kind \in InvoicePage!ById => d.step # "READ"
      BY <2>1, <2>3 DEF InvoicePageInv, DialogOfItsInvoice, InvoicePage!ById
    <3>2. \A d, r \in requests' : d.kind = "REPLACE" /\ r.kind = "REPLACE" => d = r
      BY <2>1, <2>3 DEF InvoicePageInv, DialogOfItsInvoice
    <3> QED BY <2>1, <3>1, <3>2 DEF DialogOfItsInvoice
  <2>9. DrawerAwaitsItsInvoice'
    BY <2>4, <2>5 DEF DrawerAwaitsItsInvoice
  <2>10. DrawerOfTheReplaced'
    <3>1. SUFFICES ASSUME ~crossing', NEW r \in requests', r.kind = "REPLACE"
                   PROVE  LET old == IF r.step = "SENT" THEN r.of ELSE asked'[r.of]
                          IN  /\ r.step # "SENT" => old \in Invoices /\ data'[old] = "VOID"
                              /\ detail'.item \in {old, r.of}
                              /\ \A d \in requests' : Puts(d)' => d.of \in {old, r.of}
      BY DEF DrawerOfTheReplaced
    <3>2. r \in requests /\ r.of = i
      BY <2>1, <2>2, <2>3, <3>1 DEF InvoicePage!Fills, InvoicePage!ById
    <3> QED BY <2>1, <2>4, <2>5, <3>1, <3>2 DEF InvoicePageInv, DrawerOfTheReplaced
  <2> QED BY <2>6, <2>7, <2>8, <2>9, <2>10 DEF InvoicePageInv
<1>15. CASE InvoicePage!CloseDetail
  <2>1. /\ box.dialog = "NONE" /\ detail' = [detail EXCEPT !.open = FALSE] /\ form' = None
        /\ UNCHANGED <<data, asked, box, requests, crossing>>
    BY <1>15 DEF InvoicePage!CloseDetail
  <2>2. detail' \in InvoicePage!Detail /\ ~detail'.open /\ detail'.item = detail.item
    BY <1>a, <2>1 DEF InvoicePage!Detail
  <2>3. InvoicePage!TypeOK' /\ InvoicePage!ActsOnItsInvoice'
    BY <2>1, <2>2 DEF InvoicePageInv, InvoicePage!TypeOK, InvoicePage!ActsOnItsInvoice, InvoicePage!Invoice
  <2>4. DialogOfItsInvoice' /\ DrawerAwaitsItsInvoice'
    BY <2>1, <2>2 DEF InvoicePageInv, DialogOfItsInvoice, DrawerAwaitsItsInvoice, InvoiceHeld
  <2>5. \A d \in requests : Puts(d)' <=> Puts(d)
    BY <2>1 DEF Puts, InvoicePage!Fills
  <2>6. DrawerOfTheReplaced'
    BY <2>1, <2>2, <2>5 DEF InvoicePageInv, DrawerOfTheReplaced
  <2> QED BY <2>3, <2>4, <2>6 DEF InvoicePageInv
<1>16. ASSUME box' \in InvoicePage!Box, box'.of \in Invoices, box'.dialog # "NONE",
              UNCHANGED <<data, asked, detail, form, requests, crossing>>,
              \/ ~detail.open /\ box'.dialog \in InvoicePage!ById
              \/ detail.open /\ ~detail.loading /\ box'.of = detail.item
       PROVE  InvoicePageInv'
  <2>1. \A d \in requests : Puts(d)' <=> Puts(d)
    BY <1>16 DEF Puts, InvoicePage!Fills
  <2>2. InvoicePage!TypeOK' /\ InvoicePage!ActsOnItsInvoice'
    BY <1>16 DEF InvoicePageInv, InvoicePage!TypeOK, InvoicePage!ActsOnItsInvoice
  <2>3. DialogOfItsInvoice'
    BY <1>16, <1>a DEF InvoicePageInv, DialogOfItsInvoice
  <2>4. DrawerAwaitsItsInvoice' /\ DrawerOfTheReplaced'
    BY <1>16, <2>1 DEF InvoicePageInv, DrawerAwaitsItsInvoice, DrawerOfTheReplaced, InvoiceHeld, ReplacementListed
  <2> QED BY <2>2, <2>3, <2>4 DEF InvoicePageInv
<1>17. ASSUME NEW i \in Invoices, NEW dialog \in InvoicePage!ById, InvoicePage!OpenRowDialog(dialog, i)
       PROVE  InvoicePageInv'
  <2>1. /\ box' = [dialog |-> dialog, of |-> i] /\ ~detail.open
        /\ UNCHANGED <<data, asked, detail, form, requests, crossing>>
    BY <1>17 DEF InvoicePage!OpenRowDialog
  <2>2. box' \in InvoicePage!Box /\ dialog # "NONE"
    BY <2>1 DEF InvoicePage!Box, InvoicePage!Dialogs, InvoicePage!Own, InvoicePage!ById, InvoicePage!Invoice
  <2> QED BY <1>16, <2>1, <2>2
<1>18. ASSUME NEW dialog \in InvoicePage!Dialogs, InvoicePage!OpenDialog(dialog)
       PROVE  InvoicePageInv'
  <2>1. /\ box' = [dialog |-> dialog, of |-> IF dialog = "CONFIRM" THEN form ELSE detail.item]
        /\ detail.open /\ ~detail.loading /\ detail.item # None /\ (dialog = "CONFIRM" => form # None)
        /\ UNCHANGED <<data, asked, detail, form, requests, crossing>>
    BY <1>18 DEF InvoicePage!OpenDialog, InvoicePage!Shown
  <2>2. detail.item \in Invoices /\ box'.of = detail.item
    BY <1>a, <2>1 DEF InvoicePage!Detail, InvoicePage!Invoice
  <2>3. box' \in InvoicePage!Box /\ dialog # "NONE"
    BY <2>1, <2>2 DEF InvoicePage!Box, InvoicePage!Dialogs, InvoicePage!Own, InvoicePage!ById, InvoicePage!Invoice
  <2> QED BY <1>16, <2>1, <2>2, <2>3
<1>19. CASE InvoicePage!CancelDialog
  BY <1>19, InvoiceDialogCloses DEF InvoicePage!CancelDialog
<1>20. CASE InvoicePage!SubmitDialog
  <2> DEFINE own == box.dialog \in InvoicePage!Own
             e == [kind |-> box.dialog, of |-> IF own THEN box.of ELSE detail.item,
                   on |-> IF own THEN detail.item ELSE box.of, step |-> "SENT"]
  <2>1. /\ box.dialog # "NONE" /\ requests' = requests \cup {e}
        /\ UNCHANGED <<data, asked, detail, form, box, crossing>>
    BY <1>20 DEF InvoicePage!SubmitDialog, InvoicePage!Send, InvoicePage!Handler
  <2>2. box.of \in Invoices /\ box.dialog \in InvoicePage!Dialogs
    BY <1>a, <2>1 DEF InvoicePageInv, DialogOfItsInvoice, InvoicePage!Box
  <2>3. box.dialog \notin InvoicePage!ById => detail.item = box.of /\ detail.asked = box.of
    BY <2>1 DEF InvoicePageInv, DialogOfItsInvoice
  <2>4. ~own => box.dialog \notin InvoicePage!ById
    BY DEF InvoicePage!Own
  <2>5. /\ e \in InvoicePage!Call /\ e.kind = box.dialog /\ e.of = box.of /\ e.on = detail.item /\ e.step = "SENT"
    BY <1>a, <2>2, <2>3, <2>4 DEF InvoicePage!Call, InvoicePage!Invoice, InvoicePage!Detail
  <2> HIDE DEF e, own
  <2>6. Puts(e) => e.of = detail.item /\ (InvoiceHeld => e.of = detail.asked)
    <3>1. CASE box.dialog \notin InvoicePage!ById
      BY <2>3, <2>5, <3>1
    <3>2. CASE box.dialog \in InvoicePage!ById /\ Puts(e)
      <4>1. box.dialog = "VOID"
        BY <2>5, <3>2 DEF Puts, InvoicePage!ById
      <4>2. InvoicePage!Fills(e) /\ e.kind \in InvoicePage!ById /\ data[e.of] # "VOID"
        BY <2>5, <3>2, <4>1 DEF Puts
      <4>3. e.of = detail.item /\ data[e.of] # "VOID"
        BY <2>5, <4>2 DEF InvoicePage!Fills
      <4>4. InvoiceHeld => detail.open
        BY <3>2 DEF InvoiceHeld
      <4>5. InvoiceHeld => detail.item = detail.asked
        BY <2>1, <4>3, <4>4 DEF InvoicePageInv, DialogOfItsInvoice
      <4> QED BY <4>3, <4>5
    <3> QED BY <3>1, <3>2
  <2>7. e.kind # "REPLACE" /\ (e.kind \notin InvoicePage!ById => e.of = e.on)
    BY <2>2, <2>3, <2>5 DEF InvoicePage!Dialogs, InvoicePage!Own, InvoicePage!ById
  <2> QED BY <2>1, <2>5, <2>6, <2>7, InvoiceAsked
<1>21. ASSUME NEW kind \in InvoicePage!Acts, InvoicePage!Act(kind)
       PROVE  InvoicePageInv'
  <2> DEFINE e == [kind |-> kind, of |-> IF kind = "REPLACE" THEN detail.item ELSE form, on |-> detail.item,
                   step |-> "SENT"]
  <2>1. /\ InvoicePage!Shown /\ requests' = requests \cup {e}
        /\ kind = "REPLACE" => ~InvoicePage!Busy(kind)
        /\ kind # "REPLACE" => form # None
        /\ UNCHANGED <<data, asked, detail, form, box, crossing>>
    BY <1>21 DEF InvoicePage!Act, InvoicePage!Send, InvoicePage!Handler
  <2>2. detail.open /\ detail.item \in Invoices /\ detail.item = detail.asked /\ form \in {None, detail.item}
    BY <1>a, <2>1 DEF InvoicePage!Shown, InvoicePage!Detail, InvoicePage!Invoice
  <2>3. e \in InvoicePage!Call /\ e.kind = kind /\ e.of = detail.item /\ e.on = detail.item /\ e.step = "SENT"
    BY <2>1, <2>2 DEF InvoicePage!Call, InvoicePage!Invoice
  <2> HIDE DEF e
  <2>4. InvoiceHeld /\ (kind = "REPLACE" => \A d \in requests : d.kind # "REPLACE")
    BY <2>1, <2>2 DEF InvoiceHeld, InvoicePage!Busy
  <2> QED BY <2>1, <2>2, <2>3, <2>4, InvoiceAsked
<1>22. ASSUME NEW c \in requests,
              \/ InvoicePage!Loaded(c) \/ InvoicePage!NotLoaded(c) \/ InvoicePage!Listed(c)
              \/ InvoicePage!Voided(c) \/ InvoicePage!Deleted(c) \/ InvoicePage!Adjusted(c)
              \/ InvoicePage!Requested(c) \/ InvoicePage!Followed(c) \/ InvoicePage!Failed(c)
              \/ \E new \in Invoices : InvoicePage!Replaced(c, new)
       PROVE  InvoicePageInv'
  BY <1>2, <1>4, <1>5, <1>7, <1>8, <1>9, <1>10, <1>11, <1>12, <1>13, <1>22, Zenon
<1> QED BY <1>14, <1>15, <1>17, <1>18, <1>19, <1>20, <1>21, <1>22, Zenon DEF InvoicePage!Next
-----------------------------------------------------------------------------
(* The dialog of a contract's documents. *)

\* A document and a file that is to be one are of the contract the file was
\* chosen for, and a save has at least what its dialog has.
SavesWhatWasChosen ==
    /\ IsFiniteSet(data)
    /\ \A d \in data : d.of = form[d.file]
    /\ \A f \in box.files : form[f] = box.of
    /\ \A f \in detail.files : form[f] = detail.of
    /\ box.of = None => box.files = {}
    /\ IF FilePage!Idle THEN detail = FilePage!Closed
       ELSE box.files \subseteq detail.files /\ box.deletions \subseteq detail.deletions

\* What is still to be done has not been done, but for lost answers.
SavesTheRest ==
    /\ \A f \in Files \ requests :
         /\ \A d, e \in data : d.file = f /\ e.file = f => d = e
         /\ f \in box.files \cup detail.files => \A d \in data : d.file # f
    /\ \A d \in box.deletions \cup detail.deletions : d.file \in requests \/ d \in data

\* A file chosen is in the dialog, was given up, or is a document.
NoFileForgotten ==
    ~crossing =>
        /\ asked # {} => box.files = {}
        /\ \A f \in Files : form[f] # None => f \in box.files \cup cause \/ \E d \in data : d.file = f

FilePageInv == FilePage!TypeOK /\ SavesWhatWasChosen /\ SavesTheRest /\ NoFileForgotten

\* How many documents a file has, of which there is one or none.
LEMMA FilesCounted ==
  ASSUME IsFiniteSet(data), NEW f
  PROVE  /\ FilePage!Copies(f) \in Nat
         /\ FilePage!Copies(f) = 0 <=> \A d \in data : d.file # f
         /\ (\A d, e \in data : d.file = f /\ e.file = f => d = e) => FilePage!Copies(f) <= 1
<1> DEFINE S == {d \in data : d.file = f}
<1>1. FilePage!Copies(f) = Cardinality(S)
  <2>1. \A U : FilePage!Cardinality(U) = Cardinality(U)
    BY Zenon DEF FilePage!IsFiniteSet, FilePage!Cardinality, IsFiniteSet, Cardinality
  <2> QED BY <2>1, Zenon DEF FilePage!Copies
<1>2. IsFiniteSet(S) /\ Cardinality(S) \in Nat
  BY FS_Subset, FS_CardinalityType
<1>3. Cardinality(S) = 0 <=> S = {}
  BY <1>2, FS_EmptySet
<1>4. ASSUME \A d, e \in data : d.file = f /\ e.file = f => d = e
      PROVE  Cardinality(S) <= 1
  <2>1. CASE S = {}
    BY <2>1, <1>3
  <2>2. CASE S # {}
    <3>1. PICK d : S = {d}
      BY <1>4, <2>2
    <3> QED BY <3>1, FS_Singleton
  <2> QED BY <2>1, <2>2
<1> QED BY <1>1, <1>2, <1>3, <1>4

\* What is left of a choice has not been filed: a file is filed once.
LEMMA FilePageFiled ==
  ASSUME FilePageInv
  PROVE  FilePage!FiledOnce
<1> USE DEF FilePageInv, SavesWhatWasChosen, SavesTheRest, NoFileForgotten
<1>1. \A f \in Files \ requests :
        /\ FilePage!Copies(f) <= 1
        /\ f \in box.files => FilePage!Copies(f) = 0
        /\ \A d \in box.deletions : d.file = f => d \in data
  BY FilesCounted
<1>2. ASSUME ~crossing, NEW f \in Files, form[f] # None
      PROVE  f \in box.files \cup detail.files \cup cause \/ FilePage!Copies(f) > 0
  BY <1>2, FilesCounted
<1> QED BY <1>1, <1>2 DEF FilePage!FiledOnce

\* The documents of a registration open in their invariant.
LEMMA FilePageInit ==
  ASSUME FilePage!RegistrationDocumentsAssumption, FilePage!Init PROVE FilePageInv
<1> USE DEF FilePage!Init, FilePage!Closed
<1>1. FilePage!TypeOK
  BY DEF FilePage!TypeOK, FilePage!Contract, FilePage!Box
<1>2. SavesWhatWasChosen
  BY FS_EmptySet DEF SavesWhatWasChosen, FilePage!Idle
<1>3. SavesTheRest /\ NoFileForgotten
  BY DEF SavesTheRest, NoFileForgotten
<1> QED BY <1>1, <1>2, <1>3 DEF FilePageInv

\* What changes of a document or is added to them keeps them finite.
LEMMA DocumentsFinite ==
  ASSUME IsFiniteSet(data), NEW x, NEW y
  PROVE  IsFiniteSet((data \ {x}) \cup {y}) /\ IsFiniteSet(data \cup {y})
BY FS_RemoveElement, FS_AddElement

\* Every step of a registration's documents keeps their invariant.
LEMMA FilePageStep ==
  ASSUME FilePage!RegistrationDocumentsAssumption, FilePageInv, [FilePage!Next]_(FilePage!vars)
  PROVE  FilePageInv'
<1> USE DEF FilePageInv, FilePage!RegistrationDocumentsAssumption, FilePage!TypeOK, SavesWhatWasChosen, SavesTheRest,
            NoFileForgotten, FilePage!Box, FilePage!Contract, FilePage!Closed, FilePage!Idle
<1>1. CASE UNCHANGED FilePage!vars
  BY <1>1 DEF FilePage!vars
<1> SUFFICES ASSUME FilePage!Next, ~crossing
             PROVE  FilePageInv'
  BY <1>1 DEF FilePage!Next
<1>2. ASSUME NEW c \in Contracts, FilePage!OpenDocument(c)
      PROVE  FilePageInv'
  BY <1>2 DEF FilePage!OpenDocument
<1>3. ASSUME NEW c \in Contracts, FilePage!DocumentOpened(c)
      PROVE  FilePageInv'
  <2>1. /\ c \in asked /\ asked' = asked \ {c}
        /\ box' = [of |-> c, files |-> {}, uploaded |-> {}, deletions |-> {}]
        /\ UNCHANGED <<data, form, detail, requests, cause, crossing>>
    BY <1>3 DEF FilePage!DocumentOpened
  <2>2. box.files = {}
    BY <2>1
  <2>3. FilePage!TypeOK'
    BY <2>1
  <2>4. SavesWhatWasChosen'
    BY <2>1
  <2>5. SavesTheRest' /\ NoFileForgotten'
    BY <2>1, <2>2
  <2> QED BY <2>3, <2>4, <2>5
<1>4. ASSUME NEW c \in Contracts, FilePage!OpenFailed(c)
      PROVE  FilePageInv'
  BY <1>4 DEF FilePage!OpenFailed
<1>5. CASE FilePage!CancelBox
  <2>1. /\ box' = [of |-> None, files |-> {}, uploaded |-> {}, deletions |-> {}] /\ cause' = cause \cup box.files
        /\ UNCHANGED <<data, form, detail, asked, requests, crossing>>
    BY <1>5 DEF FilePage!CancelBox
  <2>2. FilePage!TypeOK'
    BY <2>1
  <2>3. SavesWhatWasChosen'
    BY <2>1
  <2>4. SavesTheRest' /\ NoFileForgotten'
    BY <2>1
  <2> QED BY <2>2, <2>3, <2>4
<1>6. FilePage!Works => crossing' \in BOOLEAN /\ (~crossing' => asked = {})
  BY Zenon DEF FilePage!Works
<1>7. ASSUME NEW f \in Files, FilePage!SelectFile(f)
      PROVE  FilePageInv'
  <2>1. /\ box.of # None /\ FilePage!Idle /\ form[f] = None /\ FilePage!Works
        /\ form' = [form EXCEPT ![f] = box.of] /\ box' = [box EXCEPT !.files = box.files \cup {f}]
        /\ UNCHANGED <<data, detail, asked, requests, cause>>
    BY <1>7 DEF FilePage!SelectFile
  <2>2. \A d \in data : d.file # f
    BY <2>1 DEF FilePage!Document
  <2>3. box' \in FilePage!Box /\ box'.of = box.of /\ box'.files = box.files \cup {f} /\ box'.deletions = box.deletions
    BY <2>1
  <2>4. FilePage!TypeOK'
    BY <1>6, <2>1, <2>3
  <2>5. SavesWhatWasChosen'
    BY <2>1, <2>2, <2>3 DEF FilePage!Document
  <2>6. SavesTheRest'
    BY <2>1, <2>2, <2>3
  <2>7. NoFileForgotten'
    BY <1>6, <2>1, <2>3
  <2> QED BY <2>4, <2>5, <2>6, <2>7
<1>8. ASSUME NEW f \in Files, FilePage!RemoveFile(f)
      PROVE  FilePageInv'
  <2>1. /\ FilePage!Idle /\ f \in box.files /\ FilePage!Works
        /\ box' = [box EXCEPT !.files = box.files \ {f}, !.uploaded = box.uploaded \ {f}]
        /\ cause' = cause \cup {f} /\ UNCHANGED <<data, form, detail, asked, requests>>
    BY <1>8 DEF FilePage!RemoveFile
  <2>2. box' \in FilePage!Box /\ box'.of = box.of /\ box'.files = box.files \ {f} /\ box'.deletions = box.deletions
    BY <2>1
  <2>3. FilePage!TypeOK'
    BY <1>6, <2>1, <2>2
  <2>4. SavesWhatWasChosen'
    BY <2>1, <2>2
  <2>5. SavesTheRest' /\ NoFileForgotten'
    BY <1>6, <2>1, <2>2
  <2> QED BY <2>3, <2>4, <2>5
<1>9. ASSUME NEW d \in data, FilePage!MarkDeletion(d)
      PROVE  FilePageInv'
  <2>1. /\ FilePage!Idle /\ FilePage!Works /\ box' = [box EXCEPT !.deletions = box.deletions \cup {d}]
        /\ UNCHANGED <<data, form, detail, asked, requests, cause>>
    BY <1>9 DEF FilePage!MarkDeletion
  <2>2. /\ box' \in FilePage!Box /\ box'.of = box.of /\ box'.files = box.files
        /\ box'.deletions = box.deletions \cup {d}
    BY <2>1
  <2>3. FilePage!TypeOK'
    BY <1>6, <2>1, <2>2
  <2>4. SavesWhatWasChosen'
    BY <2>1, <2>2
  <2>5. SavesTheRest' /\ NoFileForgotten'
    BY <1>6, <2>1, <2>2
  <2> QED BY <2>3, <2>4, <2>5
<1>10. CASE FilePage!SubmitDocument
  <2>1. box.of # None /\ FilePage!Idle /\ detail' = box /\ FilePage!Works /\ UNCHANGED <<data, form, box, asked, requests, cause>>
    BY <1>10 DEF FilePage!SubmitDocument
  <2>2. FilePage!TypeOK' /\ SavesWhatWasChosen'
    BY <1>6, <2>1
  <2>3. SavesTheRest' /\ NoFileForgotten'
    BY <1>6, <2>1
  <2> QED BY <2>2, <2>3
<1>11. ASSUME NEW d \in detail.deletions, NEW outcome \in FilePage!Outcomes, FilePage!DeleteContractDocument(d, outcome)
       PROVE  FilePageInv'
  <2> DEFINE gone == [d EXCEPT !.live = FALSE]
  <2>1. d \in FilePage!Document /\ UNCHANGED <<form, asked, cause, crossing>>
    BY <1>11 DEF FilePage!DeleteContractDocument
  <2>2. gone \in FilePage!Document /\ gone.of = d.of /\ gone.file = d.file
    BY <2>1 DEF FilePage!Document
  <2>3. IF outcome = "REFUSED" THEN data' = data ELSE d \in data /\ data' = (data \ {d}) \cup {gone}
    BY <1>11 DEF FilePage!DeleteContractDocument, FilePage!Deleted
  <2>4. requests' = IF outcome = "LOST" THEN requests \cup {d.file} ELSE requests
    BY <1>11 DEF FilePage!DeleteContractDocument, FilePage!Records
  <2> HIDE DEF gone
  <2>5. \/ /\ outcome = "DONE"
           /\ detail' = [detail EXCEPT !.deletions = detail.deletions \ {d}]
           /\ box' = [box EXCEPT !.deletions = box.deletions \ {d}]
        \/ /\ outcome # "DONE" /\ box' = box
           /\ detail' = [of |-> None, files |-> {}, uploaded |-> {}, deletions |-> {}]
    BY <1>11 DEF FilePage!DeleteContractDocument, FilePage!Ends
  <2>6. /\ box' \in FilePage!Box /\ box'.of = box.of /\ box'.files = box.files
        /\ box'.deletions = IF outcome = "DONE" THEN box.deletions \ {d} ELSE box.deletions
    <3>1. CASE outcome = "DONE"
      <4>1. box' = [box EXCEPT !.deletions = box.deletions \ {d}]
        BY <2>5, <3>1
      <4> QED BY <3>1, <4>1
    <3>2. CASE outcome # "DONE"
      <4>1. box' = box
        BY <2>5, <3>2
      <4> QED BY <3>2, <4>1
    <3> QED BY <3>1, <3>2
  <2>7. /\ detail' \in FilePage!Box
        /\ IF outcome = "DONE" THEN /\ detail'.of = detail.of /\ detail'.files = detail.files
                                    /\ detail'.deletions = detail.deletions \ {d}
           ELSE detail' = [of |-> None, files |-> {}, uploaded |-> {}, deletions |-> {}]
    BY <2>5
  <2> HIDE <2>5
  <2>8. data' \subseteq FilePage!Document /\ IsFiniteSet(data')
    <3>1. IsFiniteSet((data \ {d}) \cup {gone})
      BY DocumentsFinite, Zenon
    <3>2. data' \in {data, (data \ {d}) \cup {gone}}
      BY <2>3
    <3>3. data' \subseteq FilePage!Document
      BY <2>2, <3>2
    <3>4. IsFiniteSet(data')
      BY <3>1, <3>2, Zenon
    <3> QED BY <3>3, <3>4
  <2>9. detail.of # None
    BY DEF FilePage!Outcomes
  <2>10. FilePage!TypeOK'
    BY <2>1, <2>4, <2>6, <2>7, <2>8 DEF FilePage!Document
  <2>11. SavesWhatWasChosen'
    <3>1. \A x \in data' : x.of = form'[x.file]
      BY <2>1, <2>2, <2>3
    <3> QED BY <2>1, <2>6, <2>7, <2>8, <2>9, <3>1
  <2>12. SavesTheRest'
    <3>1. ASSUME NEW f \in Files \ requests'
          PROVE  /\ \A x, y \in data' : x.file = f /\ y.file = f => x = y
                 /\ f \in box'.files \cup detail'.files => \A x \in data' : x.file # f
      <4>1. f \in Files \ requests /\ (f \in box'.files \cup detail'.files => f \in box.files \cup detail.files)
        BY <2>4, <2>6, <2>7, <3>1
      <4> QED BY <2>2, <2>3, <4>1
    <3>2. \A x \in box'.deletions \cup detail'.deletions : x.file \in requests' \/ x \in data'
      <4>1. CASE outcome = "DONE"
        BY <2>3, <2>4, <2>6, <2>7, <4>1
      <4>2. CASE outcome = "LOST"
        BY <2>3, <2>4, <2>6, <2>7, <4>2
      <4>3. CASE outcome = "REFUSED"
        BY <2>3, <2>4, <2>6, <2>7, <4>3
      <4> QED BY <4>1, <4>2, <4>3 DEF FilePage!Outcomes
    <3> QED BY <3>1, <3>2
  <2>13. NoFileForgotten'
    <3>1. \A f : (\E x \in data : x.file = f) => \E x \in data' : x.file = f
      BY <2>2, <2>3
    <3> QED BY <2>1, <2>6, <3>1
  <2> QED BY <2>10, <2>11, <2>12, <2>13
<1>12. ASSUME NEW f \in Files, NEW ok \in BOOLEAN, FilePage!UploadFile(f, ok)
       PROVE  FilePageInv'
  <2>1. ~FilePage!Idle /\ UNCHANGED <<data, form, asked, requests, cause, crossing>>
    BY <1>12 DEF FilePage!UploadFile, FilePage!NextFile
  <2>2. \/ /\ detail' = [detail EXCEPT !.uploaded = detail.uploaded \cup {f}]
           /\ box' = [box EXCEPT !.uploaded = box.uploaded \cup {f}]
        \/ box' = box /\ detail' = [of |-> None, files |-> {}, uploaded |-> {}, deletions |-> {}]
    BY <1>12 DEF FilePage!UploadFile, FilePage!Ends
  <2>3. /\ box' \in FilePage!Box /\ box'.of = box.of /\ box'.files = box.files /\ box'.deletions = box.deletions
        /\ detail' \in FilePage!Box
        /\ \/ detail'.of = detail.of /\ detail'.files = detail.files /\ detail'.deletions = detail.deletions
           \/ detail' = [of |-> None, files |-> {}, uploaded |-> {}, deletions |-> {}]
    BY <2>2
  <2> HIDE <2>2
  <2>4. FilePage!TypeOK'
    BY <2>1, <2>3
  <2>5. SavesWhatWasChosen'
    BY <2>1, <2>3
  <2>6. SavesTheRest' /\ NoFileForgotten'
    BY <2>1, <2>3
  <2> QED BY <2>4, <2>5, <2>6
<1>13. ASSUME NEW f \in Files, NEW outcome \in FilePage!Outcomes, FilePage!AddContractDocument(f, outcome)
       PROVE  FilePageInv'
  <2> DEFINE new == [of |-> detail.of, file |-> f, copy |-> FilePage!Copies(f) + 1, live |-> TRUE]
  <2>1. ~FilePage!Idle /\ f \in detail.files /\ UNCHANGED <<form, asked, cause, crossing>>
    BY <1>13 DEF FilePage!AddContractDocument, FilePage!NextFile
  <2>2. IF outcome = "REFUSED" THEN data' = data ELSE FilePage!Copies(f) < MaxCopies /\ data' = data \cup {new}
    BY <1>13 DEF FilePage!AddContractDocument, FilePage!Added
  <2>3. FilePage!Copies(f) < MaxCopies => new \in FilePage!Document
    <3>1. FilePage!Copies(f) \in Nat
      BY FilesCounted
    <3>2. FilePage!Copies(f) < MaxCopies => FilePage!Copies(f) + 1 \in 1..MaxCopies
      BY <3>1
    <3>3. detail.of \in Contracts
      BY <2>1
    <3> QED BY <3>2, <3>3 DEF FilePage!Document
  <2>4. new.of = detail.of /\ new.file = f
    OBVIOUS
  <2> HIDE DEF new
  <2>5. requests' = IF outcome = "LOST" THEN requests \cup {f} ELSE requests
    BY <1>13 DEF FilePage!AddContractDocument, FilePage!Records
  <2>6. \/ /\ outcome = "DONE"
           /\ detail' = [detail EXCEPT !.files = detail.files \ {f}]
           /\ box' = [box EXCEPT !.files = box.files \ {f}, !.uploaded = box.uploaded \ {f}]
        \/ /\ outcome # "DONE" /\ box' = box
           /\ detail' = [of |-> None, files |-> {}, uploaded |-> {}, deletions |-> {}]
    BY <1>13 DEF FilePage!AddContractDocument, FilePage!Ends
  <2>7. /\ box' \in FilePage!Box /\ box'.of = box.of /\ box'.deletions = box.deletions
        /\ box'.files = IF outcome = "DONE" THEN box.files \ {f} ELSE box.files
    <3>1. CASE outcome = "DONE"
      <4>1. box' = [box EXCEPT !.files = box.files \ {f}, !.uploaded = box.uploaded \ {f}]
        BY <2>6, <3>1
      <4> QED BY <3>1, <4>1
    <3>2. CASE outcome # "DONE"
      <4>1. box' = box
        BY <2>6, <3>2
      <4> QED BY <3>2, <4>1
    <3> QED BY <3>1, <3>2
  <2>8. /\ detail' \in FilePage!Box
        /\ IF outcome = "DONE" THEN /\ detail'.of = detail.of /\ detail'.deletions = detail.deletions
                                    /\ detail'.files = detail.files \ {f}
           ELSE detail' = [of |-> None, files |-> {}, uploaded |-> {}, deletions |-> {}]
    BY <2>6
  <2> HIDE <2>6
  <2>9. data' \subseteq FilePage!Document /\ IsFiniteSet(data')
    <3>1. IsFiniteSet(data \cup {new})
      BY DocumentsFinite, Zenon
    <3>2. data' \in {data, data \cup {new}}
      BY <2>2
    <3>3. data' \subseteq FilePage!Document
      BY <2>2, <2>3, <3>2
    <3>4. IsFiniteSet(data')
      BY <3>1, <3>2, Zenon
    <3> QED BY <3>3, <3>4
  <2>10. FilePage!TypeOK'
    BY <2>1, <2>5, <2>7, <2>8, <2>9
  <2>11. SavesWhatWasChosen'
    <3>1. \A x \in data' : x.of = form'[x.file]
      BY <2>1, <2>2, <2>4
    <3> QED BY <2>1, <2>7, <2>8, <2>9, <3>1
  <2>12. SavesTheRest'
    <3>1. ASSUME NEW g \in Files \ requests'
          PROVE  /\ \A x, y \in data' : x.file = g /\ y.file = g => x = y
                 /\ g \in box'.files \cup detail'.files => \A x \in data' : x.file # g
      <4>1. CASE g # f
        <5>1. g \in Files \ requests /\ (g \in box'.files \cup detail'.files => g \in box.files \cup detail.files)
          BY <2>5, <2>7, <2>8, <3>1
        <5> QED BY <2>2, <2>4, <4>1, <5>1
      <4>2. CASE g = f
        <5>1. outcome # "LOST" /\ f \in Files \ requests
          BY <2>5, <3>1, <4>2
        <5>2. \A x \in data : x.file # f
          BY <2>1, <5>1
        <5>3. CASE outcome = "DONE"
          BY <2>2, <2>7, <2>8, <4>2, <5>2, <5>3
        <5>4. CASE outcome = "REFUSED"
          BY <2>2, <4>2, <5>2, <5>4
        <5> QED BY <5>1, <5>3, <5>4 DEF FilePage!Outcomes
      <4> QED BY <4>1, <4>2
    <3>2. \A x \in box'.deletions \cup detail'.deletions : x.file \in requests' \/ x \in data'
      BY <2>2, <2>5, <2>7, <2>8
    <3> QED BY <3>1, <3>2
  <2>13. NoFileForgotten'
    <3>1. \A g : (\E x \in data : x.file = g) => \E x \in data' : x.file = g
      BY <2>2
    <3>2. outcome = "DONE" => \E x \in data' : x.file = f
      BY <2>2, <2>4
    <3> QED BY <2>1, <2>7, <3>1, <3>2
  <2> QED BY <2>10, <2>11, <2>12, <2>13
<1>14. CASE FilePage!AllSaved
  <2>1. /\ ~FilePage!Idle /\ detail.files = {} /\ box' = [box EXCEPT !.of = None]
        /\ detail' = [of |-> None, files |-> {}, uploaded |-> {}, deletions |-> {}]
        /\ UNCHANGED <<data, form, asked, requests, cause, crossing>>
    BY <1>14 DEF FilePage!AllSaved, FilePage!Ends
  <2>2. box.files = {}
    BY <2>1
  <2>3. box' \in FilePage!Box /\ box'.of = None /\ box'.files = {} /\ box'.deletions = box.deletions
    BY <2>1, <2>2
  <2>4. FilePage!TypeOK'
    BY <2>1, <2>3
  <2>5. SavesWhatWasChosen'
    BY <2>1, <2>3
  <2>6. SavesTheRest' /\ NoFileForgotten'
    BY <2>1, <2>2, <2>3
  <2> QED BY <2>4, <2>5, <2>6
<1> HIDE DEF FilePageInv
<1> QED BY <1>2, <1>3, <1>4, <1>5, <1>7, <1>8, <1>9, <1>10, <1>11, <1>12, <1>13, <1>14, Zenon DEF FilePage!Next
-----------------------------------------------------------------------------
(* The page of the buildings. *)

\* The list says that it loads only while it is awaited.
BuildingsAwaited ==
    /\ data.loading => \E c \in requests : c.kind \in BuildingPage!Listing
    /\ box.mode = "CLOSED" => box = BuildingPage!Closed
    /\ detail.kind = "NONE" => detail = BuildingPage!NoDialog

\* While a building is edited nothing is awaited but what saves it; while one
\* is added, nothing that writes another.
BuildingWritten ==
    ~crossing =>
        /\ box.mode = "EDIT" =>
             /\ BuildingPage!Item # None /\ box.values = BuildingPage!Item /\ box.over = BuildingPage!Item
             /\ \A c \in requests : c.kind \in BuildingPage!BuildingCalls =>
                  c.kind \in {"EDIT", "EDITED"} /\ c.of = BuildingPage!Item
        /\ box.mode = "CREATE" =>
             \A c \in requests : c.kind \in BuildingPage!BuildingCalls => c.kind \in {"CREATE", "CREATED", "MOUNT"}
        /\ \A c \in requests : c.kind \in {"EDIT", "EDITED", "DELETE"} => c.on = c.of

\* What is open over the panel waits for no building, but for a deletion.
BuildingDialog ==
    ~crossing /\ detail # BuildingPage!NoDialog =>
        /\ box = BuildingPage!Closed
        /\ BuildingPage!Item # None /\ detail.over = BuildingPage!Item /\ detail.of \in {BuildingPage!Item, None}
        /\ \A c \in requests : c.kind \in BuildingPage!BuildingCalls =>
             detail.kind = "DELETE" /\ c.kind \in {"DELETE", "DELETED"}

\* The rooms awaited and the rooms shown are of one building, by one filter.
BuildingRooms ==
    ~crossing =>
        /\ \A c \in requests : c.kind \in BuildingPage!RoomCalls =>
             c.of = BuildingPage!Item /\ c.of # None /\ c.on = c.of /\ c.filter = form.filter
        /\ ~form.loading /\ form.of # None => form.of = BuildingPage!Item /\ form.by = form.filter

BuildingPageInv ==
    /\ BuildingPage!TypeOK
    /\ BuildingsAwaited /\ BuildingWritten /\ BuildingDialog /\ BuildingRooms

\* What the page promises follows from its invariant.
LEMMA BuildingPageActs ==
  ASSUME BuildingPageInv
  PROVE  BuildingPage!ActsOnItsBuilding
<1> USE DEF BuildingPageInv
<1> SUFFICES ASSUME ~crossing PROVE BuildingPage!ActsOnItsBuilding!2
  BY DEF BuildingPage!ActsOnItsBuilding
<1>1. box.mode \in {"CREATE", "EDIT", "CLOSED"}
  BY DEF BuildingPage!TypeOK, BuildingPage!Drawer, BuildingPage!Saves
<1>2. box.mode = "EDIT" => /\ BuildingPage!Item # None /\ box.values = BuildingPage!Item
                           /\ box.over = BuildingPage!Item
  BY DEF BuildingWritten
<1>3. ASSUME NEW c \in requests, c.kind \in {"EDIT", "EDITED"}
      PROVE  c.on = c.of /\ (box # BuildingPage!Closed => box.over = c.of)
  BY <1>1, <1>2, <1>3 DEF BuildingWritten, BuildingsAwaited, BuildingPage!BuildingCalls,
                          BuildingPage!Saves, BuildingPage!Listing
<1>4. detail # BuildingPage!NoDialog => detail.over = BuildingPage!Item /\ detail.of \in {BuildingPage!Item, None}
  BY DEF BuildingDialog
<1>5. \A c \in requests : c.kind \in BuildingPage!RoomCalls \cup {"DELETE"} => c.on = c.of
  BY DEF BuildingRooms, BuildingWritten
<1>6. BuildingPage!PanelShown /\ ~form.loading /\ form.of # None
        => form.of = BuildingPage!Item /\ form.by = form.filter
  BY DEF BuildingRooms
<1> QED BY <1>2, <1>3, <1>4, <1>5, <1>6

\* A request that goes on as another is a request.
LEMMA BuildingCallMoves ==
  ASSUME requests \subseteq BuildingPage!Call, NEW c \in requests, NEW b \in BuildingPage!Building,
         NEW kind \in BuildingPage!BuildingCalls \cup BuildingPage!RoomCalls, BuildingPage!Becomes(c, kind, b)
  PROVE  \E e \in BuildingPage!Call : /\ requests' = (requests \ {c}) \cup {e}
                                      /\ e.kind = kind /\ e.of = b /\ e.on = c.on /\ e.filter = c.filter
<1> DEFINE e == [c EXCEPT !.kind = kind, !.of = b]
<1>1. e \in BuildingPage!Call /\ e.kind = kind /\ e.of = b /\ e.on = c.on /\ e.filter = c.filter
  BY DEF BuildingPage!Call
<1>2. requests' = (requests \ {c}) \cup {e}
  BY DEF BuildingPage!Becomes
<1> HIDE DEF e
<1> QED BY <1>1, <1>2

\* The page of the buildings opens in its invariant.
LEMMA BuildingPageInit ==
  ASSUME BuildingPage!BuildingsPageAssumption, BuildingPage!Init PROVE BuildingPageInv
<1> USE DEF BuildingPage!Init, BuildingPage!Request, BuildingPage!Closed, BuildingPage!NoDialog
<1>1. BuildingPage!TypeOK
  <2>1. data \in BuildingPage!List /\ box \in BuildingPage!Drawer
    BY DEF BuildingPage!List, BuildingPage!Drawer, BuildingPage!Building
  <2>2. form \in BuildingPage!RoomTable /\ detail \in BuildingPage!Dialog
    BY DEF BuildingPage!RoomTable, BuildingPage!Dialog, BuildingPage!Building, BuildingPage!Filter
  <2>3. requests \subseteq BuildingPage!Call
    BY DEF BuildingPage!Call, BuildingPage!Building, BuildingPage!Filter, BuildingPage!BuildingCalls, BuildingPage!Listing
  <2> QED BY <2>1, <2>2, <2>3 DEF BuildingPage!TypeOK
<1>2. BuildingsAwaited /\ BuildingWritten
  BY DEF BuildingsAwaited, BuildingWritten, BuildingPage!Listing
<1>3. BuildingDialog /\ BuildingRooms
  BY DEF BuildingDialog, BuildingRooms, BuildingPage!RoomCalls, BuildingPage!RoomSaves, BuildingPage!RoomListing
<1> QED BY <1>1, <1>2, <1>3 DEF BuildingPageInv

\* Every step of the page of the buildings keeps its invariant.
LEMMA BuildingPageStep ==
  ASSUME BuildingPage!BuildingsPageAssumption, BuildingPageInv, [BuildingPage!Next]_(BuildingPage!vars)
  PROVE  BuildingPageInv'
<1> USE DEF BuildingPage!BuildingsPageAssumption, BuildingPage!TypeOK, BuildingPage!List, BuildingPage!Drawer,
            BuildingPage!RoomTable, BuildingPage!Dialog, BuildingPage!Call, BuildingPage!Building, BuildingPage!Filter,
            BuildingPage!Saves, BuildingPage!RoomSaves, BuildingPage!Listing, BuildingPage!RoomListing,
            BuildingPage!BuildingCalls, BuildingPage!RoomCalls, BuildingPage!Closed, BuildingPage!NoDialog,
            BuildingPage!Request, BuildingPage!Item, BuildingPage!ItemOf,
            BuildingsAwaited, BuildingWritten, BuildingDialog, BuildingRooms
<1> USE DEF BuildingPageInv
<1>1. CASE UNCHANGED BuildingPage!vars
  BY <1>1 DEF BuildingPage!vars
<1> SUFFICES ASSUME BuildingPage!Next, ~crossing
             PROVE  BuildingPageInv'
  BY <1>1 DEF BuildingPage!Next
<1>2. CASE BuildingPage!OpenCreate
  <2>1. crossing' \in BOOLEAN /\ (~crossing' => ~BuildingPage!Awaited(BuildingPage!BuildingCalls \ {"MOUNT"}))
    BY <1>2, Zenon DEF BuildingPage!OpenCreate
  <2>2. ~crossing' => \A c \in requests : c.kind \in BuildingPage!BuildingCalls => c.kind = "MOUNT"
    BY <2>1 DEF BuildingPage!Awaited
  <2>3. /\ box' = [mode |-> "CREATE", values |-> None, over |-> None]
        /\ UNCHANGED <<data, form, detail, requests>> /\ BuildingPage!NothingOpen
    BY <1>2 DEF BuildingPage!OpenCreate
  <2>4. ~crossing' => detail = BuildingPage!NoDialog
    BY <2>2, <2>3 DEF BuildingPage!NothingOpen, BuildingPage!PanelShown
  <2>5. BuildingPage!TypeOK' /\ BuildingsAwaited'
    BY <2>1, <2>3
  <2>6. BuildingWritten'
    BY <2>2, <2>3
  <2>7. BuildingDialog' /\ BuildingRooms'
    BY <2>3, <2>4
  <2> QED BY <2>5, <2>6, <2>7
<1>3. CASE BuildingPage!OpenEdit
  <2>1. crossing' \in BOOLEAN /\ (~crossing' => ~BuildingPage!Awaited(BuildingPage!BuildingCalls))
    BY <1>3, Zenon DEF BuildingPage!OpenEdit
  <2>2. ~crossing' => \A c \in requests : c.kind \notin BuildingPage!BuildingCalls
    BY <2>1 DEF BuildingPage!Awaited
  <2>3. /\ box' = [mode |-> "EDIT", values |-> BuildingPage!Item, over |-> BuildingPage!Item]
        /\ UNCHANGED <<data, form, detail, requests>> /\ detail = BuildingPage!NoDialog /\ BuildingPage!Item # None
    BY <1>3 DEF BuildingPage!OpenEdit, BuildingPage!NothingOpen, BuildingPage!PanelShown
  <2>4. BuildingPage!TypeOK' /\ BuildingsAwaited'
    BY <2>1, <2>3
  <2>5. BuildingWritten'
    BY <2>2, <2>3
  <2>6. BuildingDialog' /\ BuildingRooms'
    BY <2>3
  <2> QED BY <2>4, <2>5, <2>6
<1>4. CASE BuildingPage!CloseDrawer
  BY <1>4 DEF BuildingPage!CloseDrawer
<1>5. CASE BuildingPage!HandleSubmit
  <2> DEFINE b == IF box.mode = "EDIT" THEN BuildingPage!Item ELSE None
             e == [kind |-> box.mode, of |-> b, on |-> box.values, filter |-> "ALL"]
  <2>1. /\ requests' = requests \cup {e} /\ box.mode \in {"CREATE", "EDIT"}
        /\ UNCHANGED <<data, box, form, detail, crossing>>
    BY <1>5 DEF BuildingPage!HandleSubmit, BuildingPage!Send
  <2>2. BuildingPage!TypeOK' /\ BuildingsAwaited'
    BY <2>1
  <2>3. BuildingWritten'
    BY <2>1
  <2>4. BuildingDialog' /\ BuildingRooms'
    BY <2>1
  <2> QED BY <2>2, <2>3, <2>4
<1>6. CASE BuildingPage!CloseDialog
  BY <1>6 DEF BuildingPage!CloseDialog
<1>7. CASE BuildingPage!Confirm
  <2> DEFINE e == [kind |-> detail.kind, of |-> BuildingPage!Item, on |-> detail.over, filter |-> form.filter]
  <2>1. /\ requests' = requests \cup {e} /\ detail # BuildingPage!NoDialog
        /\ UNCHANGED <<data, box, form, detail, crossing>>
    BY <1>7 DEF BuildingPage!Confirm, BuildingPage!Send
  <2>2. detail.kind # "NONE"
    BY <2>1
  <2>3. BuildingPage!TypeOK' /\ BuildingsAwaited'
    BY <2>1, <2>2
  <2>4. BuildingWritten' /\ BuildingDialog'
    BY <2>1, <2>2
  <2>5. BuildingRooms'
    BY <2>1, <2>2
  <2> QED BY <2>3, <2>4, <2>5
<1>8. ASSUME NEW b \in Buildings, BuildingPage!Select(b)
      PROVE  BuildingPageInv'
  <2>1. /\ crossing' \in BOOLEAN
        /\ ~crossing' => /\ ~BuildingPage!Awaited(BuildingPage!BuildingCalls)
                         /\ ~BuildingPage!Overtakes(requests, b, form.filter)
    BY <1>8, Zenon DEF BuildingPage!Select
  <2>2. ~crossing' => \A c \in requests : /\ c.kind \notin BuildingPage!BuildingCalls
                                          /\ c.kind \in BuildingPage!RoomCalls => c.of = b /\ c.filter = form.filter
    BY <2>1 DEF BuildingPage!Awaited, BuildingPage!Overtakes
  <2>3. /\ requests' = requests \cup {[kind |-> "ROOMS", of |-> b, on |-> b, filter |-> form.filter]}
        /\ data' = [data EXCEPT !.selected = b] /\ form' = [form EXCEPT !.loading = TRUE]
        /\ b \in data.items /\ ~data.loading /\ UNCHANGED <<box, detail>> /\ BuildingPage!NothingOpen
    BY <1>8 DEF BuildingPage!Select, BuildingPage!Send
  <2>4. box = BuildingPage!Closed /\ detail = BuildingPage!NoDialog
    BY <2>3 DEF BuildingPage!NothingOpen, BuildingPage!PanelShown
  <2>5. BuildingPage!TypeOK'
    <3>1. data' \in BuildingPage!List /\ form' \in BuildingPage!RoomTable
      BY <2>3
    <3>2. requests' \subseteq BuildingPage!Call
      BY <2>3
    <3> QED BY <2>1, <2>3, <3>1, <3>2
  <2>6. BuildingsAwaited' /\ BuildingWritten' /\ BuildingDialog'
    BY <2>2, <2>3, <2>4
  <2>7. BuildingPage!Item' = b
    BY <2>3
  <2>8. BuildingRooms'
    BY <2>2, <2>3, <2>7
  <2> QED BY <2>5, <2>6, <2>8
<1>9. ASSUME NEW f \in BuildingPage!Filter, BuildingPage!SetFilter(f)
      PROVE  BuildingPageInv'
  <2>1. crossing' \in BOOLEAN /\ (~crossing' => ~BuildingPage!Overtakes(requests, BuildingPage!Item, f))
    BY <1>9, Zenon DEF BuildingPage!SetFilter
  <2>2. ~crossing' => \A c \in requests : c.kind \in BuildingPage!RoomCalls => c.filter = f
    BY <2>1 DEF BuildingPage!Overtakes
  <2>3. /\ requests' = requests \cup {[kind |-> "ROOMS", of |-> BuildingPage!Item, on |-> BuildingPage!Item, filter |-> f]}
        /\ form' = [form EXCEPT !.filter = f, !.loading = TRUE]
        /\ BuildingPage!Item # None /\ UNCHANGED <<data, box, detail>>
    BY <1>9 DEF BuildingPage!SetFilter, BuildingPage!Send, BuildingPage!PanelShown
  <2>4. BuildingPage!TypeOK'
    <3>1. form' \in BuildingPage!RoomTable
      BY <2>3
    <3>2. requests' \subseteq BuildingPage!Call
      BY <2>3
    <3> QED BY <2>1, <2>3, <3>1, <3>2
  <2>5. BuildingsAwaited' /\ BuildingWritten' /\ BuildingDialog'
    BY <2>3
  <2>6. BuildingRooms'
    BY <2>2, <2>3
  <2> QED BY <2>4, <2>5, <2>6
<1>10. ASSUME NEW kind \in BuildingPage!RoomSaves \cup {"ROOM_DELETE", "DELETE"}, BuildingPage!OpenDialog(kind)
       PROVE  BuildingPageInv'
  <2> DEFINE b == IF kind \in {"ROOM_EDIT", "ROOM_DELETE"} THEN form.of ELSE None
  <2>1. crossing' \in BOOLEAN /\ (~crossing' => ~BuildingPage!Awaited(BuildingPage!BuildingCalls))
    BY <1>10, Zenon DEF BuildingPage!OpenDialog
  <2>2. ~crossing' => \A c \in requests : c.kind \notin BuildingPage!BuildingCalls
    BY <2>1 DEF BuildingPage!Awaited
  <2>3. /\ detail' = [kind |-> kind, over |-> BuildingPage!Item, of |-> b]
        /\ BuildingPage!Item # None /\ UNCHANGED <<data, box, form, requests>>
        /\ kind \in {"ROOM_EDIT", "ROOM_DELETE"} => ~form.loading /\ form.of # None
        /\ box = BuildingPage!Closed
    BY <1>10 DEF BuildingPage!OpenDialog, BuildingPage!PanelShown, BuildingPage!NothingOpen
  <2>4. b \in {BuildingPage!Item, None}
    BY <2>3
  <2>5. BuildingPage!TypeOK' /\ BuildingsAwaited'
    BY <2>1, <2>3, <2>4
  <2>6. BuildingWritten'
    BY <2>2, <2>3
  <2>7. BuildingDialog'
    BY <2>2, <2>3, <2>4
  <2>8. BuildingRooms'
    BY <2>3
  <2> QED BY <2>5, <2>6, <2>7, <2>8
<1>11. ASSUME NEW c \in requests, NEW items \in SUBSET Buildings,
              NEW b \in (IF c.kind \in {"CREATED", "EDITED"} THEN {c.of} ELSE IF items = {} THEN {None} ELSE items),
              BuildingPage!Listed(c, items, b)
       PROVE  BuildingPageInv'
  <2> DEFINE item == IF b \in items THEN b ELSE None
             shown == item # None
             rest == requests \ {c}
             next == [kind |-> "ROOMS", of |-> item, on |-> item, filter |-> form.filter]
  <2>1. /\ c.kind \in BuildingPage!Listing
        /\ data' = [items |-> items, selected |-> b, loading |-> FALSE]
        /\ requests' = rest \cup (IF shown THEN {next} ELSE {})
        /\ crossing' = (FALSE \/ BuildingPage!Overtakes(rest, item, form.filter))
    BY <1>11 DEF BuildingPage!Listed
  <2>2. ~crossing' => \A d \in rest : d.kind \in BuildingPage!RoomCalls => d.of = item /\ d.filter = form.filter
    BY <2>1 DEF BuildingPage!Overtakes
  <2>3. /\ form' \in BuildingPage!RoomTable
        /\ shown => form'.loading /\ form'.filter = form.filter
        /\ ~shown => form'.of = None
    <3> DEFINE p == form.loading \/ shown
    <3>1. form' = [of |-> IF shown THEN form.of ELSE None, by |-> form.by, loading |-> p,
                   filter |-> IF shown THEN form.filter ELSE "ALL"]
      BY <1>11, Zenon DEF BuildingPage!Listed, BuildingPage!ItemOf
    <3>2. p \in BOOLEAN /\ (shown => p)
      OBVIOUS
    <3> HIDE DEF p, item
    <3>3. CASE shown
      <4>1. p = TRUE
        BY <3>2, <3>3
      <4>2. form' = [of |-> form.of, by |-> form.by, loading |-> TRUE, filter |-> form.filter]
        BY <3>1, <3>3, <4>1
      <4>3. form \in BuildingPage!RoomTable
        OBVIOUS
      <4>4. form' \in BuildingPage!RoomTable
        BY <4>2, <4>3
      <4> QED BY <3>3, <4>2, <4>4
    <3>4. CASE ~shown
      BY <3>1, <3>2, <3>4
    <3> QED BY <3>3, <3>4
  <2>4. /\ c.kind \in {"CREATED", "EDITED"} => box' = BuildingPage!Closed
        /\ box' \in {BuildingPage!Closed, box, [box EXCEPT !.values = item]}
        /\ box' = [box EXCEPT !.values = item] => box' = box \/ box.mode = "EDIT"
    BY <1>11 DEF BuildingPage!Listed
  <2>5. b \in Buildings \cup {None} /\ item \in Buildings \cup {None}
    OBVIOUS
  <2>6. detail' = BuildingPage!NoDialog
    <3>1. CASE detail = BuildingPage!NoDialog
      BY <1>11, <3>1 DEF BuildingPage!Listed
    <3>2. CASE detail # BuildingPage!NoDialog
      <4>1. detail.kind = "DELETE" /\ c.kind = "DELETED"
        BY <2>1, <3>2
      <4> QED BY <1>11, <4>1 DEF BuildingPage!Listed
    <3> QED BY <3>1, <3>2
  <2>7. (box' = box /\ box.mode # "EDIT") \/ box' = BuildingPage!Closed
    <3>1. CASE box.mode = "EDIT"
      BY <2>1, <2>4, <3>1
    <3>2. CASE box.mode # "EDIT"
      BY <2>4, <3>2
    <3> QED BY <3>1, <3>2
  <2>8. crossing' \in BOOLEAN
    BY <2>1, Zenon DEF BuildingPage!Overtakes
  <2>9. requests' \subseteq BuildingPage!Call
    BY <2>1, <2>5
  <2>10. BuildingPage!TypeOK' /\ BuildingsAwaited'
    BY <2>1, <2>3, <2>5, <2>6, <2>7, <2>8, <2>9
  <2>11. BuildingWritten' /\ BuildingDialog'
    BY <2>1, <2>6, <2>7
  <2>12. BuildingRooms'
    <3>1. BuildingPage!Item' = item
      BY <2>1
    <3> HIDE DEF item
    <3>2. CASE shown
      BY <2>1, <2>2, <2>3, <3>1, <3>2
    <3>3. CASE ~shown
      BY <2>1, <2>2, <2>3, <3>1, <3>3
    <3> QED BY <3>2, <3>3
  <2> QED BY <2>10, <2>11, <2>12
<1>12. ASSUME NEW c \in requests, BuildingPage!WriteFailed(c)
       PROVE  BuildingPageInv'
  <2>1. /\ c.kind \notin BuildingPage!Listing /\ requests' = requests \ {c}
        /\ UNCHANGED <<data, box, form, detail, crossing>>
    BY <1>12 DEF BuildingPage!WriteFailed, BuildingPage!Answer
  <2> QED BY <2>1
<1>13. ASSUME NEW c \in requests, BuildingPage!RoomWritten(c)
       PROVE  BuildingPageInv'
  <2>1. PICK e \in BuildingPage!Call : /\ requests' = (requests \ {c}) \cup {e}
                                       /\ e.kind \in {"ROOM_SAVED", "ROOMS"}
                                       /\ e.of = c.of /\ e.on = c.on /\ e.filter = c.filter
    <3>1. BuildingPage!Becomes(c, "ROOM_SAVED", c.of) \/ BuildingPage!Becomes(c, "ROOMS", c.of)
      BY <1>13 DEF BuildingPage!RoomWritten
    <3>2. /\ requests \subseteq BuildingPage!Call /\ c.of \in BuildingPage!Building
          /\ {"ROOM_SAVED", "ROOMS"} \subseteq BuildingPage!BuildingCalls \cup BuildingPage!RoomCalls
      OBVIOUS
    <3> HIDE DEF BuildingPage!Call, BuildingPage!Building, BuildingPage!BuildingCalls, BuildingPage!RoomCalls
    <3>3. CASE BuildingPage!Becomes(c, "ROOM_SAVED", c.of)
      BY <3>2, <3>3, BuildingCallMoves
    <3>4. CASE BuildingPage!Becomes(c, "ROOMS", c.of)
      BY <3>2, <3>4, BuildingCallMoves
    <3> QED BY <3>1, <3>3, <3>4
  <2>2. /\ c.kind \in BuildingPage!RoomCalls /\ detail' \in {detail, BuildingPage!NoDialog}
        /\ form' = [form EXCEPT !.loading = TRUE] /\ UNCHANGED <<data, box, crossing>>
    BY <1>13 DEF BuildingPage!RoomWritten
  <2>3. BuildingPage!TypeOK' /\ BuildingsAwaited'
    <3>1. form' \in BuildingPage!RoomTable
      BY <2>1, <2>2
    <3>2. requests' \subseteq BuildingPage!Call
      BY <2>2, <2>1
    <3> QED BY <2>1, <2>2, <3>1, <3>2
  <2>4. BuildingWritten' /\ BuildingDialog'
    BY <2>1, <2>2
  <2>5. BuildingRooms'
    BY <2>1, <2>2
  <2> QED BY <2>3, <2>4, <2>5
<1>14. ASSUME NEW c \in requests, NEW b \in Buildings, BuildingPage!Written(c, b)
       PROVE  BuildingPageInv'
  <2>1. /\ data' = [data EXCEPT !.loading = TRUE] /\ UNCHANGED <<box, form, detail, crossing>>
        /\ c.kind \in {"CREATE", "EDIT", "DELETE"} /\ (c.kind # "CREATE" => b = c.of)
    BY <1>14 DEF BuildingPage!Written
  <2>2. PICK e \in BuildingPage!Call :
          /\ requests' = (requests \ {c}) \cup {e}
          /\ <<c.kind, e.kind>> \in {<<"CREATE", "CREATED">>, <<"EDIT", "EDITED">>, <<"DELETE", "DELETED">>}
          /\ e.of = b /\ e.on = c.on
    <3>1. \/ c.kind = "CREATE" /\ BuildingPage!Becomes(c, "CREATED", b)
          \/ c.kind = "EDIT" /\ BuildingPage!Becomes(c, "EDITED", b)
          \/ c.kind = "DELETE" /\ BuildingPage!Becomes(c, "DELETED", b)
      BY <1>14 DEF BuildingPage!Written
    <3>2. /\ requests \subseteq BuildingPage!Call /\ b \in BuildingPage!Building
          /\ {"CREATED", "EDITED", "DELETED"} \subseteq BuildingPage!BuildingCalls \cup BuildingPage!RoomCalls
      OBVIOUS
    <3> HIDE DEF BuildingPage!Call, BuildingPage!Building, BuildingPage!BuildingCalls, BuildingPage!RoomCalls
    <3>3. CASE c.kind = "CREATE" /\ BuildingPage!Becomes(c, "CREATED", b)
      BY <3>2, <3>3, BuildingCallMoves
    <3>4. CASE c.kind = "EDIT" /\ BuildingPage!Becomes(c, "EDITED", b)
      BY <3>2, <3>4, BuildingCallMoves
    <3>5. CASE c.kind = "DELETE" /\ BuildingPage!Becomes(c, "DELETED", b)
      BY <3>2, <3>5, BuildingCallMoves
    <3> QED BY <3>1, <3>3, <3>4, <3>5
  <2>3. BuildingPage!TypeOK' /\ BuildingsAwaited'
    <3>1. data' \in BuildingPage!List
      BY <2>1, <2>2
    <3>2. requests' \subseteq BuildingPage!Call
      BY <2>2, <2>1
    <3>3. e \in requests' /\ e.kind \in BuildingPage!Listing
      BY <2>2
    <3>4. BuildingPage!TypeOK'
      <4>1. UNCHANGED <<box, form, detail, crossing>>
        BY <2>1
      <4> QED BY <3>1, <3>2, <4>1
    <3>5. BuildingsAwaited'
      BY <2>1, <3>3
    <3> QED BY <3>4, <3>5
  <2>4. BuildingWritten'
    BY <2>1, <2>2
  <2>5. BuildingDialog' /\ BuildingRooms'
    BY <2>1, <2>2
  <2> QED BY <2>3, <2>4, <2>5
<1>15. ASSUME NEW c \in requests, NEW ok \in BOOLEAN, BuildingPage!LoadRooms(c, ok)
       PROVE  BuildingPageInv'
  <2>1. /\ c.kind \in BuildingPage!RoomListing /\ requests' = requests \ {c}
        /\ detail' \in {detail, BuildingPage!NoDialog} /\ UNCHANGED <<data, box, crossing>>
    BY <1>15 DEF BuildingPage!LoadRooms, BuildingPage!Answer
  <2>2. form' = [form EXCEPT !.of = IF ok THEN c.of ELSE None, !.by = c.filter, !.loading = FALSE]
    BY <1>15 DEF BuildingPage!LoadRooms
  <2>3. BuildingPage!TypeOK'
    <3>1. form' \in BuildingPage!RoomTable
      BY <2>2
    <3> QED BY <2>1, <3>1
  <2>4. BuildingsAwaited' /\ BuildingWritten' /\ BuildingDialog'
    BY <2>1, <2>2
  <2>5. BuildingRooms'
    BY <2>1, <2>2
  <2> QED BY <2>3, <2>4, <2>5
<1> HIDE DEF BuildingPageInv
<1>16. ASSUME NEW c \in requests, BuildingPage!LoadBuildings(c)
       PROVE  BuildingPageInv'
  BY <1>11, <1>16, Zenon DEF BuildingPage!LoadBuildings
<1> QED
  BY <1>2, <1>3, <1>4, <1>5, <1>6, <1>7, <1>8, <1>9, <1>10, <1>12, <1>13, <1>14, <1>15, <1>16, Zenon
  DEF BuildingPage!Next
-----------------------------------------------------------------------------
(* The page the user has before him. *)

PagesInv ==
    /\ part = "FORM" => FormPageInv
    /\ part = "INVOICES" => InvoicePageInv
    /\ part = "FEES" => FeePageInv
    /\ part = "CONTRACTS" => ContractPageInv
    /\ part = "UTILITIES" => UtilityPageInv
    /\ part = "TENANTS" => TenantPageInv
    /\ part = "ROOM" => RoomPageInv
    /\ part = "FILES" => FilePageInv
    /\ part = "RENTAL" => RentalPageInv
    /\ part = "IMPORT" => ImportPageInv
    /\ part = "PAYMENTS" => PaymentPageInv
    /\ part = "PROOFS" => ProofPageInv
    /\ part = "BUILDINGS" => BuildingPageInv

\* Whichever page is opened, it opens in its invariant.
LEMMA PagesInit == ASSUME Init PROVE PagesInv
<1>1. ASSUME part = "FORM" PROVE FormPageInv
  <2>1. FormPage!Init
    BY <1>1, Zenon DEF Init, Pages
  <2> QED BY <2>1, OfficeAssumption, FormPageInit
<1>2. ASSUME part = "INVOICES" PROVE InvoicePageInv
  <2>1. InvoicePage!Init
    BY <1>2, Zenon DEF Init, Pages
  <2> QED BY <2>1, OfficeAssumption, InvoicePageInit
<1>3. ASSUME part = "FEES" PROVE FeePageInv
  <2>1. FeePage!Init
    BY <1>3, Zenon DEF Init, Pages
  <2> QED BY <2>1, OfficeAssumption, FeePageInit
<1>4. ASSUME part = "CONTRACTS" PROVE ContractPageInv
  <2>1. ContractPage!Init
    BY <1>4, Zenon DEF Init, Pages
  <2> QED BY <2>1, OfficeAssumption, ContractPageInit
<1>5. ASSUME part = "UTILITIES" PROVE UtilityPageInv
  <2>1. UtilityPage!Init
    BY <1>5, Zenon DEF Init, Pages
  <2> QED BY <2>1, OfficeAssumption, UtilityPageInit
<1>6. ASSUME part = "TENANTS" PROVE TenantPageInv
  <2>1. TenantPage!Init
    BY <1>6, Zenon DEF Init, Pages
  <2> QED BY <2>1, OfficeAssumption, TenantPageInit
<1>7. ASSUME part = "ROOM" PROVE RoomPageInv
  <2>1. RoomPage!Init
    BY <1>7, Zenon DEF Init, Pages
  <2> QED BY <2>1, OfficeAssumption, RoomPageInit
<1>8. ASSUME part = "FILES" PROVE FilePageInv
  <2>1. FilePage!Init
    BY <1>8, Zenon DEF Init, Pages
  <2> QED BY <2>1, OfficeAssumption, FilePageInit
<1>9. ASSUME part = "RENTAL" PROVE RentalPageInv
  <2>1. RentalPage!Init
    BY <1>9, Zenon DEF Init, Pages
  <2> QED BY <2>1, OfficeAssumption, RentalPageInit
<1>10. ASSUME part = "IMPORT" PROVE ImportPageInv
  <2>1. ImportPage!Init
    BY <1>10, Zenon DEF Init, Pages
  <2> QED BY <2>1, OfficeAssumption, ImportPageInit
<1>11. ASSUME part = "PAYMENTS" PROVE PaymentPageInv
  <2>1. PaymentPage!Init
    BY <1>11, Zenon DEF Init, Pages
  <2> QED BY <2>1, OfficeAssumption, PaymentPageInit
<1>12. ASSUME part = "PROOFS" PROVE ProofPageInv
  <2>1. ProofPage!Init
    BY <1>12, Zenon DEF Init, Pages
  <2> QED BY <2>1, OfficeAssumption, ProofPageInit
<1>13. ASSUME part = "BUILDINGS" PROVE BuildingPageInv
  <2>1. BuildingPage!Init
    BY <1>13, Zenon DEF Init, Pages
  <2> QED BY <2>1, OfficeAssumption, BuildingPageInit
<1> QED BY <1>1, <1>2, <1>3, <1>4, <1>5, <1>6, <1>7, <1>8, <1>9, <1>10, <1>11, <1>12, <1>13 DEF PagesInv

\* What moves under a page is that page, and what another module does is not.
LEMMA PagesStep == ASSUME PagesInv, [Next]_vars PROVE PagesInv'
<1>1. part' = part /\ (part \in Pages /\ ~Next => UNCHANGED pages)
  <2>1. \A p : Only(p) => part' = part
    BY Zenon DEF Only
  <2>2. Next => \E p : Only(p)
    BY Zenon DEF Next
  <2>3. UNCHANGED vars => part' = part /\ UNCHANGED pages
    BY DEF vars
  <2> QED BY <2>1, <2>2, <2>3, Zenon
<1>2. \A p : Only(p) => part = p
  BY Zenon DEF Only
<1>3. ASSUME part = "FORM" PROVE FormPageInv'
  <2>1. FormPageInv
    BY <1>3 DEF PagesInv
  <2>2. [FormPage!Next]_(FormPage!vars)
    <3>1. CASE Next
      BY <3>1, <1>3, <1>2 DEF Next
    <3>2. CASE ~Next
      BY <3>2, <1>3, <1>1 DEF Pages, pages, FormPage!vars
    <3> QED BY <3>1, <3>2
  <2> QED BY <2>1, <2>2, OfficeAssumption, FormPageStep
<1>4. ASSUME part = "INVOICES" PROVE InvoicePageInv'
  <2>1. InvoicePageInv
    BY <1>4 DEF PagesInv
  <2>2. [InvoicePage!Next]_(InvoicePage!vars)
    <3>1. CASE Next
      BY <3>1, <1>4, <1>2 DEF Next
    <3>2. CASE ~Next
      BY <3>2, <1>4, <1>1 DEF Pages, pages, InvoicePage!vars
    <3> QED BY <3>1, <3>2
  <2> QED BY <2>1, <2>2, OfficeAssumption, InvoicePageStep
<1>5. ASSUME part = "FEES" PROVE FeePageInv'
  <2>1. FeePageInv
    BY <1>5 DEF PagesInv
  <2>2. [FeePage!Next]_(FeePage!vars)
    <3>1. CASE Next
      BY <3>1, <1>5, <1>2 DEF Next
    <3>2. CASE ~Next
      BY <3>2, <1>5, <1>1 DEF Pages, pages, FeePage!vars
    <3> QED BY <3>1, <3>2
  <2> QED BY <2>1, <2>2, OfficeAssumption, FeePageStep
<1>6. ASSUME part = "CONTRACTS" PROVE ContractPageInv'
  <2>1. ContractPageInv
    BY <1>6 DEF PagesInv
  <2>2. [ContractPage!Next]_(ContractPage!vars)
    <3>1. CASE Next
      BY <3>1, <1>6, <1>2 DEF Next
    <3>2. CASE ~Next
      BY <3>2, <1>6, <1>1 DEF Pages, pages, ContractPage!vars
    <3> QED BY <3>1, <3>2
  <2> QED BY <2>1, <2>2, OfficeAssumption, ContractPageStep
<1>7. ASSUME part = "UTILITIES" PROVE UtilityPageInv'
  <2>1. UtilityPageInv
    BY <1>7 DEF PagesInv
  <2>2. [UtilityPage!Next]_(UtilityPage!vars)
    <3>1. CASE Next
      BY <3>1, <1>7, <1>2 DEF Next
    <3>2. CASE ~Next
      BY <3>2, <1>7, <1>1 DEF Pages, pages, UtilityPage!vars
    <3> QED BY <3>1, <3>2
  <2> QED BY <2>1, <2>2, OfficeAssumption, UtilityPageStep
<1>8. ASSUME part = "TENANTS" PROVE TenantPageInv'
  <2>1. TenantPageInv
    BY <1>8 DEF PagesInv
  <2>2. [TenantPage!Next]_(TenantPage!vars)
    <3>1. CASE Next
      BY <3>1, <1>8, <1>2 DEF Next
    <3>2. CASE ~Next
      BY <3>2, <1>8, <1>1 DEF Pages, pages, TenantPage!vars
    <3> QED BY <3>1, <3>2
  <2> QED BY <2>1, <2>2, OfficeAssumption, TenantPageStep
<1>9. ASSUME part = "ROOM" PROVE RoomPageInv'
  <2>1. RoomPageInv
    BY <1>9 DEF PagesInv
  <2>2. [RoomPage!Next]_(RoomPage!vars)
    <3>1. CASE Next
      BY <3>1, <1>9, <1>2 DEF Next
    <3>2. CASE ~Next
      BY <3>2, <1>9, <1>1 DEF Pages, pages, RoomPage!vars
    <3> QED BY <3>1, <3>2
  <2> QED BY <2>1, <2>2, OfficeAssumption, RoomPageStep
<1>10. ASSUME part = "FILES" PROVE FilePageInv'
  <2>1. FilePageInv
    BY <1>10 DEF PagesInv
  <2>2. [FilePage!Next]_(FilePage!vars)
    <3>1. CASE Next
      BY <3>1, <1>10, <1>2 DEF Next
    <3>2. CASE ~Next
      BY <3>2, <1>10, <1>1 DEF Pages, pages, FilePage!vars
    <3> QED BY <3>1, <3>2
  <2> QED BY <2>1, <2>2, OfficeAssumption, FilePageStep
<1>11. ASSUME part = "RENTAL" PROVE RentalPageInv'
  <2>1. RentalPageInv
    BY <1>11 DEF PagesInv
  <2>2. [RentalPage!Next]_(RentalPage!vars)
    <3>1. CASE Next
      BY <3>1, <1>11, <1>2 DEF Next
    <3>2. CASE ~Next
      BY <3>2, <1>11, <1>1 DEF Pages, pages, RentalPage!vars
    <3> QED BY <3>1, <3>2
  <2> QED BY <2>1, <2>2, OfficeAssumption, RentalPageStep
<1>12. ASSUME part = "IMPORT" PROVE ImportPageInv'
  <2>1. ImportPageInv
    BY <1>12 DEF PagesInv
  <2>2. [ImportPage!Next]_(ImportPage!vars)
    <3>1. CASE Next
      BY <3>1, <1>12, <1>2 DEF Next
    <3>2. CASE ~Next
      BY <3>2, <1>12, <1>1 DEF Pages, pages, ImportPage!vars
    <3> QED BY <3>1, <3>2
  <2> QED BY <2>1, <2>2, OfficeAssumption, ImportPageStep
<1>13. ASSUME part = "PAYMENTS" PROVE PaymentPageInv'
  <2>1. PaymentPageInv
    BY <1>13 DEF PagesInv
  <2>2. [PaymentPage!Next]_(PaymentPage!vars)
    <3>1. CASE Next
      BY <3>1, <1>13, <1>2 DEF Next
    <3>2. CASE ~Next
      BY <3>2, <1>13, <1>1 DEF Pages, pages, PaymentPage!vars
    <3> QED BY <3>1, <3>2
  <2> QED BY <2>1, <2>2, OfficeAssumption, PaymentPageStep
<1>14. ASSUME part = "PROOFS" PROVE ProofPageInv'
  <2>1. ProofPageInv
    BY <1>14 DEF PagesInv
  <2>2. [ProofPage!Next]_(ProofPage!vars)
    <3>1. CASE Next
      BY <3>1, <1>14, <1>2 DEF Next
    <3>2. CASE ~Next
      BY <3>2, <1>14, <1>1 DEF Pages, pages, ProofPage!vars
    <3> QED BY <3>1, <3>2
  <2> QED BY <2>1, <2>2, OfficeAssumption, ProofPageStep
<1>15. ASSUME part = "BUILDINGS" PROVE BuildingPageInv'
  <2>1. BuildingPageInv
    BY <1>15 DEF PagesInv
  <2>2. [BuildingPage!Next]_(BuildingPage!vars)
    <3>1. CASE Next
      BY <3>1, <1>15, <1>2 DEF Next
    <3>2. CASE ~Next
      BY <3>2, <1>15, <1>1 DEF Pages, pages, BuildingPage!vars
    <3> QED BY <3>1, <3>2
  <2> QED BY <2>1, <2>2, OfficeAssumption, BuildingPageStep
<1> QED BY <1>1, <1>3, <1>4, <1>5, <1>6, <1>7, <1>8, <1>9, <1>10, <1>11, <1>12, <1>13, <1>14, <1>15 DEF PagesInv

\* Whichever page is used, it keeps its invariant up to its first crossing,
\* where its specification ends, with answers in any order, failed or lost.
THEOREM PagesInvariance == Spec => []PagesInv
<1> QED BY PagesInit, PagesStep, PTL DEF Spec

\* Up to the first crossing (one thing asked for while the answer about another
\* is awaited) what a page shows, offers and sends is of what the user chose
\* last.  Nothing is claimed of what a page does after that.
THEOREM ScreensUntilCrossed == Spec => []ScreensAreOwnUntilCrossed
<1>1. PagesInv => ScreensAreOwnUntilCrossed
  BY FilePageFiled, BuildingPageActs DEF ScreensAreOwnUntilCrossed, PagesInv, FormPageInv, InvoicePageInv, FeePageInv, ContractPageInv, UtilityPageInv, TenantPageInv, RoomPageInv, RentalPageInv, ImportPageInv, PaymentPageInv, ProofPageInv
<1> QED BY <1>1, PagesInvariance, PTL
=============================================================================
