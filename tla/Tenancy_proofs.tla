--------------------------- MODULE Tenancy_proofs ---------------------------
(***************************************************************************)
(* Theorems of Tenancy, for any rooms and contracts, any finite set of     *)
(* tenants and any capacities.                                             *)
(***************************************************************************)
EXTENDS Occupancy, FiniteSetTheorems, TLAPS

NoContract == [status |-> "NONE", room |-> "NONE", by |-> "CHECKED", expired |-> FALSE]
ContractRow == [status : ContractStatus, room : Rooms, by : Activation, expired : BOOLEAN]
Participants == [Tenants -> Participation]
Forms == {NoForm, NewForm} \cup [step : {"EDIT"}, contract : Contracts, room : Rooms]

\* Drafts too have at most one primary participant: a handover checks none.
OneLeader == \A c \in Contracts : Cardinality(Leading(part[c])) <= 1

\* What a handover has checked of its contract stays true until it commits.
CheckedHolds(c) ==
    handover[c].step = "CHECKED" =>
        /\ Staying(part[c]) # {}
        /\ Cardinality(Staying(part[c])) <= handover[c].capacity

HandoverChecked == \A c \in Contracts : CheckedHolds(c)

\* What became active for a tenant since the tenant's form found nothing to read
\* was not checked, for the form holds the tenant.
NewFormsKnow ==
    \A t \in Tenants : form[t].step = "NEW" =>
        \A c \in Contracts : Active(c) /\ t \in Staying(part[c]) => Unchecked(c)

\* The contract that a form read is still there.
ReadContractsExist == \A t \in Tenants : form[t].step = "EDIT" => Exists(form[t].contract)

IInv ==
    /\ TypeOK
    /\ OneActivePerRoom
    /\ ActiveIsLed
    /\ TwoHomesHaveCause
    /\ OneLeader
    /\ HandoverChecked
    /\ NewFormsKnow
    /\ ReadContractsExist
-----------------------------------------------------------------------------
(* Participants. *)

LEMMA Counts ==
  ASSUME NEW p \in Participants
  PROVE  /\ IsFiniteSet(Staying(p)) /\ Cardinality(Staying(p)) \in Nat
         /\ IsFiniteSet(Leading(p)) /\ Cardinality(Leading(p)) \in Nat
         /\ Leading(p) \subseteq Staying(p)
         /\ Cardinality(Leading(p)) = 0 <=> Leading(p) = {}
<1>1. /\ Staying(p) \in SUBSET Tenants
      /\ Leading(p) \in SUBSET Tenants
      /\ Leading(p) \subseteq Staying(p)
  BY DEF Staying, Leading
<1>2. IsFiniteSet(Staying(p)) /\ IsFiniteSet(Leading(p))
  BY <1>1, TenancyAssumption, FS_Subset
<1> QED BY <1>1, <1>2, FS_CardinalityType, FS_EmptySet

LEMMA NobodyTyped ==
  /\ Nobody \in Participants
  /\ Staying(Nobody) = {} /\ Leading(Nobody) = {}
  /\ Cardinality(Leading(Nobody)) = 0
<1>1. Nobody \in Participants /\ Staying(Nobody) = {} /\ Leading(Nobody) = {}
  BY DEF Nobody, Participants, Participation, Staying, Leading
<1> QED BY <1>1, Counts

LEMMA AloneTyped ==
  ASSUME NEW t \in Tenants
  PROVE  /\ Alone(t) \in Participants
         /\ Staying(Alone(t)) = {t} /\ Leading(Alone(t)) = {t}
         /\ Cardinality(Staying(Alone(t))) = 1 /\ Cardinality(Leading(Alone(t))) = 1
<1>1. /\ Alone(t) \in Participants
      /\ Staying(Alone(t)) = {t} /\ Leading(Alone(t)) = {t}
  BY DEF Alone, Participants, Participation, Staying, Leading
<1>2. Cardinality({t}) = 1
  BY FS_Singleton
<1> QED BY <1>1, <1>2

\* Who leaves does not lead.
LEMMA LeavingTyped ==
  ASSUME NEW p \in Participants, NEW t \in Tenants, Cardinality(Leading(p)) <= 1
  PROVE  /\ [p EXCEPT ![t] = "NONE"] \in Participants
         /\ Cardinality(Leading([p EXCEPT ![t] = "NONE"])) <= 1
<1> DEFINE q == [p EXCEPT ![t] = "NONE"]
<1>1. q \in Participants /\ Leading(q) \subseteq Leading(p)
  BY DEF Participants, Participation, Leading
<1>2. Cardinality(Leading(q)) <= Cardinality(Leading(p))
  BY <1>1, Counts, FS_Subset
<1>3. Cardinality(Leading(q)) \in Nat /\ Cardinality(Leading(p)) \in Nat
  BY <1>1, Counts
<1> QED BY <1>1, <1>2, <1>3

LEMMA WithTenantTyped ==
  ASSUME NEW p \in Participants, NEW t \in Tenants, NEW role \in {"MEMBER", "PRIMARY"}
  PROVE  WithTenant(p, t, role) \in Participants
BY DEF Participants, Participation, WithTenant

LEMMA RowOfContract ==
  ASSUME TypeOK, NEW c \in Contracts
  PROVE  /\ contract[c] \in {NoContract} \cup ContractRow
         /\ Exists(c) => contract[c] \in ContractRow
         /\ Open(c) => Exists(c)
         /\ part[c] \in Participants
BY DEF TypeOK, NoContract, ContractRow, Participants, Exists, Open
-----------------------------------------------------------------------------
(* Every step that touches a contract writes its row and its participants, *)
(* and keeps or ends a handover of it.                                     *)

\* What must hold of contract c with row x and participants p.
MayBe(c, x, p) ==
    /\ Cardinality(Leading(p)) <= 1
    /\ x.status = "ACTIVE" =>
          /\ \A d \in Contracts \ {c} : Active(d) => contract[d].room # x.room
          /\ x.by # "REOPENED" =>
                /\ Staying(p) # {}
                /\ Cardinality(Leading(p)) = 1 \/ (x.by = "HANDOVER" /\ Leading(p) = {})
          /\ \A d \in Contracts \ {c} :
                Active(d) /\ Staying(p) \cap Staying(part[d]) # {} => x.by # "CHECKED" \/ Unchecked(d)
          /\ \A t \in Staying(p) : form'[t].step = "NEW" => x.by # "CHECKED"

\* Another contract keeps its row, or a tenant moved out of it and ended it.
Beside(d) ==
    \/ contract'[d] = contract[d] /\ part'[d] = part[d]
    \/ /\ contract'[d] \in ContractRow /\ contract'[d].status = "ENDED"
       /\ part'[d] \in Participants /\ Cardinality(Leading(part'[d])) <= 1
       /\ ~Locked(d)

Written(c, x, p) ==
    /\ contract' = [d \in Contracts |-> contract'[d]] /\ contract'[c] = x
    /\ part' = [d \in Contracts |-> part'[d]] /\ part'[c] = p
    /\ \A d \in Contracts \ {c} : Beside(d)
    /\ capacity' = capacity
    /\ resize' = resize
    /\ form' \in [Tenants -> Forms] /\ \A t \in Tenants : form'[t] \in {form[t], NoForm}
    /\ \/ /\ handover' = handover
          /\ Locked(c) => x.status = "DRAFT" /\ p = part[c]
       \/ handover' = [handover EXCEPT ![c] = Idle]

LEMMA WrittenAlone ==
  ASSUME TypeOK, NEW c \in Contracts, NEW x, NEW p,
         contract' = [contract EXCEPT ![c] = x], part' = [part EXCEPT ![c] = p],
         UNCHANGED <<capacity, form, resize>>,
         \/ handover' = handover /\ (Locked(c) => x.status = "DRAFT" /\ p = part[c])
         \/ handover' = [handover EXCEPT ![c] = Idle]
  PROVE  Written(c, x, p)
<1>1. /\ contract' = [d \in Contracts |-> contract'[d]] /\ contract'[c] = x
      /\ part' = [d \in Contracts |-> part'[d]] /\ part'[c] = p
      /\ \A d \in Contracts \ {c} : contract'[d] = contract[d] /\ part'[d] = part[d]
  BY DEF TypeOK
<1>2. form \in [Tenants -> Forms]
  BY DEF TypeOK, Forms, NewForm
<1> QED BY <1>1, <1>2 DEF Written, Beside

LEMMA WrittenInv ==
  ASSUME IInv, NEW c \in Contracts, NEW x \in ContractRow, NEW p \in Participants,
         MayBe(c, x, p), Written(c, x, p)
  PROVE  IInv'
<1>1. /\ contract'[c] = x /\ part'[c] = p
      /\ \A d \in Contracts \ {c} : Beside(d)
  BY DEF Written
<1>2. \A d \in Contracts : \/ handover'[d] = Idle
                           \/ /\ handover'[d] = handover[d]
                              /\ d = c /\ Locked(c) => x.status = "DRAFT" /\ p = part[c]
  BY DEF IInv, TypeOK, Written
\* Of the other contracts, those that are active now were it before.
<1>a. \A d \in Contracts \ {c} :
         contract'[d].status = "ACTIVE" =>
            Active(d) /\ contract'[d] = contract[d] /\ part'[d] = part[d]
  BY <1>1 DEF Beside, Active
<1>3. TypeOK'
  <2>0. \A d \in Contracts : contract[d] \in {NoContract} \cup ContractRow /\ part[d] \in Participants
    BY RowOfContract DEF IInv
  <2>1. contract' \in [Contracts -> {NoContract} \cup ContractRow]
    <3>1. \A d \in Contracts : contract'[d] \in {NoContract} \cup ContractRow
      BY <1>1, <2>0 DEF Beside
    <3> QED BY <3>1 DEF Written
  <2>2. part' \in [Contracts -> Participants]
    <3>1. \A d \in Contracts : part'[d] \in Participants
      BY <1>1, <2>0 DEF Beside
    <3> QED BY <3>1 DEF Written
  <2>3. handover' \in [Contracts -> {Idle} \cup [step : {"LOCKED", "CHECKED"}, capacity : Capacity]]
    BY DEF IInv, TypeOK, Written
  <2>4. \A d \in Contracts : Locked(d)' => contract'[d].status = "DRAFT"
    BY <1>1, <1>2 DEF IInv, TypeOK, Locked, Idle, Beside
  <2> QED BY <2>1, <2>2, <2>3, <2>4
        DEF IInv, TypeOK, Written, NoContract, ContractRow, Participants, Forms, NewForm
<1>4. OneActivePerRoom'
  BY <1>1, <1>a DEF IInv, OneActivePerRoom, MayBe, Active
<1>5. ActiveIsLed'
  BY <1>1, <1>a DEF IInv, ActiveIsLed, MayBe, Active
<1>6. TwoHomesHaveCause'
  <2>1. ASSUME NEW d \in Contracts, NEW e \in Contracts, TwoHomes(d, e)'
        PROVE  contract'[d].by # "CHECKED" \/ contract'[e].by # "CHECKED"
    <3>1. CASE d # c /\ e # c
      BY <1>a, <2>1, <3>1 DEF IInv, TwoHomesHaveCause, TwoHomes, Active, Unchecked
    <3>2. CASE d = c
      BY <1>1, <1>a, <2>1, <3>2 DEF MayBe, TwoHomes, Active, Unchecked
    <3>3. CASE e = c
      BY <1>1, <1>a, <2>1, <3>3 DEF MayBe, TwoHomes, Active, Unchecked
    <3> QED BY <3>1, <3>2, <3>3
  <2> QED BY <2>1 DEF TwoHomesHaveCause, Unchecked
<1>7. OneLeader'
  BY <1>1 DEF IInv, OneLeader, MayBe, Beside
<1>8. HandoverChecked'
  BY <1>1, <1>2 DEF IInv, HandoverChecked, CheckedHolds, Locked, Idle, Beside
<1>9. NewFormsKnow'
  <2> SUFFICES ASSUME NEW t \in Tenants, form'[t].step = "NEW",
                      NEW d \in Contracts, contract'[d].status = "ACTIVE", t \in Staying(part'[d])
               PROVE  contract'[d].by # "CHECKED"
    BY DEF NewFormsKnow, Active, Unchecked
  <2>1. form[t].step = "NEW"
    BY DEF Written, NoForm
  <2>2. CASE d = c
    BY <1>1, <2>2 DEF MayBe
  <2>3. CASE d # c
    BY <1>a, <2>1, <2>3 DEF IInv, NewFormsKnow, Unchecked
  <2> QED BY <2>2, <2>3
<1>10. ReadContractsExist'
  <2>1. \A d \in Contracts : Exists(d) => contract'[d].status # "NONE"
    BY <1>1 DEF Beside, Exists, ContractRow, ContractStatus
  <2>2. \A t \in Tenants : form'[t].step = "EDIT" => form'[t] = form[t] /\ form[t].contract \in Contracts
    BY DEF Written, NoForm, NewForm, IInv, TypeOK
  <2> QED BY <2>1, <2>2 DEF IInv, ReadContractsExist, Exists
<1> QED BY <1>3, <1>4, <1>5, <1>6, <1>7, <1>8, <1>9, <1>10 DEF IInv

\* What Ready and ActiveIn ask is what an active contract must be.
LEMMA ReadyMayBe ==
  ASSUME NEW c \in Contracts, NEW x \in ContractRow, NEW p \in Participants,
         Ready(c, x.room, p), form' = form, \A d \in Contracts \ {c} : Active(d) => contract[d].room # x.room
  PROVE  MayBe(c, x, p)
<1>1. \A d \in Contracts \ {c} : Active(d) => Staying(p) \cap Staying(part[d]) = {}
  BY DEF Ready, Elsewhere
<1>2. \A t \in Staying(p) : form'[t].step # "NEW"
  BY DEF Ready, TenantLocked
<1> QED BY <1>1, <1>2 DEF Ready, MayBe

LEMMA InactiveMayBe ==
  ASSUME NEW c \in Contracts, NEW x \in ContractRow, NEW p \in Participants,
         x.status # "ACTIVE", Cardinality(Leading(p)) <= 1
  PROVE  MayBe(c, x, p)
BY DEF MayBe

\* A contract that is active may stay what it is.
LEMMA StaysMayBe ==
  ASSUME IInv, form' = form, NEW c \in Contracts, NEW x \in ContractRow,
         x.status = contract[c].status, x.room = contract[c].room, x.by = contract[c].by
  PROVE  MayBe(c, x, part[c])
<1>1. CASE Active(c)
  <2>1. \A t \in Staying(part[c]) : form'[t].step = "NEW" => x.by # "CHECKED"
    BY <1>1 DEF IInv, NewFormsKnow, Unchecked, Staying
  <2>2. \A d \in Contracts \ {c} :
          Active(d) /\ Staying(part[c]) \cap Staying(part[d]) # {} => x.by # "CHECKED" \/ Unchecked(d)
    BY <1>1 DEF IInv, TwoHomesHaveCause, TwoHomes, Unchecked
  <2> QED BY <1>1, <2>1, <2>2 DEF IInv, OneActivePerRoom, ActiveIsLed, OneLeader, MayBe, Active
<1>2. CASE ~Active(c)
  BY <1>2 DEF IInv, OneLeader, MayBe, Active
<1> QED BY <1>1, <1>2
-----------------------------------------------------------------------------
(* The invariant, action by action. *)

LEMMA InitInv == Init => IInv
<1> SUFFICES ASSUME Init PROVE IInv
  OBVIOUS
<1>1. TypeOK
  BY DEF Init, TypeOK, Nobody, Participation, Locked, Idle
<1>2. \A c \in Contracts : part[c] = Nobody /\ ~Active(c) /\ handover[c].step = "IDLE"
  BY DEF Init, Active, Idle
<1>3. OneLeader
  BY <1>2, NobodyTyped DEF OneLeader
<1> QED BY <1>1, <1>2, <1>3
      DEF IInv, OneActivePerRoom, ActiveIsLed, TwoHomesHaveCause, TwoHomes, HandoverChecked, CheckedHolds,
          NewFormsKnow, ReadContractsExist, Init, NoForm

LEMMA CreateContractInv ==
  ASSUME IInv, NEW c \in Contracts, NEW r \in Rooms, CreateContract(c, r)
  PROVE  IInv'
<1>0. PICK s \in ContractStatus, p \in Participants :
        /\ Cardinality(Leading(p)) <= 1
        /\ s = "ACTIVE" => ActiveIn(r) = {} /\ Ready(c, r, p)
        /\ Insert(c, r, s, p)
  BY DEF CreateContract, Participants
<1> DEFINE x == [status |-> s, room |-> r, by |-> "CHECKED", expired |-> FALSE]
<1>1. x \in ContractRow
  BY DEF ContractRow, Activation
<1>2. MayBe(c, x, p)
  <2>1. CASE s = "ACTIVE"
    <3>1. \A d \in Contracts \ {c} : Active(d) => contract[d].room # x.room
      BY <1>0, <2>1 DEF ActiveIn
    <3>2. Ready(c, x.room, p) /\ form' = form
      BY <1>0, <2>1 DEF Insert
    <3> QED BY <1>1, <3>1, <3>2, ReadyMayBe
  <2>2. CASE s # "ACTIVE"
    BY <1>0, <1>1, <2>2, InactiveMayBe
  <2> QED BY <2>1, <2>2
<1>3. Written(c, x, p)
  <2>1. ~Locked(c)
    BY DEF CreateContract, IInv, TypeOK, Exists
  <2> QED BY <1>0, <2>1, WrittenAlone DEF Insert, IInv
<1> HIDE DEF x
<1> QED BY <1>1, <1>2, <1>3, WrittenInv

LEMMA ReserveInv ==
  ASSUME IInv, NEW c \in Contracts, NEW r \in Rooms, NEW t \in Tenants, Reserve(c, r, t)
  PROVE  IInv'
<1> DEFINE x == [status |-> "DRAFT", room |-> r, by |-> "CHECKED", expired |-> FALSE]
<1>1. x \in ContractRow /\ x.status = "DRAFT"
  BY DEF ContractRow, ContractStatus, Activation
<1>2. Alone(t) \in Participants /\ Cardinality(Leading(Alone(t))) <= 1
  BY AloneTyped
<1>3. Written(c, x, Alone(t))
  <2>1. ~Locked(c)
    BY DEF Reserve, IInv, TypeOK, Exists
  <2> QED BY <2>1, WrittenAlone DEF Reserve, Insert, IInv
<1> HIDE DEF x
<1> QED BY <1>1, <1>2, <1>3, InactiveMayBe, WrittenInv

LEMMA ActivateInv ==
  ASSUME IInv, NEW c \in Contracts, Activate(c)
  PROVE  IInv'
<1> DEFINE x == [contract[c] EXCEPT !.status = "ACTIVE"]
<1>1. /\ x \in ContractRow /\ x.room = contract[c].room
      /\ part[c] \in Participants
  BY RowOfContract DEF IInv, Activate, Exists, ContractRow, ContractStatus
<1>2. \A d \in Contracts \ {c} : Active(d) => contract[d].room # x.room
  BY <1>1 DEF Activate, ActiveIn
<1>3. Ready(c, x.room, part[c]) /\ form' = form
  BY <1>1 DEF Activate
<1>4. Written(c, x, part[c])
  <2>1. /\ contract' = [contract EXCEPT ![c] = x] /\ part' = [part EXCEPT ![c] = part[c]]
        /\ ~Locked(c)
    BY DEF Activate, IInv, TypeOK
  <2> QED BY <2>1, WrittenAlone DEF Activate, IInv
<1> HIDE DEF x
<1> QED BY <1>1, <1>2, <1>3, <1>4, ReadyMayBe, WrittenInv

\* Steps of a handover that write no rows.
LEMMA HandoverKeepsRows ==
  ASSUME IInv, UNCHANGED <<contract, part, capacity, form, resize>>,
         handover' \in [Contracts -> {Idle} \cup [step : {"LOCKED", "CHECKED"}, capacity : Capacity]],
         \A c \in Contracts : Locked(c)' => contract[c].status = "DRAFT",
         \A c \in Contracts : CheckedHolds(c)'
  PROVE  IInv'
<1>1. TypeOK'
  BY DEF IInv, TypeOK
<1>2. OneActivePerRoom' /\ ActiveIsLed' /\ TwoHomesHaveCause' /\ OneLeader' /\ NewFormsKnow'
      /\ ReadContractsExist'
  BY DEF IInv, OneActivePerRoom, ActiveIsLed, TwoHomesHaveCause, TwoHomes, OneLeader, NewFormsKnow,
         ReadContractsExist, Unchecked, Active, Exists
<1> QED BY <1>1, <1>2 DEF IInv, HandoverChecked

LEMMA HandoverStepInv ==
  ASSUME IInv, NEW c \in Contracts, HandoverStep(c)
  PROVE  IInv'
<1>0. /\ \A d \in Contracts : CheckedHolds(d) /\ (Locked(d) => contract[d].status = "DRAFT")
      /\ handover \in [Contracts -> {Idle} \cup [step : {"LOCKED", "CHECKED"}, capacity : Capacity]]
  BY DEF IInv, TypeOK, HandoverChecked
<1>1. CASE HandoverBegin(c)
  <2>1. capacity[contract[c].room] \in Capacity
    BY <1>1, RowOfContract DEF HandoverBegin, IInv, TypeOK, ContractRow, Exists
  <2>2. handover' \in [Contracts -> {Idle} \cup [step : {"LOCKED", "CHECKED"}, capacity : Capacity]]
    BY <1>0, <1>1, <2>1 DEF HandoverBegin
  <2>3. \A d \in Contracts : CheckedHolds(d)' /\ (Locked(d)' => contract[d].status = "DRAFT")
    BY <1>0, <1>1 DEF HandoverBegin, CheckedHolds, Locked
  <2> QED BY <1>1, <2>2, <2>3, HandoverKeepsRows DEF HandoverBegin
<1>2. CASE HandoverCheck(c)
  <2>1. handover' \in [Contracts -> {Idle} \cup [step : {"LOCKED", "CHECKED"}, capacity : Capacity]]
    BY <1>0, <1>2 DEF HandoverCheck, Idle
  <2>2. \A d \in Contracts : CheckedHolds(d)' /\ (Locked(d)' => contract[d].status = "DRAFT")
    BY <1>0, <1>2 DEF HandoverCheck, CheckedHolds, Locked, Idle
  <2> QED BY <1>2, <2>1, <2>2, HandoverKeepsRows DEF HandoverCheck
<1>3. CASE HandoverCommit(c)
  <2> DEFINE x == [contract[c] EXCEPT !.status = "ACTIVE", !.by = "HANDOVER"]
  <2>1. Locked(c) /\ Exists(c) /\ contract[c].status = "DRAFT"
    BY <1>0, <1>3 DEF HandoverCommit, Locked, Exists
  <2>2. /\ x \in ContractRow /\ x.room = contract[c].room /\ x.by = "HANDOVER"
        /\ part[c] \in Participants
    BY <2>1, RowOfContract DEF IInv, ContractRow, ContractStatus, Activation
  <2>3. \A d \in Contracts \ {c} : Active(d) => contract[d].room # x.room
    BY <1>3, <2>2 DEF HandoverCommit, ActiveIn
  <2>4. Cardinality(Leading(part[c])) <= 1 /\ Staying(part[c]) # {}
    BY <1>0, <1>3 DEF IInv, OneLeader, HandoverCommit, CheckedHolds
  <2>5. Cardinality(Leading(part[c])) = 1 \/ Leading(part[c]) = {}
    BY <2>2, <2>4, Counts
  <2>6. Written(c, x, part[c])
    <3>1. contract' = [contract EXCEPT ![c] = x] /\ part' = [part EXCEPT ![c] = part[c]]
      BY <1>3 DEF HandoverCommit, IInv, TypeOK
    <3> QED BY <1>3, <3>1, WrittenAlone DEF HandoverCommit, IInv
  <2> HIDE DEF x
  <2>7. MayBe(c, x, part[c])
    BY <2>2, <2>3, <2>4, <2>5 DEF MayBe
  <2> QED BY <2>2, <2>6, <2>7, WrittenInv
<1>4. CASE HandoverRefused(c)
  <2>1. handover' \in [Contracts -> {Idle} \cup [step : {"LOCKED", "CHECKED"}, capacity : Capacity]]
    BY <1>0, <1>4 DEF HandoverRefused
  <2>2. \A d \in Contracts : CheckedHolds(d)' /\ (Locked(d)' => contract[d].status = "DRAFT")
    BY <1>0, <1>4 DEF HandoverRefused, CheckedHolds, Locked, Idle
  <2> QED BY <1>4, <2>1, <2>2, HandoverKeepsRows DEF HandoverRefused
<1> QED BY <1>1, <1>2, <1>3, <1>4 DEF HandoverStep

LEMMA CloseInv ==
  ASSUME IInv, NEW c \in Contracts, NEW s \in {"ENDED", "CANCELLED"}, CloseAs(c, s)
  PROVE  IInv'
<1> DEFINE x == [contract[c] EXCEPT !.status = s, !.by = "CHECKED", !.expired = FALSE]
<1>1. x \in ContractRow /\ x.status # "ACTIVE"
  BY RowOfContract DEF IInv, CloseAs, ContractRow, ContractStatus, Activation
<1>2. Nobody \in Participants /\ Cardinality(Leading(Nobody)) <= 1
  BY NobodyTyped
<1>3. Written(c, x, Nobody)
  <2>1. contract' = [contract EXCEPT ![c] = x]
    BY DEF CloseAs, IInv, TypeOK
  <2> QED BY <2>1, WrittenAlone DEF CloseAs, IInv
<1> HIDE DEF x
<1> QED BY <1>1, <1>2, <1>3, InactiveMayBe, WrittenInv

LEMMA DatesPassInv ==
  ASSUME IInv, NEW c \in Contracts, DatesPass(c)
  PROVE  IInv'
<1> DEFINE x == [contract[c] EXCEPT !.expired = TRUE]
<1>1. /\ x \in ContractRow /\ x.room = contract[c].room
      /\ x.status = contract[c].status /\ x.by = contract[c].by
      /\ part[c] \in Participants
  BY RowOfContract DEF IInv, DatesPass, ContractRow
<1>2. Written(c, x, part[c])
  <2>1. contract' = [contract EXCEPT ![c] = x] /\ part' = [part EXCEPT ![c] = part[c]]
    BY DEF DatesPass, IInv, TypeOK
  <2>2. Locked(c) => x.status = "DRAFT"
    BY <1>1 DEF IInv, TypeOK
  <2> HIDE DEF x
  <2> QED BY <2>1, <2>2, WrittenAlone DEF DatesPass, IInv
<1>3. form' = form
  BY DEF DatesPass
<1> HIDE DEF x
<1> QED BY <1>1, <1>2, <1>3, StaysMayBe, WrittenInv

LEMMA UpdateContractInv ==
  ASSUME IInv, NEW c \in Contracts, NEW r \in Rooms, NEW expired \in BOOLEAN,
         UpdateContract(c, r, expired)
  PROVE  IInv'
<1> DEFINE x == [contract[c] EXCEPT !.room = r, !.expired = expired /\ Open(c)]
<1>1. /\ contract[c] \in ContractRow /\ part[c] \in Participants
      /\ (expired /\ Open(c)) \in BOOLEAN
  BY RowOfContract DEF IInv, UpdateContract
<1>2. x \in ContractRow /\ x.room = r /\ x.status = contract[c].status
  BY <1>1 DEF ContractRow
<1>3. MayBe(c, x, part[c])
  <2>1. CASE Active(c)
    <3>1. \A d \in Contracts \ {c} : Active(d) => contract[d].room # r
      BY <2>1 DEF UpdateContract, ActiveIn, IInv, OneActivePerRoom
    <3>2. Ready(c, r, part[c]) /\ form' = form
      BY <2>1 DEF UpdateContract
    <3> QED BY <1>1, <1>2, <3>1, <3>2, ReadyMayBe
  <2>2. CASE ~Active(c)
    BY <1>1, <1>2, <2>2, InactiveMayBe DEF Active, IInv, OneLeader
  <2> QED BY <2>1, <2>2
<1>4. Written(c, x, part[c])
  <2>1. contract' = [contract EXCEPT ![c] = x] /\ part' = [part EXCEPT ![c] = part[c]]
    BY DEF UpdateContract, IInv, TypeOK
  <2> HIDE DEF x
  <2> QED BY <2>1, WrittenAlone DEF UpdateContract, IInv
<1> HIDE DEF x
<1> QED BY <1>1, <1>2, <1>3, <1>4, WrittenInv

\* Participants p are written to an open contract, ready if it is active.
LEMMA ParticipantsInv ==
  ASSUME IInv, NEW c \in Contracts, NEW p \in Participants, Open(c), ~Locked(c),
         Cardinality(Leading(p)) <= 1,
         Active(c) => Ready(c, contract[c].room, p),
         part' = [part EXCEPT ![c] = p], UNCHANGED <<contract, capacity, handover, form, resize>>
  PROVE  IInv'
<1>1. contract[c] \in ContractRow
  BY RowOfContract DEF IInv
<1>2. MayBe(c, contract[c], p)
  <2>1. CASE Active(c)
    <3>1. \A d \in Contracts \ {c} : Active(d) => contract[d].room # contract[c].room
      BY <2>1 DEF IInv, OneActivePerRoom
    <3> QED BY <1>1, <2>1, <3>1, ReadyMayBe
  <2>2. CASE ~Active(c)
    BY <1>1, <2>2, InactiveMayBe DEF Active
  <2> QED BY <2>1, <2>2
<1>3. Written(c, contract[c], p)
  <2>1. contract' = [contract EXCEPT ![c] = contract[c]]
    BY DEF IInv, TypeOK
  <2> QED BY <2>1, WrittenAlone DEF IInv
<1> QED BY <1>1, <1>2, <1>3, WrittenInv

LEMMA ParticipatingInv ==
  ASSUME IInv, NEW c \in Contracts, NEW t \in Tenants, Participating(c, t)
  PROVE  IInv'
<1>0. part[c] \in Participants
  BY RowOfContract DEF IInv
<1>1. ASSUME NEW role \in {"MEMBER", "PRIMARY"}, AddTenant(c, t, role)
      PROVE  IInv'
  <2> DEFINE p == WithTenant(part[c], t, role)
  <2>1. p \in Participants
    BY <1>0, WithTenantTyped
  <2>2. /\ Cardinality(Leading(p)) = 1
        /\ Open(c) /\ ~Locked(c) /\ (Active(c) => Ready(c, contract[c].room, p))
        /\ part' = [part EXCEPT ![c] = p] /\ UNCHANGED <<contract, capacity, handover, form, resize>>
    BY <1>1 DEF AddTenant
  <2> HIDE DEF p
  <2>3. Cardinality(Leading(p)) <= 1
    BY <2>2
  <2> QED BY <2>1, <2>2, <2>3, ParticipantsInv
<1>2. CASE RemoveTenant(c, t)
  <2> DEFINE p == [part[c] EXCEPT ![t] = "NONE"]
  <2>1. p \in Participants
    BY <1>0 DEF Participants, Participation
  <2>2. /\ Staying(p) # {} => Cardinality(Leading(p)) = 1
        /\ Open(c) /\ ~Locked(c) /\ (Active(c) => Ready(c, contract[c].room, p))
        /\ part' = [part EXCEPT ![c] = p] /\ UNCHANGED <<contract, capacity, handover, form, resize>>
    BY <1>2 DEF RemoveTenant, IInv, TypeOK
  <2> HIDE DEF p
  <2>3. Cardinality(Leading(p)) <= 1
    <3>1. CASE Staying(p) = {}
      <4>1. Cardinality(Leading(p)) = 0
        BY <2>1, <3>1, Counts
      <4> QED BY <4>1
    <3>2. CASE Staying(p) # {}
      <4>1. Cardinality(Leading(p)) = 1
        BY <2>2, <3>2
      <4> QED BY <4>1
    <3> QED BY <3>1, <3>2
  <2> QED BY <2>1, <2>2, <2>3, ParticipantsInv
<1> QED BY <1>1, <1>2 DEF Participating

\* A form that has not written anything knows what it read.
LEMMA FormKeepsRows ==
  ASSUME IInv, NEW t \in Tenants, FormBegin(t) \/ FormRefused(t)
  PROVE  IInv'
<1>1. UNCHANGED <<contract, part, capacity, handover, resize>>
  BY DEF FormBegin, FormRefused
<1>2. form' \in [Tenants -> Forms] /\ \A u \in Tenants \ {t} : form'[u] = form[u]
  <2>1. \A c \in Contracts : Active(c) => contract[c].room \in Rooms
    BY RowOfContract DEF IInv, Active, Exists, ContractRow
  <2>2. form \in [Tenants -> Forms] /\ (~TenantLocked(t) => form[t] = NoForm)
    BY DEF IInv, TypeOK, Forms, NewForm, TenantLocked, NoForm
  <2> QED BY <2>1, <2>2 DEF FormBegin, FormRefused, Forms, NewForm
<1>3. TypeOK'
  BY <1>1, <1>2 DEF IInv, TypeOK, Locked, Forms, NewForm
<1>4. NewFormsKnow'
  <2>1. form'[t].step = "NEW" => \A c \in Contracts : ~(Active(c) /\ t \in Staying(part[c]))
    BY DEF FormBegin, FormRefused, NoForm, IInv, TypeOK
  <2> QED BY <1>1, <1>2, <2>1 DEF NewFormsKnow, IInv, Active, Unchecked
<1>5. ReadContractsExist'
  <2>1. \A c \in Contracts : Active(c) => Exists(c)
    BY DEF Active, Exists
  <2>2. form'[t].step = "EDIT" => Exists(form'[t].contract)
    BY <2>1 DEF FormBegin, FormRefused, NoForm, NewForm, IInv, TypeOK
  <2> QED BY <1>1, <1>2, <2>2 DEF ReadContractsExist, IInv, Exists
<1> QED BY <1>1, <1>3, <1>4, <1>5
      DEF IInv, OneActivePerRoom, ActiveIsLed, TwoHomesHaveCause, TwoHomes, OneLeader,
          HandoverChecked, CheckedHolds, Active, Unchecked

\* A form that writes is done, and the others are where they were.
LEMMA FormDone ==
  ASSUME IInv, NEW t \in Tenants, form' = [form EXCEPT ![t] = NoForm]
  PROVE  /\ form' \in [Tenants -> Forms]
         /\ \A u \in Tenants : form'[u] \in {form[u], NoForm}
         /\ form'[t] = NoForm
BY DEF IInv, TypeOK, Forms, NewForm

LEMMA FormCreatesInv ==
  ASSUME IInv, NEW t \in Tenants, NEW c \in Contracts, NEW r \in Rooms, FormCreates(t, c, r)
  PROVE  IInv'
<1>0. PICK s \in ContractStatus :
        /\ RoomAccepts(r, s, ActiveIn(r))
        /\ contract' = [contract EXCEPT ![c] =
              [status |-> s, room |-> r, by |-> "CHECKED", expired |-> FALSE]]
  BY DEF FormCreates
<1> DEFINE x == [status |-> s, room |-> r, by |-> "CHECKED", expired |-> FALSE]
<1>1. x \in ContractRow /\ x.status = s /\ x.room = r
  BY DEF ContractRow, Activation
<1>2. /\ form' \in [Tenants -> Forms] /\ \A u \in Tenants : form'[u] \in {form[u], NoForm}
      /\ form'[t] = NoForm
  BY FormDone DEF FormCreates
<1>3. Written(c, x, Alone(t))
  <2>1. ~Locked(c)
    BY DEF FormCreates, IInv, TypeOK, Exists
  <2>2. /\ contract' = [d \in Contracts |-> contract'[d]] /\ contract'[c] = x
        /\ part' = [d \in Contracts |-> part'[d]] /\ part'[c] = Alone(t)
        /\ \A d \in Contracts \ {c} : contract'[d] = contract[d] /\ part'[d] = part[d]
    BY <1>0 DEF FormCreates, IInv, TypeOK
  <2> HIDE DEF x
  <2> QED BY <1>2, <2>1, <2>2 DEF FormCreates, Written, Beside
<1> HIDE DEF x
<1>4. MayBe(c, x, Alone(t))
  <2>1. CASE s = "ACTIVE"
    <3>1. \A d \in Contracts \ {c} : Active(d) => contract[d].room # x.room
      BY <1>0, <1>1, <2>1 DEF RoomAccepts, ActiveIn
    <3>2. \A d \in Contracts : Active(d) /\ t \in Staying(part[d]) => Unchecked(d)
      BY DEF FormCreates, IInv, NewFormsKnow
    <3> QED BY <1>2, <3>1, <3>2, AloneTyped DEF MayBe, NoForm
  <2>2. CASE s # "ACTIVE"
    BY <1>1, <2>2, AloneTyped, InactiveMayBe
  <2> QED BY <2>1, <2>2
<1> QED BY <1>1, <1>3, <1>4, AloneTyped, WrittenInv

LEMMA EditTyped ==
  ASSUME IInv, NEW t \in Tenants, form[t].step = "EDIT"
  PROVE  form[t].contract \in Contracts /\ form[t].room \in Rooms /\ Exists(form[t].contract)
BY DEF IInv, TypeOK, ReadContractsExist, NoForm, NewForm

LEMMA FormMovesInv ==
  ASSUME IInv, NEW t \in Tenants, NEW d \in Contracts, NEW r \in Rooms, FormMoves(t, d, r)
  PROVE  IInv'
<1> DEFINE c == form[t].contract
<1>a. c \in Contracts /\ ~Locked(c) /\ Exists(c) /\ ~Exists(d) /\ c # d
  BY EditTyped DEF FormMoves
<1>0. PICK s \in ContractStatus :
        /\ RoomAccepts(r, s, ActiveIn(r))
        /\ contract' = [contract EXCEPT
              ![c].status = "ENDED", ![c].by = "CHECKED", ![c].expired = FALSE,
              ![d] = [status |-> s, room |-> r, expired |-> FALSE,
                      by |-> IF s = "ACTIVE" THEN "MOVED" ELSE "CHECKED"]]
  BY DEF FormMoves
<1> DEFINE x == [status |-> s, room |-> r, expired |-> FALSE,
                 by |-> IF s = "ACTIVE" THEN "MOVED" ELSE "CHECKED"]
           y == [contract[c] EXCEPT !.status = "ENDED", !.by = "CHECKED", !.expired = FALSE]
           p == [part[c] EXCEPT ![t] = "NONE"]
<1>1. x \in ContractRow /\ x.status = s /\ x.room = r /\ (s = "ACTIVE" => x.by = "MOVED")
  BY DEF ContractRow, Activation
<1>2. y \in ContractRow /\ y.status = "ENDED"
  <2>1. contract[c] \in ContractRow
    BY <1>a, RowOfContract DEF IInv
  <2> HIDE DEF c
  <2> QED BY <2>1 DEF ContractRow, ContractStatus, Activation
<1>3. p \in Participants /\ Cardinality(Leading(p)) <= 1
  BY <1>a, RowOfContract, LeavingTyped DEF IInv, OneLeader
<1>4. /\ form' \in [Tenants -> Forms] /\ \A u \in Tenants : form'[u] \in {form[u], NoForm}
      /\ form'[t] = NoForm
  BY FormDone DEF FormMoves
<1>5. /\ contract' = [e \in Contracts |-> contract'[e]] /\ contract'[d] = x /\ contract'[c] = y
      /\ \A e \in Contracts \ {c, d} : contract'[e] = contract[e]
  BY <1>0, <1>a DEF IInv, TypeOK
<1>6. /\ part' = [e \in Contracts |-> part'[e]] /\ part'[d] = Alone(t) /\ part'[c] = p
      /\ \A e \in Contracts \ {c, d} : part'[e] = part[e]
  BY <1>a DEF FormMoves, IInv, TypeOK
<1>7. ~Locked(d) /\ UNCHANGED <<capacity, handover, resize>>
  BY DEF FormMoves, IInv, TypeOK, Exists
<1> HIDE DEF c, x, y, p
<1>8. Written(d, x, Alone(t))
  <2>1. \A e \in Contracts \ {d} : Beside(e)
    BY <1>a, <1>2, <1>3, <1>5, <1>6 DEF Beside
  <2> QED BY <1>4, <1>5, <1>6, <1>7, <2>1 DEF Written
<1>9. MayBe(d, x, Alone(t))
  <2>1. CASE s = "ACTIVE"
    <3>1. \A e \in Contracts \ {d} : Active(e) => contract[e].room # x.room
      BY <1>0, <1>1, <2>1 DEF RoomAccepts, ActiveIn
    <3> QED BY <1>1, <2>1, <3>1, AloneTyped DEF MayBe
  <2>2. CASE s # "ACTIVE"
    BY <1>1, <2>2, AloneTyped, InactiveMayBe
  <2> QED BY <2>1, <2>2
<1> QED BY <1>1, <1>8, <1>9, AloneTyped, WrittenInv

LEMMA FormWritesInv ==
  ASSUME IInv, NEW t \in Tenants, FormWrites(t)
  PROVE  IInv'
<1> DEFINE c == form[t].contract
           r == form[t].room
<1>a. c \in Contracts /\ r \in Rooms /\ ~Locked(c) /\ contract[c] \in ContractRow /\ part[c] \in Participants
  BY EditTyped, RowOfContract DEF FormWrites, IInv
<1>0. PICK s \in ContractStatus :
        /\ RoomAccepts(r, s, ActiveIn(r) \ {c})
        /\ contract' = [contract EXCEPT ![c] =
              [status |-> s, room |-> r, expired |-> FALSE,
               by |-> IF s # "ACTIVE" THEN "CHECKED"
                      ELSE IF Active(c) THEN contract[c].by ELSE "REOPENED"]]
  BY DEF FormWrites
<1> DEFINE x == [status |-> s, room |-> r, expired |-> FALSE,
                 by |-> IF s # "ACTIVE" THEN "CHECKED"
                        ELSE IF Active(c) THEN contract[c].by ELSE "REOPENED"]
<1>1. /\ x \in ContractRow /\ x.status = s /\ x.room = r
      /\ s = "ACTIVE" => x.by = IF Active(c) THEN contract[c].by ELSE "REOPENED"
  <2>1. (IF s # "ACTIVE" THEN "CHECKED" ELSE IF Active(c) THEN contract[c].by ELSE "REOPENED") \in Activation
    BY <1>a DEF Activation, ContractRow
  <2> QED BY <1>a, <2>1 DEF ContractRow
<1>2. /\ form' \in [Tenants -> Forms] /\ \A u \in Tenants : form'[u] \in {form[u], NoForm}
  BY FormDone DEF FormWrites
<1>3. /\ contract' = [contract EXCEPT ![c] = x]
      /\ UNCHANGED <<part, capacity, handover, resize>>
  BY <1>0 DEF FormWrites
<1> HIDE DEF c, r, x
<1>4. Written(c, x, part[c])
  <2>1. /\ contract' = [d \in Contracts |-> contract'[d]] /\ contract'[c] = x
        /\ part' = [d \in Contracts |-> part'[d]] /\ part'[c] = part[c]
        /\ \A d \in Contracts \ {c} : contract'[d] = contract[d] /\ part'[d] = part[d]
    BY <1>a, <1>3 DEF IInv, TypeOK
  <2> QED BY <1>a, <1>2, <1>3, <2>1 DEF Written, Beside
<1>5. MayBe(c, x, part[c])
  <2>1. CASE s = "ACTIVE"
    <3>1. \A d \in Contracts \ {c} : Active(d) => contract[d].room # x.room
      BY <1>0, <1>1, <2>1 DEF RoomAccepts, ActiveIn
    <3>2. CASE Active(c)
      <4>1. x.by = contract[c].by
        BY <1>1, <2>1, <3>2
      <4>2. \A d \in Contracts \ {c} :
              Active(d) /\ Staying(part[c]) \cap Staying(part[d]) # {} => x.by # "CHECKED" \/ Unchecked(d)
        BY <1>a, <3>2, <4>1 DEF IInv, TwoHomesHaveCause, TwoHomes, Unchecked
      <4>3. \A u \in Staying(part[c]) : form'[u].step = "NEW" => x.by # "CHECKED"
        BY <1>a, <1>2, <3>2, <4>1 DEF IInv, NewFormsKnow, Unchecked, Staying, NoForm
      <4> QED BY <1>a, <3>1, <3>2, <4>1, <4>2, <4>3 DEF MayBe, IInv, ActiveIsLed, OneLeader
    <3>3. CASE ~Active(c)
      <4>1. x.by = "REOPENED"
        BY <1>1, <2>1, <3>3
      <4> QED BY <1>a, <3>1, <4>1 DEF MayBe, IInv, OneLeader
    <3> QED BY <3>2, <3>3
  <2>2. CASE s # "ACTIVE"
    BY <1>1, <1>a, <2>2, InactiveMayBe DEF IInv, OneLeader
  <2> QED BY <2>1, <2>2
<1> QED BY <1>1, <1>4, <1>5, <1>a, WrittenInv

LEMMA FormInv ==
  ASSUME IInv, NEW t \in Tenants, Form(t)
  PROVE  IInv'
BY FormKeepsRows, FormCreatesInv, FormMovesInv, FormWritesInv DEF Form

\* Nothing the invariant says depends on the capacities but their type.
LEMMA ResizingInv ==
  ASSUME IInv, NEW r \in Rooms, Resizing(r)
  PROVE  IInv'
<1>1. UNCHANGED <<contract, part, handover, form>>
  BY DEF Resizing, ResizeCheck, ResizeWrite
<1>2. TypeOK'
  <2>1. capacity' \in [Rooms -> Capacity] /\ resize' \in [Rooms -> {0} \cup Capacity]
    BY DEF Resizing, ResizeCheck, ResizeWrite, IInv, TypeOK
  <2> QED BY <1>1, <2>1 DEF IInv, TypeOK, Locked
<1> QED BY <1>1, <1>2 DEF IInv, OneActivePerRoom, ActiveIsLed, TwoHomesHaveCause, TwoHomes,
                          OneLeader, HandoverChecked, CheckedHolds, NewFormsKnow, ReadContractsExist,
                          Unchecked, Active, Exists

LEMMA StepInv == IInv /\ [Next]_vars => IInv'
<1> SUFFICES ASSUME IInv, [Next]_vars PROVE IInv'
  OBVIOUS
<1>1. ASSUME NEW c \in Contracts, NEW r \in Rooms, Making(c, r)
      PROVE  IInv'
  BY <1>1, CreateContractInv, ReserveInv, UpdateContractInv DEF Making
<1>2. ASSUME NEW c \in Contracts, Life(c)
      PROVE  IInv'
  BY <1>2, ActivateInv, CloseInv, DatesPassInv DEF Life, End, Cancel, CancelRental
<1>3. CASE UNCHANGED vars
  BY <1>3 DEF vars, IInv, TypeOK, OneActivePerRoom, ActiveIsLed, TwoHomesHaveCause, TwoHomes,
              OneLeader, HandoverChecked, CheckedHolds, NewFormsKnow, ReadContractsExist,
              Unchecked, Active, Exists, Locked
<1> QED BY <1>1, <1>2, <1>3, HandoverStepInv, ParticipatingInv, FormInv, ResizingInv DEF Next

\* The inductive invariant: the properties of states, that drafts have at most
\* one primary, that what a handover checked stays true under its locks, and
\* what a tenant form still knows of the contracts when it writes.
THEOREM Invariance == Spec => []IInv
BY InitInv, StepInv, PTL DEF Spec

\* Rows keep the columns of the schema and only drafts are handed over.
THEOREM TypeCorrect == Spec => []TypeOK
<1>1. IInv => TypeOK
  BY DEF IInv
<1> QED BY <1>1, Invariance, PTL

\* A room never has two active contracts.
THEOREM RoomUnique == Spec => []OneActivePerRoom
<1>1. IInv => OneActivePerRoom
  BY DEF IInv
<1> QED BY <1>1, Invariance, PTL

\* Somebody lives under every active contract, with one primary unless it was
\* handed over without, or a tenant form reopened it.
THEOREM ActiveLed == Spec => []ActiveIsLed
<1>1. IInv => ActiveIsLed
  BY DEF IInv
<1> QED BY <1>1, Invariance, PTL

\* No two active contracts share a room, and each is led.
THEOREM ContractsStand == Spec => []ActiveContractsStand
BY RoomUnique, ActiveLed, PTL DEF ActiveContractsStand

\* Of two active contracts with a tenant in common one became active by a
\* handover or by a tenant form.
THEOREM HomesAndHandovers == Spec => []TwoHomesHaveCause
<1>1. IInv => TwoHomesHaveCause
  BY DEF IInv
<1> QED BY <1>1, Invariance, PTL
-----------------------------------------------------------------------------
(* Closed contracts, and rooms that are too small. *)

\* Steps that write rows at all do so to one contract.
LEMMA OtherContracts ==
  ASSUME IInv, NEW c \in Contracts, NEW d \in Contracts, c # d,
         \/ \E r \in Rooms : Making(d, r)
         \/ HandoverStep(d)
         \/ Life(d)
         \/ \E t \in Tenants : Participating(d, t)
  PROVE  contract'[c] = contract[c] /\ part'[c] = part[c] /\ capacity' = capacity
<1>1. ASSUME NEW r \in Rooms, Making(d, r)
      PROVE  contract'[c] = contract[c] /\ part'[c] = part[c] /\ capacity' = capacity
  BY <1>1 DEF Making, CreateContract, Reserve, Insert, UpdateContract, IInv, TypeOK
<1>2. CASE HandoverStep(d)
  BY <1>2 DEF HandoverStep, HandoverBegin, HandoverCheck, HandoverCommit, HandoverRefused, IInv, TypeOK
<1>3. CASE Life(d)
  BY <1>3 DEF Life, Activate, End, Cancel, CancelRental, CloseAs, DatesPass, IInv, TypeOK
<1>4. ASSUME NEW t \in Tenants, Participating(d, t)
      PROVE  contract'[c] = contract[c] /\ part'[c] = part[c] /\ capacity' = capacity
  BY <1>4 DEF Participating, AddTenant, RemoveTenant, IInv, TypeOK
<1> QED BY <1>1, <1>2, <1>3, <1>4

\* A form commits that read c.
FormCommitsTo(t, c) == form[t].step = "EDIT" /\ form[t].contract = c /\ form'[t] = NoForm

LEMMA FormElsewhere ==
  ASSUME IInv, NEW t \in Tenants, Form(t), NEW c \in Contracts, Exists(c), ~FormCommitsTo(t, c)
  PROVE  contract'[c] = contract[c] /\ part'[c] = part[c] /\ capacity' = capacity
<1>1. CASE FormBegin(t) \/ FormRefused(t)
  BY <1>1 DEF FormBegin, FormRefused
<1>2. ASSUME NEW d \in Contracts, NEW r \in Rooms, FormCreates(t, d, r)
      PROVE  contract'[c] = contract[c] /\ part'[c] = part[c] /\ capacity' = capacity
  BY <1>2 DEF FormCreates, IInv, TypeOK
<1>3. ASSUME NEW d \in Contracts, NEW r \in Rooms, FormMoves(t, d, r)
      PROVE  contract'[c] = contract[c] /\ part'[c] = part[c] /\ capacity' = capacity
  <2>1. c # d /\ c # form[t].contract /\ capacity' = capacity
    BY <1>3 DEF FormMoves, FormCommitsTo, IInv, TypeOK
  <2> QED BY <1>3, <2>1 DEF FormMoves, IInv, TypeOK
<1>4. CASE FormWrites(t)
  <2>1. c # form[t].contract /\ capacity' = capacity /\ part' = part
    BY <1>4 DEF FormWrites, FormCommitsTo, IInv, TypeOK
  <2> QED BY <1>4, <2>1 DEF FormWrites, IInv, TypeOK
<1> QED BY <1>1, <1>2, <1>3, <1>4 DEF Form

LEMMA ClosedStep ==
  ASSUME IInv, [Next]_vars, NEW c \in Contracts
  PROVE  ClosedKept(c)
<1> SUFFICES ASSUME Exists(c), ~Open(c)
             PROVE  (contract'[c].status = contract[c].status /\ part'[c] = part[c]) \/ StaleForm(c)
  BY DEF ClosedKept
<1>0. ~Locked(c) /\ contract[c] \in ContractRow /\ contract[c].status # "DRAFT"
  BY RowOfContract DEF IInv, TypeOK, Open
<1>1. ASSUME NEW r \in Rooms, Making(c, r)
      PROVE  contract'[c].status = contract[c].status /\ part'[c] = part[c]
  BY <1>0, <1>1 DEF Making, CreateContract, Reserve, UpdateContract, IInv, TypeOK, ContractRow
<1>2. ~HandoverStep(c)
  BY <1>0 DEF HandoverStep, HandoverBegin, HandoverCheck, HandoverCommit, HandoverRefused, Locked
<1>3. ~Life(c)
  BY <1>0 DEF Life, Activate, End, Cancel, CancelRental, CloseAs, DatesPass
<1>4. \A t \in Tenants : ~Participating(c, t)
  BY DEF Participating, AddTenant, RemoveTenant
<1>5. ASSUME NEW r \in Rooms, Resizing(r)
      PROVE  contract'[c].status = contract[c].status /\ part'[c] = part[c]
  BY <1>5 DEF Resizing, ResizeCheck, ResizeWrite
<1>6. CASE UNCHANGED vars
  BY <1>6 DEF vars
<1>7. ASSUME NEW t \in Tenants, Form(t)
      PROVE  (contract'[c].status = contract[c].status /\ part'[c] = part[c]) \/ StaleForm(c)
  <2>1. CASE FormCommitsTo(t, c)
    BY <2>1 DEF FormCommitsTo, StaleForm, Active, Open
  <2>2. ASSUME ~FormCommitsTo(t, c)
        PROVE  contract'[c] = contract[c] /\ part'[c] = part[c]
    BY <1>7, <2>2, FormElsewhere
  <2> QED BY <2>1, <2>2
<1> QED BY <1>1, <1>2, <1>3, <1>4, <1>5, <1>6, <1>7, OtherContracts DEF Next

\* An ended or cancelled contract keeps its status and its participants.
THEOREM ClosedFinal == Spec => ClosedIsFinal
<1>1. IInv /\ [Next]_vars => \A c \in Contracts : ClosedKept(c)
  BY ClosedStep
<1> QED BY <1>1, Invariance, PTL DEF Spec, ClosedIsFinal

\* The capacity of a room changes by the write of its update only.
LEMMA CapacityKept ==
  ASSUME [Next]_vars, \A r \in Rooms : ~ResizeWrite(r)
  PROVE  capacity' = capacity
<1>1. ASSUME NEW c \in Contracts, NEW r \in Rooms, Making(c, r) PROVE capacity' = capacity
  BY <1>1 DEF Making, CreateContract, Reserve, UpdateContract, Insert
<1>2. ASSUME NEW c \in Contracts, HandoverStep(c) \/ Life(c) PROVE capacity' = capacity
  BY <1>2 DEF HandoverStep, HandoverBegin, HandoverCheck, HandoverCommit, HandoverRefused,
              Life, Activate, End, Cancel, CancelRental, CloseAs, DatesPass
<1>3. ASSUME NEW c \in Contracts, NEW t \in Tenants, Participating(c, t) PROVE capacity' = capacity
  BY <1>3 DEF Participating, AddTenant, RemoveTenant
<1>4. ASSUME NEW t \in Tenants, Form(t) PROVE capacity' = capacity
  BY <1>4 DEF Form, FormBegin, FormCreates, FormMoves, FormWrites, FormRefused
<1>5. ASSUME NEW r \in Rooms, Resizing(r) PROVE capacity' = capacity
  BY <1>5 DEF Resizing, ResizeCheck
<1> QED BY <1>1, <1>2, <1>3, <1>4, <1>5 DEF Next, vars

\* An update of a room is begun by its check only.
LEMMA ResizeKept ==
  ASSUME TypeOK, [Next]_vars, NEW r \in Rooms, \A k \in Capacity : ~ResizeCheck(r, k)
  PROVE  resize'[r] \in {0, resize[r]}
<1>1. ASSUME NEW c \in Contracts, NEW q \in Rooms, Making(c, q) PROVE resize' = resize
  BY <1>1 DEF Making, CreateContract, Reserve, UpdateContract, Insert
<1>2. ASSUME NEW c \in Contracts, HandoverStep(c) \/ Life(c) PROVE resize' = resize
  BY <1>2 DEF HandoverStep, HandoverBegin, HandoverCheck, HandoverCommit, HandoverRefused,
              Life, Activate, End, Cancel, CancelRental, CloseAs, DatesPass
<1>3. ASSUME NEW c \in Contracts, NEW t \in Tenants, Participating(c, t) PROVE resize' = resize
  BY <1>3 DEF Participating, AddTenant, RemoveTenant
<1>4. ASSUME NEW t \in Tenants, Form(t) PROVE resize' = resize
  BY <1>4 DEF Form, FormBegin, FormCreates, FormMoves, FormWrites, FormRefused
<1>5. ASSUME NEW q \in Rooms, Resizing(q) PROVE resize'[r] \in {0, resize[r]}
  BY <1>5 DEF Resizing, ResizeCheck, ResizeWrite, TypeOK
<1> QED BY <1>1, <1>2, <1>3, <1>4, <1>5 DEF Next, vars

\* The check of an update sees who lives in the room, so what is too small for
\* them later has been so made by a step on the contract.
LEMMA OutgrownStep ==
  ASSUME IInv, [Next]_vars, NEW c \in Contracts, ~Outgrown(c), ~Touched(c)
  PROVE  ~Outgrown(c)'
<1> SUFFICES ASSUME NEW r \in Rooms, Active(c)', contract'[c].room = r, resize'[r] # 0,
                    Cardinality(Staying(part'[c])) > resize'[r]
             PROVE  FALSE
  BY DEF Outgrown
<1>1. Active(c) /\ contract[c].room = r /\ part'[c] = part[c]
  BY DEF Touched, Active
<1>2. CASE \A k \in Capacity : ~ResizeCheck(r, k)
  BY <1>1, <1>2, ResizeKept DEF IInv, Outgrown
<1>3. ASSUME NEW k \in Capacity, ResizeCheck(r, k) PROVE FALSE
  <2>1. resize'[r] = k /\ c \in ActiveIn(r)
    BY <1>1, <1>3 DEF ResizeCheck, ActiveIn, IInv, TypeOK
  <2>2. Cardinality(Staying(part[c])) <= k
    BY <1>3, <2>1 DEF ResizeCheck
  <2>3. Cardinality(Staying(part[c])) \in Nat /\ k \in Nat
    <3>1. part[c] \in Participants
      BY DEF IInv, TypeOK, Participants
    <3> QED BY <3>1, Counts, TenancyAssumption DEF Capacity
  <2> QED BY <1>1, <2>1, <2>2, <2>3
<1> QED BY <1>2, <1>3

LEMMA CrowdedStep ==
  ASSUME IInv, [Next]_vars, NEW c \in Contracts
  PROVE  CrowdingCaused(c)
<1> SUFFICES ASSUME ~Crowded(c), ~Outgrown(c),
                    ~(handover[c].capacity > capacity[contract[c].room]), ~StaleForm(c)
             PROVE  ~Crowded(c)'
  BY OutgrownStep DEF CrowdingCaused
\* The write of a room's update.
<1>a. ASSUME NEW r \in Rooms, ResizeWrite(r)
      PROVE  ~Crowded(c)'
  <2>1. contract' = contract /\ part' = part /\ capacity'[r] = resize[r]
    BY <1>a DEF ResizeWrite, IInv, TypeOK
  <2>2. CASE Active(c) /\ contract[c].room = r
    <3>1. ~(Cardinality(Staying(part[c])) > resize[r])
      BY <1>a, <2>2 DEF Outgrown, ResizeWrite
    <3>2. Cardinality(Staying(part[c])) \in Nat /\ resize[r] \in Nat
      <4>1. part[c] \in Participants
        BY DEF IInv, TypeOK, Participants
      <4>2. resize[r] \in {0} \cup Capacity
        BY DEF IInv, TypeOK
      <4> QED BY <4>1, <4>2, Counts, TenancyAssumption DEF Capacity
    <3> QED BY <2>1, <2>2, <3>1, <3>2 DEF Crowded, Fits
  <2>3. CASE ~Active(c)
    BY <2>1, <2>3 DEF Crowded, Active
  <2>4. CASE Active(c) /\ contract[c].room # r
    <3>1. capacity'[contract[c].room] = capacity[contract[c].room]
      <4>1. contract[c].room \in Rooms
        BY <2>4, RowOfContract DEF IInv, Active, Exists, ContractRow
      <4> QED BY <1>a, <2>4, <4>1 DEF ResizeWrite, IInv, TypeOK
    <3> QED BY <2>1, <3>1 DEF Crowded, Active, Fits
  <2> QED BY <2>2, <2>3, <2>4
<1> SUFFICES ASSUME capacity' = capacity
             PROVE  ~Crowded(c)'
  BY <1>a, CapacityKept
<1>0. TypeOK /\ contract[c] \in {NoContract} \cup ContractRow
  BY RowOfContract DEF IInv
\* A step that leaves c alone, or writes what fits or is not active.
<1>1. ASSUME contract'[c] = contract[c], part'[c] = part[c]
      PROVE  ~Crowded(c)'
  BY <1>1 DEF Crowded, Active, Fits
<1>2. ASSUME contract'[c].status # "ACTIVE" \/ Fits(part'[c], contract'[c].room)
      PROVE  ~Crowded(c)'
  BY <1>2 DEF Crowded, Active, Fits
<1>3. ASSUME NEW r \in Rooms, CreateContract(c, r)
      PROVE  ~Crowded(c)'
  BY <1>0, <1>2, <1>3 DEF CreateContract, Insert, TypeOK
<1>4. ASSUME NEW r \in Rooms, NEW t \in Tenants, Reserve(c, r, t)
      PROVE  ~Crowded(c)'
  BY <1>0, <1>2, <1>4 DEF Reserve, Insert, TypeOK
<1>5. ASSUME NEW r \in Rooms, NEW expired \in BOOLEAN, UpdateContract(c, r, expired)
      PROVE  ~Crowded(c)'
  <2>1. contract[c] \in ContractRow /\ Fits(part[c], r) /\ part' = part
    BY <1>5, RowOfContract DEF UpdateContract, IInv
  <2>2. contract'[c].room = r
    BY <1>0, <1>5, <2>1 DEF UpdateContract, TypeOK, ContractRow
  <2> QED BY <1>2, <2>1, <2>2
<1>6. CASE Life(c)
  <2>1. CASE Activate(c)
    BY <1>0, <1>2, <2>1 DEF Activate, Ready, TypeOK
  <2>2. ASSUME NEW s \in {"ENDED", "CANCELLED"}, CloseAs(c, s)
        PROVE  ~Crowded(c)'
    <3>1. contract[c] \in ContractRow
      BY <2>2, RowOfContract DEF CloseAs, IInv
    <3>2. contract'[c].status = s
      BY <1>0, <2>2, <3>1 DEF CloseAs, TypeOK, ContractRow
    <3> QED BY <1>2, <3>2
  <2>3. CASE DatesPass(c)
    <3>1. contract[c] \in ContractRow
      BY <2>3, RowOfContract DEF DatesPass, IInv
    <3>2. /\ contract'[c].status = contract[c].status /\ contract'[c].room = contract[c].room
          /\ part' = part
      BY <1>0, <2>3, <3>1 DEF DatesPass, TypeOK, ContractRow
    <3> QED BY <3>2 DEF Crowded, Active, Fits
  <2> QED BY <1>6, <2>1, <2>2, <2>3 DEF Life, End, Cancel, CancelRental
<1>7. CASE HandoverStep(c)
  <2>1. CASE HandoverBegin(c) \/ HandoverCheck(c) \/ HandoverRefused(c)
    BY <1>1, <2>1 DEF HandoverBegin, HandoverCheck, HandoverRefused
  <2>2. CASE HandoverCommit(c)
    <3>1. Locked(c) /\ contract[c] \in ContractRow /\ handover[c] \in [step : {"LOCKED", "CHECKED"}, capacity : Capacity]
      BY <1>0, <2>2, RowOfContract DEF HandoverCommit, Locked, TypeOK, Idle, Exists
    <3>2. /\ part[c] \in Participants
          /\ capacity[contract[c].room] \in Capacity
          /\ handover[c].capacity \in Capacity
      BY <1>0, <3>1, RowOfContract DEF TypeOK, ContractRow
    <3>3. Cardinality(Staying(part[c])) <= handover[c].capacity
      BY <2>2 DEF HandoverCommit, IInv, HandoverChecked, CheckedHolds
    <3>4. Cardinality(Staying(part[c])) \in Nat
      BY <3>2, Counts
    <3>5. Fits(part[c], contract[c].room)
      BY <3>2, <3>3, <3>4, TenancyAssumption DEF Fits, Capacity
    <3>6. contract'[c].room = contract[c].room /\ part' = part
      BY <1>0, <2>2, <3>1 DEF HandoverCommit, TypeOK, ContractRow
    <3> QED BY <1>2, <3>5, <3>6
  <2> QED BY <1>7, <2>1, <2>2 DEF HandoverStep
<1>8. ASSUME NEW t \in Tenants, Participating(c, t)
      PROVE  ~Crowded(c)'
  <2>1. ASSUME NEW role \in {"MEMBER", "PRIMARY"}, AddTenant(c, t, role)
        PROVE  ~Crowded(c)'
    <3>1. part'[c] = WithTenant(part[c], t, role) /\ contract' = contract
      BY <1>0, <2>1 DEF AddTenant, TypeOK
    <3> QED BY <1>2, <2>1, <3>1 DEF AddTenant
  <2>2. CASE RemoveTenant(c, t)
    <3> DEFINE p == [part[c] EXCEPT ![t] = "NONE"]
    <3>1. /\ part'[c] = p /\ contract' = contract
          /\ Active(c) => Ready(c, contract[c].room, p)
      BY <1>0, <2>2 DEF RemoveTenant, TypeOK
    <3> HIDE DEF p
    <3> QED BY <1>2, <3>1 DEF Active, Ready
  <2> QED BY <1>8, <2>1, <2>2 DEF Participating
<1>9. ASSUME NEW r \in Rooms, Resizing(r)
      PROVE  ~Crowded(c)'
  BY <1>1, <1>9 DEF Resizing, ResizeCheck, ResizeWrite
<1>10. CASE UNCHANGED vars
  BY <1>1, <1>10 DEF vars
<1>11. ASSUME NEW r \in Rooms, Making(c, r)
       PROVE  ~Crowded(c)'
  BY <1>3, <1>4, <1>5, <1>11 DEF Making
<1>12. ASSUME NEW t \in Tenants, Form(t)
       PROVE  ~Crowded(c)'
  <2>1. ASSUME NEW r \in Rooms, part'[c] = Alone(t), contract'[c].room = r
        PROVE  ~Crowded(c)'
    <3>1. capacity[r] >= 1
      BY <1>0, TenancyAssumption DEF TypeOK, Capacity
    <3> QED BY <1>2, <2>1, <3>1, AloneTyped DEF Fits
  <2>2. ASSUME NEW r \in Rooms, FormCreates(t, c, r)
        PROVE  ~Crowded(c)'
    BY <1>0, <2>1, <2>2 DEF FormCreates, TypeOK
  <2>3. ASSUME NEW r \in Rooms, FormMoves(t, c, r)
        PROVE  ~Crowded(c)'
    <3>1. part'[c] = Alone(t) /\ contract'[c].room = r
      BY <1>0, <2>3 DEF FormMoves, TypeOK
    <3> QED BY <2>1, <3>1
  <2>4. ASSUME NEW d \in Contracts, NEW r \in Rooms, FormMoves(t, d, r), FormCommitsTo(t, c)
        PROVE  ~Crowded(c)'
    <3>1. Exists(c) /\ c # d /\ form[t].contract = c
      BY <2>4, EditTyped DEF FormMoves, FormCommitsTo
    <3>2. contract[c] \in ContractRow
      BY <3>1, RowOfContract DEF IInv
    <3>3. contract'[c].status = "ENDED"
      BY <1>0, <2>4, <3>1, <3>2 DEF FormMoves, TypeOK, ContractRow
    <3> QED BY <1>2, <3>3
  <2>5. CASE FormWrites(t) /\ FormCommitsTo(t, c)
    <3>1. Active(c) /\ contract[c].room = form[t].room
      BY <2>5 DEF StaleForm, FormCommitsTo
    <3>2. contract'[c].room = form[t].room /\ part' = part
      BY <1>0, <2>5 DEF FormWrites, FormCommitsTo, TypeOK
    <3> QED BY <3>1, <3>2 DEF Crowded, Active, Fits
  <2>6. CASE ~FormCommitsTo(t, c) /\ Exists(c)
    BY <1>1, <1>12, <2>6, FormElsewhere
  <2>7. ASSUME ~Exists(c), \A r \in Rooms : ~FormCreates(t, c, r) /\ ~FormMoves(t, c, r)
        PROVE  ~Crowded(c)'
    <3>1. contract'[c] = contract[c]
      <4>1. form[t].step = "EDIT" => form[t].contract # c
        BY <2>7, EditTyped
      <4>2. ASSUME NEW d \in Contracts, NEW r \in Rooms, FormCreates(t, d, r) \/ FormMoves(t, d, r)
            PROVE  contract'[c] = contract[c]
        <5>1. d # c
          BY <2>7, <4>2
        <5> QED BY <1>0, <4>1, <4>2, <5>1 DEF FormCreates, FormMoves, TypeOK
      <4>3. CASE FormWrites(t)
        BY <1>0, <4>1, <4>3 DEF FormWrites, TypeOK
      <4> QED BY <1>12, <4>2, <4>3 DEF Form, FormBegin, FormRefused
    <3> QED BY <2>7, <3>1 DEF Crowded, Active, Exists
  <2>8. CASE FormCommitsTo(t, c)
    <3>1. form[t].step = "EDIT"
      BY <2>8 DEF FormCommitsTo
    <3>2. CASE FormBegin(t) \/ FormRefused(t)
      BY <1>1, <3>2 DEF FormBegin, FormRefused
    <3> QED BY <1>12, <2>4, <2>5, <2>8, <3>1, <3>2 DEF Form, FormCreates
  <2> QED BY <2>2, <2>3, <2>6, <2>7, <2>8
<1> QED BY <1>1, <1>6, <1>7, <1>8, <1>9, <1>10, <1>11, <1>12, OtherContracts DEF Next

\* A contract exceeds its room only by an update of the room that saw it smaller
\* or elsewhere, or came between the steps of its handover, or by a stale form.
THEOREM CrowdedByRooms == Spec => CrowdingHasCause
<1>1. IInv /\ [Next]_vars => \A c \in Contracts : CrowdingCaused(c)
  BY CrowdedStep
<1> QED BY <1>1, Invariance, PTL DEF Spec, CrowdingHasCause
-----------------------------------------------------------------------------
(* What the screens count. *)

\* The contracts that are active in some rooms, and their rooms.
ActiveOf(S) == {c \in Contracts : Active(c) /\ contract[c].room \in S}

LEMMA ActiveFacts ==
  ASSUME IInv, NEW S \in SUBSET Rooms
  PROVE  /\ IsFiniteSet(ActiveOf(S))
         /\ OccupiedRooms(S) = {contract[c].room : c \in ActiveOf(S)}
         /\ \A c, d \in ActiveOf(S) : contract[c].room = contract[d].room => c = d
         /\ \A c \in ActiveOf(S) : /\ ActiveIn(contract[c].room) = {c}
                                   /\ LivingIn(contract[c].room) = Staying(part[c])
                                   /\ IsFiniteSet(Staying(part[c]))
                                   /\ Cardinality(Staying(part[c])) \in Nat
<1>1. IsFiniteSet(ActiveOf(S))
  BY OccupancyAssumption, FS_Subset DEF ActiveOf
<1>2. OccupiedRooms(S) = {contract[c].room : c \in ActiveOf(S)}
  BY DEF OccupiedRooms, ActiveIn, ActiveOf
<1>3. \A c, d \in ActiveOf(S) : contract[c].room = contract[d].room => c = d
  BY DEF IInv, OneActivePerRoom, ActiveOf
<1>4. ASSUME NEW c \in ActiveOf(S)
      PROVE  /\ ActiveIn(contract[c].room) = {c}
             /\ LivingIn(contract[c].room) = Staying(part[c])
             /\ IsFiniteSet(Staying(part[c])) /\ Cardinality(Staying(part[c])) \in Nat
  <2>1. ActiveIn(contract[c].room) = {c}
    BY DEF IInv, OneActivePerRoom, ActiveOf, ActiveIn
  <2>2. LivingIn(contract[c].room) = Staying(part[c])
    BY <2>1 DEF LivingIn
  <2>3. part[c] \in Participants
    BY DEF IInv, TypeOK, Participants, ActiveOf
  <2> QED BY <2>1, <2>2, <2>3, Counts
<1> QED BY <1>1, <1>2, <1>3, <1>4

\* As many rooms are occupied as contracts are active.
LEMMA RoomsAreContracts ==
  ASSUME IInv, NEW S \in SUBSET Rooms
  PROVE  Cardinality(OccupiedRooms(S)) = Cardinality(ActiveOf(S))
<1> DEFINE f == [c \in ActiveOf(S) |-> contract[c].room]
<1>1. f \in Bijection(ActiveOf(S), OccupiedRooms(S))
  <2>1. OccupiedRooms(S) = {f[c] : c \in ActiveOf(S)} /\ \A c, d \in ActiveOf(S) : f[c] = f[d] => c = d
    BY ActiveFacts
  <2>2. f \in [ActiveOf(S) -> OccupiedRooms(S)]
    BY <2>1
  <2> HIDE DEF f
  <2>3. f \in Injection(ActiveOf(S), OccupiedRooms(S))
    BY <2>1, <2>2 DEF Injection, IsInjective
  <2>4. f \in Surjection(ActiveOf(S), OccupiedRooms(S))
    BY <2>1, <2>2 DEF Surjection
  <2> QED BY <2>3, <2>4 DEF Bijection
<1> HIDE DEF f
<1>2. ExistsBijection(ActiveOf(S), OccupiedRooms(S))
  BY <1>1 DEF ExistsBijection
<1> QED BY <1>2, ActiveFacts, FS_Bijection

-----------------------------------------------------------------------------
(***************************************************************************)
(* The folds of the report count pairs: of a room or a contract, and a     *)
(* tenant who lives there.  L is the table of who lives where.             *)
(***************************************************************************)

Pairs(L, s) == UNION {{x} \X L[x] : x \in s}

\* The element the fold is at, and the table of its values on the subsets of S.
At(s) == CHOOSE e \in s : TRUE
IsFold(g, w, S) == g = [s \in SUBSET S |-> IF s = {} THEN 0 ELSE w[At(s)] + g[s \ {At(s)}]]

LEMMA AtInSet == ASSUME NEW s, s # {} PROVE At(s) \in s
  BY DEF At

\* Induction over a finite set, as a fact about sets: every non-empty family of
\* subsets of S has a member that has no other member inside it.
LEMMA MinimalSubset ==
  ASSUME NEW S, IsFiniteSet(S), NEW F, F \subseteq SUBSET S, F # {}
  PROVE  \E m \in F : \A t \in F : ~(t \subseteq m /\ t # m)
<1>1. IsWellFoundedOn(StrictSubsetOrdering(S), SUBSET S)
  BY FS_StrictSubsetOrderingWellFounded, FS_FiniteSubsetsOfFinite
<1>2. \E m \in F : \A t \in F : ~(<<t, m>> \in StrictSubsetOrdering(S))
  BY <1>1, WFMin
<1> QED BY <1>2 DEF StrictSubsetOrdering

\* One more room has its tenants to add.
LEMMA PairsGrow ==
  ASSUME NEW L, NEW s, NEW x, x \notin s, IsFiniteSet(Pairs(L, s)), IsFiniteSet(L[x])
  PROVE  /\ IsFiniteSet(Pairs(L, s \cup {x}))
         /\ Cardinality(Pairs(L, s \cup {x})) = Cardinality(Pairs(L, s)) + Cardinality(L[x])
<1> DEFINE own == {x} \X L[x]
<1>1. Pairs(L, s \cup {x}) = Pairs(L, s) \cup own
  BY DEF Pairs
<1>2. Pairs(L, s) \cap own = {}
  BY DEF Pairs
<1>3. IsFiniteSet(own) /\ Cardinality(own) = Cardinality(L[x])
  <2>1. IsFiniteSet({x}) /\ Cardinality({x}) = 1
    BY FS_Singleton
  <2>2. Cardinality(L[x]) \in Nat
    BY FS_CardinalityType
  <2>3. IsFiniteSet(own) /\ Cardinality(own) = 1 * Cardinality(L[x])
    BY <2>1, FS_Product
  <2> QED BY <2>2, <2>3
<1> HIDE DEF own
<1>4. Cardinality(Pairs(L, s)) \in Nat /\ Cardinality(own) \in Nat
  BY <1>3, FS_CardinalityType
<1>5. Cardinality(Pairs(L, s) \cap own) = 0
  BY <1>2, FS_EmptySet
<1> DEFINE old == Pairs(L, s)
<1>6. IsFiniteSet(old) /\ Cardinality(old) \in Nat /\ Cardinality(old \cap own) = 0
  BY <1>4, <1>5
<1> HIDE DEF old
<1>7. /\ IsFiniteSet(old \cup own)
      /\ Cardinality(old \cup own) = Cardinality(old) + Cardinality(own) - Cardinality(old \cap own)
  BY <1>3, <1>6, FS_Union
<1>8. Cardinality(old \cup own) = Cardinality(old) + Cardinality(own)
  BY <1>4, <1>6, <1>7
<1> QED BY <1>1, <1>3, <1>7, <1>8 DEF old

LEMMA PairsFinite ==
  ASSUME NEW S, IsFiniteSet(S), NEW L, \A x \in S : IsFiniteSet(L[x])
  PROVE  \A s \in SUBSET S : IsFiniteSet(Pairs(L, s))
<1> DEFINE F == {s \in SUBSET S : ~IsFiniteSet(Pairs(L, s))}
<1> SUFFICES ASSUME F # {} PROVE FALSE
  OBVIOUS
<1>1. PICK m \in F : \A t \in F : ~(t \subseteq m /\ t # m)
  <2> HIDE DEF F
  <2>1. F \subseteq SUBSET S BY DEF F
  <2> QED BY <2>1, MinimalSubset
<1>2. m # {}
  <2>1. Pairs(L, {}) = {}
    BY DEF Pairs
  <2>2. IsFiniteSet(Pairs(L, {}))
    BY <2>1, FS_EmptySet
  <2> QED BY <1>1, <2>2
<1>3. PICK x \in m : TRUE
  BY <1>2
<1> DEFINE t == m \ {x}
<1>4. t \in SUBSET S /\ t \subseteq m /\ t # m /\ x \notin t /\ t \cup {x} = m /\ x \in S
  BY <1>1, <1>3
<1>5. IsFiniteSet(Pairs(L, t))
  BY <1>1, <1>4
<1> HIDE DEF t
<1>6. IsFiniteSet(Pairs(L, m))
  BY <1>4, <1>5, PairsGrow
<1> QED BY <1>1, <1>6

\* Counting the pairs is such a fold, so there is one.
LEMMA CountIsFold ==
  ASSUME NEW S, IsFiniteSet(S), NEW L, NEW w, \A x \in S : IsFiniteSet(L[x]) /\ w[x] = Cardinality(L[x])
  PROVE  IsFold([s \in SUBSET S |-> Cardinality(Pairs(L, s))], w, S)
<1> DEFINE g == [s \in SUBSET S |-> Cardinality(Pairs(L, s))]
<1>1. ASSUME NEW s \in SUBSET S, s = {} PROVE g[s] = 0
  <2>1. Pairs(L, {}) = {}
    BY DEF Pairs
  <2> QED BY <1>1, <2>1, FS_EmptySet
<1>2. ASSUME NEW s \in SUBSET S, s # {} PROVE g[s] = w[At(s)] + g[s \ {At(s)}]
  <2> DEFINE x == At(s)
             t == s \ {x}
  <2>1. x \in s
    BY <1>2, AtInSet
  <2> HIDE DEF x
  <2>2. t \in SUBSET S /\ x \notin t /\ t \cup {x} = s /\ x \in S
    BY <2>1
  <2> HIDE DEF t
  <2>3. IsFiniteSet(Pairs(L, t)) /\ IsFiniteSet(L[x])
    BY <2>2, PairsFinite
  <2>4. Cardinality(Pairs(L, s)) = Cardinality(Pairs(L, t)) + Cardinality(L[x])
    BY <2>2, <2>3, PairsGrow
  <2>5. Cardinality(Pairs(L, t)) \in Nat /\ Cardinality(L[x]) \in Nat
    BY <2>3, FS_CardinalityType
  <2>6. g[s] = w[x] + g[t]
    BY <2>2, <2>4, <2>5
  <2> QED BY <2>6 DEF x, t
<1>3. g = [s \in SUBSET S |-> IF s = {} THEN 0 ELSE w[At(s)] + g[s \ {At(s)}]]
  <2> DEFINE k == [s \in SUBSET S |-> IF s = {} THEN 0 ELSE w[At(s)] + g[s \ {At(s)}]]
  <2>1. ASSUME NEW s \in SUBSET S PROVE g[s] = k[s]
    <3>1. CASE s = {} BY <1>1, <3>1
    <3>2. CASE s # {}
      <4> HIDE DEF g
      <4> QED BY <1>2, <3>2
    <3> QED BY <3>1, <3>2
  <2> HIDE DEF k
  <2> QED BY <2>1 DEF k
<1> QED BY <1>3 DEF IsFold

\* ... and no other.
LEMMA FoldsAgree ==
  ASSUME NEW S, IsFiniteSet(S), NEW w, NEW g, NEW h, IsFold(g, w, S), IsFold(h, w, S)
  PROVE  g[S] = h[S]
<1> DEFINE F == {s \in SUBSET S : g[s] # h[s]}
<1> SUFFICES ASSUME F # {} PROVE FALSE
  BY DEF F
<1>1. PICK m \in F : \A t \in F : ~(t \subseteq m /\ t # m)
  <2> HIDE DEF F
  <2>1. F \subseteq SUBSET S BY DEF F
  <2> QED BY <2>1, MinimalSubset
<1>2. m # {}
  BY <1>1 DEF IsFold
<1>3. At(m) \in m
  BY <1>2, AtInSet
<1> DEFINE r == m \ {At(m)}
<1>4. r \in SUBSET S /\ r \subseteq m /\ r # m
  BY <1>1, <1>3
<1>5. g[r] = h[r]
  BY <1>1, <1>4
<1>6. g[m] = w[At(m)] + g[r] /\ h[m] = w[At(m)] + h[r]
  BY <1>1, <1>2 DEF IsFold
<1> QED BY <1>1, <1>5, <1>6

\* What the report adds up over rooms.
LEMMA TenantsOfRooms ==
  ASSUME NEW S, IsFiniteSet(S), \A r \in S : IsFiniteSet(LivingIn(r))
  PROVE  MapThenSumSet(ActiveTenants, S) = Cardinality(Pairs([r \in S |-> LivingIn(r)], S))
<1> DEFINE L == [r \in S |-> LivingIn(r)]
           w == [r \in S |-> ActiveTenants(r)]
           count == [s \in SUBSET S |-> Cardinality(Pairs(L, s))]
           Fold(g) == g = [s \in SUBSET S |-> IF s = {} THEN 0 ELSE ActiveTenants(At(s)) + g[s \ {At(s)}]]
           h == CHOOSE g : Fold(g)
<1>1. MapThenSumSet(ActiveTenants, S) = h[S]
  BY DEF MapThenSumSet, MapThenFoldSet, At
<1>2. ASSUME NEW g PROVE Fold(g) <=> IsFold(g, w, S)
  <2>1. \A s \in SUBSET S : s # {} => w[At(s)] = ActiveTenants(At(s))
    BY AtInSet
  <2> DEFINE one == [s \in SUBSET S |-> IF s = {} THEN 0 ELSE ActiveTenants(At(s)) + g[s \ {At(s)}]]
             two == [s \in SUBSET S |-> IF s = {} THEN 0 ELSE w[At(s)] + g[s \ {At(s)}]]
  <2>2. one = two
    <3> HIDE DEF w
    <3> QED BY <2>1
  <2> QED BY <2>2 DEF IsFold
<1>3. \A r \in S : IsFiniteSet(L[r]) /\ w[r] = Cardinality(L[r])
  BY DEF ActiveTenants
<1> HIDE DEF L, w
<1>4. IsFold(count, w, S)
  BY <1>3, CountIsFold
<1> HIDE DEF count
<1>5. Fold(h)
  <2>1. \E g : Fold(g)
    BY <1>2, <1>4
  <2> HIDE DEF Fold
  <2> QED BY <2>1
<1> HIDE DEF h, Fold
<1>6. h[S] = count[S]
  BY <1>2, <1>4, <1>5, FoldsAgree
<1> QED BY <1>1, <1>6 DEF count, L

\* ... and over contracts.
LEMMA TenantsOfContracts ==
  ASSUME NEW S, IsFiniteSet(S), \A c \in S : IsFiniteSet(Staying(part[c]))
  PROVE  MapThenSumSet(LAMBDA c : Cardinality(Staying(part[c])), S)
            = Cardinality(Pairs([c \in S |-> Staying(part[c])], S))
<1> DEFINE L == [c \in S |-> Staying(part[c])]
           w == [c \in S |-> Cardinality(Staying(part[c]))]
           count == [s \in SUBSET S |-> Cardinality(Pairs(L, s))]
           Fold(g) == g = [s \in SUBSET S |->
                             IF s = {} THEN 0 ELSE Cardinality(Staying(part[At(s)])) + g[s \ {At(s)}]]
           h == CHOOSE g : Fold(g)
<1>1. MapThenSumSet(LAMBDA c : Cardinality(Staying(part[c])), S) = h[S]
  BY DEF MapThenSumSet, MapThenFoldSet, At
<1>2. ASSUME NEW g PROVE Fold(g) <=> IsFold(g, w, S)
  <2>1. \A s \in SUBSET S : s # {} => w[At(s)] = Cardinality(Staying(part[At(s)]))
    BY AtInSet
  <2> DEFINE one == [s \in SUBSET S |->
                       IF s = {} THEN 0 ELSE Cardinality(Staying(part[At(s)])) + g[s \ {At(s)}]]
             two == [s \in SUBSET S |-> IF s = {} THEN 0 ELSE w[At(s)] + g[s \ {At(s)}]]
  <2>2. one = two
    <3> HIDE DEF w
    <3> QED BY <2>1
  <2> QED BY <2>2 DEF IsFold
<1>3. \A c \in S : IsFiniteSet(L[c]) /\ w[c] = Cardinality(L[c])
  OBVIOUS
<1> HIDE DEF L, w
<1>4. IsFold(count, w, S)
  BY <1>3, CountIsFold
<1> HIDE DEF count
<1>5. Fold(h)
  <2>1. \E g : Fold(g)
    BY <1>2, <1>4
  <2> HIDE DEF Fold
  <2> QED BY <2>1
<1> HIDE DEF h, Fold
<1>6. h[S] = count[S]
  BY <1>2, <1>4, <1>5, FoldsAgree
<1> QED BY <1>1, <1>6 DEF count, L

\* An active contract is the only one of its room, so the report counts the
\* tenants of its contracts.
LEMMA ReportCounts ==
  ASSUME IInv, NEW S \in SUBSET Rooms
  PROVE  OccupancyReport(S).tenants
            = MapThenSumSet(LAMBDA c : Cardinality(Staying(part[c])), ActiveOf(S))
<1> DEFINE A == ActiveOf(S)
           R == OccupiedRooms(S)
           f == [c \in A |-> contract[c].room]
           L == [r \in R |-> LivingIn(r)]
           K == [c \in A |-> Staying(part[c])]
           pair == [p \in Pairs(K, A) |-> <<f[p[1]], p[2]>>]
<1>1. IsFiniteSet(A) /\ R = {f[c] : c \in A} /\ \A c, d \in A : f[c] = f[d] => c = d
  BY ActiveFacts
<1>2. \A c \in A : IsFiniteSet(K[c]) /\ L[f[c]] = K[c]
  BY <1>1, ActiveFacts
<1>3. IsFiniteSet(R) /\ \A r \in R : IsFiniteSet(LivingIn(r))
  <2>1. f \in Surjection(A, R)
    BY <1>1 DEF Surjection
  <2>2. ASSUME NEW r \in R PROVE IsFiniteSet(LivingIn(r))
    <3>1. PICK c \in A : f[c] = r
      BY <1>1
    <3>2. L[r] = LivingIn(r)
      OBVIOUS
    <3> HIDE DEF A, R, f, L, K
    <3> QED BY <1>2, <3>1, <3>2
  <2> HIDE DEF f
  <2> QED BY <1>1, <2>1, <2>2, FS_Surjection
<1>4. OccupancyReport(S).tenants = Cardinality(Pairs(L, R))
  BY <1>3, TenantsOfRooms DEF OccupancyReport
<1>5. MapThenSumSet(LAMBDA c : Cardinality(Staying(part[c])), A) = Cardinality(Pairs(K, A))
  BY <1>1, <1>2, TenantsOfContracts
<1> HIDE DEF A, R, f, L, K
<1>6. IsFiniteSet(Pairs(K, A))
  BY <1>1, <1>2, PairsFinite
<1>7. pair \in Bijection(Pairs(K, A), Pairs(L, R))
  <2>1. ASSUME NEW p \in Pairs(K, A)
        PROVE  p = <<p[1], p[2]>> /\ p[1] \in A /\ p[2] \in K[p[1]]
    BY DEF Pairs
  <2>2. \A p \in Pairs(K, A) : <<f[p[1]], p[2]>> \in Pairs(L, R)
    BY <1>1, <1>2, <2>1 DEF Pairs
  <2>3. pair \in [Pairs(K, A) -> Pairs(L, R)]
    BY <2>2
  <2>4. \A p, q \in Pairs(K, A) : pair[p] = pair[q] => p = q
    BY <1>1, <2>1
  <2>5. ASSUME NEW q \in Pairs(L, R) PROVE \E p \in Pairs(K, A) : pair[p] = q
    <3>1. PICK r \in R : q = <<r, q[2]>> /\ q[2] \in L[r]
      BY DEF Pairs
    <3>2. PICK c \in A : f[c] = r
      BY <1>1
    <3>3. <<c, q[2]>> \in Pairs(K, A)
      BY <1>2, <3>1, <3>2 DEF Pairs
    <3>4. pair[<<c, q[2]>>] = q
      BY <3>1, <3>2, <3>3
    <3> QED BY <3>3, <3>4
  <2> HIDE DEF pair
  <2>6. pair \in Injection(Pairs(K, A), Pairs(L, R)) /\ pair \in Surjection(Pairs(K, A), Pairs(L, R))
    BY <2>3, <2>4, <2>5 DEF Injection, IsInjective, Surjection
  <2> QED BY <2>6 DEF Bijection
<1> HIDE DEF pair
<1>8. ExistsBijection(Pairs(K, A), Pairs(L, R))
  BY <1>7 DEF ExistsBijection
<1>9. Cardinality(Pairs(L, R)) = Cardinality(Pairs(K, A))
  BY <1>6, <1>8, FS_Bijection
<1> QED BY <1>4, <1>5, <1>9 DEF A

\* ... which is how many they are, when none of them has two homes.
LEMMA TenantsAreCounted ==
  ASSUME IInv, NEW S \in SUBSET Rooms, \A c, d \in ActiveOf(S) : ~TwoHomes(c, d)
  PROVE  OccupancyReport(S).tenants = TenantCount(S)
<1> DEFINE A == ActiveOf(S)
           K == [c \in A |-> Staying(part[c])]
           Tns == UNION {LivingIn(r) : r \in S}
           who == [p \in Pairs(K, A) |-> p[2]]
<1>1. IsFiniteSet(A) /\ \A c \in A : IsFiniteSet(K[c])
  BY ActiveFacts
<1>2. \A c, d \in A : c # d => K[c] \cap K[d] = {}
  BY DEF TwoHomes, ActiveOf
<1>3. OccupancyReport(S).tenants = Cardinality(Pairs(K, A))
  BY <1>1, ReportCounts, TenantsOfContracts
<1>4. \A t : t \in Tns <=> \E c \in A : t \in K[c]
  <2>1. ASSUME NEW t, NEW c \in A, t \in K[c] PROVE \E r \in S : t \in LivingIn(r)
    <3>1. contract[c].room \in S /\ t \in LivingIn(contract[c].room)
      BY <2>1, ActiveFacts DEF ActiveOf
    <3> QED BY <3>1
  <2>2. ASSUME NEW t, NEW r \in S, t \in LivingIn(r) PROVE \E c \in A : t \in K[c]
    <3>1. PICK c \in ActiveIn(r) : t \in Staying(part[c])
      BY <2>2 DEF LivingIn
    <3>2. c \in A
      BY <3>1 DEF ActiveIn, ActiveOf
    <3> QED BY <3>1, <3>2
  <2> HIDE DEF K, A
  <2> QED BY <2>1, <2>2
<1> HIDE DEF A, K, Tns
<1>5. IsFiniteSet(Pairs(K, A))
  BY <1>1, PairsFinite
<1>6. who \in Bijection(Pairs(K, A), Tns)
  <2>1. ASSUME NEW p \in Pairs(K, A)
        PROVE  p = <<p[1], p[2]>> /\ p[1] \in A /\ p[2] \in K[p[1]]
    BY DEF Pairs
  <2>2. who \in [Pairs(K, A) -> Tns]
    BY <1>4, <2>1
  <2>3. \A p, q \in Pairs(K, A) : who[p] = who[q] => p = q
    BY <1>2, <2>1
  <2>4. ASSUME NEW t \in Tns PROVE \E p \in Pairs(K, A) : who[p] = t
    <3>1. PICK c \in A : t \in K[c]
      BY <1>4
    <3>2. <<c, t>> \in Pairs(K, A)
      BY <3>1 DEF Pairs
    <3> QED BY <3>2
  <2> HIDE DEF who
  <2>5. who \in Injection(Pairs(K, A), Tns) /\ who \in Surjection(Pairs(K, A), Tns)
    BY <2>2, <2>3, <2>4 DEF Injection, IsInjective, Surjection
  <2> QED BY <2>5 DEF Bijection
<1> HIDE DEF who
<1>7. ExistsBijection(Pairs(K, A), Tns)
  BY <1>6 DEF ExistsBijection
<1>8. Cardinality(Tns) = Cardinality(Pairs(K, A))
  BY <1>5, <1>7, FS_Bijection
<1> QED BY <1>3, <1>8 DEF Tns, TenantCount

\* Every screen counts the rooms and the tenants of any buildings alike, and
\* disagrees only about tenants whose second home nobody checked.
THEOREM ScreensAgree == Spec => []OccupancyAgrees
<1>1. ASSUME IInv PROVE OccupancyAgrees
  <2>1. ASSUME NEW S \in SUBSET Rooms
        PROVE  LET active == {c \in Contracts : Active(c) /\ contract[c].room \in S}
               IN  /\ {OccupancyReport(S).occupied, OccupancySummary(S).occupied,
                       PortfolioStats(S).occupied, BuildingDistribution(S)} = {Cardinality(active)}
                   /\ OccupancyReport(S).vacant = PortfolioStats(S).vacant
                   /\ OccupancyReport(S).tenants = MapThenSumSet(LAMBDA c : Cardinality(Staying(part[c])), active)
                   /\ OccupancyReport(S).tenants = TenantCount(S)
                         \/ \E c, d \in active : TwoHomes(c, d) /\ (Unchecked(c) \/ Unchecked(d))
    <3>1. OccupiedRooms(S) = S \cap {contract[c].room : c \in {d \in Contracts : Active(d)}}
      BY DEF OccupiedRooms, ActiveIn
    <3>2. S \ OccupiedRooms(S) = S \ {contract[c].room : c \in {d \in Contracts : Active(d)}}
      BY <3>1
    <3>3. /\ OccupancyReport(S).occupied = Cardinality(ActiveOf(S))
          /\ OccupancySummary(S).occupied = Cardinality(ActiveOf(S))
          /\ PortfolioStats(S).occupied = Cardinality(ActiveOf(S))
          /\ BuildingDistribution(S) = Cardinality(ActiveOf(S))
      BY <1>1, <3>1, RoomsAreContracts DEF OccupancyReport, OccupancySummary, PortfolioStats, BuildingDistribution
    <3>4. OccupancyReport(S).vacant = PortfolioStats(S).vacant
      BY <3>2 DEF OccupancyReport, PortfolioStats
    <3>5. OccupancyReport(S).tenants = TenantCount(S)
             \/ \E c, d \in ActiveOf(S) : TwoHomes(c, d) /\ (Unchecked(c) \/ Unchecked(d))
      <4>1. \A c, d \in Contracts : TwoHomes(c, d) => Unchecked(c) \/ Unchecked(d)
        BY <1>1 DEF IInv, TwoHomesHaveCause
      <4> QED BY <1>1, <4>1, TenantsAreCounted DEF ActiveOf
    <3>6. OccupancyReport(S).tenants = MapThenSumSet(LAMBDA c : Cardinality(Staying(part[c])), ActiveOf(S))
      BY <1>1, ReportCounts
    <3> QED BY <3>3, <3>4, <3>5, <3>6 DEF ActiveOf
  <2>2. ASSUME NEW t \in Tenants, NEW room \in MyRoom(t), NEW mates \in Roommates(t)
        PROVE  room = mates.contract \/ Unchecked(room) \/ Unchecked(mates.contract)
    <3>1. PICK c \in CurrentRooms(t) : mates.contract = c
      BY DEF Roommates
    <3>2. room # c => TwoHomes(room, c)
      BY <3>1 DEF MyRoom, CurrentRooms, TwoHomes
    <3> QED BY <1>1, <3>1, <3>2 DEF IInv, TwoHomesHaveCause, MyRoom, CurrentRooms
  <2>3. ASSUME NEW r \in Rooms, NEW s \in RoomSummaries(r) PROVE s.occupants = ActiveTenants(r)
    <3>1. PICK c \in ActiveIn(r) : s.occupants = Cardinality(Staying(part[c]))
      BY DEF RoomSummaries
    <3>2. ActiveIn(r) = {c}
      BY <1>1, <3>1 DEF IInv, OneActivePerRoom, ActiveIn
    <3>3. LivingIn(r) = Staying(part[c])
      BY <3>2 DEF LivingIn
    <3> QED BY <3>1, <3>3 DEF ActiveTenants
  <2> QED BY <2>1, <2>2, <2>3 DEF OccupancyAgrees
<1> QED BY <1>1, Invariance, PTL
=============================================================================
