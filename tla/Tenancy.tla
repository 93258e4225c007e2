------------------------------ MODULE Tenancy ------------------------------
(***************************************************************************)
(* Who lives where: contracts, their participants and the rooms' capacity  *)
(* (backend/src/modules/contracts, rental-registration, the tenant form in  *)
(* tenants, and the update of a room in rooms.routes.ts).                  *)
(*                                                                         *)
(* An operation that locks everything its checks read is one action.       *)
(* Three do not.  A handover locks its contract and its room, but not the  *)
(* tenants, and reads the capacity before it has the room: it takes three  *)
(* steps and keeps its locks in between.  The form of a tenant locks the   *)
(* tenant, reads the current contract without a lock and writes it by its  *)
(* id.  The update of a room is two statements without a transaction.      *)
(***************************************************************************)
EXTENDS Integers, FiniteSets

CONSTANTS
    Rooms,
    Tenants,
    Contracts,      \* ids of contract rows
    MaxCapacity,    \* bound on room.max_occupants
    MaxInFlight     \* bound on handovers, forms and room updates under way at once

ASSUME TenancyAssumption ==
    /\ IsFiniteSet(Tenants)
    /\ MaxCapacity \in Nat \ {0}
    /\ MaxInFlight \in Nat

VARIABLES
    contract,   \* contract[c]: status, room, what activated it, whether open past its end
    part,       \* part[c][t]: the row of contract_tenant with no left_at
    capacity,   \* capacity[r]: max_occupants
    handover,   \* handover[c]: how far a handover of c is, and the capacity it read
    form,       \* form[t]: the current contract that t's form has read, and its room
    resize      \* resize[r]: the capacity a room update has checked and not written, or 0

vars == <<contract, part, capacity, handover, form, resize>>

ContractStatus == {"DRAFT", "ACTIVE", "ENDED", "CANCELLED"}
Participation == {"NONE", "MEMBER", "PRIMARY"}    \* NONE: not there, or has left
Capacity == 1..MaxCapacity
Nobody == [t \in Tenants |-> "NONE"]
Alone(t) == [u \in Tenants |-> IF u = t THEN "PRIMARY" ELSE "NONE"]
Idle == [step |-> "IDLE", capacity |-> 0]
NoForm == [step |-> "IDLE", contract |-> "NONE", room |-> "NONE"]
NewForm == [step |-> "NEW", contract |-> "NONE", room |-> "NONE"]

\* What made an active contract active: an operation that checked it, a
\* handover, a tenant form's move to another room, or its write over a contract
\* that was not active any more.  The others have CHECKED.
Activation == {"CHECKED", "HANDOVER", "MOVED", "REOPENED"}
-----------------------------------------------------------------------------
Exists(c) == contract[c].status # "NONE"
Active(c) == contract[c].status = "ACTIVE"
Open(c) == contract[c].status \in {"DRAFT", "ACTIVE"}
ActiveIn(r) == {c \in Contracts : Active(c) /\ contract[c].room = r}

\* Participants with no left_at, and the one among them who is primary.
Staying(p) == {t \in Tenants : p[t] \in {"MEMBER", "PRIMARY"}}
Leading(p) == {t \in Tenants : p[t] = "PRIMARY"}

\* t lives under an active contract other than c.
Elsewhere(c, t) == \E d \in Contracts \ {c} : Active(d) /\ t \in Staying(part[d])

\* A reservation or a stay that is not past: contracts of participants who
\* all left may still count for the rest of the day, and only refuse more.
Registered(c) == Open(c) /\ ~contract[c].expired /\ Staying(part[c]) # {}
Occupied(r, c) == \E d \in Contracts \ {c} : Registered(d) /\ contract[d].room = r

\* Row locks a handover holds: its contract, and after the checks its room.
Locked(c) == handover[c].step # "IDLE"
RoomLocked(r) == \E c \in Contracts : handover[c].step = "CHECKED" /\ contract[c].room = r

\* Mutant: the form reads the tenant without locking the row.
TenantLocked_Never(t) == FALSE

\* The form of a tenant holds the tenant's row, which inserting a participant
\* and checking one need too.
TenantLocked(t) == form[t].step # "IDLE"

MayBegin ==
    Cardinality({c \in Contracts : Locked(c)}) + Cardinality({r \in Rooms : resize[r] # 0})
        + Cardinality({t \in Tenants : TenantLocked(t)}) < MaxInFlight

Fits(p, r) == Cardinality(Staying(p)) <= capacity[r]

Ready_Crowded(c, r, p) ==
    /\ Staying(p) # {}
    /\ Cardinality(Leading(p)) = 1
    /\ \A t \in Staying(p) : ~TenantLocked(t) /\ ~Elsewhere(c, t)

\* What an active contract asks of its participants p; locks the tenants.
Ready(c, r, p) ==
    /\ Staying(p) # {}
    /\ Cardinality(Leading(p)) = 1
    /\ Fits(p, r)
    /\ \A t \in Staying(p) : ~TenantLocked(t) /\ ~Elsewhere(c, t)

Init ==
    /\ contract = [c \in Contracts |->
          [status |-> "NONE", room |-> "NONE", by |-> "CHECKED", expired |-> FALSE]]
    /\ part = [c \in Contracts |-> Nobody]
    /\ capacity \in [Rooms -> Capacity]
    /\ handover = [c \in Contracts |-> Idle]
    /\ form = [t \in Tenants |-> NoForm]
    /\ resize = [r \in Rooms |-> 0]
-----------------------------------------------------------------------------
(* Making contracts. *)

\* A contract made with an end in the past is DatesPass's next.
Insert(c, r, s, p) ==
    /\ contract' = [contract EXCEPT ![c] =
          [status |-> s, room |-> r, by |-> "CHECKED", expired |-> FALSE]]
    /\ part' = [part EXCEPT ![c] = p]
    /\ UNCHANGED <<capacity, handover, form, resize>>

\* The caller chooses any status and participants.
CreateContract(c, r) ==
    /\ ~Exists(c)
    /\ ~RoomLocked(r)
    /\ \E s \in ContractStatus, p \in [Tenants -> Participation] :
          /\ \A t \in Staying(p) : ~TenantLocked(t)
          /\ Cardinality(Leading(p)) <= 1
          /\ Fits(p, r)
          /\ s = "ACTIVE" => ActiveIn(r) = {} /\ Ready(c, r, p)
          /\ Insert(c, r, s, p)

\* A reservation: a draft of one tenant, who is free, for a room that is.
Reserve(c, r, t) ==
    /\ ~Exists(c)
    /\ ~RoomLocked(r) /\ ~TenantLocked(t)
    /\ ~Occupied(r, c)
    /\ \A d \in Contracts : Registered(d) => t \notin Staying(part[d])
    /\ Insert(c, r, "DRAFT", Alone(t))
-----------------------------------------------------------------------------
(* Activation. *)

Activate_Again(c) ==
    /\ Exists(c)
    /\ ~Locked(c) /\ ~RoomLocked(contract[c].room)
    /\ ActiveIn(contract[c].room) = {}
    /\ Ready(c, contract[c].room, part[c])
    /\ contract' = [contract EXCEPT ![c].status = "ACTIVE"]
    /\ UNCHANGED <<part, capacity, handover, form, resize>>

Activate(c) ==
    /\ contract[c].status = "DRAFT"
    /\ ~Locked(c) /\ ~RoomLocked(contract[c].room)
    /\ ActiveIn(contract[c].room) = {}
    /\ Ready(c, contract[c].room, part[c])
    /\ contract' = [contract EXCEPT ![c].status = "ACTIVE"]
    /\ UNCHANGED <<part, capacity, handover, form, resize>>

\* The handover locks its contract and reads it with its room's capacity.
HandoverBegin(c) ==
    /\ contract[c].status = "DRAFT"
    /\ ~Locked(c)
    /\ MayBegin
    /\ handover' = [handover EXCEPT ![c] =
          [step |-> "LOCKED", capacity |-> capacity[contract[c].room]]]
    /\ UNCHANGED <<contract, part, capacity, form, resize>>

\* It locks the room and checks it and the participants.
HandoverCheck(c) ==
    LET r == contract[c].room
    IN  /\ handover[c].step = "LOCKED"
        /\ ~RoomLocked(r)
        /\ ~Occupied(r, c)
        /\ Staying(part[c]) # {}
        /\ Cardinality(Staying(part[c])) <= handover[c].capacity
        /\ \A t \in Staying(part[c]) : ~Elsewhere(c, t)
        /\ handover' = [handover EXCEPT ![c].step = "CHECKED"]
        /\ UNCHANGED <<contract, part, capacity, form, resize>>

HandoverCommit_NoIndex(c) ==
    /\ handover[c].step = "CHECKED"
    /\ contract' = [contract EXCEPT ![c].status = "ACTIVE", ![c].by = "HANDOVER"]
    /\ handover' = [handover EXCEPT ![c] = Idle]
    /\ UNCHANGED <<part, capacity, form, resize>>

\* It activates the contract; uq_room_active_contract may still refuse, when
\* the active contract of the room is past its end date.
HandoverCommit(c) ==
    /\ handover[c].step = "CHECKED"
    /\ ActiveIn(contract[c].room) = {}
    /\ contract' = [contract EXCEPT ![c].status = "ACTIVE", ![c].by = "HANDOVER"]
    /\ handover' = [handover EXCEPT ![c] = Idle]
    /\ UNCHANGED <<part, capacity, form, resize>>

\* A check failed, or the connection did: the transaction rolls back.
HandoverRefused(c) ==
    /\ Locked(c)
    /\ handover' = [handover EXCEPT ![c] = Idle]
    /\ UNCHANGED <<contract, part, capacity, form, resize>>
-----------------------------------------------------------------------------
(* Closing. *)

CloseAs_Unlocked(c, s) ==
    /\ Open(c)
    /\ contract' = [contract EXCEPT ![c].status = s, ![c].by = "CHECKED", ![c].expired = FALSE]
    /\ part' = [part EXCEPT ![c] = Nobody]
    /\ UNCHANGED <<capacity, handover, form, resize>>

\* Every participant who is still there leaves.
CloseAs(c, s) ==
    /\ Open(c)
    /\ ~Locked(c)
    /\ contract' = [contract EXCEPT ![c].status = s, ![c].by = "CHECKED", ![c].expired = FALSE]
    /\ part' = [part EXCEPT ![c] = Nobody]
    /\ UNCHANGED <<capacity, handover, form, resize>>

End(c) == CloseAs(c, "ENDED")
Cancel(c) == CloseAs(c, "CANCELLED")

CancelRental(c) ==
    /\ contract[c].status = "DRAFT"
    /\ CloseAs(c, "CANCELLED")
-----------------------------------------------------------------------------
(* Changes. *)

\* The room and the dates of any contract, also a closed one.
UpdateContract(c, r, expired) ==
    /\ Exists(c)
    /\ ~Locked(c)
    /\ r # contract[c].room => ~RoomLocked(r) /\ (Active(c) => ActiveIn(r) = {})
    /\ Fits(part[c], r)
    /\ Active(c) => Ready(c, r, part[c])
    /\ contract' = [contract EXCEPT ![c].room = r, ![c].expired = expired /\ Open(c)]
    /\ UNCHANGED <<part, capacity, handover, form, resize>>

\* A new primary tenant takes the place of the old one.
WithTenant(p, t, role) ==
    [u \in Tenants |->
        IF u = t THEN role
        ELSE IF role = "PRIMARY" /\ p[u] = "PRIMARY" THEN "MEMBER" ELSE p[u]]

AddTenant(c, t, role) ==
    LET p == WithTenant(part[c], t, role)
    IN  /\ Open(c)
        /\ ~Locked(c) /\ ~TenantLocked(t)
        /\ ~Elsewhere(c, t)
        /\ Fits(p, contract[c].room)
        /\ Cardinality(Leading(p)) = 1
        /\ Active(c) => Ready(c, contract[c].room, p)
        /\ part' = [part EXCEPT ![c] = p]
        /\ UNCHANGED <<contract, capacity, handover, form, resize>>

RemoveTenant_Unchecked(c, t) ==
    /\ Open(c)
    /\ ~Locked(c)
    /\ t \in Staying(part[c])
    /\ part' = [part EXCEPT ![c][t] = "NONE"]
    /\ UNCHANGED <<contract, capacity, handover, form, resize>>

RemoveTenant(c, t) ==
    LET p == [part[c] EXCEPT ![t] = "NONE"]
    IN  /\ Open(c)
        /\ ~Locked(c)
        /\ t \in Staying(part[c])
        /\ Staying(p) # {} => Cardinality(Leading(p)) = 1
        /\ Active(c) => Ready(c, contract[c].room, p)
        /\ part' = [part EXCEPT ![c] = p]
        /\ UNCHANGED <<contract, capacity, handover, form, resize>>
-----------------------------------------------------------------------------
(* The form of a tenant, with a contract in it. *)

\* It locks the tenant and reads the latest of the tenant's active contracts.
FormBegin(t) ==
    LET current == {c \in Contracts : Active(c) /\ t \in Staying(part[c])}
    IN  /\ ~TenantLocked(t)
        /\ MayBegin
        /\ \/ /\ current = {}
              /\ form' = [form EXCEPT ![t] = NewForm]
           \/ \E c \in current :
                 form' = [form EXCEPT ![t] =
                     [step |-> "EDIT", contract |-> c, room |-> contract[c].room]]
        /\ UNCHANGED <<contract, part, capacity, handover, resize>>

\* Any status is accepted; an active contract needs a room without one.
RoomAccepts(r, s, others) ==
    /\ ~RoomLocked(r)
    /\ s = "ACTIVE" => others = {}

\* There was none: a contract of t alone.  The form of a new tenant is the same.
FormCreates(t, c, r) ==
    /\ form[t].step = "NEW"
    /\ ~Exists(c)
    /\ \E s \in ContractStatus :
          /\ RoomAccepts(r, s, ActiveIn(r))
          /\ contract' = [contract EXCEPT ![c] =
                [status |-> s, room |-> r, by |-> "CHECKED", expired |-> FALSE]]
    /\ part' = [part EXCEPT ![c] = Alone(t)]
    /\ form' = [form EXCEPT ![t] = NoForm]
    /\ UNCHANGED <<capacity, handover, resize>>

\* Another room: t leaves the contract that was read, which ends whatever has
\* become of it, with its other participants left where they are.
FormMoves(t, d, r) ==
    LET c == form[t].contract
    IN  /\ form[t].step = "EDIT"
        /\ r # form[t].room
        /\ ~Locked(c) /\ ~Exists(d)
        /\ \E s \in ContractStatus :
              /\ RoomAccepts(r, s, ActiveIn(r))
              /\ contract' = [contract EXCEPT
                    ![c].status = "ENDED", ![c].by = "CHECKED", ![c].expired = FALSE,
                    ![d] = [status |-> s, room |-> r, expired |-> FALSE,
                            by |-> IF s = "ACTIVE" THEN "MOVED" ELSE "CHECKED"]]
        /\ part' = [part EXCEPT ![c][t] = "NONE", ![d] = Alone(t)]
        /\ form' = [form EXCEPT ![t] = NoForm]
        /\ UNCHANGED <<capacity, handover, resize>>

\* The same room: the contract that was read gets that room, any status and
\* the dates of the form, those in the past being DatesPass's next.
FormWrites(t) ==
    LET c == form[t].contract
        r == form[t].room
    IN  /\ form[t].step = "EDIT"
        /\ ~Locked(c)
        /\ \E s \in ContractStatus :
              /\ RoomAccepts(r, s, ActiveIn(r) \ {c})
              /\ contract' = [contract EXCEPT ![c] =
                    [status |-> s, room |-> r, expired |-> FALSE,
                     by |-> IF s # "ACTIVE" THEN "CHECKED"
                            ELSE IF Active(c) THEN contract[c].by ELSE "REOPENED"]]
        /\ form' = [form EXCEPT ![t] = NoForm]
        /\ UNCHANGED <<part, capacity, handover, resize>>

\* A check failed, or the connection did.
FormRefused(t) ==
    /\ TenantLocked(t)
    /\ form' = [form EXCEPT ![t] = NoForm]
    /\ UNCHANGED <<contract, part, capacity, handover, resize>>
-----------------------------------------------------------------------------
(* Rooms and time. *)

\* Mutant: the new capacity is not compared with anything.
ResizeCheck_Unchecked(r, k) ==
    /\ resize[r] = 0
    /\ MayBegin
    /\ resize' = [resize EXCEPT ![r] = k]
    /\ UNCHANGED <<contract, part, capacity, handover, form>>

ResizeCheck(r, k) ==
    /\ resize[r] = 0
    /\ MayBegin
    /\ \A c \in ActiveIn(r) : Cardinality(Staying(part[c])) <= k
    /\ resize' = [resize EXCEPT ![r] = k]
    /\ UNCHANGED <<contract, part, capacity, handover, form>>

ResizeWrite(r) ==
    /\ resize[r] # 0
    /\ ~RoomLocked(r)
    /\ capacity' = [capacity EXCEPT ![r] = resize[r]]
    /\ resize' = [resize EXCEPT ![r] = 0]
    /\ UNCHANGED <<contract, part, handover, form>>

\* The end date of an open contract falls into the past; nothing closes it.
DatesPass(c) ==
    /\ Open(c)
    /\ contract' = [contract EXCEPT ![c].expired = TRUE]
    /\ UNCHANGED <<part, capacity, handover, form, resize>>
-----------------------------------------------------------------------------
Making(c, r) ==
    \/ CreateContract(c, r)
    \/ \E t \in Tenants : Reserve(c, r, t)
    \/ \E expired \in BOOLEAN : UpdateContract(c, r, expired)

HandoverStep(c) ==
    \/ HandoverBegin(c)
    \/ HandoverCheck(c)
    \/ HandoverCommit(c)
    \/ HandoverRefused(c)

Life(c) ==
    \/ Activate(c)
    \/ End(c)
    \/ Cancel(c)
    \/ CancelRental(c)
    \/ DatesPass(c)

Participating(c, t) ==
    \/ \E role \in {"MEMBER", "PRIMARY"} : AddTenant(c, t, role)
    \/ RemoveTenant(c, t)

Form(t) ==
    \/ FormBegin(t)
    \/ \E c \in Contracts, r \in Rooms : FormCreates(t, c, r) \/ FormMoves(t, c, r)
    \/ FormWrites(t)
    \/ FormRefused(t)

Resizing(r) ==
    \/ \E k \in Capacity : ResizeCheck(r, k)
    \/ ResizeWrite(r)

Next ==
    \/ \E c \in Contracts, r \in Rooms : Making(c, r)
    \/ \E c \in Contracts : HandoverStep(c) \/ Life(c)
    \/ \E c \in Contracts, t \in Tenants : Participating(c, t)
    \/ \E t \in Tenants : Form(t)
    \/ \E r \in Rooms : Resizing(r)

Spec == Init /\ [][Next]_vars
-----------------------------------------------------------------------------
(* Properties. *)

(***************************************************************************)
(* Rows have the columns of the schema: a room never has no place at all   *)
(* (ck_room_occupants), and only drafts are being handed over.             *)
(***************************************************************************)
TypeOK ==
    /\ contract \in [Contracts ->
          {[status |-> "NONE", room |-> "NONE", by |-> "CHECKED", expired |-> FALSE]} \cup
          [status : ContractStatus, room : Rooms, by : Activation, expired : BOOLEAN]]
    /\ part \in [Contracts -> [Tenants -> Participation]]
    /\ capacity \in [Rooms -> Capacity]
    /\ handover \in [Contracts -> {Idle} \cup [step : {"LOCKED", "CHECKED"}, capacity : Capacity]]
    /\ form \in [Tenants -> {NoForm, NewForm} \cup
          [step : {"EDIT"}, contract : Contracts, room : Rooms]]
    /\ resize \in [Rooms -> {0} \cup Capacity]
    /\ \A c \in Contracts : Locked(c) => contract[c].status = "DRAFT"

(***************************************************************************)
(* A room has at most one active contract (docs/business-rules.md), with   *)
(* handovers half done, contracts moved and reservations of rooms whose    *)
(* contract is past its end and was never closed.                          *)
(***************************************************************************)
OneActivePerRoom ==
    \A c, d \in Contracts :
        Active(c) /\ Active(d) /\ contract[c].room = contract[d].room => c = d

(***************************************************************************)
(* Somebody lives under every active contract, and exactly one of them is  *)
(* primary, whoever was added, replaced, moved and removed since.  Only a  *)
(* handover, which does not ask for a primary tenant, leaves a contract    *)
(* without one, and only a tenant form that reopened a contract over an    *)
(* operation it had not seen leaves one without anybody.                   *)
(***************************************************************************)
ActiveIsLed ==
    \A c \in Contracts : Active(c) /\ contract[c].by # "REOPENED" =>
        /\ Staying(part[c]) # {}
        /\ \/ Cardinality(Leading(part[c])) = 1
           \/ contract[c].by = "HANDOVER" /\ Leading(part[c]) = {}

(***************************************************************************)
(* An active contract has its room to itself and people in charge of it.   *)
(***************************************************************************)
ActiveContractsStand == OneActivePerRoom /\ ActiveIsLed

TwoHomes(c, d) ==
    /\ c # d
    /\ Active(c) /\ Active(d)
    /\ Staying(part[c]) \cap Staying(part[d]) # {}

Unchecked(c) == contract[c].by # "CHECKED"

(***************************************************************************)
(* Activation, adding a participant and creating an active contract lock   *)
(* the tenants, so a tenant of two active contracts takes a handover,      *)
(* which does not, or a tenant form's move or reopening, which do not look *)
(* for other contracts.                                                    *)
(***************************************************************************)
TwoHomesHaveCause ==
    \A c, d \in Contracts : TwoHomes(c, d) => Unchecked(c) \/ Unchecked(d)

\* A tenant form commits that read c before c was closed, drafted or moved.
StaleForm(c) ==
    \E t \in Tenants :
        /\ form[t].step = "EDIT" /\ form[t].contract = c /\ form'[t] = NoForm
        /\ ~Active(c) \/ contract[c].room # form[t].room

Crowded(c) == Active(c) /\ ~Fits(part[c], contract[c].room)

\* c exceeds the capacity that an update of its room has checked and not written.
Outgrown(c) ==
    \E r \in Rooms :
        /\ Active(c) /\ contract[c].room = r
        /\ resize[r] # 0 /\ Cardinality(Staying(part[c])) > resize[r]

Touched(c) == contract'[c] # contract[c] \/ part'[c] # part[c]

CrowdingCaused(c) ==
    /\ Crowded(c)' => \/ Crowded(c)
                      \/ Outgrown(c)
                      \/ handover[c].capacity > capacity[contract[c].room]
                      \/ StaleForm(c)
    /\ Outgrown(c)' => Outgrown(c) \/ Touched(c)

(***************************************************************************)
(* No operation that sees a contract as it is makes it exceed its room: it *)
(* takes an update of the room's capacity, between whose check and write   *)
(* the contract grew, moved in or became active, or which came between the *)
(* steps of its handover, or a tenant form that overwrites what happened   *)
(* since it read.                                                          *)
(***************************************************************************)
CrowdingHasCause == [][\A c \in Contracts : CrowdingCaused(c)]_vars

ClosedKept(c) ==
    Exists(c) /\ ~Open(c) =>
        \/ contract'[c].status = contract[c].status /\ part'[c] = part[c]
        \/ StaleForm(c)

(***************************************************************************)
(* An ended or cancelled contract keeps its status and its participants    *)
(* (docs/business-rules.md: "historical", "retained"), whatever follows it *)
(* in the room, unless a tenant form read it before it was closed.         *)
(***************************************************************************)
ClosedIsFinal == [][\A c \in Contracts : ClosedKept(c)]_vars

(***************************************************************************)
(* contracts.service.ts and rental-registration.service.ts: "Tenant        *)
(* already has another active contract" is refused.                        *)
(***************************************************************************)
OneHome == \A c, d \in Contracts : ~TwoHomes(c, d)
=============================================================================
