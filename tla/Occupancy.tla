----------------------------- MODULE Occupancy ------------------------------
(***************************************************************************)
(* What the screens say of who lives where: the occupancy report and the   *)
(* dashboard of the manager (backend/src/modules/reports, dashboard,       *)
(* rooms) and the tenant's own pages (modules/me).  A scope is a set of    *)
(* rooms: a building, or all of a manager's.                               *)
(***************************************************************************)
EXTENDS Tenancy, FiniteSetsExt

ASSUME OccupancyAssumption == IsFiniteSet(Contracts)

LivingIn(r) == UNION {Staying(part[c]) : c \in ActiveIn(r)}

\* The row of active_room, one for each room with an active contract.
ActiveTenants(r) == Cardinality(LivingIn(r))
OccupiedRooms(S) == {r \in S : ActiveIn(r) # {}}

OccupancyReport(S) ==
    [occupied |-> Cardinality(OccupiedRooms(S)),
     vacant   |-> Cardinality(S \ OccupiedRooms(S)),
     tenants  |-> MapThenSumSet(ActiveTenants, OccupiedRooms(S))]

\* The same without the buildings, for the summary.
OccupancySummary(S) == OccupancyReport(S)

\* Mutant: reserved rooms are counted too.
PortfolioStats_Open(S) ==
    LET rented == {contract[c].room : c \in {d \in Contracts : Open(d)}}
    IN  [occupied |-> Cardinality(S \cap rented), vacant |-> Cardinality(S \ rented)]

PortfolioStats(S) ==
    LET rented == {contract[c].room : c \in {d \in Contracts : Active(d)}}
    IN  [occupied |-> Cardinality(S \cap rented), vacant |-> Cardinality(S \ rented)]

BuildingDistribution(S) == PortfolioStats(S).occupied

\* The tenants of a building, each one once.
TenantCount(S) == Cardinality(UNION {LivingIn(r) : r \in S})

\* The latest active contract of a room, with its occupants: none, or one of
\* equally late ones.
RoomSummaries(r) == {[contract |-> c, occupants |-> Cardinality(Staying(part[c]))] : c \in ActiveIn(r)}

\* vw_tenant_current_room.
CurrentRooms(t) == {c \in Contracts : Active(c) /\ t \in Staying(part[c])}

\* The tenant's room is the one joined last, the roommates are those of the
\* contract that started last: of several, any may be either.
MyRoom(t) == CurrentRooms(t)
Roommates(t) == {[contract |-> c, mates |-> Staying(part[c])] : c \in CurrentRooms(t)}
-----------------------------------------------------------------------------
(***************************************************************************)
(* Counting rooms, contracts or people gives the same answer on every      *)
(* screen, in every building and at every moment, and a tenant's room and  *)
(* roommates belong together, as long as nobody has two homes; and that    *)
(* takes a handover or a tenant form.                                      *)
(***************************************************************************)
OccupancyAgrees ==
    /\ \A S \in SUBSET Rooms :
          LET active == {c \in Contracts : Active(c) /\ contract[c].room \in S}
          IN  /\ {OccupancyReport(S).occupied, OccupancySummary(S).occupied,
                  PortfolioStats(S).occupied, BuildingDistribution(S)} = {Cardinality(active)}
              /\ OccupancyReport(S).vacant = PortfolioStats(S).vacant
              /\ OccupancyReport(S).tenants = MapThenSumSet(LAMBDA c : Cardinality(Staying(part[c])), active)
              /\ OccupancyReport(S).tenants = TenantCount(S)
                    \/ \E c, d \in active : TwoHomes(c, d) /\ (Unchecked(c) \/ Unchecked(d))
    /\ \A t \in Tenants : \A room \in MyRoom(t), mates \in Roommates(t) :
          \/ room = mates.contract
          \/ Unchecked(room) \/ Unchecked(mates.contract)
    /\ \A r \in Rooms : \A s \in RoomSummaries(r) : s.occupants = ActiveTenants(r)
=============================================================================
