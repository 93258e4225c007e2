SPECIFICATION Spec
CONSTANTS
    Rooms = {ra, rb}
    Tenants = {t1, t2}
    Contracts = {c1, c2}
    MaxCapacity = 2
    MaxInFlight = 2
SYMMETRY RowSymmetry
INVARIANTS
    TypeOK
    OccupancyAgrees
    ActiveContractsStand
    TwoHomesHaveCause
PROPERTIES
    CrowdingHasCause
    ClosedIsFinal
CHECK_DEADLOCK FALSE
