SPECIFICATION Spec
CONSTANTS
    Rooms = {ra, rb}
    Tenants = {t1, t2}
    Contracts = {c1, c2}
    MaxCapacity = 2
    MaxInFlight = 2
SYMMETRY RowSymmetry
INVARIANT OneHome
CHECK_DEADLOCK FALSE
