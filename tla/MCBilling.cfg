SPECIFICATION Spec
CONSTANTS
    Rooms = {ra, rb}
    Months = {1, 2}
    MaxMeter = 1
    Contracts = {c1, c2}
    Invoices = {i1, i2, i3}
    None = None
SYMMETRY RowSymmetry
CONSTRAINT Followed
INVARIANTS
    TypeOK
    NothingBilledTwice
    ReplaceAdviceIsAccepted
PROPERTIES
    BillFollowsReading
    IssuedStays
CHECK_DEADLOCK FALSE
