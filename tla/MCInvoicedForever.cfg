SPECIFICATION Spec
CONSTANTS
    Rooms = {ra}
    Months = {1}
    MaxMeter = 1
    Contracts = {c1, c2}
    Invoices = {i1}
    None = None
SYMMETRY RowSymmetry
PROPERTIES
    InvoicedForever
CHECK_DEADLOCK FALSE
