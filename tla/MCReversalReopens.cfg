SPECIFICATION Spec
CONSTANTS
    Invoices = {i1}
    Requests = {r1, r2}
    Proofs = {p1, p2, p3}
    Keys = {k1, k2, k3}
    None = None
    MaxTotal = 3
SYMMETRY RowSymmetry
PROPERTY ReversalReopensRequest
CHECK_DEADLOCK FALSE
