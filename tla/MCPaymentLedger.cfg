SPECIFICATION Spec
CONSTANTS
    Invoices = {i1, i2}
    Requests = {r1, r2}
    Proofs = {p1, p2, p3}
    Keys = {k1, k2, k3}
    None = None
    MaxTotal = 2
SYMMETRY RowSymmetry
INVARIANTS
    TypeOK
    NetPaidWithinTotal
    StatusMatchesLedger
    RequestsAndProofsAgree
    PendingProofCanBeApproved
    BooksAgree
PROPERTIES
    HistoryIsFinal
    ImplementsAccount
CHECK_DEADLOCK FALSE
