SPECIFICATION Spec
CONSTANTS
    TenantDocs = {i1}
    EvidenceDocs = {}
    KeptDocs = {k1}
    Uploads = {u1}
    LegacyFiles = {l1}
    Requests = {r1}
    Workers = {w1}
    NoFile = NoFile
    MaxAttempts = 2
    MaxFaults = 0
SYMMETRY RowSymmetry
INVARIANT CompletedDeletionDeletes
CHECK_DEADLOCK FALSE
