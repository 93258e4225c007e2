SPECIFICATION Spec
CONSTANTS
    TenantDocs = {i1}
    EvidenceDocs = {e1}
    KeptDocs = {k1}
    Uploads = {u1}
    LegacyFiles = {l1}
    Requests = {r1}
    Workers = {w1, w2}
    NoFile = NoFile
    MaxAttempts = 2
    MaxFaults = 1
SYMMETRY RowSymmetry
INVARIANTS
    TypeOK
    ClaimedByOne
    UndeliverableIsMoving
    FilesHaveCause
CHECK_DEADLOCK FALSE
