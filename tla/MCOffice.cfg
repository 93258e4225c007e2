SPECIFICATION Spec
CONSTANTS
    Links = {t1, t2, t3}
    Emails = {ea, eb}
    Passwords = {pa, pb}
    Changes = {h1}
    Identifiers = {ia, ib}
    Ips = {p1, p2}
    Gateways = {p1}
    Logins = {n1, n2}
    Resets = {r1, r2, r3}
    Fees = {c1}
    Calls = {a1, a2}
    SignIns = {n1, n2, n3}
    Secrets = {s1, s2}
    Sums = {x1, x2}
    Workers = {w1, w2}
    Drafts = {d1, d2}
    Invoices = {i1, i2}
    Contracts = {k1, k2}
    Buildings = {b1, b2}
    Files = {f1, f2}
    Readings = {u1, u2}
    Rates = {v1}
    Months = {y1, y2}
    Bills = {z1, z2}
    Tenants = {g1, g2}
    New = g3
    Requests = {q1, q2}
    None = None
    MaxPerIdentifier = 1
    MaxPerIp = 2
    MaxFailures = 3
    MaxResets = 1
    MaxResetsPerIp = 2
    Dates = {1, 2, 3}
    BilledMonth = 2
    Prices = {1, 2}
    MaxCount = 1
    MaxEdits = 2
    MaxSessions = 2
    MaxRotations = 2
    MaxFaults = 1
    MaxVersion = 3
    MaxMigration = 2
    Intervals = {1, 2}
    MaxTime = 1
    MaxLosses = 1
    CsvFiles <- TwoFiles
    Spellings = {"a", "A", "b"}
    Folded <- LowerCase
    MaxCalls = 2
    MaxRequests = 3
    MaxCopies = 2
    MaxProofs = 2
    MaxChanges = 2
    Filters = {1, 2}
    ProofFilters <- AllOrOne
    Sheets = {"ROOMS", "TENANTS"}
    Rooms = {1, 2}
    RoomOf <- ARoomEach
    BuildingOf <- OneBuilding
SYMMETRY Symmetry
INVARIANTS
    TypeOK
    InvitationsAreCurrent
    FailuresBounded
    ResetsWithinLimit
    InvoicesWhatWasInForce
    SessionsAreSound
    OnceOnly
    ScreensAreOwnUntilCrossed
CHECK_DEADLOCK FALSE
