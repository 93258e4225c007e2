SPECIFICATION Spec
CONSTANTS
    Sessions = {s1, s2}
    Tokens = {t1, t2, t3}
    Requests = {r1, r2}
    Passwords = {p1, p2}
    NoSession = NoSession
    NoPassword = NoPassword
    Account = Account
    MaxVersion = 2
SYMMETRY Symmetry
INVARIANTS
    TypeOK
    TokensFollowSession
    SessionsProvePassword
    DeadlockTakesRefresh
PROPERTY UsableFromTheStart
CHECK_DEADLOCK FALSE
