SPECIFICATION Spec
CONSTANTS
    NULL = NULL
    Workers = {w1, w2}
    Calls = {c1, c2}
    ConnIds = {i1, i2}
    Logins = {l1, l2}
    Codes = {o1}
    MinSyncInterval = 2
    StaleClaim = 1
    OtpTtl = 0
SYMMETRY Symmetry
VIEW Visible
INVARIANTS
    TypeOK
    OneScraperPerLogin
    InFlightHasAttempt
PROPERTY
    ClaimsAreLeases
