SPECIFICATION Spec
CONSTANTS
    NULL = NULL
    Workers = {w1}
    Calls = {c1, c2}
    ConnIds = {i1}
    Logins = {l1}
    Codes = {o1}
    MinSyncInterval = 2
    StaleClaim = 1
    OtpTtl = 0
PROPERTIES
    RejectedLoginNotRetried
