SPECIFICATION FairSpec
CONSTANTS
    NULL = NULL
    Workers = {w1, w2}
    Calls = {c1}
    ConnIds = {i1, i2}
    Logins = {l1}
    Codes = {o1}
    MinSyncInterval = 2
    StaleClaim = 1
    OtpTtl = 0
PROPERTIES
    KeepsBeingScraped
    CodeHandedOutOnce
    RejectedLoginNotRetried
    FirstSyncAwardedOnce
