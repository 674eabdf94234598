SPECIFICATION Spec
CONSTANTS
    NULL = NULL
    u1 = u1
    u2 = u2
    insight = insight
    Users = {u1, u2}
    Emails = {e1}
    Insights = {insight}
    Owner <- MCOwner
    Requests = {r1, r2}
    PoolSizes = {2, 3}
    ActionEdits <- MCActionEdits
    LevelEdits <- MCLevelEdits
    MaxEvents = 2
SYMMETRY MCSymmetry
INVARIANTS
    TypeOK
    TotalIsSumOfLog
    OneAccountPerEmail
    NobodyIsStuck
PROPERTIES
    LevelUpReported
    ActionAwardedOnce
    RemovedAccountsEarnNothing
    AwardsAreAtomic
