SPECIFICATION Spec
CONSTANTS
    NULL = NULL
    Gone = Gone
    gym = gym
    shop = shop
    Vendors = {gym, shop}
    Profiles <- MCProfiles
    Plans = {1, 2}
    Charges = {1, 2, 3, 4, 5}
    Statements <- MCStatements
    Payments <- MCPayments
    NewPlans <- MCNewPlans
    Edits <- MCEdits
    Calls = {c1, c2}
    MaxOperations = 3
SYMMETRY MCSymmetry
CHECK_DEADLOCK FALSE
INVARIANTS
    TypeOK
    LinkedAtPrice
    SummaryAddsUp
PROPERTIES
    RecurrencesAreProved
    SteadyPlansAreFound
    LoneImportAddsNoSecondPlan
    CancelledStaysCancelled
