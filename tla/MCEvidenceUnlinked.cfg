SPECIFICATION Spec
CONSTANTS
    NULL = NULL
    Gone = Gone
    gym = gym
    shop = shop
    Vendors = {gym, shop}
    Profiles <- MCProfiles
    Plans = {1}
    Charges = {1, 2}
    Statements <- MCDriftingPrice
    Payments <- MCPayments
    NewPlans <- MCNewPlans
    Edits <- MCEdits
    Calls = {c1, c2}
    MaxOperations = 2
SYMMETRY MCSymmetry
CHECK_DEADLOCK FALSE
PROPERTY EvidenceIsLinked
