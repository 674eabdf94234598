SPECIFICATION Spec
CONSTANTS
    NULL = NULL
    Charges = {c1, c2, c3}
    Credits = {c2}
    Unreadable = {c3}
    INITIAL_HISTORY = 2
    RESYNC_OVERLAP = 2
    Delay = 1
    Run = 1
    MaxTime = 3
INVARIANTS
    ChargesAreCompletedDebits
    LateChargesAreCaught
