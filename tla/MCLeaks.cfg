SPECIFICATION Spec
CONSTANTS
    NULL = NULL
    Plans = {p1, p2}
    Charges = {t1}
    Insights = {n1, n2}
    Scans = {s1}
    Requests = {r1}
    Posted <- MCPosted
    MaxWriters = 1
SYMMETRY Symmetry
VIEW Visible
INVARIANTS
    TypeOK
    NoInsightAboutPurged
    DraftsNeverBlockPurge
PROPERTY
    NewLeaksAreAnswered
