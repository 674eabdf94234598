SPECIFICATION Spec
CONSTANTS
    NULL = NULL
    bank = bank
    card = card
    gym = gym
    subscription = subscription
    coffee = coffee
    repeat = repeat
    Connections <- MCConnections
    Charges <- MCCharges
    Vendors <- MCVendors
    Source <- MCSource
    ExternalId <- MCExternalId
    DedupeKey <- MCDedupeKey
    VendorOf <- MCVendorOf
    Imports = {i1, i2}
    Plans = {p1, p2}
    MinCharges = 2
    MaxBusy = 2
    MaxStops = 1
SYMMETRY Symmetry
INVARIANTS
    TypeOK
    CompletedCountsCharges
PROPERTIES
    EndedImportsAreFrozen
