SPECIFICATION Spec
CONSTANTS
    NULL = NULL
    stream = stream
    streamLtd = streamLtd
    gym = gym
    cardCharge = cardCharge
    bankOrder = bankOrder
    Names <- MCNames
    Key <- MCKey
    Similar <- MCSimilar
    Descriptions <- MCDescriptions
    Answers <- MCAnswers
    Curated <- MCCurated
    Promotions <- MCPromotions
    StandingOrders <- MCStandingOrders
    Kinds = {"ONE_OFF", "SUBSCRIPTION", "ESSENTIAL_BILL"}
    Services <- MCServices
    Cycles = {"MONTHLY"}
    Imports = {i1, i2}
INVARIANTS
    TypeOK
    ClassifiedGetsVendor
PROPERTIES
    OneVendorPerMerchant
    ResolvedFieldsKept
