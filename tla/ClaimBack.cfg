SPECIFICATION FairSpec
CONSTANTS
    StaleAfter = 2
    AgeCap = 2
    Devices <- OneDevice
    Config <- AutoConfig
    ProductOf <- P1ProductOf
    APIOf <- P1APIOf
    TokenFile = {"absent", "present"}
    Settled <- ServesOnlyV2
    Interval = 1
    SystemInterval = 2
    Timeout = 1
    BackoffMin = 1
    BackoffMax = 2
    JitterDivisor = 2
    MayCancel = FALSE
PROPERTY
    ComesBackOnItsOwn
