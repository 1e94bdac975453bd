SPECIFICATION FairSpec
CONSTANTS
    StaleAfter = 4
    AgeCap = 4
    Devices <- OneDevice
    Config <- AutoConfig
    ProductOf <- P1ProductOf
    APIOf <- P1APIOf
    TokenFile = {"absent", "present"}
    Settled <- ServesBoth
    Interval = 1
    SystemInterval = 2
    Timeout = 1
    BackoffMin = 1
    BackoffMax = 2
    JitterDivisor = 3
    MayCancel = TRUE
CHECK_DEADLOCK FALSE
PROPERTIES
    KeepsPolling
    ShutdownCompletes
    StaysFreshWhenServed
    ImplementsExporter
