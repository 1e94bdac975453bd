SPECIFICATION FairProcessSpec
CONSTANTS
    StaleAfter = 2
    AgeCap = 2
    Devices <- OneDevice
    Config <- AutoConfig
    ProductOf <- P1ProductOf
    APIOf <- P1APIOf
    TokenFile = {"present", "unreadable"}
    Settled = {}
    Interval = 1
    SystemInterval = 1
    Timeout = 1
    BackoffMin = 1
    BackoffMax = 1
    JitterDivisor = 2
    MayCancel = TRUE
    Requests = {scrape}
    MayFail = TRUE
CHECK_DEADLOCK FALSE
INVARIANTS
    ProcessInv
    CleanExit
    LoopsWithinProcess
PROPERTIES
    ImplementsDaemon
    ExitsAfterSignal
