SPECIFICATION Spec
CONSTANTS
    StaleAfter = 3
    AgeCap = 9
    Devices <- OneDevice
    Config <- AutoConfig
    ProductOf <- MCProductOf
    APIOf <- MCAPIOf
    TokenFile = {"present"}
    Settled = {}
    Interval = 2
    SystemInterval = 3
    Timeout = 1
    BackoffMin = 1
    BackoffMax = 2
    JitterDivisor = 2
    MayCancel = FALSE
INVARIANTS
    LastSuccessCoversReadings
    UpBoundsMeasurementAge
    PollGapBounded
    PublishedIdentity
    IInv
    HealthAgreement
PROPERTY
    SystemPaced
