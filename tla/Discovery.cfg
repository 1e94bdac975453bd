SPECIFICATION FairSpec
CONSTANTS
    Hardware <- Meters
    Adverts <- MeterAdverts
    Timeout = 1
    Delay = 0
    Prompt = FALSE
    Room = 2
CHECK_DEADLOCK FALSE
INVARIANTS
    IInv
    HeardIsPrinted
    OneEntryPerDevice
PROPERTY
    DiscoverReturns
