SPECIFICATION Spec
CONSTANTS
    Hardware <- Meters
    Adverts <- MeterAdverts
    Timeout = 2
    Delay = 1
    Prompt = TRUE
    Room = 1
CHECK_DEADLOCK FALSE
INVARIANT
    PromptDevicesAreFound
