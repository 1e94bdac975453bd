SPECIFICATION FairSpec
CONSTANTS
    Refresh = 2500
    Latency = 2
    AgeCap = 8
    Fetch = {f1, f2}
INVARIANTS
    IInv
    ShownIsRecent
    AgeIsAClock
PROPERTY
    PageCatchesUp
