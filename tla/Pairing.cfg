SPECIFICATION FairSpec
CONSTANTS
    Tokens = {"t1", "t2"}
    Old = "old"
CHECK_DEADLOCK FALSE
INVARIANTS
    IInv
    SuccessIsOneUser
    OldTokenSurvives
PROPERTY
    PairReturns
