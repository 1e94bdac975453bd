SPECIFICATION Spec
CONSTANTS
    Text <- MCText
    Trimmed <- MCTrimmed
    URL = {"http://p"}
    VarOf <- MCVarOf
    Word <- MCWord
    MinInterval = 1
    Files <- MCFiles
    Envs <- MCEnvs
CHECK_DEADLOCK FALSE
INVARIANTS
    IInv
    AcceptedIsPollable
    NormaliseIsFinal
