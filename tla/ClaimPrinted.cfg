SPECIFICATION Spec
CONSTANTS
    Tokens = {"t1", "t2"}
    Old = "old"
CHECK_DEADLOCK FALSE
INVARIANT
    SuccessPrints
