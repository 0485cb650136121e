SPECIFICATION Spec
CONSTANTS
    Setups <- Systems
    Level = {1, 2}
INVARIANT ResetClean
CHECK_DEADLOCK FALSE
