SPECIFICATION Spec
CONSTANTS
    Setups <- Systems
    Level = {1, 2}
INVARIANT WindowClean
CHECK_DEADLOCK FALSE
