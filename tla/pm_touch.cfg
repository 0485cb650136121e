SPECIFICATION Spec
CONSTANTS
    Setups <- TouchOnly
    MaxCount = 3
INVARIANT TouchedIsLit
CHECK_DEADLOCK FALSE
