SPECIFICATION Spec
CONSTANTS
    Setups <- MproTurned
    Texts = {}
    Levels = {}
    MaxStores = 2
INVARIANT EdidFollows
CHECK_DEADLOCK FALSE
