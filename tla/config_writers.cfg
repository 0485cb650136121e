SPECIFICATION Spec
CONSTANTS
    Setups <- BeadaWriters
    Texts = {}
    Levels = {}
    MaxStores = 2
INVARIANT EdidFollows
CHECK_DEADLOCK FALSE
