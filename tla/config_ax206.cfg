SPECIFICATION Spec
CONSTANTS
    Setups <- Ax206Turned
    Texts = {}
    Levels = {}
    MaxStores = 2
PROPERTY NextFrameTurns
CHECK_DEADLOCK FALSE
