SPECIFICATION Spec
CONSTANTS
    Setups <- BlankingSystem
    Level = {1, 2}
    MaxBl = 1
INVARIANT FrameWakes
CHECK_DEADLOCK FALSE
