SPECIFICATION Spec
CONSTANTS
    Slot = {s0, s1}
    Unused = Unused
    Setups <- Environments
SYMMETRY Symmetry
INVARIANT TypeOK
INVARIANT NoTimerAfterFree
INVARIANT DownHasWatchdog
INVARIANT RunsIffWanted
CHECK_DEADLOCK FALSE
