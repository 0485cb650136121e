SPECIFICATION Spec
CONSTANTS
    Setups <- Stale
    W = 2
    H = 3
    MaxSleeps = 1
INVARIANT NoStaleCopy
