SPECIFICATION Spec
CONSTANTS
    Setups <- StoreOverlap
    W = 2
    H = 3
    MaxSleeps = 1
INVARIANT NoRacedCopy
