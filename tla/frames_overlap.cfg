SPECIFICATION Spec
CONSTANTS
    Setups <- WakeOverlap
    W = 2
    H = 3
    MaxSleeps = 1
INVARIANT PictureShownInOverlap
