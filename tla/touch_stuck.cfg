SPECIFICATION Spec
CONSTANTS
    Slot = {s0, s1}
    Unused = Unused
    Setups <- Alone
SYMMETRY Symmetry
INVARIANT FingersReleased
CHECK_DEADLOCK FALSE
