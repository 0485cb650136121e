SPECIFICATION Spec
CONSTANTS
    Slot = {s0, s1}
    Unused = Unused
    Setups <- Overlapping
SYMMETRY Symmetry
INVARIANT RunsWithOverlap
CHECK_DEADLOCK FALSE
