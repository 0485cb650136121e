SPECIFICATION Spec
CONSTANTS
    Producer = {p1, p2}
    Xfer = {x1, x2, x3, x4}
    NoXfer = NoXfer
    MaxFrames = 4
    Faults = {"submit", "link"}
SYMMETRY Symmetry
INVARIANT TypeOK
INVARIANT NoDanglingXfer
INVARIANT SingleTransferInFlight
INVARIANT ShutdownDrains
