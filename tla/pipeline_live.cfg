SPECIFICATION FairSpec
CONSTANTS
    Producer = {p1, p2}
    Xfer = {x1, x2, x3, x4}
    NoXfer = NoXfer
    MaxFrames = 3
    Faults = {}
PROPERTY ImplementsMailbox
PROPERTY AcceptedIsShown
PROPERTY DisconnectCompletes
