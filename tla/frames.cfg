SPECIFICATION FairSpec
CONSTANTS
    Setups <- Systems
    W = 2
    H = 3
    MaxSleeps = 1
INVARIANT TypeOK
INVARIANT PanelShowsFramebuffer
INVARIANT CopyInBounds
PROPERTY FlipsComplete
