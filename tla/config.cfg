SPECIFICATION FairSpec
CONSTANTS
    Setups <- Everything
    Texts <- SomeTexts
    Levels <- SomeLevels
    MaxStores = 2
INVARIANT TypeOK
INVARIANT EdidInStep
INVARIANT CurveOrdered
PROPERTY ModeSettles
PROPERTY BlitShows
CHECK_DEADLOCK FALSE
