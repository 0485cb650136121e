SPECIFICATION FairSpec
CONSTANTS
    Setups <- Systems
    Level = {1, 2}
    MaxBl = 1
INVARIANT TypeOK
INVARIANT PanelCatchesUp
INVARIANT IdleIsDark
INVARIANT BrightnessKept
INVARIANT FreedMeansQuiet
CHECK_DEADLOCK FALSE
