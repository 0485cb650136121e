SPECIFICATION FairSpec
CONSTANTS
    Setups <- Systems
    Level = {1, 2}
INVARIANT TypeOK
INVARIANT WireInStep
INVARIANT BrightnessRestored
INVARIANT TornNeverStays
INVARIANT FreedMeansQuiet
PROPERTY SuspendCompletes
CHECK_DEADLOCK FALSE
