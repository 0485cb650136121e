SPECIFICATION FairSpec
CONSTANTS
    Setups <- Systems
    Level = {1, 2}
PROPERTY SuspendAlwaysCompletes
CHECK_DEADLOCK FALSE
