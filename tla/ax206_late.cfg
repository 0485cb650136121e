SPECIFICATION Spec
CONSTANTS
    Setups <- RemoveSystem
    Level = {1, 2}
    MaxBl = 1
INVARIANT UsersStopQueuing
CHECK_DEADLOCK FALSE
