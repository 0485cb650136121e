SPECIFICATION Spec
CONSTANTS
    Setups <- RemoveSystem
    Level = {1, 2}
    MaxBl = 1
INVARIANT LeaveStopsQueuing
CHECK_DEADLOCK FALSE
