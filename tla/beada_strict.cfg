SPECIFICATION Spec
CONSTANTS
    Setups <- Systems
    Level = {1, 2}
INVARIANT HandlerAccepted
CHECK_DEADLOCK FALSE
