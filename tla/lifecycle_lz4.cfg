SPECIFICATION Spec
CONSTANTS
    Setups <- StoredLz4
    MaxBinds = 1
    MaxCalls = 1
INVARIANT Lz4OutlivesFrames
