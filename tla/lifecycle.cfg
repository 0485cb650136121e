SPECIFICATION Spec
CONSTANTS
    Setups <- Drivers
    MaxBinds = 2
    MaxCalls = 2
INVARIANT TypeOK
INVARIANT NoUseAfterRelease
INVARIANT NothingLeaks
