SPECIFICATION Spec
CONSTANTS
    Setups <- CardAlone
    MaxBinds = 1
    MaxCalls = 1
INVARIANT UnplugFindsCard
