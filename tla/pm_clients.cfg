SPECIFICATION FairSpec
CONSTANTS
    Setups <- SomeClients
    MaxCount = 3
INVARIANT TypeOK
INVARIANT RefKeepsActive
INVARIANT BacklightFollows
INVARIANT FbdevNeverArms
PROPERTY DisabledGoesDark
PROPERTY TouchLeadsToWake
CHECK_DEADLOCK FALSE
