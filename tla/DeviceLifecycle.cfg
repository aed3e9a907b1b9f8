SPECIFICATION FairSpec
CONSTANTS
    DetachAfterMisses = 2
    MaxPlug = 2
    MaxInc = 3
    MaxFail = 1
    MaxErr = 1
INVARIANTS
    ManagedIsAlive
    TablesMatchScanner
PROPERTIES
    HandlesReleased
