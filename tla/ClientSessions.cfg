SPECIFICATION Spec
CONSTANTS
    Client = {c1, c2}
    u = u
    NoIdentity = NoIdentity
    Peer <- MCPeer
    AllowedUids = {u}
    AllowedSids = {}
    Limit = {1, 2}
    Capacity = 1
    RequirePairRecord = TRUE
    MaxId = 1
    MaxConn = 2
INVARIANTS
    GaugesExact
    SyncedView
    LockdownNeedsRecord
CHECK_DEADLOCK FALSE
PROPERTIES
    PermitReturned
    ScanGoesOn
