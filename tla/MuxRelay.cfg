SPECIFICATION Spec
CONSTANTS
    Attempt = {a1, a2}
    Port = {1, 2}
    DPort = {9}
    NoConn = NoConn
    MaxConnBuffer = 3
    WindowUnit = 2
    SynAckWindow = 4
    InitialWindow = 2
    ConnectChannel = 1
    DataChannel = 2
    MaxSend = 2
    MaxTalk = 0
    Faults = {"clientGone", "phoneCloses", "timeout", "detach"}
INVARIANTS
    MuxTypeOK
    OwnPort
    BufferCap
    NoByteLostInRelay
    WindowReopened
PROPERTIES
    ImplementsPipe
SYMMETRY AttemptSymmetry
CHECK_DEADLOCK FALSE
