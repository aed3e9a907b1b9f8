SPECIFICATION Spec
CONSTANTS
    Attempt = {a1}
    Port = {1}
    DPort = {9}
    NoConn = NoConn
    MaxConnBuffer = 2
    WindowUnit = 1
    SynAckWindow = 3
    InitialWindow = 1
    ConnectChannel = 1
    DataChannel = 3
    MaxSend = 4
    MaxTalk = 0
    Faults = {}
INVARIANTS
    AckedMeansBuffered
CHECK_DEADLOCK FALSE
