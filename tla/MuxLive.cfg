SPECIFICATION FairSpec
CONSTANTS
    Attempt = {a1, a2}
    Port = {1}
    DPort = {9}
    NoConn = NoConn
    MaxConnBuffer = 1
    WindowUnit = 1
    SynAckWindow = 2
    InitialWindow = 1
    ConnectChannel = 1
    DataChannel = 1
    MaxSend = 1
    MaxTalk = 1
    Faults = {"usbGone", "detach", "sendFail", "timeout"}
PROPERTIES
    ConnectAnswered
    DisconnectEndsProxies
CHECK_DEADLOCK FALSE
