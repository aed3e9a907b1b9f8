SPECIFICATION Spec
CONSTANTS
    Port = {p1, p2}
    Udid = {u1, u2}
    Absent = Absent
    Unreadable = Unreadable
    NoDevice = NoDevice
    DetachAfterMisses = 2
    MaxId = 4
INVARIANTS
    OneDevicePerPort
    ListenerView
PROPERTIES
    IdsNeverReused
    ImplementsDebounce
