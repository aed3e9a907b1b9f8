SPECIFICATION Spec
CONSTANTS
    Daemon = {d1, d2}
    Path = {p1, p2}
    DefaultPath = p1
    None = None
    MaxStart = 3
    MaxCrash = 1
INVARIANTS
    RunsAsAsked
    NothingLeft
    StaleNeverBlocks
CHECK_DEADLOCK FALSE
