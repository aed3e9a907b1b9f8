SPECIFICATION FairSupervisorSpec
CONSTANTS
    Service = {iproxy8100, iproxy9100}
    StartCalls = 1
    MayBeMissing = TRUE
    MaxExit = 3
INVARIANTS
    ProcessesTracked
    OneSurvivor
PROPERTIES
    Restarted
CHECK_DEADLOCK FALSE
