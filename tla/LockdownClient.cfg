SPECIFICATION Spec
CONSTANTS
    Keys <- MCKeys
    Needed = {name, ios}
    name = name
    model = model
    ios = ios
    None = None
INVARIANTS
    ValuesInStep
    NoQueryInClear
PROPERTIES
    OnlyGapsFilled
    QueriesEnd
CHECK_DEADLOCK FALSE
