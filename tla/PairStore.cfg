SPECIFICATION Spec
CONSTANTS
    Client = {c1, c2}
    x = x
    y = y
    Record <- MCRecord
    Absent = Absent
    MaxOps = 4
    MaxCrash = 1
INVARIANTS
    SavedIsWhole
    QuietAnswersExact
    DeleteRemoves
PROPERTIES
    BuidSettles
SYMMETRY MCSymmetry
CHECK_DEADLOCK FALSE
