SPECIFICATION TreeSpec
CONSTANTS
    f1 = f1
    f2 = f2
    c1 = c1
    c2 = c2
    None = None
    File = {f1, f2}
    New = {f2}
    Call = {c1, c2}
    MaxLaunches = 3
    MaxQueue = 2
    MaxMishaps = 1
INVARIANTS
    NotStranded
PROPERTIES
    ResumesWithItsEdits
    AppliesWhole
SYMMETRY Calls
CHECK_DEADLOCK FALSE
CONSTRAINT Sparse
