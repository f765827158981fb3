SPECIFICATION Spec
CONSTANTS
    a1 = a1
    a2 = a2
    None = None
    Agent = {a1, a2}
    c1 = c1
    c2 = c2
    Caller = {c1, c2}
    MaxRetained = 1
    MaxLaunches = 2
    MaxQueue = 2
    MaxFaults = 1
SYMMETRY Symmetry
INVARIANTS
    LiveRunsAreShown
    DiskCatchesUp
    DisposedIsFinal
PROPERTIES
    ReopensAsLeft
CHECK_DEADLOCK FALSE
