SPECIFICATION Spec
CONSTANTS
    t1 = t1
    t2 = t2
    p1 = p1
    p2 = p2
    r1 = r1
    r2 = r2
    r3 = r3
    None = None
    Tab = {t1, t2}
    Path = {p1, p2}
    Recorder = {r1, r2, r3}
    MaxEntries = 2
    MaxWipes = 1
    MaxFaults = 1
INVARIANTS
    WipedStaysWiped
    NumbersRise
    OpenIsRecorded
SYMMETRY Alike
CONSTRAINT Sparse
CHECK_DEADLOCK FALSE
