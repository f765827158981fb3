SPECIFICATION Spec
CONSTANTS
    m0 = m0
    m1 = m1
    f1 = f1
    f2 = f2
    r1 = r1
    r2 = r2
    None = None
    Other = Other
    Lost = Lost
    Manager = {m0, m1}
    First = m0
    File = {f1, f2}
    Past = {f1}
    Run = {r1, r2}
    MaxFaults = 1
INVARIANTS
    OpenUnderLock
    ClosedHoldsNothing
    NoticesComeHome
PROPERTIES
    DeletesClosedChats
CHECK_DEADLOCK FALSE
CONSTRAINT Sparse
