SPECIFICATION FairSpec
CONSTANTS
    s1 = s1
    s2 = s2
    u1 = u1
    u2 = u2
    u3 = u3
    None = None
    Dead = Dead
    Store = {s1, s2}
    Mutation = {u1, u2, u3}
    MaxFaults = 2
INVARIANTS
    ReadersSeeThePast
PROPERTIES
    NoUpdateLost
    UpdatesAnswered
CHECK_DEADLOCK FALSE
