SPECIFICATION FairLockSpec
CONSTANTS
    c1 = c1
    c2 = c2
    p1 = p1
    p2 = p2
    h1 = h1
    NoClient = NoClient
    Client = {c1, c2}
    Process = {p1, p2}
    Host = {h1}
    ProcOf <- PairProcOf
    HostOf <- PairHostOf
    MaxOwner = 3
    MaxBoot = 2
    StaleElapses = TRUE
INVARIANTS
    ExclusionUnlessGuessed
PROPERTIES
    EvictionsJustified
    GoneOwnerReclaimedUnlessOrphaned
