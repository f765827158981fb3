SPECIFICATION Spec
CONSTANTS
    f1 = f1
    f2 = f2
    Path = {f1, f2}
    Env = {"promptFails", "steering", "compaction", "toolFails", "ioFails", "otherSession"}
    PageTurns = 1
    MaxResumed = 1
    MaxTurn = 2
    MaxFaults = 1
    MaxWrites = 2
INVARIANTS
    RollbackIsWhole
    ChangesHaveBaselines
PROPERTIES
    RestoreReachesCheckpointWhenAligned
    RedoUndoesRestore
SYMMETRY Files
CHECK_DEADLOCK FALSE
