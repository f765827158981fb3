SPECIFICATION Spec
CONSTANTS
    w1 = w1
    w2 = w2
    r1 = r1
    left = left
    right = right
    NoAgent = NoAgent
    Agent = {w1, w2}
    Chat = {left, right}
    ChatOf <- Apart
    Writer = {w1, w2}
    Limits <- PairLimits
    MaxTurns <- PairTurns
    MaxFaults = 3
INVARIANTS
    WritersExclude
    BudgetRespected
PROPERTIES
    DeliveredWins
    StopHonoured
CHECK_DEADLOCK FALSE
