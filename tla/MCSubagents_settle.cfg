SPECIFICATION LiveSpec
CONSTANTS
    w1 = w1
    w2 = w2
    r1 = r1
    left = left
    right = right
    NoAgent = NoAgent
    Agent = {w1, w2, r1}
    Chat = {left, right}
    ChatOf <- TwoChats
    Writer = {w1, w2}
    Limits <- SoleLimits
    MaxTurns <- TrioTurns
    MaxFaults = 1
PROPERTIES
    RunsSettle
    ClosingEnds
CHECK_DEADLOCK FALSE
