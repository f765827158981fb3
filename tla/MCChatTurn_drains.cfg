SPECIFICATION FairSpec
CONSTANTS
    m1 = m1
    m2 = m2
    m3 = m3
    m4 = m4
    a = a
    b = b
    CompactText = CompactText
    NoText = NoText
    NoMsg = NoMsg
    NoTask = NoTask
    OtherRun = OtherRun
    Msg = {m1, m2, m3}
    Text = {a, b, CompactText}
    TextOf <- CompactTexts
    Task = {1, 2, 3}
    Envs <- SparseEnv
    MaxFaults = 1
PROPERTIES
    DeliveryKept
CHECK_DEADLOCK FALSE
