SPECIFICATION Spec
CONSTANTS
    m1 = m1
    m2 = m2
    m3 = m3
    m4 = m4
    a = a
    b = b
    CompactText = CompactText
    NoText = NoText
    NoMsg = NoMsg
    NoTask = NoTask
    OtherRun = OtherRun
    Msg = {m1, m2, m3, m4}
    Text = {a, b, CompactText}
    TextOf <- FourTexts
    Task = {1, 2, 3}
    Envs <- FourEnvs
    MaxFaults = 2
INVARIANTS
    NoMessageTwice
    QueueIsFifo
    OneDispatchAtATime
    FileHistoryLockedInRun
PROPERTIES
    NotifiesUserRunsOnly
    DeliveryKeptSafely
CHECK_DEADLOCK FALSE
