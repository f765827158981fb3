CONSTANTS
    c1 = c1
    c2 = c2
    Client = {c1, c2}
    MaxBuffer = 4
    MaxEarly = 1
    MaxAttempts = 2
    MaxEvents = 2
    MaxFaults = 1
    MaxWire = 6
SPECIFICATION Spec
INVARIANTS PagesAreWelcomed GapsHeal
PROPERTIES HeardInOrder
CONSTRAINT PagesInOrder
CHECK_DEADLOCK FALSE
