SPECIFICATION FairSpec
CONSTANTS
    d1 = d1
    d2 = d2
    c1 = c1
    Devices = {d1, d2}
    Clients = {c1}
    NoDevice = NoDevice
    Unknown = Unknown
    MaxEvents = 2
    MaxMessages = 2
INVARIANTS ViewCurrent
PROPERTIES Answered
CHECK_DEADLOCK FALSE
