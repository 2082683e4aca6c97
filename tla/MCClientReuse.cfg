SPECIFICATION Spec
CONSTANTS
    c1 = c1
    Callers = {c1}
    Fds = {3}
    OtherFds = {3}
    MaxGen = 1
    MaxPuts = 1
    StartMsgs = 1
INVARIANTS ReaderOwnsDescriptor
