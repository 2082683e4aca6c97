SPECIFICATION FairSpec
CONSTANTS
    c1 = c1
    c2 = c2
    Callers = {c1, c2}
    Fds = {3, 4}
    OtherFds = {3}
    MaxGen = 2
    MaxPuts = 1
    StartMsgs = 1
INVARIANTS ThreadObjectsFree WriterOwnsDescriptor MessagesKept LostOnlyOnDeath
PROPERTIES TakenForCurrent ImplementsContract CallsReturn DeathAnswered
