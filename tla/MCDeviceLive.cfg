SPECIFICATION FairSpec
CONSTANTS
    r1 = r1
    Restarters = {r1}
    MaxGen = 1
    MaxAttempts = 1
    MaxChanges = 1
PROPERTIES DbusReturns ClientComesUp
CHECK_DEADLOCK FALSE
