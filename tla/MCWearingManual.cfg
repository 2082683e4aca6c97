SPECIFICATION Spec
CONSTANTS
    p1 = p1
    Players = {p1}
    StartVolume = 4
    Volumes = {1}
    Settings <- MCSettings
    Steps = 2
    MaxPackets = 2
    MaxUser = 2
    MaxSets = 0
PROPERTIES ResumesOwnPause
CHECK_DEADLOCK FALSE
