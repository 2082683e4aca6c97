SPECIFICATION Spec
CONSTANTS
    p1 = p1
    Players = {p1}
    StartVolume = 4
    Volumes = {1}
    Settings <- MCSettings
    Steps = 2
    MaxPackets = 3
    MaxUser = 1
    MaxSets = 1
INVARIANTS VolumeRestored PausedRemembered EarsFollowed
PROPERTIES RaisedAtTheEnd
CHECK_DEADLOCK FALSE
