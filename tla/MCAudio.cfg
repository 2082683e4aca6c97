SPECIFICATION BothSpec
CONSTANTS
    Starters = {"dbus"}
    AudioQueueCapacity = 1
    FifoCapacity = 1
    MaxEvents = 3
    Streams = {s1}
    ModuleIds = {1, 2}
    MaxChanges = 2
    MaxCalls = 2
INVARIANTS WakeNotLost MicrophoneOff ThreadsJoined ProfileTrue NothingLeft
CHECK_DEADLOCK FALSE
