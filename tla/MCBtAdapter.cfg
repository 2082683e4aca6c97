SPECIFICATION PartSpec
CONSTANTS
    Adapters = {1, 2}
    p1 = p1
    p2 = p2
    p3 = p3
    Proxies = {p1, p2, p3}
    MaxEvents = 3
    MaxRequests = 1
    None = None
    maxFrameSize = 14
    MaxInputLength = 4
    FrameSamples = 3
INVARIANTS AdapterUsed PoweredTrue ReceivedTrue ModelsTrue JsonTrue
PROPERTIES FirstStaysSelected
SYMMETRY ProxySymmetry
CHECK_DEADLOCK FALSE
