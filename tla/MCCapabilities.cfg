SPECIFICATION Spec
CONSTANTS
    None = None
    Tested <- AllCapabilities
INVARIANT
    ShownTrue
CHECK_DEADLOCK FALSE
