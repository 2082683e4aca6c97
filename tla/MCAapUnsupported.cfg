SPECIFICATION Spec
CONSTANTS
    None = None
    Tested <- OldAnc
INVARIANT UnsupportedIgnored
CHECK_DEADLOCK FALSE
