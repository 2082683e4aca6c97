SPECIFICATION Spec
CONSTANTS
    r1 = r1
    r2 = r2
    Restarters = {r1, r2}
    MaxGen = 2
    MaxAttempts = 1
    MaxChanges = 1
SYMMETRY RestarterSymmetry
INVARIANTS RestartCovers StopWins StateTrue DropExplained
CHECK_DEADLOCK FALSE
