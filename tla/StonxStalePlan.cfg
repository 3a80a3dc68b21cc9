SPECIFICATION Spec
CONSTANTS
    None = None
    Unavailable = Unavailable
    Calls = {c1}
    MaxExec = 1
    RefreshAfter = 1
    MaxAge = 2
    Reuse = 1
    MaxWait = 1
    StartTime = 3
    MaxTime = 5
SYMMETRY CallSymmetry
INVARIANTS
    NoPlanFromStaleSnapshot
CHECK_DEADLOCK FALSE
