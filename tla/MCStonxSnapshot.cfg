SPECIFICATION Spec
CONSTANTS
    None = None
    Unavailable = Unavailable
    Calls = {c1, c2}
    MaxExec = 2
    RefreshAfter = 1
    MaxAge = 3
    Reuse = 1
    MaxWait = 1
    StartTime = 2
    MaxTime = 5
SYMMETRY CallSymmetry
INVARIANTS
    TypeOK
    OnlyGoodSnapshots
    AnswerWasUsable
    NeverOlderThanRead
CHECK_DEADLOCK FALSE
