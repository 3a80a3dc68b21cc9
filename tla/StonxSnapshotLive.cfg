SPECIFICATION FairSpec
CONSTANTS
    None = None
    Unavailable = Unavailable
    Calls = {c1, c2}
    MaxExec = 1
    RefreshAfter = 1
    MaxAge = 2
    Reuse = 1
    MaxWait = 1
    StartTime = 3
    MaxTime = 5
PROPERTIES
    KeepsServicePromise
    EveryCallAnswers
CHECK_DEADLOCK FALSE
