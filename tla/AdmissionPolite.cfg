SPECIFICATION PoliteSpec
CONSTANTS
    Slots = {s1, s2}
    Callers = {s1, s2}
    CallerOf <- CallerPerSlot
    Bound = {"sustained", "tools"}
    Limit <- MCLimit
    Period <- MCPeriod
    Tools <- MCTools
    Cost <- MCCost
    Metered = {"quote"}
    NoTool = NoTool
    Garbled = Garbled
    MaxUnits = 3
    MaxBatch = 2
    MaxBody = 8
    Requests <- PoliteRequests
PROPERTIES
    PoliteCallerServed
