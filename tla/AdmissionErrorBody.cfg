SPECIFICATION Spec
CONSTANTS
    Slots = {s1}
    Callers = {a}
    CallerOf <- OneCaller
    Bound = {"burst", "sustained", "metered", "tools"}
    Limit <- MCLimit
    Period <- MCPeriod
    Tools <- MCTools
    Cost <- MCCost
    Metered = {"quote"}
    NoTool = NoTool
    Garbled = Garbled
    MaxUnits = 3
    MaxBatch = 2
    MaxBody = 8
    Requests <- MCRequests
INVARIANTS
    IdentifiedCallGetsError
