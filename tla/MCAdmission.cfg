SPECIFICATION Spec
CONSTANTS
    Slots = {s1, s2}
    Callers = {a}
    CallerOf <- OneCaller
    Bound = {"burst", "metered", "tools"}
    Limit <- MCLimit
    Period <- MCPeriod
    Tools <- MCTools
    Cost <- MCCost
    Metered = {"quote"}
    NoTool = NoTool
    Garbled = Garbled
    MaxUnits = 3
    MaxBatch = 2
    MaxBody = 8
    Requests <- MCRequests
SYMMETRY SlotSymmetry
INVARIANTS
    TypeOK
    AdmittedPaid
    OutageNeverRefuses
PROPERTIES
    OnlyPaidCallsSpendMetered
