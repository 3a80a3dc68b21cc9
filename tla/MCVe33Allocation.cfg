SPECIFICATION Spec
CONSTANTS
    Unallocated = Unallocated
    None = None
    BpsTotal = 7
    MaxAmount = 5
    MaxNfts = 3
    MaxTargets = 3
    MaxExecutable = 3
    Preferred = 1024
    FullRange = 0
    NoPool = NoPool
INVARIANTS
    EveryUnitPlaced
    FewPieces
    SettledStays
    ApportionedFairly
    TargetsExecutable
CHECK_DEADLOCK FALSE
