SPECIFICATION Spec
CONSTANTS
    NoVote = NoVote
    Keep = Keep
    Reverted = Reverted
    Refused = Refused
    MaxOwned = 4
    MaxPools = 3
    Pools = {"A", "B", "C"}
    Initialized = {"A", "B"}
    BpsTotal = 4
    ShareTotal = 4
    MaxLock = 3
    MaxCalls = 512
    Portfolios <- MCPortfolios
    TargetLists <- MCTargetLists
    Tools = {"extend"}
    Votes <- MCVotes
    MaxTime = 1
    MaxMoves = 1
    MaxPlans = 1
    MaxRuns = 1
INVARIANTS
    ExtensionKeepsFees
