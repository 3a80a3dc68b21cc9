SPECIFICATION Spec
CONSTANTS
    NoVote = NoVote
    Keep = Keep
    Reverted = Reverted
    Refused = Refused
    MaxOwned = 4
    MaxPools = 3
    Pools = {"A", "B", "C"}
    Initialized = {"A", "B"}
    BpsTotal = 4
    ShareTotal = 4
    MaxLock = 3
    MaxCalls = 7
    Portfolios <- MCPortfolios
    TargetLists <- MCTargetLists
    Tools = {"preserve", "compact", "vote", "extend", "withdraw", "clear", "merge", "claims", "claim", "split", "stake", "increase", "stake_all"}
    Votes <- MCVotes
    MaxTime = 2
    MaxMoves = 1
    MaxPlans = 1
    MaxRuns = 2
INVARIANTS
    TypeOK
    FreshPlanDelivers
    FeesKept
    StaleVoteStops
    SharesAsRequested
