SPECIFICATION Spec
CONSTANTS
    Reverted = Reverted
    Refused = Refused
    None = None
    MaxPlans = 3
    MaxRuns = 1
    MaxMoves = 2
    PlansOf <- MCPlansOf
    MovesOf <- MCMovesOf
    LedgersOf <- MCLedgersOf
    EndOf <- MCEndOf
    Starts <- MCStarts
    DepositRequests <- MCDepositRequests
    SlippageUnit = 4
    MaxTick = 4
    MaxWithdrawals = 2
    Prices = {1, 2, 3, 5, 6, 8}
    Wanted = Wanted
    Other = Other
    MaxRows = 5
    PageSize = 2
    MaxPages = 2
    PoolIds = {1, 2, 3, 4, 5}
    Drifted = {4}
    MaxChanges = 3
    Week = 3
    Window = 1
    MaxLock = 7
    MaxVotePools = 1
    MaxSources = 1
    MaxTokens = 1
    Clocks = {3, 16, 32}
    OrderRequests <- MCOrderRequests
    Auctions <- MCAuctions
    GridBits = 2
    MaxAhead = 256
    Deadline = 3
    MaxOrders = 2
    Trees <- MCTrees
    Claims <- MCClaims
    Funds <- MCFunds
    MaxClaims = 3
    MaxRewards = 2
    BundleSize = 4
    Amounts = {0, 1, 2}
    MaxUint = 99
    MaxRequests = 2
    RequestBounds = {1, 2}
    Intents <- MCIntents
    FeeBalances <- MCFeeBalances
    Rates = {1, 2, 3}
    Slack = 3
    BpsUnit = 3
    PpmUnit = 8
    MaxDeadline = 3
INVARIANTS
    AtRest
    DepositDelivers
    PayoutDelivers
    ReadSeesWhatIsPaid
    MissNeedsRemoval
    ListingComplete
    AerodromeDelivers
    OrderSellsOnce
    Settles
    RewardsDeliver
    SavingsDeliver
    SwapDelivers
CHECK_DEADLOCK FALSE
