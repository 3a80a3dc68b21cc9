CONSTANTS
    c1 = c1
    c2 = c2
    Usdt = Usdt
    Plain = Plain
    Ether = Ether
    Native = Ether
    Guarded = {Usdt}
    Quoted = 1
    Bound = 2
    Unlimited = 3
    NoValue = NoValue
    NoPlan = NoPlan
    Rejected = Rejected
    Pending = Pending
    None = None
    Configured = {"0x", "across", "layerzero", "lifi"}
    Calls = {c1, c2}
    Tokens = {Usdt, Plain}
    Spenders <- MCSpenders
    Intents <- MCIntents
    ActionPlans <- MCActionPlans
    Standing <- MCStanding
    TTL = 0
    MaxTime = 1
SPECIFICATION Spec
INVARIANTS
    TypeOK
    AtomicNeverCollides
    ApprovingPlanIsFunded
    AtomicReturnsAllowance
    MissMeansExpired
PROPERTIES
    StandingAllowanceKept
    FailureSparesOtherSources
CHECK_DEADLOCK FALSE
