------------------------------ MODULE Liquidity ------------------------------
(***************************************************************************)
(* Pool initialization, deposits, withdrawals and earnings claims of       *)
(* liquidity positions (src/src/liquidity.ts), and the read of a           *)
(* position's pending state (src/src/position-state.ts).                   *)
(*                                                                         *)
(* One pool and the positions in it are kept.  Sqrt ratios are small       *)
(* integers and a tick is a power of two of them; the Positions managers,  *)
(* the pool and its extension are external, as the calls the plans make    *)
(* need them.  Approvals are in ExecutionPlan.                             *)
(***************************************************************************)
EXTENDS WalletSession

CONSTANTS
    Starts,         \* ledgers a behaviour may begin with: [pool, price, nfts], a pool
                    \* being [core, native, type, spacing, extension]
    DepositRequests,
    SlippageUnit,   \* 10_000
    MaxTick,        \* EVM_MAX_TICK; EVM_MIN_TICK is 0 here
    MaxWithdrawals, \* 100
    Prices          \* the sqrt ratios that trades may move the pool to

Sender == "sender"
Managers == {"v2", "v3", "ve33"}

SqrtRatio(tick) == 2 ^ tick

\* integerSqrt
ISqrt(n) == CHOOSE r \in 0..n : r * r <= n /\ n < (r + 1) * (r + 1)

Smaller(a, b) == IF a < b THEN a ELSE b

\* maxLiquidityForTokenAmounts: what both amounts suffice for at this price.
MaxLiquidity(price, lower, upper, amount0, amount1) ==
    LET of0(p) == (amount0 * p * upper) \div (upper - p)
        of1(p) == amount1 \div (p - lower)
    IN  IF price <= lower THEN of0(lower)
        ELSE IF price >= upper THEN of1(upper)
        ELSE Smaller(of0(price), of1(price))

------------------------------------------------------------------------------
(***************************************************************************)
(* Plans                                                                   *)
(***************************************************************************)
InitializeCall(tick) == [op |-> "maybeInitializePool", tick |-> tick]

ValidTick(tick) == tick \in 0..MaxTick

\* validateBounds
ValidBounds(lower, upper) == ValidTick(lower) /\ ValidTick(upper) /\ lower < upper

PlanInitialization(tick, pool) ==
    IF pool.core # "v3" \/ ~ValidTick(tick) THEN Refused
    ELSE PlanOf("initialize", <<InitializeCall(tick)>>, None)

\* The pool is found by pool_id in the index, or derived from an exact key where the
\* caller declares it uninitialized; an "other" key derives to a different pool.
PoolResolves(req) ==
    /\ req.poolKey # "other"
    /\ req.poolKey = "absent" => req.byId
    /\ req.declared = "no" => req.poolKey = "exact"

Initialized(req, price) ==
    req.declared = "yes" \/ (req.declared = "unstated" /\ price # None)

\* What prepareLpPositionDeposit checks before it computes anything.
DepositAllowed(req, pool, price) ==
    /\ pool.core = "v3"
    /\ ValidBounds(req.lower, req.upper)
    /\ req.max0 + req.max1 > 0
    /\ (req.mode = "mint_new") = (req.tokenId = None)
    /\ PoolResolves(req)
    /\ Initialized(req, price) => price # None
    /\ ~Initialized(req, price) => req.mode = "mint_new" /\ ValidTick(req.tick)
    /\ pool.type = "concentrated" =>
          req.lower % pool.spacing = 0 /\ req.upper % pool.spacing = 0

\* positionsAddressForExtension: the manager is the pool's, whoever the NFT belongs to.
PositionsManager(pool) == IF pool.extension = "ve33" THEN "ve33" ELSE "v3"

DepositKey(req, pool) ==
    IF req.tokenId = None THEN None ELSE <<PositionsManager(pool), req.tokenId>>

LiquidityAt(req, price) ==
    MaxLiquidity(price, SqrtRatio(req.lower), SqrtRatio(req.upper), req.max0, req.max1)

\* Mutant: the floor is the liquidity at the indexed price.
NoSlippage(req, price) == LiquidityAt(req, price)

\* minLiquidity: the lesser liquidity of the two ends of the slippage interval.
MinLiquidity(req, price) ==
    LET factor == SlippageUnit + req.slippage
    IN  Smaller(LiquidityAt(req, ISqrt((price * price * SlippageUnit) \div factor)),
                LiquidityAt(req, ISqrt((price * price * factor) \div SlippageUnit)))

\* The native value that travels with the deposit.
NativeValue(req, pool) ==
    IF pool.native = "token0" THEN req.max0
    ELSE IF pool.native = "token1" THEN req.max1
    ELSE 0

\* Mint and deposit, or deposit; initialized first and refunded last if need be.
DepositCalls(req, pool, initialized, min) ==
    (IF initialized THEN <<>> ELSE <<InitializeCall(req.tick)>>)
        \o <<[op |-> "deposit", key |-> DepositKey(req, pool), lower |-> req.lower, upper |-> req.upper,
              max0 |-> req.max0, max1 |-> req.max1, min |-> min,
              value |-> NativeValue(req, pool)]>>
        \o (IF NativeValue(req, pool) = 0 THEN <<>> ELSE <<[op |-> "refundNativeToken"]>>)

\* prepareLpPositionDeposit; the index's price may be three minutes old.
PlanDeposit(req, pool, price) ==
    LET initialized == Initialized(req, price)
        expected == IF initialized THEN price ELSE SqrtRatio(req.tick)
    IN  IF ~DepositAllowed(req, pool, price) THEN Refused
        ELSE IF LiquidityAt(req, expected) = 0 \/ MinLiquidity(req, expected) = 0 THEN Refused
        ELSE PlanOf("deposit",
                    DepositCalls(req, pool, initialized, MinLiquidity(req, expected)),
                    [expected |-> expected, slippage |-> req.slippage, key |-> DepositKey(req, pool),
                     initializes |-> ~initialized])

------------------------------------------------------------------------------
(***************************************************************************)
(* The pending state of a position                                         *)
(***************************************************************************)

\* Mutant: the older TWAMM is forgotten.
RefreshCurrent(manager, extension) ==
    IF extension \in {"ve33", "twamm_v2", "twamm_v3"} THEN <<"refresh">> ELSE <<>>

\* refreshCall: the extensions whose earnings wait for an accumulation.
RefreshCall(manager, extension) ==
    LET needs == CASE manager = "ve33" -> {"ve33"}
                   [] manager = "v2" -> {"twamm_v2"}
                   [] manager = "v3" -> {"twamm_v3", "twamm_legacy"}
                   [] OTHER -> {}
    IN  IF extension \in needs THEN <<"refresh">> ELSE <<>>

\* positionManagerVersion, and a ve33 position under another extension is an error.
Readable(key, extension) ==
    key[1] \in Managers /\ (key[1] = "ve33" => extension = "ve33")

\* positionStateCalls: one ordered aggregate that is only ever simulated.
PositionStateCalls(key, extension) ==
    RefreshCall(key[1], extension) \o <<"position_state", "current_owner">>

\* Accumulation makes what is pending due.
Refreshed(nft) == [nft EXCEPT !.due = nft.due + nft.lazy, !.lazy = 0]

\* buildPositionStateReadPlan, executed: the last state is discarded.
PositionState(nft, calls) ==
    LET step(s, call) ==
            CASE call = "refresh" -> [s EXCEPT !.nft = Refreshed(s.nft)]
              [] call = "position_state" ->
                    [s EXCEPT !.liquidity = s.nft.liquidity, !.earned = s.nft.due]
              [] call = "current_owner" -> [s EXCEPT !.owner = s.nft.owner]
    IN  FoldLeft(step, [nft |-> nft, liquidity |-> 0, earned |-> 0, owner |-> None], calls)

------------------------------------------------------------------------------
(***************************************************************************)
(* Withdrawals and claims                                                  *)
(***************************************************************************)

\* getOwnedIndexedPosition, and the manager must be one the server can read.
Available(key, report) ==
    key \in DOMAIN report.nfts /\ report.nfts[key].owner = Sender
        /\ Readable(key, report.pool.extension)

\* The v2 manager has no claim of its own: it withdraws nothing, with fees.
EarningsCall(key, recipient) ==
    IF key[1] = "v2"
    THEN [op |-> "withdraw", key |-> key, liquidity |-> 0, recipient |-> recipient]
    ELSE [op |-> "collect", key |-> key, recipient |-> recipient]

PlanEarningsClaim(key, recipient, report) ==
    IF ~Available(key, report) THEN Refused
    ELSE PlanOf("claim", <<EarningsCall(key, recipient)>>,
                {[key |-> key, liquidity |-> 0, recipient |-> recipient]})

\* withdraw with fees, or withdrawAndClaimRewards.
WithdrawCall(w) ==
    [op |-> "withdraw", key |-> w.key, liquidity |-> w.liquidity, recipient |-> w.recipient]

\* prepareSingleLpPositionWithdraw, as far as it refuses.
WithdrawalAllowed(w, report) == w.liquidity > 0 /\ Available(w.key, report)

\* Mutant: a position may be named more than once.
EachOnce(ws) == Len(ws) > 0

\* Between one and a hundred withdrawals, each of its own position.
Distinct(ws) ==
    /\ Len(ws) \in 1..MaxWithdrawals
    /\ \A i, k \in DOMAIN ws : ws[i].key = ws[k].key => i = k

\* prepareLpPositionWithdraw: one that is refused refuses all.
PlanWithdraw(ws, report) ==
    IF ~Distinct(ws) \/ \E i \in DOMAIN ws : ~WithdrawalAllowed(ws[i], report) THEN Refused
    ELSE PlanOf("withdraw", [i \in DOMAIN ws |-> WithdrawCall(ws[i])], ToSet(ws))

------------------------------------------------------------------------------
(***************************************************************************)
(* The contracts                                                           *)
(***************************************************************************)
\* The extensions that credit a position's earnings only when they are accumulated.
Accumulating == {"ve33", "twamm_v2", "twamm_v3", "twamm_legacy"}

Owned(l, key) == key \in DOMAIN l.nfts /\ l.nfts[key].owner = Sender

\* What of the native side a deposit of this liquidity uses up.
NativeUsed(l, call, liquidity) ==
    LET lower == SqrtRatio(call.lower)  upper == SqrtRatio(call.upper)
        within == IF l.price < lower THEN lower ELSE IF l.price > upper THEN upper ELSE l.price
        up(n, d) == (n + d - 1) \div d
    IN  CASE l.pool.native = "token0" -> up(liquidity * (upper - within), within * upper)
          [] l.pool.native = "token1" -> liquidity * (within - lower)
          [] OTHER -> 0

Minted(l, key, liquidity) ==
    LET new == <<PositionsManager(l.pool), Cardinality(DOMAIN l.nfts) + 1>>
    IN  IF key = None
        THEN new :> [owner |-> Sender, liquidity |-> liquidity, due |-> 0, lazy |-> 0] @@ l.nfts
        ELSE [l.nfts EXCEPT ![key].liquidity = @ + liquidity]

Deposited(l, call) ==
    LET liquidity == MaxLiquidity(l.price, SqrtRatio(call.lower), SqrtRatio(call.upper),
                                  call.max0, call.max1)
    IN  IF l.price = None THEN Reverted
        ELSE IF liquidity < call.min \/ (call.key # None /\ ~Owned(l, call.key)) THEN Reverted
        ELSE [l EXCEPT !.nfts = Minted(l, call.key, liquidity),
                       !.held = @ + call.value - NativeUsed(l, call, liquidity)]

\* A manager pays a position's earnings, accumulated first, to the recipient.
PaidOut(l, key, liquidity, recipient) ==
    LET nft == Refreshed(l.nfts[key])
    IN  IF ~Owned(l, key) THEN Reverted
        ELSE IF liquidity > nft.liquidity THEN Reverted
        ELSE [l EXCEPT !.nfts[key] = [nft EXCEPT !.liquidity = @ - liquidity, !.due = 0],
                       !.paid[recipient] = @ + nft.due]

Apply(l, call) ==
    CASE call.op = "maybeInitializePool" ->
            IF l.price # None THEN l ELSE [l EXCEPT !.price = SqrtRatio(call.tick)]
      [] call.op = "deposit" -> Deposited(l, call)
      [] call.op = "refundNativeToken" -> [l EXCEPT !.held = 0]
      [] call.op = "collect" -> PaidOut(l, call.key, 0, call.recipient)
      [] call.op = "withdraw" -> PaidOut(l, call.key, call.liquidity, call.recipient)

------------------------------------------------------------------------------
(***************************************************************************)
(* The session                                                             *)
(***************************************************************************)
Recipients == {Sender, "friend"}

Init ==
    \E start \in Starts :
        Start([pool |-> start.pool, price |-> start.price, nfts |-> start.nfts,
               held |-> 0, paid |-> [r \in Recipients |-> 0]], start)

PrepareInitialization == \E tick \in 0..MaxTick : Prepared(PlanInitialization(tick, view.pool))

PrepareDeposit ==
    \E req \in DepositRequests : Prepared(PlanDeposit(req, view.pool, view.price))

PrepareEarningsClaim ==
    \E key \in DOMAIN view.nfts, r \in Recipients : Prepared(PlanEarningsClaim(key, r, view))

Withdrawals ==
    [key : DOMAIN view.nfts, liquidity : 0..2, recipient : Recipients]

PrepareWithdraw ==
    \E n \in 0..2 : \E ws \in [1..n -> Withdrawals] : Prepared(PlanWithdraw(ws, view))

Outcome == Batch(Apply, chain, plan.calls)

Execute == Submitted(Outcome)

Sync == Synced([pool |-> chain.pool, price |-> chain.price, nfts |-> chain.nfts])

\* Someone initializes or trades; a position earns, at once or when its extension is
\* next accumulated; the owner withdraws, or gives the NFT away.
Move ==
    \/ Moved({[chain EXCEPT !.price = p] : p \in Prices})
    \/ \E key \in DOMAIN chain.nfts :
          LET lazy == chain.pool.extension \in Accumulating
              nft == chain.nfts[key]
              changed(n) == [chain EXCEPT !.nfts[key] = n]
          IN  Moved({changed(IF lazy THEN [nft EXCEPT !.lazy = nft.lazy + 1]
                             ELSE [nft EXCEPT !.due = nft.due + 1]),
                     changed([nft EXCEPT !.owner = "friend"])}
                    \cup {changed([nft EXCEPT !.liquidity = k]) : k \in 0..nft.liquidity})

Next ==
    \/ PrepareInitialization \/ PrepareDeposit \/ PrepareEarningsClaim \/ PrepareWithdraw
    \/ Execute \/ Sync \/ Move

Spec == Init /\ [][Next]_vars

------------------------------------------------------------------------------
(***************************************************************************)
(* Properties                                                              *)
(***************************************************************************)

\* The variables have their types, and the core holds no native value between batches.
TypeOK ==
    /\ SessionTypeOK
    /\ view.pool = chain.pool
    /\ chain.held = 0
    /\ \A key \in DOMAIN chain.nfts :
          chain.nfts[key].liquidity \in Nat /\ chain.nfts[key].due \in Nat

\* The price is inside the slippage interval around the one the plan expects.
WithinSlippage(price, expected, slippage) ==
    /\ price * price * SlippageUnit <= expected * expected * (SlippageUnit + slippage)
    /\ expected * expected * SlippageUnit <= price * price * (SlippageUnit + slippage)

\* prepareLpPositionDeposit: a deposit succeeds at every price inside its slippage, not
\* only at the two ends its floor was computed at; a pool the plan was to initialize
\* may be initialized by someone else in between; and no native value stays behind.
DepositDelivers ==
    plan.kind = "deposit" =>
        /\ \/ chain.price = None /\ plan.promise.initializes
           \/ chain.price # None
                /\ WithinSlippage(chain.price, plan.promise.expected, plan.promise.slippage)
           => Outcome # Reverted \/ (plan.promise.key # None /\ ~Owned(chain, plan.promise.key))
        /\ Outcome # Reverted => Outcome.held = 0

\* If each position passes its own pending check (owner, and at least the requested
\* liquidity), the whole batch succeeds: it takes exactly what was asked of each
\* position, pays all its earnings, those not yet accumulated included, to the
\* recipient, and touches no other position.
PayoutDelivers ==
    plan.kind \in {"claim", "withdraw"} =>
        LET asked == plan.promise
            checks(w) == Owned(chain, w.key) /\ chain.nfts[w.key].liquidity >= w.liquidity
            earned(r) == MapThenSumSet(
                LAMBDA w : chain.nfts[w.key].due + chain.nfts[w.key].lazy,
                {w \in asked : w.recipient = r})
        IN  (\A w \in asked : checks(w)) =>
                /\ Outcome # Reverted
                /\ \A w \in asked : Outcome.nfts[w.key] =
                      [owner |-> Sender, liquidity |-> chain.nfts[w.key].liquidity - w.liquidity,
                       due |-> 0, lazy |-> 0]
                /\ \A key \in DOMAIN chain.nfts \ {w.key : w \in asked} :
                      Outcome.nfts[key] = chain.nfts[key]
                /\ \A r \in Recipients : Outcome.paid[r] = chain.paid[r] + earned(r)

\* What the pending read reports of a position is what a claim would pay right now: the
\* refresh and the read are one ordered aggregate.
ReadSeesWhatIsPaid ==
    \A key \in DOMAIN chain.nfts :
        LET read == PositionState(chain.nfts[key], PositionStateCalls(key, chain.pool.extension))
            paid == Apply(chain, EarningsCall(key, Sender))
        IN  Readable(key, chain.pool.extension) /\ read.owner = Sender =>
                paid.paid[Sender] = chain.paid[Sender] + read.earned
==============================================================================
