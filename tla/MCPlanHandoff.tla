---------------------------- MODULE MCPlanHandoff ----------------------------
(* PlanHandoff for TLC: a token with the approve guard, one without and the *)
(* native one.  One call asks for any swap or bridge and any tool's plan,   *)
(* the other for what leaves or takes the same allowances.                  *)
EXTENDS PlanHandoff

CONSTANTS Usdt, Plain, Ether, c1, c2

Swap(token, quoteType) == [token |-> token, quoteType |-> quoteType, cross |-> FALSE]
Bridge(token, quoteType) == [token |-> token, quoteType |-> quoteType, cross |-> TRUE]

EverySwap == {Swap(Usdt, "exact_output"), Swap(Usdt, "exact_input"), Swap(Ether, "exact_output")}

EveryBridge == {Bridge(Usdt, "exact_output"), Bridge(Plain, "exact_input")}

EveryAction ==
    {PrepareAaveV3Supply(Plain), PrepareAaveV3Repay(Usdt, "underlying"),
     PrepareAaveV3Repay(Usdt, "a_token"), PrepareMorphoVaultDeposit(Plain),
     PrepareSkySavingsDeposit(Plain), PrepareLidoWrap(Plain),
     PrepareLidoWithdrawalRequest(Plain), PrepareAerodromeLiquidityDeposit(Plain, Usdt),
     PrepareAerodromeLiquidityWithdraw(Plain), PrepareAerodromeGaugeDeposit(Plain),
     PrepareAerodromeLock(Plain), PrepareUniswap(Plain, Usdt),
     PrepareLpPositionDeposit(Usdt, Ether, FALSE), PrepareTwammOrder(Usdt, 2),
     PrepareAuctionCreate(Plain), PrepareVe33Stake(Plain, 2),
     PrepareManualPoolBoost(Usdt, Plain), PrepareFixPoolPrice(Usdt),
     PrepareApprovalRevocations(<<<<Usdt, "0x">>, <<Plain, "booster">>>>)}

MCIntents == (c1 :> EverySwap \cup EveryBridge) @@ (c2 :> {Swap(Usdt, "exact_output")})

MCActionPlans ==
    (c1 :> EveryAction)
    @@ (c2 :> {PrepareTwammOrder(Usdt, 1), PrepareManualPoolBoost(Usdt, Plain),
               PrepareApprovalRevocations(<<<<Usdt, "0x">>, <<Plain, "booster">>>>)})

NoIntents == (c1 :> {})

\* The plans without a cleanup for their router or booster.
UncleanedPlans == (c1 :> {PrepareManualPoolBoost(Usdt, Plain), PrepareFixPoolPrice(Usdt)})

MCSpenders ==
    {"0x", "across", "layerzero", "lifi", "router", "uniswap", "positions", "orders",
     "booster", "aave", "morpho", "sky", "lido", "lido_queue", "aerodrome", "gauge",
     "escrow", "auctions", "ve_token"}

MCStanding == {<<Usdt, "0x">>}
===============================================================================
