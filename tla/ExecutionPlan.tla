---------------------------- MODULE ExecutionPlan ----------------------------
(***************************************************************************)
(* The wallet plans the preparation tools build: approvals, the calls that *)
(* spend them, and the approvals of zero that clean up, put in order by    *)
(* executionPlanFromSteps (src/src/execution-plan.ts).  A plan is data;    *)
(* the module has no state.                                                *)
(*                                                                         *)
(* A step is a transaction.  Call data is kept as far as an allowance can  *)
(* tell: an approve names its token, spender and amount, any other call    *)
(* names the contract called and what it takes from the sender.  Amounts   *)
(* stand for token quantities: Quoted is what a provider quotes and Bound  *)
(* the limit after slippage, which is what an exact-output plan approves.  *)
(***************************************************************************)
EXTENDS Naturals, Sequences, SequencesExt

CONSTANTS
    Native,         \* the native token, which has no allowance
    Guarded,        \* TOKENS_REQUIRING_ALLOWANCE_RESET on the chain of the plan
    Quoted,         \* the input an exact-output quote calculates
    Bound,          \* that input with slippage; also the input of exact-input plans
    NoValue,        \* a field the code holds null in
    NoPlan          \* execution: null, a quote without a plan

ASSUME AmountsAssumption ==
    /\ Quoted \in Nat /\ Bound \in Nat
    /\ 0 < Quoted /\ Quoted < Bound

ASSUME PlanNamesAssumption ==
    /\ Native \notin Guarded
    /\ NoValue \notin Nat

-------------------------------------------------------------------------------
\* Transactions.

Approve(kind, token, spender, amount) ==
    [kind |-> kind, op |-> "approve", token |-> token, spender |-> spender, amount |-> amount]

\* A call of contract spender that takes from the sender what takes says.
Use(spender, takes) ==
    [kind |-> "execution", op |-> "call", spender |-> spender, takes |-> takes]

Exactly(token, amount) == [token |-> token, least |-> amount, most |-> amount]
UpTo(token, amount) == [token |-> token, least |-> 0, most |-> amount]

Spend(token, amount) == [token |-> token, amount |-> amount]

\* The ERC-20 tokens a plan spends: the native one and zero amounts need no approval.
Erc20s(spending) ==
    SelectSeq(spending, LAMBDA s : s.token # Native /\ s.amount > 0)

Approvals(spender, spending) ==
    LET tokens == Erc20s(spending)
    IN  [i \in DOMAIN tokens |->
            Approve("approval", tokens[i].token, spender, tokens[i].amount)]

Cleanups(spender, spending) ==
    LET tokens == Erc20s(spending)
    IN  [i \in DOMAIN tokens |-> Approve("allowance_cleanup", tokens[i].token, spender, 0)]

-------------------------------------------------------------------------------
\* executionPlanFromSteps.

IsApproval(step) == step.op = "approve"

\* nonzeroApprovalSpender(data) # null: the call data decides, never the kind.
IsNonzeroApproval(step) == IsApproval(step) /\ step.amount # 0

RequiresAllowanceReset(token) == token \in Guarded

\* Mutant: the first step counts as preceded by a reset.
AlreadyResetAtFirst(steps, i) ==
    \/ i = 1
    \/ /\ IsApproval(steps[i - 1])
       /\ steps[i - 1].token = steps[i].token
       /\ steps[i - 1].spender = steps[i].spender
       /\ steps[i - 1].amount = 0

\* result.at(-1): what withAllowanceResets pushed last is the step before this one.
AlreadyReset(steps, i) ==
    /\ i > 1
    /\ IsApproval(steps[i - 1])
    /\ steps[i - 1].token = steps[i].token
    /\ steps[i - 1].spender = steps[i].spender
    /\ steps[i - 1].amount = 0

NeedsReset(steps, i) ==
    /\ IsNonzeroApproval(steps[i])
    /\ RequiresAllowanceReset(steps[i].token)
    /\ ~AlreadyReset(steps, i)

WithAllowanceResets(steps) ==
    FlattenSeq([i \in DOMAIN steps |->
        IF NeedsReset(steps, i)
        THEN <<Approve("approval", steps[i].token, steps[i].spender, 0), steps[i]>>
        ELSE <<steps[i]>>])

\* An empty list of steps throws; every caller below passes at least one.
ExecutionPlanFromSteps(steps, atomic) ==
    [steps |-> WithAllowanceResets(steps), atomic |-> atomic]

PlanOf(approvals, use, cleanups, atomic) ==
    ExecutionPlanFromSteps(approvals \o <<use>> \o cleanups, atomic)

\* The exact approval, the call and the cleanup as one atomic plan.
ApproveUseCleanup(spender, spending, takes) ==
    PlanOf(Approvals(spender, spending), Use(spender, takes), Cleanups(spender, spending), TRUE)

-------------------------------------------------------------------------------
\* The plan of every preparation tool that approves a token, by tool.  t and u are
\* the tokens it spends, Bound the amount.

PrepareAaveV3Supply(t) == ApproveUseCleanup("aave", <<Spend(t, Bound)>>, {Exactly(t, Bound)})

\* uint256 maximum repays the debt there is, so less than approved may be taken.
PrepareAaveV3Repay(t, fundingSource) ==
    IF fundingSource = "underlying"
    THEN ApproveUseCleanup("aave", <<Spend(t, Bound)>>, {UpTo(t, Bound)})
    ELSE PlanOf(<<>>, Use("aave", {}), <<>>, FALSE)

PrepareMorphoVaultDeposit(t) ==
    ApproveUseCleanup("morpho", <<Spend(t, Bound)>>, {Exactly(t, Bound)})

PrepareSkySavingsDeposit(t) ==
    ApproveUseCleanup("sky", <<Spend(t, Bound)>>, {Exactly(t, Bound)})

PrepareLidoWrap(t) == ApproveUseCleanup("lido", <<Spend(t, Bound)>>, {Exactly(t, Bound)})

PrepareLidoWithdrawalRequest(t) ==
    ApproveUseCleanup("lido_queue", <<Spend(t, Bound)>>, {Exactly(t, Bound)})

PrepareAerodromeLiquidityDeposit(t, u) ==
    ApproveUseCleanup("aerodrome", <<Spend(t, Bound), Spend(u, Bound)>>,
                      {UpTo(t, Bound), UpTo(u, Bound)})

PrepareAerodromeLiquidityWithdraw(t) ==
    ApproveUseCleanup("aerodrome", <<Spend(t, Bound)>>, {Exactly(t, Bound)})

PrepareAerodromeGaugeDeposit(t) ==
    ApproveUseCleanup("gauge", <<Spend(t, Bound)>>, {Exactly(t, Bound)})

PrepareAerodromeLock(t) ==
    ApproveUseCleanup("escrow", <<Spend(t, Bound)>>, {Exactly(t, Bound)})

PrepareUniswap(t, u) ==
    LET spending == <<Spend(t, Bound), Spend(u, Bound)>>
    IN  PlanOf(Approvals("uniswap", spending), Use("uniswap", {UpTo(t, Bound), UpTo(u, Bound)}),
               Cleanups("uniswap", spending), Erc20s(spending) # <<>>)

\* A new pool is initialised first, and native value left over is refunded after.
PrepareLpPositionDeposit(t, u, isInitialized) ==
    LET spending == <<Spend(t, Bound), Spend(u, Bound)>>
        call == Use("positions", {})
        calls == (IF isInitialized THEN <<>> ELSE <<call>>)
                 \o <<Use("positions", {UpTo(t, Bound), UpTo(u, Bound)})>>
                 \o (IF Native \in {t, u} THEN <<call>> ELSE <<>>)
        steps == Approvals("positions", spending) \o calls \o Cleanups("positions", spending)
    IN  ExecutionPlanFromSteps(steps, Len(steps) > 1)

\* One call per order, after the mint; the salt makes its NFT known in advance.  The
\* contract turns each amount into a sale rate and may take less.
PrepareTwammOrder(t, orders) ==
    LET calls == <<Use("orders", {})>>
                 \o [i \in 1..orders |-> Use("orders", {UpTo(t, 1)})]
        approvals == Approvals("orders", <<Spend(t, orders)>>)
    IN  ExecutionPlanFromSteps(approvals \o calls, Len(approvals) + Len(calls) > 1)

PrepareAuctionCreate(t) ==
    LET calls == <<Use("auctions", {}), Use("auctions", {Exactly(t, Bound)})>>
        approvals == Approvals("auctions", <<Spend(t, Bound)>>)
    IN  ExecutionPlanFromSteps(approvals \o calls, Len(approvals) + Len(calls) > 1)

\* stake, increase and reinvest: ve33Plan with one approval for all its calls.
PrepareVe33Stake(t, stakes) ==
    LET calls == [i \in 1..stakes |-> Use("ve_token", {Exactly(t, 1)})]
        approvals == Approvals("ve_token", <<Spend(t, stakes)>>)
    IN  ExecutionPlanFromSteps(approvals \o calls, Len(approvals) + Len(calls) > 1)

\* The rate is amount * 2^32 / duration rounded down: less than the amount may be
\* taken.  No cleanup and no atomic batch.
PrepareManualPoolBoost(t, u) ==
    PlanOf(Approvals("booster", <<Spend(t, Bound), Spend(u, Bound)>>),
           Use("booster", {UpTo(t, Bound), UpTo(u, Bound)}), <<>>, FALSE)

\* The route stops at the target price, so it may take less than was quoted.
PrepareFixPoolPrice(t) ==
    PlanOf(Approvals("router", <<Spend(t, Bound)>>), Use("router", {UpTo(t, Bound)}), <<>>, FALSE)

\* pairs: a sequence of token and spender pairs, each listed once.
PrepareApprovalRevocations(pairs) ==
    ExecutionPlanFromSteps(
        [i \in DOMAIN pairs |-> Approve("execution", pairs[i][1], pairs[i][2], 0)], FALSE)
===============================================================================
