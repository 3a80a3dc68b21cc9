------------------------------- MODULE Savings -------------------------------
(***************************************************************************)
(* Lending and savings: the Aave plans of src/src/aave.ts, the ERC-4626    *)
(* vaults of src/src/morpho.ts and src/src/sky.ts, and staking with its    *)
(* withdrawal queue in src/src/lido.ts.  The server reads nothing; between *)
(* a plan and its execution interest accrues and prices move.              *)
(*                                                                         *)
(* One asset, one reserve, one vault and one queue, all external.          *)
(***************************************************************************)
EXTENDS WalletSession

CONSTANTS
    Ledgers,        \* the ledgers a behaviour may begin with
    Amounts,        \* the amounts that are asked for
    MaxUint,        \* 2^256 - 1, which some calls read as "all there is"
    MaxRequests,    \* 64
    RequestBounds,  \* the amounts MIN_WITHDRAWAL_WEI..MAX_WITHDRAWAL_WEI admits
    MaxTime

Saver == "sender"
Holders == {Saver, "friend"}

Least(a, b) == IF a < b THEN a ELSE b
CeilDiv(n, d) == (n + d - 1) \div d

\* What the protocols keep of the holders, and of each other.
Ledger ==
    [now : Nat, price : Nat \ {0}, collateral : BOOLEAN, delegators : SUBSET Holders,
     queue : Seq([amount : Nat, owner : Holders \cup {None}]), finalized : Nat,
     bal : [Holders -> [asset : Nat, share : Nat, steth : Nat, wsteth : Nat]],
     allowance : [{"aave", "vault", "queue", "wsteth"} -> Nat],
     supplied : [Holders -> Nat], debt : [Holders -> Nat]]

\* Between two batches: no allowance outlives the one that sets it.
Resting(l) ==
    /\ l.now <= MaxTime /\ l.finalized <= Len(l.queue)
    /\ \A spender \in DOMAIN l.allowance : l.allowance[spender] = 0

SavingsAssumption ==
    /\ Ledgers \subseteq Ledger /\ \A l \in Ledgers : Resting(l)
    /\ Amounts \subseteq Nat /\ MaxUint \in Nat /\ MaxTime \in Nat
    /\ Reverted \notin Ledger

------------------------------------------------------------------------------
(***************************************************************************)
(* Plans                                                                   *)
(***************************************************************************)

\* Mutant: an approval for an exact amount is taken to be used up.
FundedOnly(spender, amount, call) ==
    <<[op |-> "approve", spender |-> spender, amount |-> amount], call>>

\* Approve a spender exactly, let it act, and take back what is left.
Funded(spender, amount, call) ==
    <<[op |-> "approve", spender |-> spender, amount |-> amount], call,
      [op |-> "approve", spender |-> spender, amount |-> 0]>>

AaveCall(op, amount, who) == [op |-> op, amount |-> amount, who |-> who]

\* prepareAaveV3Supply
PlanSupply(amount, onBehalfOf) ==
    IF amount = 0 THEN Refused
    ELSE PlanOf("supply", Funded("aave", amount, AaveCall("supply", amount, onBehalfOf)),
                [amount |-> amount, who |-> onBehalfOf])

\* prepareAaveV3Withdraw and prepareAaveV3Borrow, without approvals.
PlanPool(kind, amount, who) ==
    IF amount = 0 THEN Refused
    ELSE PlanOf(kind, <<AaveCall(kind, amount, who)>>, [amount |-> amount, who |-> who])

\* prepareAaveV3Repay, from the wallet or from the sender's own supply.
PlanRepay(amount, onBehalfOf, source) ==
    IF amount = 0 \/ (source = "a_token" /\ onBehalfOf # Saver) THEN Refused
    ELSE PlanOf("repay",
            IF source = "underlying" THEN Funded("aave", amount, AaveCall("repay", amount, onBehalfOf))
            ELSE <<AaveCall("repayWithATokens", amount, Saver)>>,
            [amount |-> amount, who |-> onBehalfOf, source |-> source])

\* prepareAaveV3Collateral
PlanCollateral(use) ==
    PlanOf("collateral", <<[op |-> "setCollateral", use |-> use]>>, [use |-> use])

\* prepareAaveV3EMode
PlanEMode(category) ==
    IF category \notin 0..255 THEN Refused
    ELSE PlanOf("emode", <<[op |-> "setEMode", category |-> category]>>, None)

\* A deposit is due by a time that is yet to come: two hours from now, if none is asked for.
DepositDeadline(asked, now) == IF asked = None THEN now + 1 ELSE asked

DepositCall(amount, maxPrice, deadline, receiver) ==
    [op |-> "deposit", amount |-> amount, maxPrice |-> maxPrice, deadline |-> deadline,
     receiver |-> receiver]

\* Mutant: the bound on the share price is not passed on.
DepositUncapped(amount, maxPrice, asked, recipient, now) ==
    LET deadline == DepositDeadline(asked, now)
    IN  IF amount = 0 \/ maxPrice = 0 \/ recipient # Saver \/ deadline <= now THEN Refused
        ELSE PlanOf("deposit", Funded("vault", amount, DepositCall(amount, MaxUint, deadline, Saver)),
                    [amount |-> amount, maxPrice |-> maxPrice, deadline |-> deadline])

\* prepareMorphoVaultDeposit: to the sender only, at a bounded share price.
PlanMorphoDeposit(amount, maxPrice, asked, recipient, now) ==
    LET deadline == DepositDeadline(asked, now)
    IN  IF amount = 0 \/ maxPrice = 0 \/ recipient # Saver \/ deadline <= now THEN Refused
        ELSE PlanOf("deposit", Funded("vault", amount, DepositCall(amount, maxPrice, deadline, Saver)),
                    [amount |-> amount, maxPrice |-> maxPrice, deadline |-> deadline])

\* prepareSkySavingsDeposit: no deadline and no bound, to any receiver.
PlanSkyDeposit(amount, receiver) ==
    IF amount = 0 THEN Refused
    ELSE PlanOf("sky_deposit", Funded("vault", amount, DepositCall(amount, MaxUint, MaxTime, receiver)),
                [amount |-> amount, receiver |-> receiver])

\* Withdraw an exact amount, or redeem exact shares, straight from the vault.
PlanVaultExit(kind, amount, recipient, owner) ==
    IF amount = 0 THEN Refused
    ELSE PlanOf(kind, <<[op |-> kind, amount |-> amount, recipient |-> recipient, owner |-> owner]>>,
                [amount |-> amount, recipient |-> recipient, owner |-> owner])

\* prepareLidoStake and prepareLidoUnwrap, without approvals.
PlanExchange(kind, amount) ==
    IF amount = 0 THEN Refused
    ELSE PlanOf(kind, <<[op |-> kind, amount |-> amount]>>, [amount |-> amount])

\* prepareLidoWrap
PlanWrap(amount) ==
    IF amount = 0 THEN Refused
    ELSE PlanOf("wrap", Funded("wsteth", amount, [op |-> "wrap", amount |-> amount]), [amount |-> amount])

SumOf(amounts) == MapThenSumSet(LAMBDA i : amounts[i], DOMAIN amounts)

\* prepareLidoWithdrawalRequest: one request per amount, all under one approval.
PlanRequests(amounts, owner) ==
    IF Len(amounts) \notin 1..MaxRequests \/ ~(ToSet(amounts) \subseteq RequestBounds) THEN Refused
    ELSE PlanOf("requests",
            Funded("queue", SumOf(amounts), [op |-> "requestWithdrawals", amounts |-> amounts, owner |-> owner]),
            [amounts |-> amounts, owner |-> owner])

\* prepareLidoWithdrawalClaim
PlanQueueClaim(id) ==
    IF id = 0 THEN Refused ELSE PlanOf("queue_claim", <<[op |-> "claimWithdrawal", id |-> id]>>, [id |-> id])

------------------------------------------------------------------------------
(***************************************************************************)
(* The contracts                                                           *)
(***************************************************************************)
Pulled(l, spender, token, amount) ==
    IF l.bal[Saver][token] < amount \/ l.allowance[spender] < amount THEN Reverted
    ELSE [l EXCEPT !.bal[Saver][token] = @ - amount, !.allowance[spender] = @ - amount]

Paid(l, who, token, amount) == [l EXCEPT !.bal[who][token] = @ + amount]

\* Aave takes no more than what is owed, and pays no more than what is there.
Healthy(l, supplied, debt) == debt = 0 \/ (l.collateral /\ debt <= supplied)

Lent(l, call) ==
    LET owed == Least(call.amount, l.debt[call.who])
        there == IF call.amount = MaxUint THEN l.supplied[Saver] ELSE call.amount
        rest == l.supplied[Saver] - there
    IN  CASE call.op = "supply" ->
                IF Pulled(l, "aave", "asset", call.amount) = Reverted THEN Reverted
                ELSE [Pulled(l, "aave", "asset", call.amount) EXCEPT !.supplied[call.who] = @ + call.amount]
          [] call.op = "withdraw_supply" ->
                IF there = 0 \/ rest < 0 \/ ~Healthy(l, rest, l.debt[Saver]) THEN Reverted
                ELSE [Paid(l, call.who, "asset", there) EXCEPT !.supplied[Saver] = rest]
          [] call.op = "borrow" ->
                IF \/ call.who # Saver /\ call.who \notin l.delegators
                   \/ ~Healthy(l, l.supplied[call.who], l.debt[call.who] + call.amount) THEN Reverted
                ELSE [Paid(l, Saver, "asset", call.amount) EXCEPT !.debt[call.who] = @ + call.amount]
          [] call.op = "repay" ->
                IF owed = 0 \/ Pulled(l, "aave", "asset", owed) = Reverted THEN Reverted
                ELSE [Pulled(l, "aave", "asset", owed) EXCEPT !.debt[call.who] = @ - owed]
          [] call.op = "repayWithATokens" ->
                IF owed = 0 \/ owed > l.supplied[Saver] THEN Reverted
                ELSE [l EXCEPT !.debt[Saver] = @ - owed, !.supplied[Saver] = @ - owed]

\* Shares are rounded in the vault's favour; the price is assets per share.
Vaulted(l, call) ==
    LET minted == call.amount \div l.price
        burnt == IF call.op = "redeem" THEN call.amount ELSE CeilDiv(call.amount, l.price)
    IN  IF call.op = "deposit"
        THEN IF \/ l.price > call.maxPrice \/ l.now > call.deadline
                \/ Pulled(l, "vault", "asset", call.amount) = Reverted THEN Reverted
             ELSE Paid(Pulled(l, "vault", "asset", call.amount), call.receiver, "share", minted)
        ELSE IF \/ call.owner # Saver /\ call.owner \notin l.delegators
                \/ burnt > l.bal[call.owner]["share"] THEN Reverted
        ELSE Paid([l EXCEPT !.bal[call.owner]["share"] = @ - burnt], call.recipient, "asset",
                  IF call.op = "redeem" THEN call.amount * l.price ELSE call.amount)

\* stETH and its wrapped form, at one for one.
Exchanged(l, from, to, amount) ==
    IF l.bal[Saver][from] < amount THEN Reverted
    ELSE Paid([l EXCEPT !.bal[Saver][from] = @ - amount], Saver, to, amount)

\* A request is paid once, to its owner, when it has been finalized.
Queued(l, call) ==
    IF call.op = "requestWithdrawals"
    THEN IF Pulled(l, "queue", "steth", SumOf(call.amounts)) = Reverted THEN Reverted
         ELSE [Pulled(l, "queue", "steth", SumOf(call.amounts)) EXCEPT !.queue = @ \o
                [i \in DOMAIN call.amounts |-> [amount |-> call.amounts[i], owner |-> call.owner]]]
    ELSE IF call.id > l.finalized \/ l.queue[call.id].owner # Saver THEN Reverted
    ELSE Paid([l EXCEPT !.queue[call.id].owner = None], Saver, "asset", l.queue[call.id].amount)

Apply(l, call) ==
    CASE call.op = "approve" -> [l EXCEPT !.allowance[call.spender] = call.amount]
      [] call.op = "setCollateral" ->
            IF ~call.use /\ l.debt[Saver] > 0 THEN Reverted ELSE [l EXCEPT !.collateral = call.use]
      [] call.op = "setEMode" -> l
      [] call.op = "stake" -> Exchanged(l, "asset", "steth", call.amount)
      [] call.op = "unwrap" -> Exchanged(l, "wsteth", "steth", call.amount)
      [] call.op = "wrap" ->
            IF Pulled(l, "wsteth", "steth", call.amount) = Reverted THEN Reverted
            ELSE Paid(Pulled(l, "wsteth", "steth", call.amount), Saver, "wsteth", call.amount)
      [] call.op \in {"deposit", "withdraw", "redeem"} -> Vaulted(l, call)
      [] call.op \in {"requestWithdrawals", "claimWithdrawal"} -> Queued(l, call)
      [] OTHER -> Lent(l, call)

------------------------------------------------------------------------------
(***************************************************************************)
(* The session                                                             *)
(***************************************************************************)
Init == \E ledger \in Ledgers : Start(ledger, None)

PrepareAave ==
    \E amount \in Amounts \cup {MaxUint}, who \in Holders, source \in {"underlying", "a_token"} :
        \/ Prepared(PlanSupply(amount, who))
        \/ \E kind \in {"withdraw_supply", "borrow"} : Prepared(PlanPool(kind, amount, who))
        \/ Prepared(PlanRepay(amount, who, source))

PrepareAaveMode ==
    \/ \E use \in BOOLEAN : Prepared(PlanCollateral(use))
    \/ \E category \in {0, 256} : Prepared(PlanEMode(category))

PrepareVaultExit ==
    \E amount \in Amounts, who, owner \in Holders, kind \in {"withdraw", "redeem"} :
        Prepared(PlanVaultExit(kind, amount, who, owner))

PrepareMorpho ==
    \E amount \in Amounts, who \in Holders, maxPrice \in 0..2, asked \in 0..MaxTime \cup {None} :
        Prepared(PlanMorphoDeposit(amount, maxPrice, asked, who, chain.now))

PrepareSky == \E amount \in Amounts, who \in Holders : Prepared(PlanSkyDeposit(amount, who))

PrepareLido ==
    \/ \E amount \in Amounts :
          \/ \E kind \in {"stake", "unwrap"} : Prepared(PlanExchange(kind, amount))
          \/ Prepared(PlanWrap(amount))
          \/ Prepared(PlanQueueClaim(amount))
    \/ \E n \in 0..2 : \E amounts \in [1..n -> Amounts], owner \in Holders :
          Prepared(PlanRequests(amounts, owner))

Outcome == Batch(Apply, chain, plan.calls)

Execute == Submitted(Outcome)

\* Interest accrues, the share price moves, time passes, the queue is finalized in order.
Move ==
    \/ Moved({[chain EXCEPT !.debt[who] = @ + 1, !.supplied[Saver] = @ + 1] : who \in Holders})
    \/ Moved({[chain EXCEPT !.price = p] : p \in 1..3})
    \/ chain.now < MaxTime /\ Moved({[chain EXCEPT !.now = @ + 1]})
    \/ chain.finalized < Len(chain.queue) /\ Moved({[chain EXCEPT !.finalized = @ + 1]})

Next == PrepareAave \/ PrepareAaveMode \/ PrepareMorpho \/ PrepareSky \/ PrepareVaultExit \/ PrepareLido \/ Execute \/ Move

Spec == Init /\ [][Next]_vars

------------------------------------------------------------------------------
(***************************************************************************)
(* Properties                                                              *)
(***************************************************************************)

\* The variables have their types, and no allowance outlives the batch that sets it.
TypeOK == SessionTypeOK /\ chain \in Ledger /\ Resting(chain)

Gain(who, token) == Outcome.bal[who][token] - chain.bal[who][token]

\* Whatever accrues between a plan and its execution: the maximum repays or withdraws
\* everything and an exact amount no more than it says; a bounded deposit is executed at
\* no higher price and no later than was agreed; and an exit takes exactly the shares or
\* pays exactly the amount, to the recipient.
SavingsDeliver ==
    plan # NoPlan =>
        LET p == plan.promise
            funded(token, amount) == chain.bal[Saver][token] >= amount
            owed == Least(p.amount, chain.debt[p.who])
            ok == Outcome # Reverted
        IN  CASE plan.kind = "supply" ->
                        /\ funded("asset", p.amount) => ok
                        /\ ok => Outcome.supplied[p.who] = chain.supplied[p.who] + p.amount
                 [] plan.kind = "repay" ->
                        /\ owed > 0 /\ p.source = "underlying" /\ funded("asset", owed) => ok
                        /\ ok => /\ Outcome.debt[p.who] = chain.debt[p.who] - owed
                                 /\ Gain(Saver, "asset") = (IF p.source = "underlying" THEN -owed ELSE 0)
                 [] plan.kind = "withdraw_supply" ->
                        /\ /\ chain.debt[Saver] = 0 /\ chain.supplied[Saver] > 0
                           /\ p.amount \in {MaxUint, chain.supplied[Saver]}
                           => ok
                        /\ ok => Gain(p.who, "asset") = chain.supplied[Saver] - Outcome.supplied[Saver]
                        /\ ok /\ p.amount = MaxUint => Outcome.supplied[Saver] = 0
                 [] plan.kind = "deposit" ->
                        /\ ok => chain.price <= p.maxPrice /\ chain.now <= p.deadline
                        /\ chain.price <= p.maxPrice /\ chain.now <= p.deadline /\ funded("asset", p.amount) => ok
                        /\ ok => Gain(Saver, "share") >= p.amount \div p.maxPrice
                 [] plan.kind = "borrow" ->
                        ok => /\ Outcome.debt[p.who] = chain.debt[p.who] + p.amount
                              /\ Gain(Saver, "asset") = p.amount
                 [] plan.kind = "withdraw" -> ok => Gain(p.recipient, "asset") = p.amount
                 [] plan.kind = "redeem" ->
                        /\ p.owner = Saver => (ok <=> chain.bal[Saver]["share"] >= p.amount)
                        /\ ok => Gain(p.owner, "share") = -p.amount
                 [] plan.kind = "wrap" ->
                        /\ ok <=> funded("steth", p.amount)
                        /\ ok => Gain(Saver, "wsteth") = p.amount
                 [] plan.kind = "requests" ->
                        /\ ok <=> funded("steth", SumOf(p.amounts))
                        /\ ok => Len(Outcome.queue) = Len(chain.queue) + Len(p.amounts)
                 [] plan.kind = "queue_claim" ->
                        ok <=> p.id <= chain.finalized /\ chain.queue[p.id].owner = Saver
                 [] OTHER -> TRUE
==============================================================================
