-------------------------------- MODULE Orders --------------------------------
(***************************************************************************)
(* TWAMM orders and auctions: src/src/orders.ts, src/src/auctions.ts and   *)
(* prepareExecuteTwammVirtualOrders of src/src/ui-actions.ts.              *)
(*                                                                         *)
(* An order sells an amount at a constant rate between two times that the  *)
(* extension admits only on a grid, coarser the further away they are; it  *)
(* belongs to an NFT whose id derives from a salt.  The managers and the   *)
(* extension are external.  Times are scaled down: the grid is GridBase    *)
(* squared and coarser by GridBase, where the code has 256 and 16.         *)
(***************************************************************************)
EXTENDS WalletSession, Ordering

CONSTANTS
    Clocks,         \* the times a behaviour goes through
    OrderRequests,  \* sequences of [pair, start, end, amount], and a salt or None
    Auctions,       \* auction keys
    GridBits,       \* log2 of GridBase: 4 in the code
    MaxAhead,       \* 2^32 seconds
    Deadline,       \* deadline_seconds
    MaxOrders       \* 100

Minter == "sender"
GridBase == 2 ^ GridBits

------------------------------------------------------------------------------
(***************************************************************************)
(* Times and rates                                                         *)
(***************************************************************************)
Later(a, b) == IF a > b THEN a ELSE b

Msb(n) == CHOOSE k \in 0..n : 2 ^ k <= n /\ n < 2 ^ (k + 1)

\* twammStepSize
StepSize(now, time) ==
    IF time <= now + GridBase ^ 3 - 1 THEN GridBase ^ 2
    ELSE LET msb == Msb(time - now) IN 2 ^ (msb - (msb % GridBits))

\* assertValidTwammTime
ValidTime(now, time) == time % StepSize(now, time) = 0 /\ time - now < MaxAhead

\* calculateEvmTwammMaxSaleRate (SDK): the rate if the plan is executed at the deadline;
\* an order that has ended by then has none.
MaxSaleRate(amount, start, end, pending) ==
    amount \div (end - Later(start, pending + Deadline))

------------------------------------------------------------------------------
(***************************************************************************)
(* Plans                                                                   *)
(***************************************************************************)
OrderAllowed(order, pending) ==
    /\ order.amount > 0 /\ order.end > order.start /\ order.end > pending
    /\ ValidTime(pending, order.start) /\ ValidTime(pending, order.end)
    /\ order.end > Later(order.start, pending + Deadline)
    /\ MaxSaleRate(order.amount, order.start, order.end, pending) > 0

\* Mutant: "hashing the config alone": the tokens are not in the salt.
SaltOfConfigs(orders) ==
    [i \in DOMAIN orders |-> <<orders[i].start, orders[i].end, orders[i].amount>>]

\* defaultOrderSalt: whatever makes one plan another, for sender and chain.
DefaultSalt(orders) ==
    [i \in DOMAIN orders |-> <<orders[i].pair, orders[i].start, orders[i].end, orders[i].amount>>]

\* deriveEvmTwammOrderTokenId of the minter and the salt.
TokenId(manager, salt) == <<manager, salt>>

KeyOf(order) == [pair |-> order.pair, start |-> order.start, end |-> order.end]

\* prepareTwammOrder
PlanOrder(orders, salt, pending) ==
    LET id == TokenId("orders", IF salt = None THEN DefaultSalt(orders) ELSE salt)
        sell(order) ==
            [op |-> "increaseSellAmount", id |-> id, key |-> KeyOf(order), amount |-> order.amount,
             max |-> MaxSaleRate(order.amount, order.start, order.end, pending)]
    IN  IF \/ Len(orders) \notin 1..MaxOrders
           \/ \E i \in DOMAIN orders : ~OrderAllowed(orders[i], pending)
        THEN Refused
        ELSE PlanOf("order", <<[op |-> "mint", id |-> id]>> \o [i \in DOMAIN orders |-> sell(orders[i])],
                    [id |-> id, orders |-> orders, pending |-> pending, salted |-> salt # None])

\* Mutant: every order with a rate is decreased.
StopRunning(reported, pending) == {i \in DOMAIN reported : reported[i].rate # 0}

\* prepareExistingOrderAction leaves alone what has ended or sells nothing.
Stoppable(reported, pending) ==
    {i \in DOMAIN reported : reported[i].key.end > pending /\ reported[i].rate # 0}

\* prepareTwammOrderCollection and prepareTwammOrderStop: collect every order first.
PlanExisting(mode, id, reported, pending) ==
    LET collect == [i \in DOMAIN reported |->
                        [op |-> "collectProceeds", id |-> id, key |-> reported[i].key]]
        stopped == Sorted(Stoppable(reported, pending), <)
        stop == [k \in DOMAIN stopped |->
                    [op |-> "decreaseSaleRate", id |-> id, key |-> reported[stopped[k]].key,
                     rate |-> reported[stopped[k]].rate]]
    IN  IF Len(reported) \notin 1..MaxOrders THEN Refused
        ELSE PlanOf(mode, collect \o (IF mode = "stop" THEN stop ELSE <<>>),
                    [id |-> id, reported |-> reported, pending |-> pending])

\* prepareExecuteTwammVirtualOrders: maintenance, which anyone may do.
PlanVirtualOrders(extension) ==
    IF extension \notin {"twamm", "old_twamm"} THEN Refused
    ELSE PlanOf("virtual_orders", <<[op |-> "lockAndExecuteVirtualOrders"]>>, None)

\* prepareAuctionCreate; the salt is the caller's.
PlanAuction(key, amount, salt) ==
    LET id == TokenId("auctions", salt)
    IN  IF amount = 0 THEN Refused
        ELSE PlanOf("auction",
                    <<[op |-> "mint", id |-> id],
                      [op |-> "sellAmountByAuction", id |-> id, key |-> key, amount |-> amount]>>,
                    [id |-> id, key |-> key, amount |-> amount])

\* prepareAuctionComplete: whether the graduation pool exists is the caller's word.
PlanComplete(id, key, initialized, tick) ==
    IF ~initialized /\ tick = None THEN Refused
    ELSE PlanOf("complete",
                (IF initialized THEN <<>> ELSE <<[op |-> "maybeInitializeGraduationPool"]>>)
                    \o <<[op |-> "completeAuction", id |-> id, key |-> key]>>,
                [id |-> id, key |-> key, initialized |-> initialized])

\* prepareAuctionCreatorProceeds
PlanProceeds(id, key) ==
    PlanOf("proceeds", <<[op |-> "collectCreatorProceeds", id |-> id, key |-> key]>>,
           [id |-> id, key |-> key])

------------------------------------------------------------------------------
(***************************************************************************)
(* The contracts                                                           *)
(***************************************************************************)

\* The grid: the coarsest power of GridBase within reach, at least GridBase squared.
OnGrid(now, time) ==
    LET step == Max({GridBase ^ 2} \cup {GridBase ^ k : k \in {k \in 0..6 : GridBase ^ k <= time - now}})
    IN  time % step = 0 /\ time - now < MaxAhead

Idle == [rate |-> 0, upTo |-> 0]

OrderOf(l, id, key) == IF <<id, key>> \in DOMAIN l.orders THEN l.orders[<<id, key>>] ELSE Idle

\* What an order has sold that was not collected yet.
SoldBy(l, order, key) ==
    LET until == IF l.now < key.end THEN l.now ELSE key.end
        since == Later(key.start, order.upTo)
    IN  order.rate * Later(until - since, 0)

WithOrder(l, id, key, order) == [l EXCEPT !.orders = (<<id, key>> :> order) @@ l.orders]

Minted(l, id) == IF id \in DOMAIN l.owners THEN Reverted ELSE [l EXCEPT !.owners = (id :> Minter) @@ l.owners]

Mine(l, id) == id \in DOMAIN l.owners /\ l.owners[id] = Minter

Increased(l, call) ==
    LET rate == call.amount \div (call.key.end - Later(call.key.start, l.now))
        order == OrderOf(l, call.id, call.key)
    IN  IF call.key.end <= l.now THEN Reverted
        ELSE IF \/ ~Mine(l, call.id) \/ rate > call.max
                \/ ~OnGrid(l.now, call.key.start) \/ ~OnGrid(l.now, call.key.end)
        THEN Reverted
        ELSE [WithOrder(l, call.id, call.key, [rate |-> order.rate + rate, upTo |-> l.now])
                EXCEPT !.paid = @ + call.amount]

Collected(l, call) ==
    LET order == OrderOf(l, call.id, call.key)
    IN  IF ~Mine(l, call.id) THEN Reverted
        ELSE [WithOrder(l, call.id, call.key, [order EXCEPT !.upTo = l.now])
                EXCEPT !.proceeds = @ + SoldBy(l, order, call.key)]

Decreased(l, call) ==
    LET order == OrderOf(l, call.id, call.key)
    IN  IF ~Mine(l, call.id) \/ call.key.end <= l.now \/ order.rate < call.rate THEN Reverted
        ELSE [WithOrder(l, call.id, call.key, [order EXCEPT !.rate = @ - call.rate])
                EXCEPT !.refunds = @ + call.rate * (call.key.end - Later(call.key.start, l.now))]

AuctionOf(l, id, key) == IF <<id, key>> \in DOMAIN l.auctions THEN l.auctions[<<id, key>>] ELSE "none"

Apply(l, call) ==
    CASE call.op = "mint" -> Minted(l, call.id)
      [] call.op = "increaseSellAmount" -> Increased(l, call)
      [] call.op = "collectProceeds" -> Collected(l, call)
      [] call.op = "decreaseSaleRate" -> Decreased(l, call)
      [] call.op = "lockAndExecuteVirtualOrders" -> l
      [] call.op = "sellAmountByAuction" ->
            IF ~Mine(l, call.id) \/ l.now >= call.key.end THEN Reverted
            ELSE [l EXCEPT !.auctions = (<<call.id, call.key>> :> "selling") @@ l.auctions,
                           !.paid = @ + call.amount]
      [] call.op = "maybeInitializeGraduationPool" -> [l EXCEPT !.graduation = TRUE]
      [] call.op = "completeAuction" ->
            IF AuctionOf(l, call.id, call.key) # "selling" THEN Reverted
            ELSE IF l.now < call.key.end \/ ~l.graduation THEN Reverted
            ELSE [l EXCEPT !.auctions[<<call.id, call.key>>] = "completed"]
      [] call.op = "collectCreatorProceeds" ->
            IF AuctionOf(l, call.id, call.key) # "completed" \/ ~Mine(l, call.id) THEN Reverted
            ELSE [l EXCEPT !.auctions[<<call.id, call.key>>] = "collected", !.proceeds = @ + 1]

------------------------------------------------------------------------------
(***************************************************************************)
(* The session                                                             *)
(***************************************************************************)
Init ==
    Start([now |-> 0, owners |-> <<>>, orders |-> <<>>, auctions |-> <<>>, graduation |-> FALSE,
           paid |-> 0, proceeds |-> 0, refunds |-> 0], None)

PrepareOrder == \E req \in OrderRequests : Prepared(PlanOrder(req.orders, req.salt, chain.now))

\* The client reports the orders of an NFT as the chain has them.
PrepareExisting ==
    \E mode \in {"collect", "stop"}, id \in DOMAIN chain.owners :
        LET keys == SetToSeq({key \in {k[2] : k \in DOMAIN chain.orders} :
                                <<id, key>> \in DOMAIN chain.orders})
        IN  Prepared(PlanExisting(mode, id,
                [i \in DOMAIN keys |-> [key |-> keys[i], rate |-> OrderOf(chain, id, keys[i]).rate]],
                chain.now))

PrepareVirtualOrders == \E extension \in {"twamm", "other"} : Prepared(PlanVirtualOrders(extension))

Salt == <<>>

PrepareAuction == \E key \in Auctions, amount \in 0..1 : Prepared(PlanAuction(key, amount, Salt))

PrepareComplete ==
    \E key \in Auctions, initialized \in BOOLEAN, tick \in {None, 0} :
        Prepared(PlanComplete(TokenId("auctions", Salt), key, initialized, tick))

PrepareProceeds == \E key \in Auctions : Prepared(PlanProceeds(TokenId("auctions", Salt), key))

Outcome == Batch(Apply, chain, plan.calls)

Execute == Submitted(Outcome)

\* Time passes, someone initializes the graduation pool, an NFT changes hands.
Move ==
    \/ \E time \in Clocks : time > chain.now /\ Moved({[chain EXCEPT !.now = time]})
    \/ Moved({[chain EXCEPT !.graduation = TRUE]})
    \/ \E id \in DOMAIN chain.owners : Moved({[chain EXCEPT !.owners[id] = "friend"]})

Next ==
    \/ PrepareOrder \/ PrepareExisting \/ PrepareVirtualOrders \/ PrepareAuction
    \/ PrepareComplete \/ PrepareProceeds \/ Execute \/ Move

Spec == Init /\ [][Next]_vars

------------------------------------------------------------------------------
(***************************************************************************)
(* Properties                                                              *)
(***************************************************************************)

\* The variables have their types.
TypeOK ==
    /\ SessionTypeOK
    /\ chain.now \in Nat /\ chain.graduation \in BOOLEAN
    /\ chain.paid \in Nat /\ chain.proceeds \in Nat /\ chain.refunds \in Nat

TotalAmount(orders) == FoldLeft(LAMBDA sum, order : sum + order.amount, 0, orders)

\* "Reject a start or end time the TWAMM extension will reject": whenever a plan for new
\* orders is executed up to its deadline, the grid still admits its times and the rates
\* stay below its maximum, so it sells everything; unless it, or one equal to it, was
\* executed before, and then it sells nothing twice.  An order for another pair, time
\* or amount never stands in its way.
OrderSellsOnce ==
    plan.kind = "order" /\ chain.now <= plan.promise.pending + Deadline =>
        LET promise == plan.promise
            keys == {<<promise.id, KeyOf(promise.orders[i])>> : i \in DOMAIN promise.orders}
            \* Under a derived salt the NFT exists only with these very orders.
            before == IF promise.salted THEN promise.id \in DOMAIN chain.owners
                      ELSE keys \subseteq DOMAIN chain.orders
        IN  IF before THEN Outcome = Reverted
            ELSE /\ Outcome # Reverted
                 /\ Outcome.paid = chain.paid + TotalAmount(promise.orders)

\* A plan to stop orders, executed by their owner before a further one of them ends,
\* collects what each has sold, ended ones included, and returns what is left of the
\* others; one to collect always succeeds and changes no rate.  An auction that is over
\* is completed once, and that does not depend on who initialized the graduation pool,
\* unless the caller asked for it not to be initialized.
Settles ==
    /\ plan.kind \in {"collect", "stop"} /\ Mine(chain, plan.promise.id) =>
        LET id == plan.promise.id
            keys == {r.key : r \in ToSet(plan.promise.reported)}
            untouched == \A r \in ToSet(plan.promise.reported) :
                OrderOf(chain, id, r.key).rate = r.rate
            running == {key \in keys : key.end > plan.promise.pending}
            sold == MapThenSumSet(LAMBDA key : SoldBy(chain, OrderOf(chain, id, key), key), keys)
            left == MapThenSumSet(
                LAMBDA key : OrderOf(chain, id, key).rate * (key.end - Later(key.start, chain.now)),
                {key \in keys : key.end > chain.now})
        IN  IF plan.kind = "collect"
            THEN /\ Outcome # Reverted
                 /\ Outcome.proceeds = chain.proceeds + sold
                 /\ \A key \in keys : OrderOf(Outcome, id, key).rate = OrderOf(chain, id, key).rate
            ELSE untouched /\ (\A key \in running : key.end > chain.now) =>
                    /\ Outcome # Reverted
                    /\ Outcome.proceeds = chain.proceeds + sold
                    /\ Outcome.refunds = chain.refunds + left
    /\ plan.kind = "complete" =>
        LET promise == plan.promise
            state == AuctionOf(chain, promise.id, promise.key)
        IN  /\ state = "selling" /\ chain.now >= promise.key.end =>
                    (Outcome # Reverted <=> chain.graduation \/ ~promise.initialized)
            /\ state # "selling" => Outcome = Reverted
==============================================================================
