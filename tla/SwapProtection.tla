---------------------------- MODULE SwapProtection ----------------------------
(***************************************************************************)
(* How much worse than its quote a swap may end: the two protection modes  *)
(* of get_quotes_with_plans and prepareSwap (src/src/core.ts), the router  *)
(* threshold (src/src/yul-router.ts), the two quotes 0x is asked for when  *)
(* a loss is bounded, the deadline, and the comparison of the candidates.  *)
(* Prices move between two quotes of one call, and between the plan and    *)
(* its execution.  Also the swap phase of prepare_ve33_reinvest.           *)
(*                                                                         *)
(* The providers and their contracts are external.  Tokens are not native; *)
(* which approvals a quote brings is the subject of SwapQuotes.            *)
(***************************************************************************)
EXTENDS WalletSession

CONSTANTS
    Intents,        \* the swaps and bridges that are asked for
    Ledgers,        \* the ledgers a behaviour may begin with
    Rates,          \* output per input
    Slack,          \* bound: how far below its output a minimum of 0x may lie
    FeeBalances,    \* the lists of claimed fees a reinvestment may begin with
    BpsUnit,        \* 10000
    PpmUnit,        \* 1000000
    MaxDeadline,    \* MAX_SWAP_DEADLINE_MINUTES
    MaxTime

StakeToken == "out"

CeilDiv(n, d) == (n + d - 1) \div d
AtLeast(floor, n) == IF n < floor THEN floor ELSE n

------------------------------------------------------------------------------
(***************************************************************************)
(* Requests                                                                *)
(***************************************************************************)

\* validateSwapProtection and swapPreparationIntent: one mode of protection, with a sender;
\* a loss in output units for exact input only; or none of them, and no plans.
ValidProtection(i) == i.loss # None => i.slippage = None /\ ~i.exactOutput

Indicative(i) == ~i.sender /\ i.slippage = None /\ i.loss = None

ValidRequest(i) ==
    /\ ValidProtection(i)
    /\ Indicative(i) \/ (i.sender /\ (i.slippage # None \/ i.loss # None))

Bridges == {"across", "layerzero", "lifi"}

\* collectQuotes: a source answers requests of its kind; bridges enforce no loss in output
\* units, and LayerZero quotes no exact output.
Asks(i, source) == (source \in Bridges) = i.cross

Supports(i, source) ==
    /\ i.loss # None => source \notin Bridges
    /\ i.exactOutput => source # "layerzero"

\* slippageBps ?? 0
Tolerance(i) == IF i.slippage = None THEN 0 ELSE i.slippage

\* swapDeadline: of a whole number of minutes, at most the default.
ValidDeadline(i) == i.deadline = None \/ i.deadline \in 1..MaxDeadline

SwapDeadline(i, now) == now + (IF i.deadline = None THEN MaxDeadline ELSE i.deadline)

------------------------------------------------------------------------------
(***************************************************************************)
(* Quotes                                                                  *)
(***************************************************************************)
Candidate(i, source, rate, min, fee) ==
    LET amountIn == IF i.exactOutput THEN CeilDiv(i.amount, rate) ELSE i.amount
    IN  [source |-> source, amountIn |-> amountIn,
         amountOut |-> IF i.exactOutput THEN i.amount ELSE i.amount * rate,
         min |-> IF i.exactOutput THEN None ELSE min,
         max |-> IF i.exactOutput /\ source # "ekubo"
                 THEN CeilDiv(amountIn * (BpsUnit + Tolerance(i)), BpsUnit) ELSE None,
         fee |-> fee]

\* checkedZeroXOutputLoss: what 0x answered is accepted if it bounds the loss, neither
\* more loosely than was asked nor, for a budget, so tightly that any move reverts.
CheckedOutputLoss(c, budget) ==
    LET permitted == c.amountOut - c.min
    IN  IF \/ c.min = None \/ c.min \notin 1..c.amountOut
           \/ permitted > budget
           \/ budget > 0 /\ permitted = 0
        THEN Refused ELSE c

\* Mutant: the loss is counted from the first quote, which is not the one handed out.
QuoteZeroXOfBaseline(i, baseline, final) ==
    IF i.loss = 0 THEN CheckedOutputLoss(baseline, 0)
    ELSE IF CheckedOutputLoss([final EXCEPT !.amountOut = baseline.amountOut], i.loss) = Refused
    THEN Refused ELSE final

\* quoteZeroXWithProtection: a first quote turns the budget into parts per million, with
\* which a second one is asked for; that one is checked, and it alone is handed out.
QuoteZeroXWithProtection(i, baseline, final) ==
    LET ppm == (i.loss * PpmUnit) \div baseline.amountOut
    IN  IF i.loss = 0 THEN CheckedOutputLoss(baseline, 0)
        ELSE IF ppm \notin 1..(PpmUnit - 1) THEN Refused
        ELSE CheckedOutputLoss(final, i.loss)

\* 0x answers at any price, and with any minimum about its output, or none.
ZeroXAnswers(i) ==
    UNION {{Candidate(i, "0x", rate, min, 0) :
                min \in {None} \cup (i.amount * rate - Slack)..(i.amount * rate + 1)} : rate \in Rates}

\* With a budget only the output of the first quote counts.
QuoteZeroX(i) ==
    CASE i.loss = None -> ZeroXAnswers(i)
      [] i.loss = 0 -> {QuoteZeroXWithProtection(i, c, c) : c \in ZeroXAnswers(i)}
      [] OTHER -> {QuoteZeroXWithProtection(i, Candidate(i, "0x", rate, None, 0), final) :
                        rate \in Rates, final \in ZeroXAnswers(i)}

\* Bridges charge a fee in native value, or none.
Quotes(i, source) ==
    CASE ~Supports(i, source) -> {Refused}
      [] source = "ekubo" -> {Candidate(i, source, rate, None, 0) : rate \in Rates}
      [] source = "0x" -> QuoteZeroX(i)
      [] OTHER -> {Candidate(i, source, rate, 1, fee) : rate \in Rates, fee \in {0, 1}} \cup {Refused}

\* swapAmountThreshold: the least output, or the most input of exact output.
SwapAmountThreshold(i, c) ==
    IF i.loss # None THEN c.amountOut - i.loss
    ELSE IF i.exactOutput THEN CeilDiv(c.amountIn * (BpsUnit + Tolerance(i)), BpsUnit)
    ELSE AtLeast(1, (c.amountOut * BpsUnit) \div (BpsUnit + Tolerance(i)))

\* quoteComparison: what the candidates are ranked by, and whether that tells all.
QuoteComparison(i, candidates, failures) ==
    LET surcharged == {c \in ToSet(candidates) : c.fee > 0}
    IN  [complete |-> failures = {} /\ (surcharged = {} \/ i.native),
         basis |-> IF i.exactOutput THEN "amount_in"
                   ELSE IF surcharged # {} /\ i.native THEN "amount_out_net_of_fee"
                   ELSE "amount_out"]

------------------------------------------------------------------------------
(***************************************************************************)
(* Plans                                                                   *)
(***************************************************************************)

\* validateOutputLoss
ValidLoss(i, c) == i.loss = None \/ i.loss < c.amountOut

Spender(source) == IF source = "ekubo" THEN "router" ELSE source

Approve(token, spender, amount) ==
    [op |-> "approve", token |-> token, spender |-> spender, amount |-> amount]

\* What the call may take, and the limit it enforces itself.
Limit(i, c) ==
    IF c.source = "ekubo" THEN SwapAmountThreshold(i, c)
    ELSE IF i.exactOutput THEN c.max
    ELSE IF c.min = None THEN 0 ELSE c.min

\* prepareCandidate: the batch of one candidate, with a cleanup when less may be taken.
CandidateBatch(i, c, now) ==
    LET spender == Spender(c.source)
        limit == Limit(i, c)
    IN  <<Approve(i.token, spender, IF i.exactOutput THEN limit ELSE c.amountIn),
          [op |-> IF i.cross THEN "bridge" ELSE "swap", token |-> i.token, spender |-> spender,
           exactOutput |-> i.exactOutput, amount |-> i.amount, limit |-> limit,
           deadline |-> IF c.source = "ekubo" THEN SwapDeadline(i, now) ELSE None,
           recipient |-> i.recipient]>>
        \o (IF i.exactOutput /\ c.source # "across" THEN <<Approve(i.token, spender, 0)>> ELSE <<>>)

Prepares(i, c) == ValidLoss(i, c) /\ (c.source = "ekubo" => ValidDeadline(i))

\* What the details say of the plan of candidate c.
SwapPromise(i, c, now) ==
    [intent |-> i, source |-> c.source, amountIn |-> c.amountIn, amountOut |-> c.amountOut,
     deadline |-> SwapDeadline(i, now)]

\* prepareSwap: of one source, whose failure is the tool's.
PlanSwap(i, source, c, now) ==
    IF ~ValidRequest(i) \/ ~Asks(i, source) \/ ~i.sender \/ c = Refused THEN Refused
    ELSE IF ~Prepares(i, c) THEN Refused
    ELSE PlanOf("swap", <<CandidateBatch(i, c, now)>>, <<SwapPromise(i, c, now)>>)

\* getQuotesWithPlans: a plan for each candidate that has one, and how they compare.
\* answers: source -> its candidate, or Refused.
PlanQuotes(i, answers, now) ==
    LET candidates == SelectSeq(<<"ekubo", "0x", "across", "layerzero", "lifi">>,
                                LAMBDA s : s \in DOMAIN answers /\ answers[s] # Refused)
        found == [n \in DOMAIN candidates |-> answers[candidates[n]]]
        firm == IF Indicative(i) THEN <<>> ELSE SelectSeq(found, LAMBDA c : Prepares(i, c))
    IN  IF ~ValidRequest(i) \/ candidates = <<>> THEN Refused
        ELSE PlanOf("quotes",
                [n \in DOMAIN firm |-> CandidateBatch(i, firm[n], now)],
                [n \in DOMAIN firm |-> SwapPromise(i, firm[n], now)])
             @@ [found |-> found, asked |-> DOMAIN answers,
                 comparison |-> QuoteComparison(i, found, DOMAIN answers \ ToSet(candidates))]

\* The claimed balance of a token, which may be listed more than once.
SumByToken(balances, token) ==
    FoldLeft(LAMBDA sum, b : IF b.token = token THEN sum + b.amount ELSE sum, 0, balances)

\* prepareVe33Reinvest, phase swap: a swap of its own for each token that is not the
\* stake token, all of them or none.
PlanReinvest(i, balances, source, found, now) ==
    LET tokens == SetToSeq({b.token : b \in ToSet(balances)} \ {StakeToken})
        fees == SelectSeq(tokens, LAMBDA t : SumByToken(balances, t) > 0)
        intent(n) == [i EXCEPT !.token = fees[n], !.recipient = "sender",
                               !.amount = SumByToken(balances, fees[n])]
        each == [n \in DOMAIN fees |->
                    PlanSwap(intent(n), source, Candidate(intent(n), source, found.rate, found.min, 0), now)]
    IN  IF balances = <<>> \/ Refused \in Range(each) THEN Refused
        ELSE PlanOf("reinvest", [n \in DOMAIN fees |-> each[n].calls[1]],
                                [n \in DOMAIN fees |-> each[n].promise[1]])
             @@ [balances |-> balances, direct |-> SumByToken(balances, StakeToken)]

------------------------------------------------------------------------------
(***************************************************************************)
(* The contracts                                                           *)
(***************************************************************************)
Swapped(l, call) ==
    LET took == IF call.exactOutput THEN CeilDiv(call.amount, l.rate) ELSE call.amount
        paid == IF call.exactOutput THEN call.amount ELSE call.amount * l.rate
    IN  IF \/ call.deadline # None /\ l.now > call.deadline
           \/ (IF call.exactOutput THEN took > call.limit ELSE paid < call.limit)
           \/ l.bal[call.token] < took
           \/ l.allowance[<<call.token, call.spender>>] < took
        THEN Reverted
        ELSE [l EXCEPT !.bal[call.token] = @ - took, !.out[call.recipient] = @ + paid,
                       !.allowance[<<call.token, call.spender>>] = @ - took]

\* What a bridge delivers elsewhere is not followed.  Of an exact output LI.FI takes the
\* whole amount it was given, and Across as much as the price demands, up to its limit.
Bridged(l, call) ==
    LET took == IF ~call.exactOutput THEN call.amount
                ELSE IF call.spender = "across" THEN CeilDiv(call.amount, l.rate) ELSE call.limit
    IN  IF \/ call.exactOutput /\ took > call.limit
           \/ l.bal[call.token] < took
           \/ l.allowance[<<call.token, call.spender>>] < took
        THEN Reverted
        ELSE [l EXCEPT !.bal[call.token] = @ - took,
                       !.allowance[<<call.token, call.spender>>] = @ - took]

Apply(l, call) ==
    CASE call.op = "approve" -> [l EXCEPT !.allowance[<<call.token, call.spender>>] = call.amount]
      [] call.op = "swap" -> Swapped(l, call)
      [] call.op = "bridge" -> Bridged(l, call)

------------------------------------------------------------------------------
(***************************************************************************)
(* The session                                                             *)
(***************************************************************************)
Init == \E ledger \in Ledgers : Start(ledger, None)

PrepareSwap ==
    /\ plans < MaxPlans
    /\ \E i \in Intents, source \in {"ekubo", "0x"} \cup Bridges :
        \E c \in Quotes(i, source) : Prepared(PlanSwap(i, source, c, chain.now))

\* The two sources of a swap, or two of the three of a bridge, answer or fail each for
\* itself.
GetQuotes ==
    /\ plans < MaxPlans
    /\ \E i \in Intents :
        \/ ~i.cross /\ \E e \in Quotes(i, "ekubo") \cup {Refused}, z \in Quotes(i, "0x") \cup {Refused} :
                Prepared(PlanQuotes(i, "ekubo" :> e @@ "0x" :> z, chain.now))
        \/ i.cross /\ \E a \in Quotes(i, "across"), r \in Quotes(i, "lifi") :
                Prepared(PlanQuotes(i, "across" :> a @@ "lifi" :> r, chain.now))

PrepareReinvest ==
    /\ plans < MaxPlans
    /\ \E i \in {i \in Intents : i.slippage # None /\ ~i.exactOutput /\ ~i.cross},
            balances \in FeeBalances, source \in {"ekubo", "0x"} :
        \E rate \in Rates, min \in {None, 1} :
            Prepared(PlanReinvest(i, balances, source, [rate |-> rate, min |-> min], chain.now))

Outcome(n) == Batch(Apply, chain, plan.calls[n])

\* Each plan of an answer is a batch of its own.
Execute == \E n \in DOMAIN plan.calls : Submitted(Outcome(n))

\* The price moves, time passes, the sender spends some of the input.
Move ==
    \/ Moved({[chain EXCEPT !.rate = rate] : rate \in Rates \ {chain.rate}})
    \/ chain.now < MaxTime /\ Moved({[chain EXCEPT !.now = @ + 1]})
    \/ chain.bal["a"] > 0 /\ Moved({[chain EXCEPT !.bal["a"] = @ - 1]})

Next == PrepareSwap \/ GetQuotes \/ PrepareReinvest \/ Execute \/ Move

Spec == Init /\ [][Next]_vars

------------------------------------------------------------------------------
(***************************************************************************)
(* Properties                                                              *)
(***************************************************************************)

\* The variables have their types.  No allowance outlives the batch that sets it, except
\* to Across, whose exact output has no cleanup (core.ts:760-762).
TypeOK ==
    /\ SessionTypeOK
    /\ chain.now \in 0..MaxTime /\ chain.rate \in Rates
    /\ \A token \in DOMAIN chain.bal : chain.bal[token] \in Nat
    /\ \A pair \in DOMAIN chain.allowance :
          chain.allowance[pair] \in (IF pair[2] = "across" THEN Nat ELSE {0})

\* Whatever the prices did between the quotes of a call and before its execution: a swap
\* that succeeds loses no more of the output of the quote handed out than its budget or
\* tolerance, takes no more input than that allows, and is not late; one whose price has
\* held, or has lost what an Ekubo budget admits, succeeds.
KeepsProtection(n) ==
    LET p == plan.promise[n]
        i == p.intent
        end == Outcome(n)
        ok == end # Reverted
        paid == end.out[i.recipient] - chain.out[i.recipient]
        took == chain.bal[i.token] - end.bal[i.token]
        offered == i.amount * chain.rate
        inTime == p.source = "ekubo" => chain.now <= p.deadline
    IN  /\ ok => inTime
        /\ ok /\ i.loss # None => took = i.amount /\ paid >= p.amountOut - i.loss
        /\ ok /\ p.source = "ekubo" /\ i.slippage # None =>
                IF i.exactOutput
                THEN paid = i.amount /\ (took - 1) * BpsUnit < p.amountIn * (BpsUnit + Tolerance(i))
                ELSE took = i.amount /\ (paid + 1) * (BpsUnit + Tolerance(i)) > p.amountOut * BpsUnit
        /\ /\ inTime /\ i.loss # None /\ chain.bal[i.token] >= i.amount
           /\ offered >= p.amountOut - (IF p.source = "ekubo" THEN i.loss ELSE 0)
           => ok
        /\ /\ inTime /\ i.exactOutput
           /\ CeilDiv(i.amount, chain.rate) * BpsUnit <= p.amountIn * (BpsUnit + Tolerance(i))
           /\ chain.bal[i.token] >= CeilDiv(i.amount, chain.rate)
           => ok

\* A comparison that calls itself complete has every source's answer, and of exact input
\* the one it ranks first costs no other answer's user more, fee and all.
ComparesAll ==
    LET outOf(c) == IF plan.comparison.basis = "amount_out_net_of_fee" THEN c.amountOut - c.fee ELSE c.amountOut
    IN  plan.comparison.complete =>
            /\ {c.source : c \in ToSet(plan.found)} = plan.asked
            /\ plan.comparison.basis # "amount_in" =>
                  \A c, d \in ToSet(plan.found) :
                      outOf(c) >= outOf(d) => c.amountOut - c.fee >= d.amountOut - d.fee

\* The swaps of a reinvestment, each carried out once, use exactly the claimed fees.
SwapsClaimedFees ==
    /\ \A m, n \in DOMAIN plan.calls :
          plan.promise[m].intent.token = plan.promise[n].intent.token => m = n
    /\ \A token \in {b.token : b \in ToSet(plan.balances)} :
          LET claimed == {n \in DOMAIN plan.balances : plan.balances[n].token = token}
              swapped == {n \in DOMAIN plan.promise : plan.promise[n].intent.token = token}
          IN  MapThenSumSet(LAMBDA n : plan.balances[n].amount, claimed) =
                IF token = StakeToken THEN plan.direct
                ELSE MapThenSumSet(LAMBDA n : plan.promise[n].amountIn, swapped)

\* What the tools that quote swaps hand out keeps the protection that was asked for,
\* compares what it says it does, and swaps each claimed fee once.
SwapDelivers ==
    /\ plan.kind \in {"swap", "quotes", "reinvest"} =>
          \A n \in DOMAIN plan.calls : ~plan.promise[n].intent.cross => KeepsProtection(n)
    /\ plan.kind = "quotes" => ComparesAll
    /\ plan.kind = "reinvest" => SwapsClaimedFees
==============================================================================
