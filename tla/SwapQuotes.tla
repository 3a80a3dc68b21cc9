------------------------------ MODULE SwapQuotes ------------------------------
(***************************************************************************)
(* What the quote sources of get_quotes_with_plans answer and the plan     *)
(* made of each answer (collectQuotes, the quote adapters and              *)
(* prepareCandidate of src/src/core.ts).  The providers are external: an   *)
(* adapter's result is any candidate its checks let through.               *)
(*                                                                         *)
(* An intent is [token, quoteType, cross]: the input token, which side is  *)
(* exact, and whether the destination is another chain.                    *)
(***************************************************************************)
EXTENDS ExecutionPlan

CONSTANT Configured     \* the sources this deployment holds an API key for

\* Mutant: a bridge asks the sources of a swap too.
RequestedSourcesOfBothKinds(intent) ==
    <<"ekubo", "0x", "across", "layerzero", "lifi">>

\* The sources source=all asks, in order.  Across is asked unconditionally, and then
\* fails when it is not configured; the other keyed sources are left out.
RequestedSources(intent) ==
    LET keyed(source) == IF source \in Configured THEN <<source>> ELSE <<>>
    IN  IF intent.cross
        THEN <<"across">> \o keyed("layerzero") \o keyed("lifi")
        ELSE <<"ekubo">> \o keyed("0x")

ExactOutput(intent) == intent.quoteType = "exact_output"

\* The input the source commits to: the exact amount, or the quote with slippage.
Input(intent) == IF ExactOutput(intent) THEN Quoted ELSE Bound

Candidate(source, amountIn, maximumAmountIn, required, spender, actual, firm) ==
    [source |-> source, amountIn |-> amountIn, maximumAmountIn |-> maximumAmountIn,
     approvalRequired |-> required, approvalSpender |-> spender, approvalActual |-> actual,
     firm |-> firm]

-------------------------------------------------------------------------------
\* The adapters.  allowed is what the sender's token allows the source's contract at
\* this moment, for the sources that look at the chain.  firm: calldata was returned.

QuoteEkubo(intent) ==
    {Candidate("ekubo", Input(intent), NoValue, FALSE, NoValue, NoValue, TRUE)}

\* 0x names its spender in any case, and reports an allowance issue when the standing
\* allowance does not cover the sale.
QuoteZeroX(intent, allowed) ==
    LET issue == intent.token # Native /\ allowed < Bound
    IN  {Candidate("0x", Input(intent), IF ExactOutput(intent) THEN Bound ELSE NoValue, issue,
                   "0x", IF issue THEN allowed ELSE NoValue, firm) : firm \in BOOLEAN}

\* Across lists approvals or the allowance it checked, with or without what it found; or
\* neither, and then no approval is required.
QuoteAcross(intent, allowed) ==
    IF intent.token = Native
    THEN {Candidate("across", Input(intent), Bound, FALSE, NoValue, NoValue, TRUE)}
    ELSE {Candidate("across", Input(intent), Bound, FALSE, NoValue, NoValue, TRUE)}
         \cup {Candidate("across", Input(intent), Bound, TRUE, check[1], check[2], TRUE) :
                  check \in {<<NoValue, NoValue>>, <<"across", NoValue>>, <<"across", allowed>>}}

\* LayerZero quotes an exact source amount only, and may return no transaction.
QuoteLayerZero(intent) ==
    LET spender == IF intent.token = Native THEN NoValue ELSE "layerzero"
    IN  {Candidate("layerzero", Bound, NoValue, firm /\ spender # NoValue,
                   IF firm THEN spender ELSE NoValue, NoValue, firm) :
            firm \in IF ExactOutput(intent) THEN {} ELSE BOOLEAN}

QuoteLiFi(intent) ==
    LET required == intent.token # Native
    IN  {Candidate("lifi", Bound, IF ExactOutput(intent) THEN Bound ELSE NoValue, required,
                   IF required THEN "lifi" ELSE NoValue, NoValue, TRUE)}

Quotes(source, intent, allowed) ==
    CASE source = "ekubo" -> QuoteEkubo(intent)
      [] source = "0x" -> QuoteZeroX(intent, allowed)
      [] source = "across" -> IF source \in Configured THEN QuoteAcross(intent, allowed) ELSE {}
      [] source = "layerzero" -> QuoteLayerZero(intent)
      [] source = "lifi" -> QuoteLiFi(intent)

-------------------------------------------------------------------------------
\* prepareCandidate.

\* What the call takes from the sender: up to the limit when the output is exact.
Taken(intent, source) ==
    IF ExactOutput(intent) /\ source \in {"ekubo", "0x", "across"}
    THEN UpTo(intent.token, Bound)
    ELSE Exactly(intent.token, Bound)

\* prepareSwapFromQuote: the Yul router needs an allowance of its input limit.
RouterApproval(intent) ==
    IF intent.token = Native THEN <<>>
    ELSE <<Approve("approval", intent.token, "router", Bound)>>

\* Mutant: the approval is for the amount quoted, not for its limit.
BuildApprovalOfAmountIn(intent, candidate) ==
    IF intent.token = Native \/ ~candidate.approvalRequired
       \/ candidate.approvalSpender = NoValue
    THEN <<>>
    ELSE <<Approve("approval", intent.token, candidate.approvalSpender, candidate.amountIn)>>

BuildApprovalTransactions(intent, candidate) ==
    LET spender == candidate.approvalSpender
        amount == IF candidate.maximumAmountIn # NoValue
                  THEN candidate.maximumAmountIn
                  ELSE candidate.amountIn
    IN  IF intent.token = Native \/ ~candidate.approvalRequired \/ spender = NoValue
        THEN <<>>
        ELSE (IF candidate.approvalActual \notin {NoValue, 0}
              THEN <<Approve("approval", intent.token, spender, 0)>>
              ELSE <<>>)
             \o <<Approve("approval", intent.token, spender, amount)>>

\* Mutant: only the router's plan is cleaned up.
CandidateCleanupsOfRouter(intent, source, spender, approvals) ==
    IF ExactOutput(intent) /\ source = "ekubo" /\ intent.token # Native /\ approvals # <<>>
    THEN <<Approve("allowance_cleanup", intent.token, spender, 0)>>
    ELSE <<>>

\* Mutant: the cleanup is added whether or not the plan approves.
CandidateCleanupsAlways(intent, source, spender, approvals) ==
    IF /\ ExactOutput(intent)
       /\ source # "across"
       /\ intent.token # Native
       /\ spender # NoValue
    THEN <<Approve("allowance_cleanup", intent.token, spender, 0)>>
    ELSE <<>>

\* An exact output may leave part of the allowance: it is cleaned up, except Across's.
CandidateCleanups(intent, source, spender, approvals) ==
    IF /\ ExactOutput(intent)
       /\ source # "across"
       /\ intent.token # Native
       /\ spender # NoValue
       /\ approvals # <<>>
    THEN <<Approve("allowance_cleanup", intent.token, spender, 0)>>
    ELSE <<>>

PrepareCandidate(intent, candidate) ==
    LET ekubo == candidate.source = "ekubo"
        approvals == IF ekubo
                     THEN RouterApproval(intent)
                     ELSE BuildApprovalTransactions(intent, candidate)
        spender == IF ekubo
                   THEN IF intent.token = Native THEN NoValue ELSE "router"
                   ELSE candidate.approvalSpender
        cleanups == CandidateCleanups(intent, candidate.source, spender, approvals)
        contract == IF ekubo THEN "router" ELSE candidate.source
    IN  IF ~ekubo /\ ~candidate.firm
        THEN NoPlan    \* firm_quote_required, caught by executableQuote
        ELSE PlanOf(approvals, Use(contract, {Taken(intent, candidate.source)}), cleanups,
                    approvals # <<>> \/ cleanups # <<>>)
===============================================================================
