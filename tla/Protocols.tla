------------------------------ MODULE Protocols ------------------------------
(***************************************************************************)
(* The protocol tools together: one behaviour follows one part, which      *)
(* `part` names, so that the state spaces add up.  A part is one session   *)
(* of a client with one protocol, or the index that is read page by page.  *)
(*                                                                         *)
(* A constant of a component that others have too is a function of the     *)
(* part here; the rest have the component's name.                          *)
(***************************************************************************)
EXTENDS WalletSession

CONSTANTS
    PlansOf, MovesOf,           \* part -> MaxPlans and MaxMoves of WalletSession
    LedgersOf,                  \* part -> ledgers a behaviour may begin with
    EndOf,                      \* part -> bound: the clock
    \* Liquidity
    Starts, DepositRequests, SlippageUnit, MaxTick, MaxWithdrawals, Prices,
    \* PoolIndex
    Wanted, Other, MaxRows, PageSize, MaxPages, PoolIds, Drifted, MaxChanges,
    \* Aerodrome
    Week, Window, MaxLock, MaxVotePools, MaxSources, MaxTokens,
    \* Orders
    Clocks, OrderRequests, Auctions, GridBits, MaxAhead, Deadline, MaxOrders,
    \* Rewards
    Trees, Claims, Funds, MaxClaims, MaxRewards, BundleSize,
    \* Savings
    Amounts, MaxUint, MaxRequests, RequestBounds,
    \* SwapProtection
    Intents, FeeBalances, Rates, Slack, BpsUnit, PpmUnit, MaxDeadline

VARIABLES part, rows, pools, cached, lookup, listing, changes

index == <<rows, pools, cached, lookup, listing, changes>>
all == <<part, vars, index>>

------------------------------------------------------------------------------
P == INSTANCE PoolIndex

ASSUME ReadingAssumption == P!ReadingAssumption

L == INSTANCE Liquidity WITH
        MaxPlans <- PlansOf["liquidity"], MaxMoves <- MovesOf["liquidity"]

A == INSTANCE Aerodrome WITH
        MaxPlans <- PlansOf["aerodrome"], MaxMoves <- MovesOf["aerodrome"], Ledgers <- LedgersOf["aerodrome"],
        MaxTime <- EndOf["aerodrome"]

O == INSTANCE Orders WITH
        MaxPlans <- PlansOf["orders"], MaxMoves <- MovesOf["orders"]

R == INSTANCE Rewards WITH
        MaxPlans <- PlansOf["rewards"], MaxMoves <- MovesOf["rewards"]

ASSUME RewardsAssumption == R!RewardsAssumption

S == INSTANCE Savings WITH
        MaxPlans <- PlansOf["savings"], MaxMoves <- MovesOf["savings"], Ledgers <- LedgersOf["savings"],
        MaxTime <- EndOf["savings"]

ASSUME SavingsAssumption == S!SavingsAssumption

Q == INSTANCE SwapProtection WITH
        MaxPlans <- PlansOf["swap"], MaxMoves <- MovesOf["swap"],
        Ledgers <- LedgersOf["swap"], MaxTime <- EndOf["swap"]

------------------------------------------------------------------------------
NoIndex ==
    /\ rows = <<>> /\ pools = {} /\ cached = {} /\ changes = 0
    /\ lookup = None /\ listing = None

Init ==
    \/ part = "liquidity" /\ L!Init /\ NoIndex
    \/ part = "index" /\ P!Init /\ Start(None, None)
    \/ part = "aerodrome" /\ A!Init /\ NoIndex
    \/ part = "orders" /\ O!Init /\ NoIndex
    \/ part = "rewards" /\ R!Init /\ NoIndex
    \/ part = "savings" /\ S!Init /\ NoIndex
    \/ part = "swap" /\ Q!Init /\ NoIndex

Session(name) == part = name /\ UNCHANGED <<part, index>>

LiquidityStep == Session("liquidity") /\ L!Next
AerodromeStep == Session("aerodrome") /\ A!Next
OrdersStep == Session("orders") /\ O!Next
RewardsStep == Session("rewards") /\ R!Next
SavingsStep == Session("savings") /\ S!Next
SwapStep == Session("swap") /\ Q!Next
IndexStep == part = "index" /\ UNCHANGED <<part, vars>> /\ P!Next

Next ==
    \/ LiquidityStep \/ AerodromeStep \/ OrdersStep \/ RewardsStep
    \/ SavingsStep \/ SwapStep \/ IndexStep

Spec == Init /\ [][Next]_all

------------------------------------------------------------------------------
\* The type invariant of every part.  Of the seven parts Aerodrome, savings and swaps
\* keep allowances.  Theirs are spent or taken back by the batch that grants them, whether
\* it succeeds or reverts, so that none stands between two batches, except what an exact
\* output of Across leaves (core.ts:760-762).  The liquidity, order and reward ledgers
\* have no allowances: which plans leave one there is PlanHandoff's to say.  And a deposit
\* leaves no native value in the core.
AtRest ==
    CASE part = "liquidity" -> L!TypeOK
      [] part = "aerodrome" -> A!TypeOK
      [] part = "orders" -> O!TypeOK
      [] part = "rewards" -> R!TypeOK
      [] part = "savings" -> S!TypeOK
      [] part = "swap" -> Q!TypeOK
      [] OTHER -> TRUE

\* Liquidity!DepositDelivers: a deposit succeeds at every price within its slippage.
DepositDelivers == part = "liquidity" => L!DepositDelivers

\* Liquidity!PayoutDelivers: claims and withdrawals take and pay what they say.
PayoutDelivers == part = "liquidity" => L!PayoutDelivers

\* Liquidity!ReadSeesWhatIsPaid: the pending read reports what a claim would pay.
ReadSeesWhatIsPaid == part = "liquidity" => L!ReadSeesWhatIsPaid

\* PoolIndex!MissNeedsRemoval: a lookup misses a position only when another one left.
MissNeedsRemoval == part = "index" => P!MissNeedsRemoval

\* PoolIndex!ListingComplete: a listing has each pool known from its start once.
ListingComplete == part = "index" => P!ListingComplete

\* Aerodrome!AerodromeDelivers: a plan whose reads pass does what it says.
AerodromeDelivers == part = "aerodrome" => A!AerodromeDelivers

\* Orders!OrderSellsOnce: a plan for orders sells everything, once.
OrderSellsOnce == part = "orders" => O!OrderSellsOnce

\* Orders!Settles: stopping, collecting and completing pay what is due.
Settles == part = "orders" => O!Settles

\* Rewards!ClaimsIndependent and Rewards!MerklDelivers: a claim that fails does not hold
\* up the others, and a Merkl claim pays by the live tree or not at all.
RewardsDeliver == part = "rewards" => R!ClaimsIndependent /\ R!MerklDelivers

\* Savings!SavingsDeliver: lending and savings plans do what they say as interest accrues.
SavingsDeliver == part = "savings" => S!SavingsDeliver

\* SwapProtection!SwapDelivers: a swap keeps its protection, whatever prices do meanwhile.
SwapDelivers == part = "swap" => Q!SwapDelivers
==============================================================================
