# A TLA+ model of the Ekubo MCP server

The server (`src/src/`, TypeScript on a Cloudflare Worker) answers MCP tool
calls with quotes, portfolio data and *plans*: unsigned transactions that a
wallet of the user's carries out. It signs nothing and keeps no session. What
it keeps across calls is an R2 bucket (plans fetched by reference, the last
recommendation snapshot, a marker of the refresh in flight) and the counters of
its rate limiters. Everything else it reads from indexers, RPC nodes and quote
providers while a call is running.

What can go wrong is therefore seldom inside one handler. It is between them:
two calls that share a refresh; the draws of two requests on one budget; a
portfolio reviewed a minute before its plan is executed; a plan built from an
allowance that another plan has since revoked. The modules here are about those
orders of events, about a plan that was made of one state and is executed on
another, and about the pure algorithms (dividing stake, redistributing weight,
ordering the steps of a plan) that the plans rest on.

Paths below such as `core.ts:934` are under `src/src/`. `README.md:n` is the
repository's README, `src/README.md`.

## Files

| module | models | extends |
|---|---|---|
| `SnapshotService` | abstract: what a recommendation promises its callers | |
| `StonxSnapshot` | the snapshot store and refresh; implements `SnapshotService` | instance of `SnapshotService` |
| `StonxSnapshot_proofs` | theorems about it | `StonxSnapshot`, `TLAPS` |
| `Ordering` | external: sorting a set by a comparison, as `Array.sort` does | |
| `DataTheorems` | lemmas: induction, recursion and sums over finite data | `Ordering`, `TLAPS` |
| `Recommendation` | pure: from a snapshot and the pool directory to targets | |
| `Admission` | rate limits and request prices | |
| `Admission_proofs` | theorems about it | `Admission`, `DataTheorems` |
| `Ve33Allocation` | pure: dividing stake over target pools | |
| `Ve33Allocation_proofs` | lemmas about apportionment and the passes | `Ve33Allocation`, `DataTheorems` |
| `MCVe33Allocation_proofs` | theorems about what is recommended and allocated | `MCVe33Allocation`, `Ve33Allocation_proofs` |
| `Ve33Portfolio` | what is accepted of the indexer's pages, faulty ones included | |
| `Ve33Plans` | pure: the calls and the promise of each VeToken plan | `Ve33Allocation`, `Ve33Portfolio` |
| `Ve33Token` | external: the VeToken contract | |
| `Ve33Workflow` | review, prepare, execute over a ledger that moves | `Ve33Plans`, instance of `Ve33Token` |
| `Ve33Workflow_proofs` | theorems about it, portfolios and the calls of plans | `Ve33Workflow`, `Ve33Allocation_proofs` |
| `ExecutionPlan` | pure: approvals, calls, cleanups and allowance resets | |
| `SwapQuotes` | pure: what quote sources answer and the plan made of it | `ExecutionPlan` |
| `PlanHandoff` | from a tool call over the bucket and the wallet to the chain | `SwapQuotes` |
| `PlanHandoff_proofs` | theorems about it, allowance resets and batches | `PlanHandoff`, `DataTheorems` |
| `WalletSession` | what the protocol tools share: a plan in hand, a ledger that moves | |
| `Liquidity` | deposits, withdrawals, earnings and a position's pending state | `WalletSession` |
| `PoolIndex` | reading positions and pools page by page while the index changes | |
| `Aerodrome` | Aerodrome liquidity, gauges, locks, votes and incentives | `WalletSession` |
| `Orders` | TWAMM orders and auctions | `WalletSession` |
| `Rewards` | incentive claims and Merkl claims | `WalletSession` |
| `Savings` | Aave, Morpho, Sky and Lido | `WalletSession` |
| `SwapProtection` | slippage, bounded losses, deadlines, the comparison, reinvestment swaps | `WalletSession` |
| `Protocols` | the seven modules before it together, one part to a behaviour | `WalletSession`, instances |
| `Protocols_proofs` | theorems about it: the index, the savings and the rewards part | `Protocols`, `DataTheorems` |
| `MCx` | the instance of module `x` that TLC checks | `x` |

Definitions whose comment begins with "Mutant:" are plausible mistakes in the
definition after them. No specification uses them: for each property there is
one that makes TLC report it violated, which shows that the property depends on
what the code does. They are listed in `PROJECT.json` under `mutants`; its `map`
gives the lines each definition models.

## Inventory

**Allocation recommendation: snapshot store and refresh**
(`recommendations.ts:24-835`). *State:* two bucket objects, `snapshot.json` and
`refresh.json`, and executions at the provider. *Operations:* load, judge by
age, join or submit a refresh, poll, store, clear, fall back. *Interaction:*
concurrent calls meet only in the bucket and at the provider. *Hard:* each
`await` is a gap; puts and deletes fail silently; a submission's answer may be
lost; the wait may end first. *Correct if* only validated results are kept or
answered with, an answer was usable when judged, no call goes back in time, and
every call returns. **Modelled.**

**Allocation recommendation: weights and efficiency**
(`recommendations.ts:196-607`, `837-1168`, `stonx-efficiency.ts`,
`stonx-recommendation-sql.ts`). *State:* none. *Operations:* resolve each pair
to a pool, drop the pools that cannot be voted for, hand their weight to the
others within their caps, in rounds. *Correct if* what is recommended can be
executed as it stands. **Partly modelled**: the efficiency figures and a
voter's optimal votes are floating-point and any answer in the model; the query
runs at the provider.

**Admission control** (`rate-limit.ts`, the `fetch` handler of `index.ts`).
*State:* four counters per caller held by the platform. *Operations:* draw the
request budgets; read and price the body; draw its units; answer 429.
*Interaction:* every request of a caller draws from the same counters. *Hard:* a
price of n is n separate draws that interleave; counters lag; a limiter may
throw. *Correct if* what is served was paid for, an outage refuses nobody, the
invoiced budget is spent by paid calls only, and a patient caller is served.
**Modelled, except for how a caller's identity is derived.**

**VeToken allocation over targets** (`ve33.ts:2627-2811`, `3045-3088`).
*State:* none. *Operations:* largest-remainder apportionment, grouping by lock
end, three greedy passes over NFTs, the chunk an NFT keeps. *Hard:* rounding at
small stakes; the passes share the demand that is left. *Correct if* every unit
is placed exactly once, each target gets its share, little is cut, and an
allocation already in place is left alone. **Modelled.**

**VeToken plans and workflow** (rest of `ve33.ts`, `core.ts:462-575`).
*State:* none at the server; NFTs, votes and fees on the chain, an indexed view
of them, the review the client holds (`state_id`). *Operations:* load a
portfolio; prepare vote, split, stake, increase, extend, withdraw, clear, merge,
claim, reallocate, reinvest. *Hard:* pages of the indexer may be torn; fees
accrue, locks run out and NFTs move between review and execution; a plan may be
submitted twice. *Correct if* a plan executed on what it was prepared for does
what its details promise, no fees are discarded, and a stale reallocation
changes nothing. **Modelled**, except for the recipient of a claim's fees.

**Artifact references** (`artifact-store.ts`, the artifact route of `index.ts`).
*State:* bucket objects with an upload time. *Operations:* store every plan of
an answer, replace it by a reference, serve a reference inside its window.
*Hard:* the puts of one answer run side by side and fail one by one. *Correct
if* a reference that was handed out is served until it expires. **Modelled for
plans**; read-call lists, token lists and signature requests travel the same
road and are not told apart.

**Execution plans and allowance resets** (`execution-plan.ts`,
`allowance-reset.ts`, `wallet-compatibility.ts`). *State:* none; the plans act
on the sender's allowances. *Operations:* order approvals, calls and cleanups,
insert an approval of zero where a token insists on one, say whether the plan
needs an atomic batch. *Hard:* allowances are shared with other plans and
applications. *Correct if* no approval collides, no call lacks allowance, and
none is left over. **Modelled**, except for the schema check of a finished plan.

**Quotes** (`core.ts:560-1711`, `uniswap/`). *State:* a shared promise of the
LayerZero chain list. *Operations:* ask several providers at once, keep those
that answer, build each one's plan, compare. *Hard:* partial failure; every
provider reports approvals in its own way; prices move between the two quotes
that bound a loss at 0x. *Correct if* one source's failure costs only its own
quote, each plan approves what its call may take, and the protection that was
asked for survives. **Modelled**, except for what Uniswap reads on the way, the
status of a transfer and the shared list.

**Swap plan construction** (`core.ts:693-830`, `yul-router.ts`,
`swap-deadline.ts`, `fix-price.ts`). Which approvals and cleanups belong to a
route; the threshold and the deadline the router enforces. **Modelled**; the
router's byte code is data.

**Liquidity, positions and pools** (`liquidity.ts`, `positions.ts`,
`position-state.ts`, `pools.ts`). *State:* none. *Operations:* initialize,
mint, increase, claim, withdraw; read a position's pending state; page through
an index. *Hard:* the price moves before a deposit is executed, earnings are
accumulated lazily, pages are read of a list that changes. *Correct if* a
deposit succeeds within its slippage, a claim pays what is due and what the read
reports, and nothing that was there is missed. **Modelled**, except for tick and
price arithmetic, which is fixed-point data, and pool statistics.

**Orders and auctions** (`orders.ts`, `auctions.ts`). *Hard:* times must be on a
grid that becomes finer as they approach; plans are executed late or twice.
**Modelled.**

**Aerodrome** (`aerodrome.ts`). *Hard:* locks run out and epochs turn between a
read, the plan and its execution. **Modelled**, except for the listings of pools
and locks by the Sugar contracts.

**Lending and savings** (`aave.ts`, `morpho.ts`, `sky.ts`, `lido.ts`). *Hard:*
interest and share prices move between a plan and its execution. **Modelled.**

**Reward claims and opportunities** (`claims.ts`, `merkl.ts`,
`opportunities.ts`). *Hard:* someone else claims, a drop runs dry, a Merkle tree
is replaced. **Claims are modelled**; the catalogue of opportunities and the
reads of buybacks are not.

**MCP server, tools, protocol facets** (`server.ts`, `protocols.ts`,
`mcp-catalog.ts`, `protocol-skills.ts`, `ui-actions.ts` and the schemas). Almost
all declarations. The `registerTool` wrapper, which stores plans before it
answers, is in `PlanHandoff`. **The rest is not modelled.**

**Transfers, restrictions, Safe** (`transfers.ts`, `token-restrictions.ts`,
`safe.ts`), **ABI data and registry** (`abi-decode.ts`, `contracts.ts`). Static
policies and encodings, with no state and no order of events. **Not modelled.**

## StonxSnapshot

A recommendation call loads the stored snapshot, judges it, joins the refresh a
fresh marker names or submits one, polls it, stores the result, clears the
marker, and answers. If anything fails it answers with the snapshot it first
read, provided that was usable, or that nothing is available.

An action is the code between two awaits; `pc[c]` names the await at which call
`c` is suspended. Two consequences matter. `began` is the single clock sample
that `isCurrent`, `isUsable` and the marker test all use, and the fallback
(`recommendations.ts:609`) is decided by it before the wait and used after. And
between `ReadMarker` and `WriteMarker` another call may do the same. Failures are
choices inside an action: `snapshot' \in {job[c], snapshot}` is a put that may
fail, `base' \in {snapshot, None}` a read that may. A snapshot is named by its
execution, with `at` its time of submission; rows are abstracted to whether
the parser accepts them. `Finish` (the provider) and `Tick` (the clock) are
external.

`stonx_snapshot` (two calls, 5,550,886 states) checks

- `OnlyGoodSnapshots`: whoever polled, and whatever put or delete was lost,
  only a completed execution with valid rows is kept or answered with;
- `AnswerWasUsable`: an answer was within seven days when the call looked;
- `NeverOlderThanRead`: an answer is no older than what the call first read.
  This is why a marker is stamped with the time *before* the submission, and
  why the marker's ten minutes must not exceed the refresh interval of a day.

`stonx_answers` (195,788 states; one execution may be submitted) checks

- `EveryCallAnswers` under `FairSpec`: weak fairness of each call's own steps
  (the runtime resumes a call whose I/O has ended) and of the clock. Nothing is
  assumed of the provider, which may never finish, nor of callers. `PollLost`
  has no fairness either: the call must return by its deadline and not thanks to
  an error;
- `KeepsServicePromise`: `StonxSnapshot` implements `SnapshotService`, in which
  a recommendation is one read, one judgement and one reply. What is offered are
  the executions that completed, each as of its submission; what is kept is the
  snapshot object; a call replies with something offered, usable and no older
  than what it read, or refuses if what it read was not usable. The markers, the
  joining, the polls and the waiting are stutters.

`stonx_stale_plan` is a disagreement with the documentation, see below.

*Bounds.* `MaxExec` = 2 executions: one joined and one superseding, with one
from an earlier day in the bucket. `RefreshAfter`, `MaxAge`, `Reuse`,
`MaxWait` = 1, 3, 1, 1 ticks keep the order of the code's one day, seven days,
ten minutes and twenty seconds, with the boundaries met exactly; `StartTime` = 2
and `MaxTime` = 5 let the old snapshot begin current, stale or absent and
become unusable. At the bound of executions the provider refuses submissions;
at the bound of the clock a deadline is cut to it. A call slot is used again
after `Return`, so there are more calls than slots. The slots are symmetric.

### Proofs

`StonxSnapshot_proofs` proves the type invariant and the three safety
properties for every set of calls, any `MaxExec` and any windows with
`Reuse <= RefreshAfter <= MaxAge` (`TimesAssumption`, which the code's
constants satisfy). None of the three is inductive: each speaks of calls that
have answered, and says nothing of what a suspended call is waiting for. `IInv`
adds

- `StoreInv`: the stored snapshot is of a completed execution, and a marker
  names an accepted execution submitted no earlier than its stamp;
- `CallInv(c)`: what a call past its check knows: its snapshot was stale when it
  looked, and the execution it waits for was submitted at most `Reuse` before
  that. Together they put the execution after the snapshot.

An execution's record only moves forward (`Kept`, lemma `ProviderStep`); so
calls that do not move keep what they know (`CallKept`, `OthersKept`), the
bucket keeps it (`StoreStep`), and a call that moves is one case per action
(`CallStep`). `Invariance` is the theorem, `TypeCorrect`,
`OnlyGoodSnapshotsHolds`, `AnswerWasUsableHolds` and `NeverOlderThanReadHolds`
follow from it.

`KeepsServicePromiseHolds` is the refinement for the same constants: an initial
state is one of `SnapshotService`, and each step is a step of it or a stutter.
The step where something happens in the service is the one in which a call is
answered: that the answer was on offer, usable and not older is what `IInv`
says of the call; a refusal is justified by what it read. What is offered
(`Offered`) only grows, and the phase of a call moves with the first await it
passes. Liveness is only model-checked.

## Recommendation

`Recommendation` is what happens to a snapshot afterwards: rows are checked
(`parseRows`), pairs resolved to pools of the directory, pools that cannot be
voted for pruned, candidates taken in rank order and the weight of the others
redistributed within caps, round by round. It is checked in `ve33_allocation`,
because what it recommends is what a reallocation is asked for:

- `TargetsExecutable`: a recommendation has no more targets than a reallocation
  takes, of different pools, with positive weights that sum to the whole; no
  target is below its row's weight or above its cap; none is recommended while a
  candidate of higher rank is left out; and there are none only if the caps
  cannot hold the whole. Redistribution in rounds is where this can fail: a
  row at its cap must neither take more nor stop the others.

*Bounds.* Snapshots of up to four rows, `MaxExecutable` 3, listings in which a
pair has no pool, one, or both kinds, both bases of recommendation. The rows of
a voter's optimal votes have no caps here.

## Admission

Every request draws one unit from the burst and the sustained budget of its
caller. A POST to an MCP route is then read, refused if it is too large or too
expensive, priced by the tools it names, and draws its price from the budgets
of units and of metered providers. A price of n is n calls of `limit()` issued
together: `pending[s][b]` counts those not yet answered, and `LimitAnswers`
and `LimitThrows` answer one at a time, in any order with those of other
requests. The counters lag behind (`README.md:924-932`), so an exhausted budget
may still grant. A failed draw is decided at once (`Promise.all` rejects), the
other calls are answered later, and the slot is free only after them.

`admission` (two requests of one caller, 2,127,503 states) checks

- `AdmittedPaid`: what reaches the handler was granted each unit of its price by
  every limiter that is configured and did not fail;
- `OutageNeverRefuses`: a limiter that throws never causes a refusal, not even
  when an earlier answer of the same draw was a no;
- `OnlyPaidCallsSpendMetered`: the invoiced budget is spent only by requests
  that name a paid tool and fit the ceilings.

`admission_polite` (two callers, 43,044 states) checks `PoliteCallerServed`
under `PoliteSpec`: the runtime answers and resumes each request, windows end
(`WF` of `NewWindow`), and a client told to wait comes back with the same
request (`WF` of `Retry`) instead of giving up. A caller has one request at a
time here. Two requests of one caller may each take half of a budget and refuse
each other in window after window; the code does not exclude it.

*Bounds.* `MaxUnits` 3 (40), `MaxBatch` 2 (20), `MaxBody` 8 units of 262,144
bytes; tools of cost 0, 1 and 2, the last metered; limits 1 and 3, so that one
request can exhaust each budget and a batch can cross the ceiling exactly or by
one. `Requests` has one request for each way through `fetch`.

### Proofs

`Admission_proofs` proves the type invariant and the three safety properties for
any set of callers, slots and requests, any budgets, limits and prices
(`BudgetsAssumption`, `PricesAssumption`), and any ceilings with
`MaxBatch <= MaxUnits`, as `rate-limit.ts` has them. `AdmittedPaid` is not
inductive: it speaks of a request that was let through, not of its draws while
they are answered one at a time. `IInv` says what each stage of a request knows:
whose draws are under way and that they belong to a call that was priced and
fits the ceilings (`DrawsInv`); that nothing is drawn before the price is known
(`UnpricedInv`); that, for a budget that neither refused nor failed, what was
granted and what is still to be answered add up to the price (`ToolsInv`); and
that a reply rests on answers that are all in (`ReplyInv`).
`OnlyPaidCallsSpendMetered` is an action property and follows from `DrawsInv` in
the state before the step. The price of a request is a sum over a sequence;
that it is a number comes from `SumType` of `DataTheorems`.

## VeToken

`Ve33Allocation` has the algorithms as functions of a cohort and its targets;
the greedy passes go over the NFTs in the order the code sorts them (recursive
functions of the place in that order), carrying the demand left and the chunks cut so far. `ve33_allocation` (380,373
states, `Recommendation` included) enumerates every cohort of up to `MaxNfts` = 3 NFTs of stake up to
`MaxAmount` = 5 and every list of up to `MaxTargets` = 3 targets whose weights
sum to `BpsTotal` = 7 (10,000 in the code). Seven divides few
stakes, so that remainders and ties occur; two targets share a pool and
differ in the fee, the case in which a vote *almost* matches. Each instance is
allocated, adopted and allocated again:

- `EveryUnitPlaced`: each NFT is cut into positive chunks for distinct targets
  that add up to it; each target receives exactly its apportioned stake;
- `FewPieces`: fewer NFTs come out than NFTs and targets together, which is what
  keeps a plan below 512 calls;
- `SettledStays`: allocating to the present targets splits nothing and moves no
  vote;
- `ApportionedFairly`: against the definition of largest remainders.

`Ve33Portfolio` is what the server accepts of an indexer's page: totals,
repeated and inconsistent rows, the pools that targets name. Its fault model is a
page that lost, repeated or garbled a row: it is refused, or what a plan is made
of is the portfolio.

`Ve33Plans` translates each preparer (vote, clear, stake, increase, split,
extend, merge, withdraw, claim, reallocate, reinvest) into the sequence of
contract calls it makes and what its details promise. `Ve33Token` is the
contract, which is not in the repository: each function does what the README,
the preparers' comments and the revert reasons in `onchain_validation` say of
it.

`Ve33Workflow` composes them. `nfts` is the ledger, `indexed` the indexer's view
of it, `reviewed` what the client was shown, `plan` what it holds. `Prepare` is
one disjunct per tool; `Execute` submits the batch, all or nothing, up to
`MaxRuns` times; `Move` is the owner acting elsewhere; fees accrue, the clock
ticks, and the indexer catches up (`Sync`) when it likes. The server is
stateless, so a `state_id` is modelled by the portfolio it is the hash of. The
code's hash also covers identifiers of indexed events and can tell apart
portfolios that are equal here: the model accepts some state the code
would refuse, so what holds of the model does not rest on that refusal.

`ve33_workflow` (1,021,172 states) checks

- `FreshPlanDelivers`: if the indexer told the whole portfolio and the reads that
  come with the plan pass (no vote's lock expired, no child's id taken), a plan
  does not revert and leaves exactly the stakes, ends and votes it promised,
  whatever fees have accrued;
- `FeesKept`: no batch discards fees of an NFT that voted when its plan was made;
- `StaleVoteStops`: if a reviewed vote has moved, was cleared or left the owner,
  a reallocation changes nothing at all: its claims are the guard;
- `SharesAsRequested`: what a reallocation promises each target is its
  apportioned share of the stake that voted, as the index had it.

*Bounds.* `BpsTotal` and `ShareTotal` 4, `MaxLock` 3, `MaxTime` 2 (locks of the
portfolios end at 1, 2 and 3), one plan (`MaxPlans`) submitted up to twice
(`MaxRuns`), one move elsewhere (`MaxMoves`), at most four NFTs (`MaxOwned`),
portfolios of two NFTs with equal and different ends and votes, three pools, of
which one is not initialized, five lists of targets, of which some are invalid.
`MaxCalls` is 7 and not 512, so that the limit on calls is met.

### Proofs

*Allocation and recommendation.* `Ve33Allocation_proofs` and
`MCVe33Allocation_proofs` prove all that `ve33_allocation` checks. The lemmas
about the passes are for any cohort, any targets whose weights sum to the whole
and any number of basis points (`DemandFair`, `AllocateCohortPlaces`,
`AllocateCohortStays`), those about recommendations for any rows that
`parseRows` accepts and any directory (`ProviderFacts`, `VoterFacts`). The
theorems of the specification then hold for any `MaxAmount`, `MaxNfts`,
`BpsTotal` and `MaxExecutable`; the three distinct targets and the listings are
those the module enumerates.

1. *Apportionment* (`ApportionFair`). The floors sum to at most the stake and fall
   short by fewer units than there are targets with a remainder; as many targets
   as there are units left have a rank below that number (`RankCounts`), so all
   of the stake is divided.
2. *Passes.* `Placed` holds after every NFT of every pass: for each target what
   was given and what is still demanded add up to what it was due, for each NFT
   what it was cut into and what remains add up to it, what remains of all NFTs
   is what is demanded by all targets, the chunks are positive and for distinct
   targets. Distinctness rests on a chunk exhausting its NFT or its target
   (`CutKeeps`). For the same reason the chunks, the NFTs uncut and the targets
   unserved are never more than the NFTs and targets together. Each turn of the
   third pass but the last exhausts a target, so a turn for each target is enough
   (`SplitOverKeeps`), and as what remains is what is demanded, NFTs and targets
   are used up together.
3. *What is recommended.* Each round of redistribution keeps every weight between
   its row's and its cap and gives what it takes from the leftover; a leftover
   that is not zero leaves a row below its cap, because the room was enough to
   begin with, and each round takes at least one basis point of it
   (`RedistributeFacts`). So a recommendation fails only if the caps cannot hold
   the whole.
4. *What stays.* Of a cohort that serves its targets what they are due (`Served`),
   the stake voting for a target and not yet kept never exceeds its demand; so
   the first pass finds room for each NFT whatever came before (`RoomToStay`),
   keeps it whole, and leaves the other two passes nothing to do.

The inductive invariant `AllocationInv` (checked by TLC on the run's instance
too) says that the NFTs have ids of their own, the targets are distinct and weigh
the whole, the chunks in hand are what the passes made of *this* cohort and these
targets, the targets are what was recommended once there is a basis, and a cohort
that has adopted a plan serves its targets. The last part is what `SettledStays`
needs and does not say: a single NFT that matches its target may be split, if the
target was given more than its due; `AdoptServes` shows that it was not, because
the pieces of each NFT sum to it and each target received its demand.

*Workflow.* `Ve33Workflow_proofs` proves the type invariant, `FeesKept`,
`StaleVoteStops` and `SharesAsRequested` for any portfolios and target lists of
the right shape (`PortfoliosAssumption`, `TargetsAssumption`), any pools, votes
and bounds. None of the code's validation of targets is assumed: a plan the
preparers do not refuse is a safe one, valid or not, and a reallocation that is
not refused has valid targets.

The argument has four parts.

1. *Portfolios.* `LoadIsHonest`: of everything the faulty indexer may answer,
   `loadVe33Portfolio` accepts only what is the portfolio as it was indexed. A
   page with one row too few has the wrong count; one that repeats a row has two
   rows of one id; every garbled row contradicts itself. These are the faults that
   the checks can detect: a wrong row that agrees with itself is not among them,
   and no check of a page could find it. So a reallocation, which
   loads the portfolio again and compares, is made of what the indexer knows at
   that moment. `LoadVotesType` is what the claim-everything tool gets by with.
2. *Plans.* `SafeAfter(calls, base, kept)`: every call that changes a vote or
   burns an NFT without claiming (`Loses`) is about an NFT that did not vote in
   `base`, or that an earlier call has claimed or made. One lemma per preparer
   (`VoteSafe`, `MergeSafe`, `PreserveSafe`, `CompactSafe` and so on) shows that
   its plan is safe (`SafePlan`), and `ReallocationSafe` besides that a
   reallocation is safe *and* has a claim of every active vote with nothing but
   claims before it (`ClaimsAll`). Behind these are the types of everything that
   goes into a plan: that a set of NFTs sorted by id has each once, that the
   greedy passes cut NFTs of the cohort into chunks for targets there are.
3. *Ledgers.* `CallEffect`: what each contract function does to fees and votes.
   No call makes fees or votes but those it is for; it loses fees only if it is
   one that `Loses`, of its own NFT; a claim fails where the vote is not the one
   it names. Along a batch (`Course`) it follows that an NFT once claimed or made
   has no fees until the end (`BatchKeepsFees`), and that with `ClaimsAll` a vote
   that is not where it was reverts the batch, whatever the claims before it did
   to others (`BatchStops`).

4. *Shares.* What a promise gives a vote (`Given`) is a sum over ids; what the
   pieces give it is a sum over their sequence (`SeqSum`), and a piece's id is that
   of its NFT if it is the one retained, else a new one. The sums agree if no two
   pieces have one id (`PromisedSum`, `PiecesApart`): one piece of each NFT stays
   at most, and the new ones are numbered by the new ones before them. Along the
   cohorts, and in a cohort along its NFTs, sums and this uniqueness carry over
   (`FlattenSum`, `FlattenOnce`); of one cohort `AllocateCohortPlaces` says that
   each target got what it was due (`CohortShares`). A cohort is named by its set
   of NFTs, different for different lock ends (`CohortsOf`). So `PreserveShares`
   and `CompactShares`, and `GivesShares` of whatever is handed out.

`SharesAsRequested` is proved where `IdsApart` holds: no NFT of the portfolio has
the id the plan gives a new one. The code derives these ids by hashing random salts and
takes them to be new; with a collision two pieces would share an id and the promise
would say less than the plan. In the model ids of new NFTs are numbers that a
portfolio may hold in principle, so the theorem says so; in the run none does.

The inductive invariant `Inv` (checked by TLC on the run's instance before it was
proved) connects them: the ledger and what the indexer, the client and the plan
in hand know have their types, and the plan in hand is safe and, if a
reallocation, claims all and gives each target its share. It is needed because `FeesKept` says what a plan would
do *now*, on a ledger that has moved since the plan was made, and nothing of why.
The world's steps leave the plan alone and keep the types; `Review` and each
`Prepare` are where honesty of pages and safety of plans come in.

Of the contract only what `Ve33Token` says is used, and of the id of a new NFT
that it is a number.

## Plans and their handoff

`ExecutionPlan` has `executionPlanFromSteps` and, for each tool that approves a
token, the plan it builds. A step is an approval of a token for a spender, or a
call that names its contract and the least and most it takes of each token.
Two amounts are enough, `Quoted` < `Bound`: what a provider quotes and the limit
after slippage. `SwapQuotes` has what each adapter lets through for an intent
and an allowance, and `prepareCandidate`.

`PlanHandoff` composes them. A call asks its sources (`AskQuotes`), each answers
or fails in its own time against the allowance of that moment (`Settle`),
`CollectQuotes` waits for all and keeps the fulfilled, `StoreArtifact` puts one
plan at a time, `StoreFails` fails the answer while other puts are still under
way, `Respond` hands out the references, and the wallet takes up one plan of an
answer (`Fetch`), to find it or to be told 404. `ExecuteAtomic` is a batch;
`ExecuteStep` is one transaction of a plan without `atomic_batch`, between which
anything else may happen. `Grant` is the interface granting an unlimited
allowance. Of the chain only the sender's allowances are kept; a guarded token
(`TOKENS_REQUIRING_ALLOWANCE_RESET`) reverts an approval over a nonzero one.

`plan_handoff` (two calls, 699,200 states) checks

- `AtomicNeverCollides`: no atomic plan stops at the approve guard of a token,
  whatever others have left since it was built;
- `ApprovingPlanIsFunded`: an atomic plan that approves covers what its call
  may take, up to the limit, although its quote saw other allowances;
- `AtomicReturnsAllowance`: it leaves none behind, but for Across bridges and
  TWAMM orders, which have no cleanup;
- `StandingAllowanceKept`: a plan that rests on an allowance granted elsewhere
  does not revoke it;
- `FailureSparesOtherSources`: a call finds no quote only if every source failed,
  and each quote with calldata comes back with a reference to its own plan;
- `MissMeansExpired`: a 404 means that the window has ended.

The run assumes of 0x that an exact-output quote states its `maxSellAmount`. Across
may say of a token that it needs no approval, truly or not. A plan
that approves nothing because an allowance stood may find it gone: it reverts,
and no property says otherwise.

*Bounds.* `Quoted`, `Bound`, `Unlimited` = 1, 2, 3; a guarded token, a plain one
and the native one; one call over every intent and the plan of every tool,
the other over those that touch the same allowances; `TTL` 0 and `MaxTime` 1, so
that a reference expires one tick after its upload; `MaxBodies` 3, the most
quotes an intent has; `Standing` one pair. Every source has its key
(`Configured`).

### Proofs

Everything `plan_handoff` checks is proved for any calls and intents, any answers
of the sources, any tokens, spenders and allowances, any `0 < Quoted < Bound <
Unlimited`, window and clock.

*Plans on any allowances.* `ResetsSuffice`: for any list
of steps `withAllowanceResets` keeps every transaction, adds only approvals of
zero, and leaves no approval of an amount of a guarded token without one right
before it. So a batch does not collide, whatever stands. That it is funded and
cleans up cannot be seen from one step. Three runs are compared of
the same transactions: the one at hand, and those of a sender *without*
allowances whose calls take the most and the least they may. From the first
approval of a pair on, its allowance at hand lies between the other two
(`Between`, `BetweenStep`); so a plan that covers itself on a clean sender when
calls take the most, and cleans up when they take the least, does both on any
sender (`SelfContainedAnywhere`). `CandidatePlansGood` is that every plan
`prepareCandidate` makes of any answer of any source is such a plan (`GoodPlan`).
For the plans of the other tools it is an assumption on the constant
(`ActionPlansAssumption`), which TLC evaluates on the plan of every tool;
`NamesAssumption` says that intents and sources name tokens and spenders there
are.

*From the builder to the wallet.* `PlansInv` is inductive: what a call holds at
each stage (`CallHolds`), that an object is the plan of the call it is named
after (`ObjectHolds`), and that a wallet carries a good plan which, if atomic,
has met no guard, was funded and left what no builder cleans up (`WalletHolds`).
The allowance properties speak of a wallet that has finished and say nothing of
the plan on its way there, which is why all of it is needed. From it follow
`TypeCorrect`, `AtomicNeverCollidesHolds`, `ApprovingPlanIsFundedHolds`,
`AtomicReturnsAllowanceHolds`, and, as properties of steps,
`StandingAllowanceKeptHolds` and `FailureSparesOtherSourcesHolds`.

*References.* `MissMeansExpired` speaks of the moment a wallet fetches.
`HandoffInv` adds that every plan of an *answered* call is in the bucket, which
is what `Promise.all` before the response gives; `ObjectsStay` that no step
removes or changes an object. A step of the wallet or the chain keeps it because
it touches neither bucket nor clock (`WalletKeeps`); a step of the server because
objects stay (`MissesStay`); `Fetch` is the one case where something is looked
up.

## Protocol sessions

The other protocols' tools read, build a plan and forget it. `WalletSession` is
what they have in common: `chain` is the protocol's ledger, `view` what the
server's index or RPC node last reported of it, `plan` what the client holds
with its calls and what its details promise; `Prepared`, `Submitted` (one atomic
batch), `Synced` and `Moved` are the shapes of the actions. Each module has the
preparers as functions from a request and a view to a plan or `Refused`, the
contracts (external) as `Apply(ledger, call)`, and properties that compare
`Outcome`, what the plan in hand would do now, with what it promised. Because
`Outcome` is looked at in every state, a property speaks of every moment a
wallet may choose.

A behaviour of `protocols` (587,155 states) follows one `part`; the parts share
nothing, so their state spaces add up instead of multiplying.

- `Liquidity`. `DepositDelivers`: a deposit succeeds at every price within its
  slippage, not only at the two ends its minimum was computed at, also when
  someone else initializes the pool first, and leaves no native value behind.
  `PayoutDelivers`: if each position passes its own check, the batch takes what
  was asked, pays all earnings, those not yet accumulated included, and touches
  nothing else, whatever became of the positions since; a request that names a
  position twice is refused. `ReadSeesWhatIsPaid`: the pending read reports what a claim would pay at that moment.
- `PoolIndex`. `MissNeedsRemoval`: a lookup by pages misses a position only if
  another one left meanwhile. `ListingComplete`: a listing by cursor over a
  cache that lags has each pool known at its start, once, in order.
- `Aerodrome`. `AerodromeDelivers`: a plan whose reads pass when it is executed
  fails exactly if a refusal is foreseen, and else does what it says, to the
  account it says; locks end in the future and less than a week short of what
  was asked, whenever within a week the plan is executed. What the reads ask is
  an operator for each tool (`AddReads` to `ClaimReads`), taken from the
  instruction and the details of its plan and asking no more than they do.
  `Foreseen` lists the rest, each at its line: the deadline of the call, the
  errors it decodes (a lock that has ended or is permanent), the distribute
  window, and the two places where the reads and the code around them disagree
  (below). Both directions are checked: a lock plan fails for no other reason,
  and for each of these.
- `Orders`. `OrderSellsOnce`: up to its deadline a plan for orders sells
  everything unless it, or one equal to it, was executed before; then it sells
  nothing twice. `Settles`: stopping and collecting pay what has been sold and
  what is left, and an auction is completed once, whoever initialized the
  graduation pool.
- `Rewards`. `RewardsDeliver`: of several incentive claims each is paid that can
  be, whichever others fail, and none twice; a Merkl claim brings the total to
  what the live tree says, or pays nothing when the tree has moved on.
- `Savings`. `SavingsDeliver`: whatever interest accrues, the maximum repays or
  withdraws everything and an exact amount no more than it says; a bounded
  deposit is executed at no higher price and no later than agreed; exits take
  exactly the shares or pay exactly the amount.
- `SwapProtection`. `SwapDelivers`: whatever prices did between the quotes of a
  call and before the execution, a swap that succeeds loses no more than its
  tolerance or its budget, measured from the quote that was handed out, and is
  not late; one whose price has held, or moved within an Ekubo budget, succeeds;
  a comparison that calls itself complete has every source's answer and ranks
  exact inputs by what remains after fees; the swaps of a reinvestment use each
  claimed fee once.
- `AtRest`, the type invariant of every part. The ledgers of Aerodrome, savings
  and swaps keep allowances, and there none stands between two batches except
  what an exact output of Across leaves, which has no cleanup
  (`core.ts:760-762`). The liquidity, order and reward ledgers keep none, so it
  says nothing of TWAMM orders; nor of boosts and price corrections, which are
  in no part. What those leave is in `AtomicReturnsAllowance` and
  `handoff_allowance_claim`.

*Proofs.* `Protocols_proofs` proves `MissNeedsRemoval`, `ListingComplete`,
`SavingsDeliver` and `RewardsDeliver` of `Protocols` for any page size, pools,
amounts, prices, ledgers, claims, trees and number of steps. The hypotheses are
`ReadingAssumption` (a page holds something, pool ids are above 0 and finitely
many), `SavingsAssumption` (the first ledgers have their type and no allowance,
amounts are natural numbers, a revert is not a ledger) and `RewardsAssumption`
(there is a tree, each says a natural number of every token, a claim is known by
its id, and a bundle of reads has an even size, as the 128 of `claims.ts:146`); TLC
evaluates all three in `MCProtocols`. `Invariance` has an inductive invariant for
each of the three parts.

That of the index says what the properties leave out, where a loop is half way.
Of a lookup: while it pages, a position that was there and has not been overtaken
by a removal is at an index beyond the pages read (`Ahead`); an insertion moves a
row up or not at all, and a page without the position that claims to be the last
would have to hold fewer rows than there are (`PagesReach`). Of a listing: all
that is known and at or below the cursor has been seen, in order; every page, of
the pools or the cache, has what lies between the old cursor and the new one
(`AfterFacts`), and both contain what was known because the cache is only ever
refilled with more.

That of the savings, `SavingsInv`, is that the ledger has its type and is at
rest, and that the plan in hand is one a tool prepared. Nothing is said of the
price, the debts or the queue the plan was prepared at, because all of them move
before it is executed; `SavingsDeliver` is therefore proved of every ledger at
rest and every plan, and the invariant is what makes it one of those. A batch is
a course of ledgers, one after each call (`SavingsCourse`); a `Funded` plan,
approve, act, take back, reverts as a whole when its act does and else leaves
what the act left, with no allowance. One lemma for each plan then says what its
act does at any price: `SupplyDelivers` to `QueueClaimDelivers`. Where prices
round, as when a bounded deposit gets no fewer shares than its maximum price
stands for, the lemmas rest on what integer division is.

That of the rewards, `RewardsInv`, is that the plan in hand is one a tool prepared
and that what the distributor has paid of a token, to all payees together, is
what was claimed of it. Without the second half `RewardsDeliver` could not speak
of totals: a claim pays the difference to what was *claimed*, and the payee may
have changed between two claims. It says nothing of the claims or of the tree the
plan was prepared at; others claim, and the tree changes, before it is executed.
The claims of an aggregate are a course of attempts: after the first `k`,
`ClaimsTried` says of each that it is done or its drop cannot pay it, and that the
wallet got what those newly done are worth, each counted once because a claim is
known by its id (`ClaimTried` adds the next one to the sum). The rewards of a Merkl
claim are a course as well (`MerklPaid`), in which no reward disturbs another
because the builder lets each token in once. `LiveRoot` is why a plan pays by the
live tree or not at all: a derived root is the live one only of the live amount.
The two reads of a claim are in one bundle because they stand at an odd place and
the next one, and the size is even (`PairsBundle`, `ReadsTogether`).

*Assumed of the contracts.* Each `Apply` is written from how the code calls the
contract and what its comments, tests and reads say of it; a contract may refuse
more than that. The escrow, for one, unlocks a permanent lock whether it has voted
or not, because nothing in the code says otherwise. Of 0x the model
assumes that a swap's calldata enforces the minimum that its quote states. What
the indexers report is some earlier state of the ledger.

*Bounds.* One plan in hand is enough where plans do not meet; orders have three
(one equal to an earlier one, then a stop or collection), rewards and savings
two. Each is submitted once (`MaxRuns`), except that an equal plan may be
prepared again, with one or two events elsewhere (`MaxMoves`) in between.
Amounts and prices are a few units, chosen so that shares do not divide and
minimums are met exactly: liquidity has prices 1 to 8 around bounds 0 to 4, with
a slippage of 5/4, which spans several prices; swaps have rates 1 to 3, a basis
point of 3 and a ppm of 8, minimums up to 3 below 0x's output, and a deadline at
every tick from 0 to past the limit. The index has five rows in pages of two, so
that a row can move over two pages, with three changes. Aerodrome's week is 3,
its longest lock 7, its clock 8: two epochs turn; the distribute window
(`Window`) is the first tick of each. The escrow has one slot for a new lock. The order grid has base 4
where the code has 16, times up to 256, and clocks at which a time is on the
coarse grid, the fine one or neither.

## Disagreements between documentation and code

Each is a run that ends in a violation, and an entry of `findings`.

| run | documentation | code |
|---|---|---|
| `stonx_stale_plan` | `README.md:658-662`: a snapshot older than a day is refreshed and no plan is returned if that fails | `recommendations.ts:609`: a failed refresh answers with a snapshot of up to seven days |
| `admission_error_body` | `README.md:951-955`: a 429 to one identified call carries a JSON-RPC error, with scope burst among others | `index.ts:46`: burst and sustained are refused before the body is read |
| `ve33_bare_extend` | `README.md:628`, `690-693`: extending always claims first | `ve33.ts:581`: without a pool key it does not, and a vote placed since loses its fees |
| `handoff_allowance_claim` | `allowance-reset.ts:7-8`: every plan ends by returning the allowance to zero | `ui-actions.ts:372`, `fix-price.ts:335`: a boost or price correction does not |

Met while modelling and not kept as runs: `prepare_aerodrome_vote` requires
`gauge_alive` to be true and asks `isAlive` about the *pool* (`aerodrome.ts:1340`),
where the parameter is a gauge (`:88`) and the deposit into a gauge passes one
(`:915`, `:1015`), so that the reads pass for no vote, a good one included.
`AerodromeDelivers` checks that of `GaugeReadsAsSent`, and judges votes by
`GaugeReadsAsMeant`. A withdrawal of a lock asks only that it has not voted *this*
epoch (`:1233-1236`), while a vote says that the lock cannot be withdrawn until it
is reset (`:1366`): the model follows the latter, and `Foreseen` has the lock whose
vote is of an earlier epoch. The reset that `:1236` advises for a vote of the
current epoch reverts in that epoch (`:1371`). Further, the body cap is 262,144 bytes in
`README.md:943` and 2 MiB in `rate-limit.ts:56`; a test named "reuses an
already-running refresh instead of submitting another"
(`test/recommendations.test.ts:314`) holds once the marker is written, but two
calls that read the bucket before either writes it submit two; and an older
execution that ends last overwrites a newer snapshot in the bucket. The
comparison of exact-output quotes with native output calls itself complete while
its basis, the lowest input, leaves the native fee out, although its
instruction says to net it (`core.ts:1001-1023`); native output on another chain
is netted against the fee of the origin; and `retry_recommended` is never true,
because `collectQuotes` throws when there is no candidate. The `stake_all` phase
of `prepare_ve33_reinvest`, with a native stake token and more than one vote,
ends in an internal error of the plan's builder (`ve33.ts:3299`), no matter what
the caller does; the model refuses it.

## What is only model-checked, and why

- *Liveness* (`EveryCallAnswers`, `PoliteCallerServed`): out of the prover's
  reach.
- `FreshPlanDelivers`: that the contract makes of a plan what it promised. That
  the promise is what was asked for is proved.
- Of the run `protocols`: `AtRest`, `DepositDelivers`, `PayoutDelivers`,
  `ReadSeesWhatIsPaid`, `AerodromeDelivers`, `OrderSellsOnce`, `Settles` and
  `SwapDelivers`: not proved. What `AtRest` says of the ledgers of savings and
  rewards is in `SavingsInv` and `RewardsInv`.

Induction over data is within reach in a first-order form. The library's
induction theorems take an operator as a parameter and cannot be instantiated;
`DataTheorems` derives from the library's well-founded induction
(`NatLessThanWellFounded`, `WFMin`) a rule about a *set* of naturals, and from
that rule that a recursive function or a fold exists and that each value keeps
what the step keeps. Every recursive definition that is proved about is
unfolded through these lemmas. The library's sort is a `CHOOSE` over all
sequences, of which nothing can be computed without permutations; `Sorted` places
each element by the number of those before it, which is as good and can be
reasoned about (`Places`, `PlacesInOrder`).

## Not modelled

- Tool registration, schemas, catalogues, skills and protocol facets: no state,
  and a test reaches every one of them.
- Plans of a single step without an allowance (transfers), static policies
  (token restrictions), Safe payloads, ABI encodings and registries.
- Arithmetic on ticks, square-root prices and 128-bit fixed-point numbers, and
  floating-point figures (efficiency, a voter's optimal votes): data here, or
  any value.
- Reads that only report: pool statistics, opportunities, buybacks, Sugar
  listings, the status of a transfer, Uniswap's pools.
- The shared LayerZero chain list: one promise per isolate, replaced when it
  fails.
- The recipient of a VeToken claim, the derivation of a caller's identity, the
  digests and encodings of artifacts, the query that runs at the provider.

## Plan

What is left is to prove. In this order:

1. `FreshPlanDelivers`, tool by tool: the ledger after the last call of a plan is
   what was promised.
2. The other parts of `Protocols`, the way the savings part is proved: a ledger at
   rest, a course of ledgers, a lemma for each plan. `PayoutDelivers` and
   `AerodromeDelivers` first. Orders sum over sequences of calls, as rewards do,
   and need the sums of `DataTheorems` besides.

The runs stay the twelve there are. A module for the LayerZero list or for the
claims' recipients would be the next to model.
