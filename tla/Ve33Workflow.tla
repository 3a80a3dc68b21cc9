----------------------------- MODULE Ve33Workflow -----------------------------
(***************************************************************************)
(* The VeToken workflow of README.md:603-689 over a ledger that moves: an  *)
(* owner's NFTs are indexed, reviewed, a plan is prepared from the review, *)
(* and the wallet executes it as one batch - while fees accrue, locks run  *)
(* out and the owner uses the same NFTs elsewhere.  The server keeps no    *)
(* state between the calls: a review is the state_id the client passes     *)
(* back, modelled by the portfolio it is the hash of.  The indexer may     *)
(* answer with a page that is not what it knows.                           *)
(***************************************************************************)
EXTENDS Ve33Plans

CONSTANTS
    Reverted,
    Portfolios,     \* the NFTs the owner may start with
    TargetLists,    \* the target allocations that may be asked for
    Pools,          \* the pools of the directory
    Initialized,    \* those that may be voted for
    Tools,          \* the preparers in play
    Votes,          \* the votes the owner may place elsewhere
    MaxTime,        \* bound: the block time stops here
    MaxMoves,       \* bound: what the owner does elsewhere
    MaxPlans,       \* bound: plans prepared, each with a salt nonce of its own
    MaxRuns         \* bound: how often one plan is submitted

ASSUME PortfoliosAssumption ==
    \A p \in Portfolios :
        /\ IsFiniteSet(DOMAIN p) /\ DOMAIN p \subseteq Nat
        /\ p \in [DOMAIN p -> [amount : Nat \ {0}, end : Nat, vote : Votes \cup {NoVote}]]

ASSUME TargetsAssumption ==
    \A targets \in TargetLists : targets \in Seq([pool : Pools, fee : Nat, weight : Nat])

ASSUME BoundsAssumption == {MaxTime, MaxMoves, MaxPlans, MaxRuns} \subseteq Nat

Chain == INSTANCE Ve33Token

VARIABLES
    nfts,           \* the NFTs that exist: [id |-> [mine, amount, end, vote, pending]]
    now,            \* the block time
    lost,           \* NFTs whose unclaimed fees a batch discarded
    indexed,        \* the indexer's view of the portfolio
    reviewed,       \* the portfolio the client has reviewed
    plan,           \* the plan in the client's hands, and what it was based on
    plans,          \* plans prepared so far
    runs,           \* how often the plan in hand was submitted
    moves           \* what the owner has done elsewhere

vars == <<nfts, now, lost, indexed, reviewed, plan, plans, runs, moves>>
client == <<reviewed, plan, plans, runs>>

NoPlan == [tool |-> "none", calls |-> <<>>, promise |-> NoPromise,
           base |-> NoPromise, known |-> NoPromise, targets |-> <<>>]

\* What loadVe33Portfolio reports of the ledger: unclaimed fees are not in it.
Portfolio(s) ==
    [id \in {k \in DOMAIN s : s[k].mine} |->
        [amount |-> s[id].amount, end |-> s[id].end, vote |-> s[id].vote]]

Ledger == [nfts |-> nfts, now |-> now, lost |-> lost]

Nft(portfolio, id) ==
    [id |-> id, amount |-> portfolio[id].amount, end |-> portfolio[id].end,
     vote |-> portfolio[id].vote]

Init ==
    /\ now = 0 /\ lost = {} /\ plan = NoPlan /\ plans = 0 /\ runs = 0 /\ moves = 0
    /\ \E p \in Portfolios :
          /\ nfts = [id \in DOMAIN p |->
                        [mine |-> TRUE, amount |-> p[id].amount, end |-> p[id].end,
                         vote |-> p[id].vote, pending |-> p[id].vote # NoVote]]
          /\ indexed = p /\ reviewed = p

------------------------------------------------------------------------------
(***************************************************************************)
(* The client and the server                                               *)
(***************************************************************************)

\* get_ve33_allocations
Review ==
    /\ \E page \in Pages(indexed) : Load(page) # Refused /\ reviewed' = Load(page)
    /\ UNCHANGED <<nfts, now, lost, indexed, plan, plans, runs, moves>>

Prepared(p, base, targets) ==
    /\ p # Refused
    /\ plan' = [tool |-> p.tool, calls |-> p.calls, promise |-> p.promise,
                base |-> base, known |-> indexed, targets |-> targets]
    /\ plans' = plans + 1 /\ runs' = 0
    /\ UNCHANGED <<nfts, now, lost, indexed, reviewed, moves>>

\* ve33_state_changed: the portfolio, loaded again, must be the one reviewed.
SameState(portfolio) == portfolio # Refused /\ portfolio = reviewed

PrepareReallocation ==
    \E page \in Pages(indexed), targets \in TargetLists, catalog \in Catalogs(Pools, Initialized) :
        /\ SameState(Load(page))
        /\ Resolves(targets, catalog)
        /\ \E strategy \in Tools \cap {"preserve", "compact"} :
              Prepared(PlanReallocation(strategy, reviewed, targets, plans + 1, now), reviewed, targets)

PrepareStakeAll ==
    /\ "stake_all" \in Tools
    /\ \E page \in Pages(indexed), amount \in {2, 3}, native \in BOOLEAN :
          /\ SameState(Load(page))
          /\ Prepared(PlanStakeAll(reviewed, amount, native, now), reviewed, <<>>)

\* prepareAllVe33FeeClaims, and phase=claim of prepareVe33Reinvest: it discovers the
\* votes itself.
PrepareClaims ==
    /\ "claims" \in Tools
    /\ \E page \in Pages(indexed) :
          LoadVotes(page) # Refused /\ Prepared(PlanClaims(LoadVotes(page)), LoadVotes(page), <<>>)

\* The other preparers are given what the client reviewed and compare nothing.
PrepareVote ==
    /\ "vote" \in Tools
    /\ \E id \in DOMAIN reviewed, targets \in TargetLists, unallocated \in 0..1 :
          /\ reviewed[id].vote # NoVote
          /\ Total([i \in DOMAIN targets |-> targets[i].weight]) + unallocated = ShareTotal
          /\ \A i, k \in DOMAIN targets : targets[i].pool = targets[k].pool => i = k
          /\ Prepared(PlanVote(Nft(reviewed, id), targets, unallocated, plans + 1), reviewed, targets)

PrepareExtend ==
    /\ "extend" \in Tools
    /\ \E id \in DOMAIN reviewed, duration \in {1, MaxLock} :
          Prepared(PlanExtend(Nft(reviewed, id), duration), reviewed, <<>>)

PrepareSplit ==
    /\ "split" \in Tools
    /\ \E id \in DOMAIN reviewed : \E amount \in 1..(reviewed[id].amount - 1) :
          Prepared(PlanSplit(Nft(reviewed, id), amount, plans + 1), reviewed, <<>>)

PrepareStake ==
    /\ "stake" \in Tools
    /\ \E duration \in {1, MaxLock} : Prepared(PlanStake(1, duration, plans + 1), reviewed, <<>>)

PrepareIncrease ==
    /\ "increase" \in Tools
    /\ \E id \in DOMAIN reviewed : Prepared(PlanIncrease(Nft(reviewed, id), 1), reviewed, <<>>)

PrepareClaim ==
    /\ "claim" \in Tools
    /\ \E ns \in SUBSET Active(reviewed) : ns # {} /\ Prepared(PlanClaim(ns), reviewed, <<>>)

PrepareWithdraw ==
    /\ "withdraw" \in Tools
    /\ \E id \in DOMAIN reviewed : Prepared(PlanWithdraw(Nft(reviewed, id)), reviewed, <<>>)

PrepareClear ==
    /\ "clear" \in Tools
    /\ \E ns \in SUBSET Active(reviewed) : ns # {} /\ Prepared(PlanClear(ns), reviewed, <<>>)

PrepareMerge ==
    /\ "merge" \in Tools
    /\ \E id \in DOMAIN reviewed, ids \in SUBSET DOMAIN reviewed :
       \E vote \in Votes \cup {NoVote, Keep} :
          /\ ids # {} /\ id \notin ids
          /\ Prepared(PlanMerge(Nft(reviewed, id), NftsOf(reviewed, ids), vote), reviewed, <<>>)

Prepare ==
    /\ plans < MaxPlans
    /\ \/ PrepareReallocation \/ PrepareStakeAll \/ PrepareVote \/ PrepareExtend
       \/ PrepareWithdraw \/ PrepareClear \/ PrepareMerge \/ PrepareClaims
       \/ PrepareClaim \/ PrepareSplit \/ PrepareStake \/ PrepareIncrease

\* The wallet submits the plan it was handed, as often as it is asked to.
Outcome == Chain!Batch(Ledger, plan.calls)

Execute ==
    /\ plan # NoPlan
    /\ runs < MaxRuns /\ runs' = runs + 1
    /\ LET after == Outcome IN
       IF after = Reverted THEN UNCHANGED <<nfts, lost>>
       ELSE nfts' = after.nfts /\ lost' = after.lost
    /\ UNCHANGED <<now, indexed, reviewed, plan, plans, moves>>

------------------------------------------------------------------------------
(***************************************************************************)
(* The world                                                               *)
(***************************************************************************)
Sync ==
    /\ indexed' = Portfolio(nfts)
    /\ UNCHANGED <<nfts, now, lost, client, moves>>

Accrue ==
    /\ \E id \in DOMAIN nfts :
          /\ nfts[id].vote # NoVote
          /\ nfts' = [nfts EXCEPT ![id].pending = TRUE]
    /\ UNCHANGED <<now, lost, indexed, client, moves>>

Tick ==
    /\ now < MaxTime
    /\ now' = now + 1
    /\ UNCHANGED <<nfts, lost, indexed, client, moves>>

\* The owner, elsewhere: claims and votes, clears, transfers, adds or splits.
Elsewhere(calls) ==
    LET t == Chain!Batch(Ledger, calls) IN
    /\ t # Reverted
    /\ nfts' = t.nfts

Move ==
    /\ moves < MaxMoves
    /\ moves' = moves + 1
    /\ \E id \in DOMAIN nfts :
          LET claim == IF nfts[id].vote = NoVote THEN <<>>
                       ELSE <<ClaimCall([id |-> id, vote |-> nfts[id].vote])>> IN
          \/ \E v \in Votes : Elsewhere(claim \o <<[op |-> "vote", id |-> id, vote |-> v]>>)
          \/ Elsewhere(claim \o <<ClearCall(id)>>)
          \/ Elsewhere(<<SplitCall(id, 1, 1000 + moves)>>)
          \/ Elsewhere(<<[op |-> "increase", id |-> id, amount |-> 1]>>)
          \/ nfts[id].mine /\ nfts' = [nfts EXCEPT ![id].mine = FALSE]
    /\ UNCHANGED <<now, lost, indexed, client>>

Next == Review \/ Prepare \/ Execute \/ Sync \/ Accrue \/ Tick \/ Move

Spec == Init /\ [][Next]_vars

------------------------------------------------------------------------------
(***************************************************************************)
(* Properties                                                              *)
(***************************************************************************)
Nfts == [mine : BOOLEAN, amount : Nat \ {0}, end : Nat, pending : BOOLEAN,
         vote : Votes \cup {NoVote} \cup {VoteOf(t) : t \in UNION {ToSet(l) : l \in TargetLists}}]

\* Every variable has its type, and a plan has at least one call.
TypeOK ==
    /\ \A id \in DOMAIN nfts : id \in Nat /\ nfts[id] \in Nfts
    /\ now \in 0..MaxTime /\ lost \subseteq Nat
    /\ \A p \in {indexed, reviewed, plan.base} : \A id \in DOMAIN p :
          id \in Nat /\ p[id].amount \in Nat \ {0}
    /\ plan = NoPlan \/ plan.calls # <<>>
    /\ plans \in 0..MaxPlans /\ runs \in 0..MaxRuns /\ moves \in 0..MaxMoves

\* The reads of portfolioOnchainValidation: balanceOf, and the owner, the stake and the
\* vote of every NFT of the portfolio a plan was made from.
ReadsPass(base) ==
    /\ Cardinality({id \in DOMAIN nfts : nfts[id].mine}) = Cardinality(DOMAIN base)
    /\ \A id \in DOMAIN base :
          /\ id \in DOMAIN nfts /\ nfts[id].mine
          /\ nfts[id].amount = base[id].amount /\ nfts[id].end = base[id].end
          /\ nfts[id].vote = base[id].vote

\* The tools that plan for the whole portfolio, and carry its reads.
WholePortfolio == {"preserve", "compact", "stake_all"}

\* A plan that nothing speaks against: its reads pass, or if it has none, the NFTs it
\* promises something of are as they were reviewed; no lock of them has run out, no NFT
\* has the id of a new one, and a vote of its own choosing names initialized pools.
Fresh ==
    LET named == DOMAIN plan.promise \cap DOMAIN plan.base IN
    /\ IF plan.tool \in WholePortfolio THEN ReadsPass(plan.base)
       ELSE \A id \in named : id \in DOMAIN Portfolio(nfts) /\ Portfolio(nfts)[id] = plan.base[id]
    /\ \A id \in named : nfts[id].end > now
    /\ \A n \in Active(plan.base) : plan.tool \in WholePortfolio => n.end > now
    /\ \A c \in ToSet(plan.calls) : c.op \in {"split", "stake"} => c.child \notin DOMAIN nfts
    /\ \A c \in ToSet(plan.calls) : plan.tool = "vote" /\ c.op = "vote" => c.vote.pool \in Initialized

\* A plan that nothing speaks against does not revert, and leaves exactly the stakes, the
\* votes and the lock ends its details promise, whatever fees have accrued and however
\* much time has passed; what voted nowhere stays as it is.
FreshPlanDelivers ==
    DOMAIN plan.promise # {} /\ Fresh =>
        LET after == Outcome IN
        /\ after # Reverted
        /\ DOMAIN plan.promise \subseteq DOMAIN after.nfts
        /\ \A id \in DOMAIN plan.promise :
              LET nft == after.nfts[id]
                  said == plan.promise[id]
              IN  /\ nft.amount = said.amount /\ nft.vote = said.vote
                  /\ nft.end = said.end + (IF said.relative THEN now ELSE 0)
        /\ \A id \in DOMAIN nfts \ DOMAIN plan.promise :
              nfts[id].vote = NoVote => after.nfts[id] = nfts[id]

\* "Every active vote is claimed before it is cleared or moved": a batch never
\* discards the fees of an NFT that voted when its plan was made, fees that
\* accrued since and votes moved since included.
FeesKept ==
    LET after == Outcome IN
    plan # NoPlan /\ after # Reverted =>
        \A id \in after.lost \ lost :
            id \in DOMAIN plan.base /\ plan.base[id].vote = NoVote

Reallocating == plan.tool \in {"preserve", "compact"}

\* README.md:664-666: the claims are the stale-state guard.  If a reviewed vote
\* has moved to another pool, was cleared, or its NFT left the owner, the
\* reallocation changes nothing at all.
StaleVoteStops ==
    Reallocating /\ (\E n \in Active(plan.known) : ~Chain!VotesIn(Ledger, n.id, n.vote.pool))
    => Outcome = Reverted

\* The promise of a reallocation gives each target its apportioned share of the
\* stake the indexer knew to vote: of each lock-end cohort, or of the whole when compact.
SharesAsRequested ==
    Reallocating =>
        LET parts == IF plan.tool = "compact" THEN {Active(plan.known)}
                     ELSE {ToSet(c) : c \in ToSet(GroupByEndTime(Active(plan.known)))}
            promised(t) == {id \in DOMAIN plan.promise : plan.promise[id].vote = VoteOf(t)}
        IN  \A i \in DOMAIN plan.targets :
                Total([id \in promised(plan.targets[i]) |-> plan.promise[id].amount])
                  = Total([ns \in parts |-> ApportionAmounts(StakeOf(ns), plan.targets)[i]])

(***************************************************************************)
(* A claim of the documentation that the code does not keep                *)
(***************************************************************************)

\* README.md:628: "The extension tool exposes only compound claim-and-extend
\* methods because extension clears its vote".
ExtensionKeepsFees == plan.tool = "extend" /\ Outcome # Reverted => Outcome.lost = lost
===============================================================================
