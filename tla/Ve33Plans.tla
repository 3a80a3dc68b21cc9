------------------------------ MODULE Ve33Plans ------------------------------
(***************************************************************************)
(* The VeToken plans src/src/ve33.ts prepares, as the sequence of contract *)
(* calls each one makes and what it promises of the NFTs it touches.       *)
(* Every plan is computed from a portfolio: what was known of the owner's  *)
(* NFTs ([amount, end, vote], by id) when the plan was asked for.          *)
(*                                                                         *)
(* A promise is [id |-> [amount, vote, end, relative]] for each NFT the    *)
(* plan's details list: resulting_nfts, or ve_tokens of target_allocation. *)
(* A relative end is counted from the block that executes the plan.        *)
(***************************************************************************)
EXTENDS Ve33Allocation, Ve33Portfolio

CONSTANTS
    Keep,           \* the resulting vote of a merge that says nothing of it
    MaxLock,        \* VE33_MAX_STAKE_DURATION
    ShareTotal,     \* PERMILLE_TOTAL
    MaxCalls        \* 512, the most calls a reallocation may make

ASSUME LimitsAssumption ==
    /\ {MaxLock, ShareTotal} \subseteq Nat \ {0}
    /\ MaxCalls \in Nat

\* saltToId of deriveSalt: a new id for each nonce and index.
ChildId(nonce, index) == 100 * nonce + index

NftsOf(portfolio, ids) ==
    {[id |-> id, amount |-> portfolio[id].amount, end |-> portfolio[id].end,
      vote |-> portfolio[id].vote] : id \in ids}

VoteOf(target) == [pool |-> target.pool, fee |-> target.fee]

ClaimCall(n) == [op |-> "claim", id |-> n.id, pool |-> n.vote.pool]
SplitCall(id, amount, child) ==
    [op |-> "split", id |-> id, amount |-> amount, child |-> child]
VoteCall(id, target) == [op |-> "vote", id |-> id, vote |-> VoteOf(target)]
ClearCall(id) == [op |-> "clear", id |-> id]

Active(portfolio) ==
    NftsOf(portfolio, {id \in DOMAIN portfolio : portfolio[id].vote # NoVote})

\* The promise a sequence of pieces [id, amount, vote, end] makes.
PromiseOf(pieces, relative) ==
    [id \in {pieces[i].id : i \in DOMAIN pieces} |->
        LET piece == CHOOSE p \in ToSet(pieces) : p.id = id
        IN  [amount |-> piece.amount, vote |-> piece.vote, end |-> piece.end, relative |-> relative]]

------------------------------------------------------------------------------
(***************************************************************************)
(* prepareVe33Vote: one voted NFT over several pools.  The targets carry   *)
(* shares of ShareTotal; the unallocated share becomes an unvoted NFT.     *)
(***************************************************************************)

\* The bucket the source NFT keeps: its current pool's, else the largest.
KeptBucket(n, targets, floors) ==
    LET current == {i \in DOMAIN targets : targets[i].pool = n.vote.pool}
    IN  IF current # {} THEN Min(current)
        ELSE CHOOSE i \in DOMAIN floors : \A k \in DOMAIN floors :
                floors[i] > floors[k] \/ (floors[i] = floors[k] /\ i <= k)

\* The stake of each target and, last, of the unallocated bucket: floor shares,
\* and what they leave over goes to the kept bucket.
Buckets(n, targets, unallocated) ==
    LET all == Append([i \in DOMAIN targets |-> targets[i].weight], unallocated)
        floors == [i \in DOMAIN all |-> (n.amount * all[i]) \div ShareTotal]
        kept == KeptBucket(n, targets, floors)
    IN  [floors EXCEPT ![kept] = @ + n.amount - Total(floors)]

PlanVote(n, targets, unallocated, nonce) ==
    LET all == Append([i \in DOMAIN targets |-> targets[i].weight], unallocated)
        floors == [i \in DOMAIN all |-> (n.amount * all[i]) \div ShareTotal]
        kept == KeptBucket(n, targets, floors)
        amounts == Buckets(n, targets, unallocated)
        voted(i) == i \in DOMAIN targets
        others == Sorted({i \in DOMAIN all : i # kept /\ amounts[i] # 0}, <)
        child(k) == ChildId(nonce, k - 1)
        splits == [k \in DOMAIN others |-> SplitCall(n.id, amounts[others[k]], child(k))]
        sourceVote ==
            IF ~voted(kept) THEN <<ClearCall(n.id)>>
            ELSE IF Matches(n, targets[kept]) THEN <<>>
            ELSE <<VoteCall(n.id, targets[kept])>>
        childVotes == [k \in DOMAIN others |->
                          IF voted(others[k])
                          THEN <<VoteCall(child(k), targets[others[k]])>> ELSE <<>>]
        piece(id, i) == [id |-> id, amount |-> amounts[i], end |-> n.end,
                         vote |-> IF voted(i) THEN VoteOf(targets[i]) ELSE NoVote]
    IN  IF \E i \in DOMAIN targets : floors[i] = 0 THEN Refused
        ELSE [tool |-> "vote",
              calls |-> <<ClaimCall(n)>> \o splits \o sourceVote \o FlattenSeq(childVotes),
              promise |-> PromiseOf(<<piece(n.id, kept)>> \o
                             [k \in DOMAIN others |-> piece(child(k), others[k])], FALSE)]

------------------------------------------------------------------------------
(***************************************************************************)
(* prepareVe33Reallocation                                                 *)
(***************************************************************************)
VotingPower(n, now) ==
    IF n.end <= now \/ n.end - now > MaxLock THEN 0
    ELSE (n.amount * (n.end - now)) \div MaxLock

\* expired_ve33_votes
Expired(active, now) == \E n \in active : VotingPower(n, now) = 0

\* Pieces of one cohort: the retained chunk of each NFT, and its children.
CohortPieces(cohort, targets) ==
    LET chunks == AllocateCohort(ToSet(cohort), targets)
        pieces(n) == [i \in DOMAIN chunks[n.id] |->
                        [source |-> n.id, amount |-> chunks[n.id][i].amount, end |-> n.end,
                         target |-> targets[chunks[n.id][i].target],
                         isNew |-> i # RetainedChunk(n, chunks[n.id], targets)]]
    IN  FlattenSeq([k \in DOMAIN cohort |-> pieces(cohort[k])])

\* The id of a piece: its source's, or a child's by its place among the splits.
WithIds(pieces, nonce) ==
    [i \in DOMAIN pieces |->
        [id |-> IF pieces[i].isNew
                THEN ChildId(nonce, Quantify(1..(i - 1), LAMBDA k : pieces[k].isNew))
                ELSE pieces[i].source,
         source |-> pieces[i].source, amount |-> pieces[i].amount, end |-> pieces[i].end,
         vote |-> VoteOf(pieces[i].target), isNew |-> pieces[i].isNew]]

SplitsOf(pieces) ==
    LET new == Sorted({i \in DOMAIN pieces : pieces[i].isNew}, <)
    IN  [k \in DOMAIN new |->
            SplitCall(pieces[new[k]].source, pieces[new[k]].amount, pieces[new[k]].id)]

VotesOf(pieces) ==
    [i \in DOMAIN pieces |-> [op |-> "vote", id |-> pieces[i].id, vote |-> pieces[i].vote]]

\* Mutant: an NFT that keeps its vote is not claimed.
ClaimsOfMovers(active, pieces) ==
    LET Stays(n) == \E p \in ToSet(pieces) : p.id = n.id /\ p.vote = n.vote
        order == Sorted({n \in active : ~Stays(n)}, ById)
    IN  [k \in DOMAIN order |-> ClaimCall(order[k])]

\* Every active vote is claimed first, wherever its NFT goes.
ClaimsFirst(active, pieces) ==
    LET order == Sorted(active, ById)
    IN  [k \in DOMAIN order |-> ClaimCall(order[k])]

\* preserve_existing_locks: claim everything, split, then vote every piece.
PlanPreserve(active, targets, nonce) ==
    LET cohorts == GroupByEndTime(active)
        pieces == WithIds(FlattenSeq([k \in DOMAIN cohorts |->
                                         CohortPieces(cohorts[k], targets)]), nonce)
        calls == ClaimsFirst(active, pieces) \o SplitsOf(pieces) \o VotesOf(pieces)
    IN  IF \/ \E k \in DOMAIN cohorts : RoundsToZero(StakeOf(ToSet(cohorts[k])), targets)
           \/ Len(calls) > MaxCalls
        THEN Refused
        ELSE [tool |-> "preserve", calls |-> calls, promise |-> PromiseOf(pieces, FALSE)]

ClaimExtendCall(n, duration) ==
    [op |-> "claim_extend", id |-> n.id, pool |-> n.vote.pool, duration |-> duration]
ClaimMergeCall(n, into) ==
    [op |-> "claim_merge", id |-> n.id, into |-> into.id, pool |-> n.vote.pool]

\* Mutant: the survivor is extended after the merges.
ConsolidateLate(destination, sources) ==
    Append([k \in DOMAIN sources |-> ClaimMergeCall(sources[k], destination)],
           ClaimExtendCall(destination, MaxLock))

\* The survivor is extended first, so every merge meets the expiry ordering.
Consolidate(destination, sources) ==
    <<ClaimExtendCall(destination, MaxLock)>>
        \o [k \in DOMAIN sources |-> ClaimMergeCall(sources[k], destination)]

\* compact_max_lock: the largest NFT is claimed and extended to the maximum, the
\* others are claimed and merged into it, then one NFT is split off per target.
PlanCompact(active, targets, nonce) ==
    LET destination == Sorted(active, Descending)[1]
        sources == Sorted(active \ {destination}, ById)
        amounts == ApportionAmounts(StakeOf(active), targets)
        retained == CHOOSE i \in DOMAIN targets : \A k \in DOMAIN targets :
                       amounts[i] > amounts[k] \/ (amounts[i] = amounts[k] /\ i <= k)
        pieces == WithIds([i \in DOMAIN targets |->
                     [source |-> destination.id, amount |-> amounts[i], end |-> MaxLock,
                      target |-> targets[i], isNew |-> i # retained]], nonce)
        calls == Consolidate(destination, sources) \o SplitsOf(pieces) \o VotesOf(pieces)
    IN  IF RoundsToZero(StakeOf(active), targets) \/ Len(calls) > MaxCalls THEN Refused
        ELSE [tool |-> "compact", calls |-> calls, promise |-> PromiseOf(pieces, TRUE)]

\* The targets are distinct and their weights are positive and sum to the total.
ValidTargets(targets) ==
    /\ Total([i \in DOMAIN targets |-> targets[i].weight]) = BpsTotal
    /\ \A i \in DOMAIN targets :
          /\ targets[i].weight > 0
          /\ \A k \in DOMAIN targets : VoteOf(targets[i]) = VoteOf(targets[k]) => i = k

\* The guards both strategies share, and the choice between them.
PlanReallocation(strategy, portfolio, targets, nonce, now) ==
    LET active == Active(portfolio)
    IN  IF ~ValidTargets(targets) \/ active = {} \/ Expired(active, now) THEN Refused
        ELSE IF strategy = "compact" THEN PlanCompact(active, targets, nonce)
        ELSE PlanPreserve(active, targets, nonce)

------------------------------------------------------------------------------
(***************************************************************************)
(* The single-purpose preparers                                            *)
(***************************************************************************)
NoPromise == [id \in {} |-> 0]
PlanOf(tool, calls) == [tool |-> tool, calls |-> calls, promise |-> NoPromise]

\* prepareVe33Extend, to the maximum or for a duration: with the active pool key it
\* claims first.
PlanExtend(n, duration) ==
    PlanOf("extend", IF n.vote = NoVote
                     THEN <<[op |-> "extend", id |-> n.id, duration |-> duration]>>
                     ELSE <<ClaimExtendCall(n, duration)>>)

\* prepareVe33Split: the source keeps its vote, the child starts without one.
PlanSplit(n, amount, nonce) ==
    [tool |-> "split", calls |-> <<SplitCall(n.id, amount, ChildId(nonce, 0))>>,
     promise |-> PromiseOf(<<[id |-> ChildId(nonce, 0), amount |-> amount, vote |-> NoVote, end |-> n.end],
                             [id |-> n.id, amount |-> n.amount - amount, vote |-> n.vote, end |-> n.end]>>,
                           FALSE)]

\* prepareVe33Stake
PlanStake(amount, duration, nonce) ==
    LET id == ChildId(nonce, 0)
    IN  [tool |-> "stake",
         calls |-> <<[op |-> "stake", child |-> id, amount |-> amount, duration |-> duration]>>,
         promise |-> PromiseOf(<<[id |-> id, amount |-> amount, vote |-> NoVote, end |-> duration]>>, TRUE)]

IncreaseCall(n, amount) == [op |-> "increase", id |-> n.id, amount |-> amount]
Increased(n, amount) == [n EXCEPT !.amount = @ + amount]

\* prepareVe33IncreaseStake, and phase=stake of prepareVe33Reinvest.
PlanIncrease(n, amount) ==
    [tool |-> "increase", calls |-> <<IncreaseCall(n, amount)>>,
     promise |-> PromiseOf(<<Increased(n, amount)>>, FALSE)]

\* prepareVe33Claim, to the sender or to a recipient.
PlanClaim(ns) ==
    LET order == Sorted(ns, ById)
    IN  PlanOf("claim", [k \in DOMAIN order |-> ClaimCall(order[k])])

\* Mutant: the current pool key is not claimed.
ClaimNothing(n) == <<>>

\* The claim of an NFT whose current_pool_key is given.
ClaimIfVoted(n) == IF n.vote = NoVote THEN <<>> ELSE <<ClaimCall(n)>>

PlanWithdraw(n) ==
    PlanOf("withdraw", ClaimIfVoted(n) \o <<[op |-> "withdraw", id |-> n.id]>>)

\* prepareVe33ClearVote: each claim directly before its clear.
PlanClear(ns) ==
    LET order == Sorted(ns, ById)
    IN  [tool |-> "clear",
         calls |-> FlattenSeq([k \in DOMAIN order |->
                      <<ClaimCall(order[k]), ClearCall(order[k].id)>>]),
         promise |-> PromiseOf([k \in DOMAIN order |-> [order[k] EXCEPT !.vote = NoVote]], FALSE)]

\* prepareVe33Merge: the destination is claimed if it votes, each source is
\* claimed as it is merged; `vote` is the resulting vote, if any.
PlanMerge(destination, sources, vote) ==
    LET order == Sorted(sources, ById)
        merge(n) == IF n.vote = NoVote
                    THEN [op |-> "merge", id |-> n.id, into |-> destination.id]
                    ELSE ClaimMergeCall(n, destination)
        settle == IF vote = Keep THEN <<>>
                  ELSE IF vote # NoVote
                  THEN <<[op |-> "vote", id |-> destination.id, vote |-> vote]>>
                  ELSE IF destination.vote # NoVote THEN <<ClearCall(destination.id)>>
                  ELSE <<>>
    IN  PlanOf("merge", ClaimIfVoted(destination)
                          \o [k \in DOMAIN order |-> merge(order[k])] \o settle)

\* Mutant: a portfolio without votes gets an empty batch.
PlanClaimsEmpty(votes) == PlanClaim(NftsOf(votes, DOMAIN votes))

\* prepareAllVe33FeeClaims, of the votes found on the page.
PlanClaims(votes) ==
    IF DOMAIN votes = {} THEN Refused ELSE PlanClaim(NftsOf(votes, DOMAIN votes))

\* stake_all of prepareVe33Reinvest: every active NFT is increased.  A native stake
\* token's value can be sent with a single call only.
PlanStakeAll(portfolio, amount, native, now) ==
    LET active == Active(portfolio)
        order == Sorted(active, ById)
        extra == ApportionReinvestment(amount, [k \in DOMAIN order |-> order[k].amount])
    IN  IF \/ active = {} \/ amount < Len(order) \/ Expired(active, now)
           \/ native /\ Len(order) > 1
        THEN Refused
        ELSE [tool |-> "stake_all",
              calls |-> [k \in DOMAIN order |-> IncreaseCall(order[k], extra[k])],
              promise |-> PromiseOf([k \in DOMAIN order |-> Increased(order[k], extra[k])], FALSE)]
===============================================================================
