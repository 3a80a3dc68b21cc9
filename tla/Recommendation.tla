---------------------------- MODULE Recommendation ----------------------------
(***************************************************************************)
(* From a recommendation snapshot and the pool directory to the targets a  *)
(* reallocation executes (src/src/recommendations.ts): which pool a pair   *)
(* stands for, which rows are withheld, and where their weight goes.       *)
(*                                                                         *)
(* A row is [rank, weight, cap, fee, exempt] and stands for its index and its   *)
(* pair; a pool is [pair, id, tick, initialized, inefficient].             *)
(***************************************************************************)
EXTENDS Ve33Allocation

CONSTANTS
    MaxExecutable,      \* MAX_EXECUTABLE_RECOMMENDATION_TARGETS
    Preferred,          \* PREFERRED_VE33_TICK_SPACING
    FullRange,          \* the null tick spacing of a pool that is not concentrated
    NoPool

ASSUME ExecutableAssumption == MaxExecutable \in Nat

\* parseRecommendationRow and the sum of parseRecommendationSnapshot: what a stored
\* snapshot's rows satisfy.
RowsSound(rows) ==
    /\ \A i \in DOMAIN rows : 0 < rows[i].weight /\ rows[i].weight <= rows[i].cap
                              /\ rows[i].cap <= BpsTotal
    /\ Total([i \in DOMAIN rows |-> rows[i].weight]) = BpsTotal

Matching(pools, pair) == {p \in pools : p.initialized /\ p.pair = pair}

\* A directory that lists a pool of the plan twice refuses the whole recommendation.
DuplicatePool(rows, pools) ==
    \E i \in DOMAIN rows : \E p, q \in Matching(pools, i) : p # q /\ p.id = q.id

\* resolveRecommendation: the one concentrated pool, or the one of the preferred spacing.
Resolve(pools, pair) ==
    LET concentrated == {p \in Matching(pools, pair) : p.tick # FullRange}
        preferred == {p \in concentrated : p.tick = Preferred}
    IN  IF Cardinality(concentrated) = 1 THEN CHOOSE p \in concentrated : TRUE
        ELSE IF Cardinality(preferred) = 1 THEN CHOOSE p \in preferred : TRUE
        ELSE NoPool

\* pruneIfInefficient: on request, a pool paid more than its fees, unless exempt.
Pruned(row, pool, prune) == prune /\ pool.inefficient /\ ~row.exempt

Available(rows, pools, prune) ==
    {i \in DOMAIN rows : LET pool == Resolve(pools, i)
                         IN  pool # NoPool /\ ~Pruned(rows[i], pool, prune)}

\* The order of priority, and the rows that may become targets, up to the limit.
Prior(rows, i, k) ==
    \/ rows[i].rank < rows[k].rank
    \/ rows[i].rank = rows[k].rank /\ i < k

Candidates(rows, pools, prune) ==
    LET order == Sorted(Available(rows, pools, prune), LAMBDA i, k : Prior(rows, i, k))
    IN  SubSeq(order, 1, Min({Len(order), MaxExecutable}))

------------------------------------------------------------------------------
(***************************************************************************)
(* Redistribution: the weight of the rows that are withheld is shared in   *)
(* rounds among the candidates that have room, in proportion to their own. *)
(***************************************************************************)
Open(rows, weights) == {i \in DOMAIN weights : weights[i] < rows[i].cap}

\* Mutant: the last units of a round ignore the caps.
RoundUncapped(rows, st) ==
    LET active == Open(rows, st.weights)
        score == Total([i \in active |-> rows[i].weight])
        grown == [i \in DOMAIN st.weights |-> st.weights[i] +
                    (IF i \in active
                     THEN Min({rows[i].cap - st.weights[i], (st.left * rows[i].weight) \div score})
                     ELSE 0)]
        left == st.left - (Total(grown) - Total(st.weights))
        Rank(i) == Cardinality({k \in active : InOrder([j \in active |-> (st.left * rows[j].weight) % score], k, i)})
        unit == {i \in active : Rank(i) < left}
    IN  IF st.left = 0 \/ st.stuck THEN st
        ELSE [weights |-> [i \in DOMAIN grown |-> grown[i] + (IF i \in unit THEN 1 ELSE 0)],
              left |-> left - Cardinality(unit), stuck |-> unit = {} /\ left # 0]

\* One round: floor shares up to the caps, then a unit each for the largest remainders.
Round(rows, st) ==
    LET active == Open(rows, st.weights)
        score == Total([i \in active |-> rows[i].weight])
        rem == [i \in active |-> (st.left * rows[i].weight) % score]
        grown == [i \in DOMAIN st.weights |-> st.weights[i] +
                    (IF i \in active
                     THEN Min({rows[i].cap - st.weights[i], (st.left * rows[i].weight) \div score})
                     ELSE 0)]
        left == st.left - (Total(grown) - Total(st.weights))
        open == active \cap Open(rows, grown)
        unit == {i \in open : Cardinality({k \in open : InOrder(rem, k, i)}) < left}
    IN  IF st.left = 0 \/ st.stuck THEN st
        ELSE [weights |-> [i \in DOMAIN grown |-> grown[i] + (IF i \in unit THEN 1 ELSE 0)],
              left |-> left - Cardinality(unit), stuck |-> unit = {} /\ left # 0]

\* redistributeUnavailableWeight: the weight of each candidate row, or none.  A round
\* that is not stuck places a unit, so BpsTotal rounds are enough.
Redistribute(rows, candidates) ==
    LET own == [i \in ToSet(candidates) |-> rows[i].weight]
        left == BpsTotal - Total(own)
        room == Total([i \in ToSet(candidates) |-> rows[i].cap - rows[i].weight])
        rounds[turn \in 0..BpsTotal] ==
            IF turn = 0 THEN [weights |-> own, left |-> left, stuck |-> FALSE]
            ELSE Round(rows, rounds[turn - 1])
        last == rounds[BpsTotal]
    IN  IF candidates = <<>> \/ room < left \/ last.stuck THEN <<>> ELSE last.weights

\* The targets of the provider's plan: the pools of the candidates, in their order.
ProviderTargets(rows, pools, prune) ==
    LET candidates == Candidates(rows, pools, prune)
        weights == Redistribute(rows, candidates)
    IN  IF weights = <<>> THEN <<>>
        ELSE [k \in DOMAIN candidates |->
                [pool |-> Resolve(pools, candidates[k]).id, fee |-> rows[candidates[k]].fee,
                 weight |-> weights[candidates[k]]]]

------------------------------------------------------------------------------
(***************************************************************************)
(* The plan of one voter.  How many votes each pool is worth to the voter  *)
(* is solved in floating point and any answer here.                        *)
(***************************************************************************)

\* The elements of a sequence at some of its places, in their order.
Picked(seq, places) ==
    LET order == Sorted(places, <)
    IN  [k \in DOMAIN order |-> seq[order[k]]]

\* voterCandidates: the candidates' pools and fees, and the voter's own pools that are
\* not among them.  `own` lists those the voter provides liquidity to, as [pool, fee].
VoterCandidates(rows, pools, prune, own) ==
    LET candidates == Candidates(rows, pools, prune)
        planned == [k \in DOMAIN candidates |->
                      [pool |-> Resolve(pools, candidates[k]).id, fee |-> rows[candidates[k]].fee]]
        isNew(j) == \A k \in DOMAIN planned : planned[k].pool # own[j].pool
    IN  planned \o Picked(own, {j \in DOMAIN own : isNew(j)})

\* allocationBps: the pools worth most votes, apportioned, without those left at nothing.
\* A candidate whose fees are unknown is worth no votes.
VoterTargets(candidates, votes) ==
    LET heavier(a, b) == InOrder(votes, a, b)
        order == Sorted({k \in DOMAIN candidates : votes[k] > 0}, heavier)
        kept == SubSeq(order, 1, Min({Len(order), MaxExecutable}))
        worth == [k \in DOMAIN kept |-> votes[kept[k]]]
        bps == Apportion(BpsTotal, worth, Total(worth))
        targets == [k \in DOMAIN kept |->
                      [pool |-> candidates[kept[k]].pool, fee |-> candidates[kept[k]].fee,
                       weight |-> bps[k]]]
    IN  Picked(targets, {k \in DOMAIN kept : bps[k] > 0})
===============================================================================
