---------------------------- MODULE Ve33Allocation ----------------------------
(***************************************************************************)
(* How stake is divided over target pools (src/src/ve33.ts): the largest   *)
(* remainder apportionment, and the three greedy passes that decide which  *)
(* NFT of a lock-end cohort serves which target, and which are split.      *)
(*                                                                         *)
(* An NFT is a record with the fields id, amount and vote; a vote and a    *)
(* target name a pool and a swap fee.  Targets are a sequence of distinct  *)
(* (pool, fee) pairs with a weight each, and stand for their index.        *)
(***************************************************************************)
EXTENDS Integers, Sequences, FiniteSetsExt, SequencesExt, Ordering

CONSTANT BpsTotal       \* BPS_TOTAL, what the weights of the targets sum to

ASSUME BpsAssumption == BpsTotal \in Nat \ {0}

Total(f) == MapThenSumSet(LAMBDA i : f[i], DOMAIN f)

------------------------------------------------------------------------------
(***************************************************************************)
(* Apportionment                                                           *)
(***************************************************************************)

\* The order the leftover units are handed out in.
InOrder(rem, i, k) == rem[i] > rem[k] \/ (rem[i] = rem[k] /\ i < k)

\* Mutant: every target is rounded up while units are left, in index order.
ApportionFirstCome(total, shares, denominator) ==
    LET base == [i \in DOMAIN shares |-> (total * shares[i]) \div denominator]
        left == total - Total(base)
    IN  [i \in DOMAIN shares |-> base[i] + (IF i <= left THEN 1 ELSE 0)]

\* Floor shares of the total, and one unit more for the largest remainders.
Apportion(total, shares, denominator) ==
    LET base == [i \in DOMAIN shares |-> (total * shares[i]) \div denominator]
        rem == [i \in DOMAIN shares |-> (total * shares[i]) % denominator]
        left == total - Total(base)
        Rank(i) == Cardinality({k \in DOMAIN shares : InOrder(rem, k, i)})
    IN  [i \in DOMAIN shares |-> base[i] + (IF Rank(i) < left THEN 1 ELSE 0)]

\* apportionAmounts, by the weights of the targets.
ApportionAmounts(total, targets) ==
    Apportion(total, [i \in DOMAIN targets |-> targets[i].weight], BpsTotal)

\* ve33_target_rounds_to_zero: the only way apportioning by weights fails.
RoundsToZero(total, targets) ==
    \E i \in DOMAIN targets : ApportionAmounts(total, targets)[i] = 0

\* apportionReinvestment: one unit each, the rest by current stake.  It throws
\* on an empty stake and on fewer units than allocations.
ApportionReinvestment(total, stakes) ==
    LET extra == Apportion(total - Len(stakes), stakes, Total(stakes))
    IN  [i \in DOMAIN stakes |-> 1 + extra[i]]

------------------------------------------------------------------------------
(***************************************************************************)
(* Cohorts: the NFTs whose locks end together                              *)
(***************************************************************************)
ById(a, b) == a.id < b.id
Descending(a, b) == a.amount > b.amount \/ (a.amount = b.amount /\ a.id < b.id)

StakeOf(nfts) == Total([n \in nfts |-> n.amount])

\* groupByEndTime: the cohorts by end, each in the order of its ids.
GroupByEndTime(active) ==
    LET ends == Sorted({n.end : n \in active}, <)
    IN  [k \in DOMAIN ends |->
            Sorted({n \in active : n.end = ends[k]}, ById)]

\* Mutant: the swap fee is not part of what an NFT votes for.
SamePool(n, target) == n.vote.pool = target.pool

Matches(n, target) == n.vote.pool = target.pool /\ n.vote.fee = target.fee

(***************************************************************************)
(* The passes go over the cohort, the first two from the smallest NFT, with*)
(* a record of the stake each target still demands and the chunks each NFT *)
(* has been cut into.                                                      *)
(***************************************************************************)
Give(st, n, i, amount) ==
    [demand |-> [st.demand EXCEPT ![i] = @ - amount],
     chunks |-> [st.chunks EXCEPT ![n.id] =
                    Append(@, [target |-> i, amount |-> amount])]]

Assigned(st, n) == st.chunks[n.id] # <<>>

Fitting(st, n) == {i \in DOMAIN st.demand : st.demand[i] >= n.amount}

\* First pass: an NFT stays whole where it votes now, if that target has room.
KeepWhole(targets, st, n) ==
    LET affinity == {i \in Fitting(st, n) : Matches(n, targets[i])}
    IN  IF affinity = {} THEN st ELSE Give(st, n, Min(affinity), n.amount)

\* Second pass: an NFT goes whole to the target it fills best.
FitWhole(st, n) ==
    IF Assigned(st, n) \/ Fitting(st, n) = {} THEN st
    ELSE LET best == CHOOSE i \in Fitting(st, n) : \A k \in Fitting(st, n) :
                        st.demand[i] < st.demand[k]
                           \/ (st.demand[i] = st.demand[k] /\ i <= k)
         IN  Give(st, n, best, n.amount)

Remaining(st, n) ==
    n.amount - Total([i \in DOMAIN st.chunks[n.id] |-> st.chunks[n.id][i].amount])

\* Mutant: a target takes the whole of what remains.
CutTooLarge(targets, st, n) ==
    LET open == {i \in DOMAIN st.demand : st.demand[i] # 0}
    IN  IF Remaining(st, n) = 0 \/ open = {} THEN st
        ELSE Give(st, n, Min(open), Remaining(st, n))

\* Mutant: chunks of one unit.
CutByUnits(targets, st, n) ==
    LET open == {i \in DOMAIN st.demand : st.demand[i] # 0}
    IN  IF Remaining(st, n) = 0 \/ open = {} THEN st ELSE Give(st, n, Min(open), 1)

\* Third pass, one turn of its loop: a chunk for the current pool if it has any
\* demand left, else for the target with the largest demand.  After a chunk the
\* target is exhausted or the NFT is, so `affinity` is never chosen twice.
Cut(targets, st, n) ==
    LET open == {i \in DOMAIN st.demand : st.demand[i] # 0}
        affinity == {i \in open : Matches(n, targets[i])}
        largest == CHOOSE i \in open : \A k \in open :
                      st.demand[i] > st.demand[k]
                         \/ (st.demand[i] = st.demand[k] /\ i <= k)
        target == IF affinity # {} THEN Min(affinity) ELSE largest
    IN  IF Remaining(st, n) = 0 \/ open = {} THEN st
        ELSE Give(st, n, target, Min({Remaining(st, n), st.demand[target]}))

\* Each turn but the last exhausts a target, so one turn per target is enough.
SplitOver(targets, st, n) ==
    LET cut[turn \in 0..Len(targets)] ==
            IF turn = 0 THEN st ELSE Cut(targets, cut[turn - 1], n)
    IN  cut[Len(targets)]

\* allocateCohort: the chunks of each NFT.
AllocateCohort(cohort, targets) ==
    LET start == [demand |-> ApportionAmounts(StakeOf(cohort), targets),
                  chunks |-> [id \in {n.id : n \in cohort} |-> <<>>]]
        order == Sorted(cohort, Descending)
        last == Len(order)
        kept[k \in 0..last] ==
            IF k = 0 THEN start ELSE KeepWhole(targets, kept[k - 1], order[last + 1 - k])
        fitted[k \in 0..last] ==
            IF k = 0 THEN kept[last] ELSE FitWhole(fitted[k - 1], order[last + 1 - k])
        cut[k \in 0..last] ==
            IF k = 0 THEN fitted[last] ELSE SplitOver(targets, cut[k - 1], order[k])
    IN  cut[last].chunks

\* retainedChunkIndex: the chunk of the pool it votes for, else its largest.
RetainedChunk(n, chunks, targets) ==
    LET affinity == {i \in DOMAIN chunks : Matches(n, targets[chunks[i].target])}
        largest == CHOOSE i \in DOMAIN chunks : \A k \in DOMAIN chunks :
                      chunks[i].amount > chunks[k].amount
                         \/ (chunks[i].amount = chunks[k].amount /\ i <= k)
    IN  IF affinity # {} THEN Min(affinity) ELSE largest
===============================================================================
