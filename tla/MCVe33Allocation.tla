--------------------------- MODULE MCVe33Allocation ---------------------------
(***************************************************************************)
(* Ve33Allocation over every cohort of up to three NFTs and every target   *)
(* list up to a size: a cohort is allocated, the NFTs that result vote as  *)
(* told, and the new cohort is allocated again over the same targets.      *)
(*                                                                         *)
(* The targets are the owner's own, or those a recommendation answers with *)
(* for a snapshot of three rows and a directory of pools: then one cohort  *)
(* is reallocated to them.                                                 *)
(***************************************************************************)
EXTENDS Recommendation

CONSTANTS
    Unallocated,
    None,
    MaxAmount,      \* bound: the stake of one NFT
    MaxNfts,        \* bound: the NFTs of the first cohort
    MaxTargets      \* bound: the targets

ASSUME BoundsAssumption ==
    /\ {MaxAmount, MaxNfts} \subseteq Nat \ {0}
    /\ MaxTargets \in 0..3
    /\ None \notin {"provider", "voter"}

\* A pool is named by its pair and a name; no pair that is recommended is 0.
Id(pair, name) == <<pair, name>>

Vote(name, fee) == [pool |-> Id(0, name), fee |-> fee]
Elsewhere == Vote("X", 1)
Order == <<Vote("A", 1), Vote("B", 1), Vote("A", 2)>>

Cohorts ==
    UNION {{{[id |-> i, amount |-> a[i], vote |-> v[i]] : i \in 1..n} :
               a \in [1..n -> 1..MaxAmount], v \in [1..n -> {Order[1], Order[3], Elsewhere}]} :
               n \in 1..MaxNfts}

TargetLists ==
    UNION {{[i \in 1..m |-> [pool |-> Order[i].pool, fee |-> Order[i].fee, weight |-> w[i]]] :
               w \in {f \in [1..m -> 1..BpsTotal] : Total(f) = BpsTotal}} :
               m \in 1..MaxTargets}

\* The rows of a snapshot; the second is the infrastructure floor.
RowsOf(weights, caps, ranks) ==
    [i \in DOMAIN weights |-> [rank |-> ranks[i], weight |-> weights[i], cap |-> caps[i],
                               fee |-> 1, exempt |-> i = 2]]

PoolOf(pair, id, tick) ==
    [pair |-> pair, id |-> id, tick |-> tick, initialized |-> TRUE, inefficient |-> FALSE]

One(pair) == PoolOf(pair, Id(pair, "pool"), 64)

\* What a directory may list for a pair: every case of resolveRecommendation.
Listings(pair) ==
    LET one == One(pair)
        another(tick) == PoolOf(pair, Id(pair, "another"), tick)
    IN  {{}, {one}, {[one EXCEPT !.inefficient = TRUE]}, {[one EXCEPT !.initialized = FALSE]},
         {[one EXCEPT !.tick = FullRange]}, {one, another(FullRange)}, {one, another(32)},
         {one, another(Preferred)}, {[one EXCEPT !.tick = Preferred], another(Preferred)},
         {one, [one EXCEPT !.tick = Preferred]}}

SnapshotOf(rows, pools, prune) == [rows |-> rows, pools |-> pools, prune |-> prune, basis |-> None]

Capped(weights, room) == [i \in 1..4 |-> Min({BpsTotal, weights[i] + room[i]})]

\* Every weight and several caps of four rows of which some have a pool.
Weights == {w \in [1..4 -> 1..BpsTotal] : Total(w) = BpsTotal}

WeightedSnapshot(w, room, I) ==
    SnapshotOf(RowsOf(w, Capped(w, room), <<1, 2, 3, 4>>), {One(i) : i \in I}, FALSE)

WeightedSnapshots ==
    {WeightedSnapshot(w, room, I) :
        w \in Weights, room \in [1..4 -> {0, 1, 3}], I \in SUBSET (1..4)}

\* Every listing for rows of a few weights, caps and priorities.
ListedSnapshot(c, r, l, m, prune) ==
    SnapshotOf(RowsOf(<<2, 2, 1, 2>>, c, r), l \cup m \cup {One(3), One(4)}, prune)

ListedSnapshots ==
    {ListedSnapshot(c, r, l, m, prune) :
        c \in {<<2, 3, 4, 7>>, <<7, 7, 7, 7>>}, r \in {<<1, 1, 1, 1>>, <<2, 2, 1, 1>>},
        l \in Listings(1), m \in Listings(2), prune \in BOOLEAN}

Snapshots == WeightedSnapshots \cup ListedSnapshots

VARIABLES cohort, targets, chunks, settled, plan
vars == <<cohort, targets, chunks, settled, plan>>

Init ==
    /\ chunks = Unallocated /\ settled = FALSE
    /\ \/ /\ cohort \in Cohorts /\ targets \in TargetLists
          /\ plan = None
       \/ /\ cohort = {[id |-> 1, amount |-> MaxAmount, vote |-> Elsewhere]}
          /\ targets = <<>>
          /\ plan \in Snapshots
          /\ RowsSound(plan.rows)

\* getStonxAllocationRecommendation without a voter.
Recommend ==
    /\ plan # None /\ plan.basis = None
    /\ ~DuplicatePool(plan.rows, plan.pools)
    /\ targets' = ProviderTargets(plan.rows, plan.pools, plan.prune)
    /\ plan' = [plan EXCEPT !.basis = "provider"]
    /\ UNCHANGED <<cohort, chunks, settled>>

\* And with one, who provides liquidity to the first row's pool and to one elsewhere.
RecommendVoter ==
    /\ plan # None /\ plan.basis = None
    /\ \A i \in DOMAIN plan.rows : plan.rows[i].cap = BpsTotal     \* bound
    /\ ~DuplicatePool(plan.rows, plan.pools)
    /\ LET candidates == VoterCandidates(plan.rows, plan.pools, plan.prune,
                            <<[pool |-> Id(1, "pool"), fee |-> 2], Vote("X", 2)>>)
       IN  \E votes \in [DOMAIN candidates -> {0, 1, 2, 20}] :
              targets' = VoterTargets(candidates, votes)
    /\ plan' = [plan EXCEPT !.basis = "voter"]
    /\ UNCHANGED <<cohort, chunks, settled>>

Allocate ==
    /\ chunks = Unallocated
    /\ targets # <<>> /\ ~RoundsToZero(StakeOf(cohort), targets)
    /\ chunks' = AllocateCohort(cohort, targets)
    /\ UNCHANGED <<cohort, targets, settled, plan>>

\* The NFTs after the plan: the retained chunk keeps the id, the others get new
\* ones, and each votes for its target.
Piece(n, i) ==
    [id |-> IF i = RetainedChunk(n, chunks[n.id], targets) THEN n.id ELSE (MaxNfts + 1) * i + n.id,
     amount |-> chunks[n.id][i].amount,
     vote |-> LET t == targets[chunks[n.id][i].target] IN [pool |-> t.pool, fee |-> t.fee]]

PiecesOf(n) == {Piece(n, i) : i \in DOMAIN chunks[n.id]}

Adopt ==
    /\ chunks # Unallocated /\ ~settled
    /\ cohort' = UNION {PiecesOf(n) : n \in cohort}
    /\ settled' = TRUE /\ chunks' = Unallocated
    /\ UNCHANGED <<targets, plan>>

Next == Recommend \/ RecommendVoter \/ Allocate \/ Adopt
Spec == Init /\ [][Next]_vars

------------------------------------------------------------------------------
Allocated == chunks # Unallocated
Demand == ApportionAmounts(StakeOf(cohort), targets)
Received(i) ==
    Total([n \in cohort |-> Total([k \in DOMAIN chunks[n.id] |->
              IF chunks[n.id][k].target = i THEN chunks[n.id][k].amount ELSE 0])])

\* allocateCohort: every NFT is cut into positive chunks for distinct targets
\* that add up to it, and every target receives exactly its apportioned stake.
EveryUnitPlaced ==
    Allocated =>
        /\ \A n \in cohort : LET cut == chunks[n.id] IN
              /\ Total([k \in DOMAIN cut |-> cut[k].amount]) = n.amount
              /\ \A k \in DOMAIN cut : cut[k].amount > 0
              /\ \A j, k \in DOMAIN cut : cut[j].target = cut[k].target => j = k
        /\ \A i \in DOMAIN targets : Received(i) = Demand[i]

\* The 512-call limit is met by cutting little: the NFTs after a reallocation are
\* fewer than the NFTs before it and the targets together.
FewPieces ==
    Allocated =>
        Total([n \in cohort |-> Len(chunks[n.id])]) < Cardinality(cohort) + Len(targets)

\* Reallocating to the targets one already has splits nothing and moves no vote.
SettledStays ==
    Allocated /\ settled =>
        \A n \in cohort : Len(chunks[n.id]) = 1 /\ Matches(n, targets[chunks[n.id][1].target])

\* apportionAmounts against the largest remainder method: the whole stake is
\* divided, each target within one unit of its exact share, and of two targets
\* the one whose exact share was cut by more is never the one not rounded up.
ApportionedFairly ==
    targets # <<>> =>
    LET stake == StakeOf(cohort)
        exact(i) == stake * targets[i].weight
        cut(i) == exact(i) - Demand[i] * BpsTotal
    IN  /\ Total(Demand) = stake
        /\ \A i \in DOMAIN targets : -BpsTotal < cut(i) /\ cut(i) < BpsTotal
        /\ \A i, k \in DOMAIN targets :
              cut(i) > 0 /\ cut(k) < 0 => exact(i) % BpsTotal <= exact(k) % BpsTotal

\* What is recommended can be executed as it stands: no more targets than a reallocation
\* takes, of different pools, with positive weights that sum to the whole.  The
\* provider's targets are resolved pools, none below its recommended weight nor above
\* its cap, and none while a candidate of higher priority is left out; and there are
\* none only if the caps of the candidates cannot hold the whole.
TargetsExecutable ==
    plan # None /\ plan.basis # None =>
        LET rows == plan.rows
            rowOf(t) == CHOOSE i \in DOMAIN rows : \E p \in plan.pools : p.pair = i /\ p.id = t.pool
            taken == {rowOf(targets[k]) : k \in DOMAIN targets}
            open == Available(rows, plan.pools, plan.prune)
            best == {i \in open : Cardinality({k \in open : Prior(rows, k, i)}) < MaxExecutable}
        IN  /\ targets # <<>> =>
                  /\ Len(targets) <= MaxExecutable
                  /\ Total([k \in DOMAIN targets |-> targets[k].weight]) = BpsTotal
                  /\ \A k \in DOMAIN targets : targets[k].weight > 0
                  /\ \A j, k \in DOMAIN targets : targets[j].pool = targets[k].pool => j = k
            /\ plan.basis = "provider" =>
                  /\ targets # <<>> => taken = best
                  /\ \A k \in DOMAIN targets :
                        LET row == rows[rowOf(targets[k])]
                        IN  row.weight <= targets[k].weight /\ targets[k].weight <= row.cap
                  /\ \A k \in DOMAIN targets : \A p, q \in {x \in plan.pools : x.initialized} :
                        /\ p # q /\ p.id = targets[k].pool /\ q.pair = p.pair /\ q.tick # FullRange
                        => p.tick = Preferred /\ q.tick # Preferred
                  /\ targets = <<>> <=>
                        Total([i \in best |-> rows[i].cap]) < BpsTotal
===============================================================================
