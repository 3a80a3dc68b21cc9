---------------------------- MODULE MCVe33Workflow ----------------------------
(***************************************************************************)
(* Instances of Ve33Workflow for TLC: small portfolios over two pools.     *)
(***************************************************************************)
EXTENDS Ve33Workflow, TLC

A == [pool |-> "A", fee |-> 1]
B == [pool |-> "B", fee |-> 1]
A2 == [pool |-> "A", fee |-> 2]
MCVotes == {A, B, A2}

Stake(amount, end, vote) == [amount |-> amount, end |-> end, vote |-> vote]

\* Two votes, or a vote and an NFT without one, with equal or different ends, one
\* of them near; the first may be larger or smaller than the second.
MCPortfolios ==
    {<<Stake(3, 2, A), Stake(2, e, v)>> : e \in {2, 3}, v \in MCVotes \cup {NoVote}}
        \cup {<<Stake(2, 1, A), Stake(4, 3, v)>> : v \in {B, NoVote}}

To(vote, weight) == [pool |-> vote.pool, fee |-> vote.fee, weight |-> weight]

\* The last one names a pool that is not initialized.
MCTargetLists ==
    {<<To(A, 2), To(B, 2)>>, <<To(B, 3), To(A2, 1)>>, <<To(A, 1), To(A2, 3)>>, <<To(B, 3)>>,
     <<To(A, 3), To([pool |-> "C", fee |-> 1], 1)>>}
===============================================================================
