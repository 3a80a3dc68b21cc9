------------------------------ MODULE Ve33Token ------------------------------
(***************************************************************************)
(* The VeToken contract as far as src/src/ve33.ts relies on it: README.md  *)
(* lines 623-629, the reverts named in the onchain_validation texts, and   *)
(* the comments on each preparer.  The contract is not in the repository.  *)
(*                                                                         *)
(* A ledger is [nfts, now, lost]: the NFTs that exist, the block time, and *)
(* the ids whose unclaimed fees were discarded.  A batch is all or nothing *)
(* (atomic_batch, src/src/ve33.ts:3307-3345).                              *)
(***************************************************************************)
EXTENDS Integers, Sequences, SequencesExt, FiniteSetsExt

CONSTANTS
    NoVote,
    Reverted,       \* what a batch amounts to when one of its calls fails
    MaxLock,        \* VE33_MAX_STAKE_DURATION
    Initialized     \* the pools that may be voted for

Mine(t, id) == id \in DOMAIN t.nfts /\ t.nfts[id].mine
Live(t, id) == Mine(t, id) /\ t.nfts[id].end > t.now

\* PoolNotVoted: a claim names the pool the NFT votes for, but not its fee.
VotesIn(t, id, pool) ==
    Mine(t, id) /\ t.nfts[id].vote # NoVote /\ t.nfts[id].vote.pool = pool

Set(t, id, nft) == [t EXCEPT !.nfts[id] = nft]

\* The vote changes: fees that accrued under the old one are gone.
Revote(t, id, vote) ==
    [t EXCEPT !.nfts[id].vote = vote,
              !.nfts[id].pending = FALSE,
              !.lost = IF t.nfts[id].pending THEN @ \cup {id} ELSE @]

Burn(t, id) ==
    [t EXCEPT !.nfts = [k \in DOMAIN t.nfts \ {id} |-> t.nfts[k]],
              !.lost = IF t.nfts[id].pending THEN @ \cup {id} ELSE @]

Claim(t, c) ==
    IF VotesIn(t, c.id, c.pool)
    THEN [t EXCEPT !.nfts[c.id].pending = FALSE] ELSE Reverted

\* A new NFT, for as long as asked or as long as can be.
Stake(t, c) ==
    IF c.child \notin DOMAIN t.nfts /\ c.duration <= MaxLock
    THEN [t EXCEPT !.nfts = [k \in DOMAIN t.nfts \cup {c.child} |->
            IF k # c.child THEN t.nfts[k]
            ELSE [mine |-> TRUE, amount |-> c.amount, end |-> t.now + c.duration,
                  vote |-> NoVote, pending |-> FALSE]]]
    ELSE Reverted

\* The source keeps some stake and its vote; the child starts unvoted.
Split(t, c) ==
    IF /\ Live(t, c.id)
       /\ 0 < c.amount /\ c.amount < t.nfts[c.id].amount
       /\ c.child \notin DOMAIN t.nfts
    THEN LET cut == Set(t, c.id, [t.nfts[c.id] EXCEPT !.amount = @ - c.amount])
             child == [t.nfts[c.id] EXCEPT !.amount = c.amount, !.vote = NoVote,
                                           !.pending = FALSE]
         IN  [cut EXCEPT !.nfts = [k \in DOMAIN cut.nfts \cup {c.child} |->
                                      IF k = c.child THEN child ELSE cut.nfts[k]]]
    ELSE Reverted

Vote(t, c) ==
    IF Live(t, c.id) /\ c.vote.pool \in Initialized THEN Revote(t, c.id, c.vote) ELSE Reverted

ClearVote(t, c) == IF Mine(t, c.id) THEN Revote(t, c.id, NoVote) ELSE Reverted

\* An extension clears the vote (README.md:629, 690) and brings no end forward.
Extend(t, c) ==
    IF /\ Live(t, c.id) /\ c.duration <= MaxLock
       /\ t.nfts[c.id].end <= t.now + c.duration
    THEN [Revote(t, c.id, NoVote) EXCEPT !.nfts[c.id].end = t.now + c.duration]
    ELSE Reverted

\* "active-lock and expiry ordering requirements" (src/src/ve33.ts:995).
Merge(t, c) ==
    IF /\ Mine(t, c.id) /\ Live(t, c.into) /\ c.id # c.into
       /\ t.nfts[c.id].end <= t.nfts[c.into].end
    THEN Burn([t EXCEPT !.nfts[c.into].amount = @ + t.nfts[c.id].amount], c.id)
    ELSE Reverted

Withdraw(t, c) ==
    IF Mine(t, c.id) /\ ~Live(t, c.id) THEN Burn(t, c.id) ELSE Reverted

\* Anyone's increase keeps the vote and its fee accounting.
Increase(t, c) ==
    IF Live(t, c.id)
    THEN Set(t, c.id, [t.nfts[c.id] EXCEPT !.amount = @ + c.amount]) ELSE Reverted

Plain(t, c) ==
    CASE c.op = "claim" -> Claim(t, c)
      [] c.op = "stake" -> Stake(t, c)
      [] c.op = "split" -> Split(t, c)
      [] c.op = "vote" -> Vote(t, c)
      [] c.op = "clear" -> ClearVote(t, c)
      [] c.op = "extend" -> Extend(t, c)
      [] c.op = "merge" -> Merge(t, c)
      [] c.op = "withdraw" -> Withdraw(t, c)
      [] c.op = "increase" -> Increase(t, c)

\* The compound functions claim first: claimAndExtend, claimAndMerge.
Call(t, c) ==
    IF c.op \in {"claim_extend", "claim_merge"}
    THEN LET claimed == Claim(t, c) IN
         IF claimed = Reverted THEN Reverted
         ELSE IF c.op = "claim_extend" THEN Extend(claimed, c) ELSE Merge(claimed, c)
    ELSE Plain(t, c)

\* One transaction: the calls in order, none of them if any reverts.
Batch(t, calls) ==
    LET after[k \in 0..Len(calls)] ==
            IF k = 0 THEN t
            ELSE LET s == after[k - 1]
                 IN  IF s = Reverted THEN Reverted ELSE Call(s, calls[k])
    IN  after[Len(calls)]
===============================================================================
