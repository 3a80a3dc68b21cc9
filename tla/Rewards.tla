------------------------------- MODULE Rewards -------------------------------
(***************************************************************************)
(* Reward claims: the incentive drops of src/src/claims.ts and the Merkl   *)
(* distributor of src/src/merkl.ts.                                        *)
(*                                                                         *)
(* A drop pays each of its claims once while it is funded; what the index  *)
(* lists of them may be claimed or unfunded by now.  The distributor pays  *)
(* what a Merkle tree of cumulative amounts says beyond what was paid      *)
(* before; the tree is replaced by its successor after a dispute period,   *)
(* and the proofs the client fetched may be of either.  Both contracts and *)
(* both indexes are external.                                              *)
(***************************************************************************)
EXTENDS WalletSession

CONSTANTS
    Trees,          \* the trees of the distributor in their order: token -> cumulative amount
    Claims,         \* the claims of the drops: [id, drop, account, amount]
    Funds,          \* what the drops may be funded with: drop -> amount
    MaxClaims,      \* 200
    MaxRewards,     \* MAX_REWARDS_PER_CLAIM, 32
    BundleSize      \* MAX_CALLS_PER_BUNDLE, 128

User == "sender"
Payees == {User, "friend"}
Tokens == DOMAIN Trees[1]
Drops == {claim.drop : claim \in Claims}

\* What the drops and the distributor keep.
Ledger ==
    [done : SUBSET {claim.id : claim \in Claims}, funds : [Drops -> Nat], paid : [Payees -> Nat],
     tree : DOMAIN Trees, claimed : [Tokens -> Nat], got : [Payees -> [Tokens -> Nat]],
     recipient : [Tokens \cup {"default"} -> {"friend", None}]]

\* The two reads of a claim are together whatever the size, as long as it is even.
RewardsAssumption ==
    /\ Trees \in Seq([Tokens -> Nat]) /\ Trees # <<>>
    /\ \A claim \in Claims : claim.account \in Payees /\ claim.amount \in Nat
    /\ \A c, d \in Claims : c.id = d.id => c = d
    /\ Funds \subseteq [Drops -> Nat]
    /\ MaxClaims \in Nat /\ MaxRewards \in Nat
    /\ BundleSize \in Nat \ {0} /\ BundleSize % 2 = 0
    /\ Reverted \notin Ledger

------------------------------------------------------------------------------
(***************************************************************************)
(* Incentive claims                                                        *)
(***************************************************************************)

\* getRewardsClaimsByOwner: two reads for each claim, cut into bundles.
ClaimReads(claims) ==
    LET calls == FlattenSeq([i \in DOMAIN claims |-> <<<<claims[i].id, "isClaimed">>,
                                                       <<claims[i].id, "isAvailable">>>>])
        bundles == (Len(calls) + BundleSize - 1) \div BundleSize
    IN  [b \in 1..bundles |->
            SubSeq(calls, (b - 1) * BundleSize + 1, Min({b * BundleSize, Len(calls)}))]

\* One claim is called directly, several through Multicall3, each allowed to fail.
ClaimCalls(claims) ==
    IF Len(claims) = 1 THEN <<[op |-> "claim", claim |-> claims[1]]>>
    ELSE <<[op |-> "aggregate3", claims |-> claims, allowFailure |-> TRUE]>>

\* prepareRewardsClaim: only the sender's own claims.
PlanRewardsClaim(claims) ==
    IF Len(claims) \notin 1..MaxClaims \/ \E i \in DOMAIN claims : claims[i].account # User
    THEN Refused
    ELSE PlanOf("rewards", ClaimCalls(claims), claims)

------------------------------------------------------------------------------
(***************************************************************************)
(* Merkl                                                                   *)
(***************************************************************************)

\* foldProof: the root of the tree that the proof is of, if the amount is that tree's;
\* otherwise a root of no tree.
FoldProof(token, amount, proof) ==
    IF proof \in DOMAIN Trees /\ Trees[proof][token] = amount THEN <<proof>>
    ELSE <<proof, token, amount>>

RootOf(reward) == FoldProof(reward.token, reward.amount, reward.proof)

\* Mutant: the roots of the proofs are not compared.
OneRootUnchecked(rewards) == TRUE

\* "A batch spanning two roots cannot succeed."
OneRoot(rewards) == \A i, k \in DOMAIN rewards : RootOf(rewards[i]) = RootOf(rewards[k])

\* prepareMerklClaim; the derived root is the first reward's.
PlanMerklClaim(rewards) ==
    IF \/ Len(rewards) \notin 1..MaxRewards
       \/ \E i, k \in DOMAIN rewards : rewards[i].token = rewards[k].token /\ i # k
       \/ \E i \in DOMAIN rewards : rewards[i].amount = 0
       \/ ~OneRoot(rewards)
    THEN Refused
    ELSE PlanOf("merkl", <<[op |-> "merklClaim", rewards |-> rewards]>>,
                [root |-> RootOf(rewards[1]), rewards |-> rewards])

\* The validation reads: the root is live, and each amount beyond what was claimed.
MerklReadsPass(l, promise) ==
    /\ promise.root = <<l.tree>>
    /\ \A reward \in ToSet(promise.rewards) : l.claimed[reward.token] < reward.amount

\* The claim_recipient reads: the token's own recipient, else the default one.
PayeeOf(l, token) ==
    IF l.recipient[token] # None THEN l.recipient[token]
    ELSE IF l.recipient["default"] # None THEN l.recipient["default"] ELSE User

------------------------------------------------------------------------------
(***************************************************************************)
(* The contracts                                                           *)
(***************************************************************************)
Available(l, claim) == claim.id \notin l.done /\ l.funds[claim.drop] >= claim.amount

ClaimPaid(l, claim) ==
    IF ~Available(l, claim) THEN Reverted
    ELSE [l EXCEPT !.done = @ \cup {claim.id}, !.funds[claim.drop] = @ - claim.amount,
                   !.paid[claim.account] = @ + claim.amount]

\* A claim that may fail leaves the ledger as it is when it does.
Attempted(l, claim) == IF Available(l, claim) THEN ClaimPaid(l, claim) ELSE l

Aggregated(l, call) ==
    IF call.allowFailure THEN Batch(Attempted, l, call.claims) ELSE Batch(ClaimPaid, l, call.claims)

RewardPaid(l, reward) ==
    IF RootOf(reward) # <<l.tree>> \/ reward.amount < l.claimed[reward.token]
    THEN Reverted
    ELSE [l EXCEPT !.claimed[reward.token] = reward.amount,
                   !.got[PayeeOf(l, reward.token)][reward.token] =
                        @ + reward.amount - l.claimed[reward.token]]

Apply(l, call) ==
    CASE call.op = "claim" -> ClaimPaid(l, call.claim)
      [] call.op = "aggregate3" -> Aggregated(l, call)
      [] call.op = "merklClaim" -> Batch(RewardPaid, l, call.rewards)

------------------------------------------------------------------------------
(***************************************************************************)
(* The session                                                             *)
(***************************************************************************)
Init ==
    \E funds \in Funds, token \in Tokens \cup {"default", None} :
        Start([done |-> {}, funds |-> funds, paid |-> [p \in Payees |-> 0], tree |-> 1,
               claimed |-> [t \in Tokens |-> 0], got |-> [p \in Payees |-> [t \in Tokens |-> 0]],
               recipient |-> [t \in Tokens \cup {"default"} |->
                                IF t = token THEN "friend" ELSE None]], None)

PrepareRewardsClaim ==
    \E n \in 0..3 : \E claims \in [1..n -> Claims] : Prepared(PlanRewardsClaim(claims))

\* The client passes on what it fetched of a tree, or mixes two fetches.
Fetched ==
    [token : Tokens, amount : {Trees[i][t] : i \in DOMAIN Trees, t \in Tokens},
     proof : DOMAIN Trees]

PrepareMerklClaim ==
    \E n \in 0..2 : \E rewards \in [1..n -> Fetched] : Prepared(PlanMerklClaim(rewards))

Outcome == Batch(Apply, chain, plan.calls)

Execute == Submitted(Outcome)

\* A new tree takes effect, or a dispute brings the former one back; someone claims for
\* the sender, which anyone may; the sender redirects its rewards.
Move ==
    \/ Moved({[chain EXCEPT !.tree = i] : i \in DOMAIN Trees})
    \/ \E claim \in Claims : Available(chain, claim) /\ Moved({ClaimPaid(chain, claim)})
    \/ \E t \in Tokens : Moved({[chain EXCEPT !.recipient[t] = "friend"]})

Next == PrepareRewardsClaim \/ PrepareMerklClaim \/ Execute \/ Move

Spec == Init /\ [][Next]_vars

------------------------------------------------------------------------------
(***************************************************************************)
(* Properties                                                              *)
(***************************************************************************)

\* The variables have their types, and a drop never pays more than it was given.
TypeOK ==
    /\ SessionTypeOK
    /\ chain \in Ledger

\* What the claims of a set pay together.
Worth(claims) == MapThenSumSet(LAMBDA claim : claim.amount, claims)

\* "Independent claim failures are allowed": a plan for several claims pays every one of
\* them that can be paid when it comes to its turn, whichever of the others were claimed
\* by someone else meanwhile or are not funded, and none twice; and the reads that are
\* to tell beforehand name each claim, both reads in one bundle.
ClaimsIndependent ==
    plan.kind = "rewards" =>
        LET claims == plan.promise
            ids == {claims[i].id : i \in DOMAIN claims}
            afterwards == IF Outcome = Reverted THEN chain ELSE Outcome
            \* A claim left out was paid before or finds its drop short even now.
        IN  /\ Outcome = Reverted =>
                    Len(claims) = 1 /\ ~Available(chain, claims[1])
            /\ \A claim \in ToSet(claims) :
                    claim.id \in afterwards.done \/ afterwards.funds[claim.drop] < claim.amount
            /\ afterwards.paid[User] - chain.paid[User] =
                    Worth({c \in ToSet(claims) : c.id \in afterwards.done \ chain.done})
            /\ \A id \in ids : \E b \in DOMAIN ClaimReads(claims) :
                    {<<id, "isClaimed">>, <<id, "isAvailable">>} \subseteq ToSet(ClaimReads(claims)[b])

\* A claim whose derived root is the live one and whose amounts exceed what was claimed
\* succeeds, and brings the total of every token, over all claims of all trees, to the
\* amount that the live tree says; when the tree has moved on, it pays nothing at all.
MerklDelivers ==
    plan.kind = "merkl" =>
        LET promise == plan.promise
            total(l, t) == l.got[User][t] + l.got["friend"][t]
        IN  IF MerklReadsPass(chain, promise)
            THEN /\ Outcome # Reverted
                 /\ \A reward \in ToSet(promise.rewards) :
                        /\ total(Outcome, reward.token) = Trees[chain.tree][reward.token]
                        /\ \A other \in Payees \ {PayeeOf(chain, reward.token)} :
                              Outcome.got[other][reward.token] = chain.got[other][reward.token]
            ELSE promise.root # <<chain.tree>> => Outcome = Reverted
==============================================================================
