------------------------------ MODULE Aerodrome ------------------------------
(***************************************************************************)
(* The plans of the Aerodrome tools (src/src/aerodrome.ts): liquidity in   *)
(* two tokens, the gauge it is staked in, vote-escrow locks, votes and     *)
(* incentive claims.  The server reads nothing itself: every plan comes    *)
(* with the reads that the client makes before it signs, and with what     *)
(* they must show.  The contracts are external, one pool, gauge and lock   *)
(* of each, as the plans' details and errors describe them.                *)
(***************************************************************************)
EXTENDS WalletSession

CONSTANTS
    Ledgers,        \* the ledgers a behaviour may begin with
    Week,           \* WEEK_SECONDS
    Window,         \* the distribute window that begins an epoch
    MaxLock,        \* MAX_LOCK_SECONDS, not a whole number of weeks
    MaxTime,        \* bound: the clock
    MaxVotePools,   \* 32
    MaxSources,     \* MAX_CLAIM_SOURCES, 32
    MaxTokens       \* MAX_CLAIM_TOKENS_PER_SOURCE, 16

Owner == "sender"
Accounts == {Owner, "friend"}

\* The clock in weeks, as votes and lock ends count it.
Epoch(now) == now \div Week

\* The gauge of each pool, one of which is no longer alive; one pool has none.
GaugeOf == [pool |-> "gauge", dead_pool |-> "dead_gauge", bare_pool |-> None]

------------------------------------------------------------------------------
(***************************************************************************)
(* Plans                                                                   *)
(***************************************************************************)

Approve(token, spender, amount) ==
    [op |-> "approve", key |-> <<token, spender>>, amount |-> amount]

\* Approve exactly what one call spends, and take back what it leaves.
WithCleanup(token, spender, amount, call) ==
    <<Approve(token, spender, amount), call, Approve(token, spender, 0)>>

\* futureDeadline, by the server's clock, which is the chain's here.
FutureDeadline(deadline, now) == deadline > now

\* prepareAerodromeLiquidityDeposit
PlanAdd(req, now) ==
    IF \/ req.tokenA = req.tokenB
       \/ req.a = 0 \/ req.b = 0 \/ req.aMin > req.a \/ req.bMin > req.b
       \/ ~FutureDeadline(req.deadline, now)
    THEN Refused
    ELSE PlanOf("add",
            <<Approve("a", "router", req.a), Approve("b", "router", req.b),
              [op |-> "addLiquidity", a |-> req.a, b |-> req.b, aMin |-> req.aMin,
               bMin |-> req.bMin, recipient |-> req.recipient, deadline |-> req.deadline],
              Approve("a", "router", 0), Approve("b", "router", 0)>>, req)

\* A phase that only asks the client to read an address and to call again with it.
NotReady == PlanOf("resolve", <<>>, None)

\* prepareAerodromeLiquidityWithdraw: without the LP token, the read that finds it.
PlanRemove(req, now) ==
    IF req.amount = 0 \/ ~FutureDeadline(req.deadline, now) THEN Refused
    ELSE IF req.lpToken = None THEN NotReady
    ELSE PlanOf("remove",
            WithCleanup(req.lpToken, "router", req.amount,
                [op |-> "removeLiquidity", amount |-> req.amount, aMin |-> req.aMin,
                 bMin |-> req.bMin, recipient |-> req.recipient, deadline |-> req.deadline]),
            req)

\* prepareAerodromeGaugeDeposit, in the same two phases.
PlanStake(req) ==
    IF req.amount = 0 THEN Refused
    ELSE IF req.lpToken = None THEN NotReady
    ELSE PlanOf("stake",
            WithCleanup(req.lpToken, "gauge", req.amount, [op |-> "stake", amount |-> req.amount]),
            req)

\* prepareAerodromeGaugeWithdraw
PlanUnstake(amount) ==
    IF amount = 0 THEN Refused
    ELSE PlanOf("unstake", <<[op |-> "unstake", amount |-> amount]>>, [amount |-> amount])

\* Mutant: getReward is given the sender.
GaugeClaimForSender(account) ==
    PlanOf("gauge_claim", <<[op |-> "getReward", account |-> Owner]>>, [account |-> account])

\* prepareAerodromeGaugeClaim: any account may be named.
PlanGaugeClaim(account) ==
    PlanOf("gauge_claim", <<[op |-> "getReward", account |-> account]>>, [account |-> account])

\* lockDurationSeconds: "a duration under one week rounds to no lock at all".
LockDuration(duration) == Week <= duration /\ duration <= MaxLock

\* prepareAerodromeLock
PlanLock(req) ==
    LET escrow(op) == [op |-> op, amount |-> req.amount, duration |-> req.duration]
        spends == req.action \in {"create", "increase_amount"}
        lasts == req.action \in {"create", "extend"}
    IN  IF (spends /\ req.amount = 0) \/ (lasts /\ ~LockDuration(req.duration)) THEN Refused
        ELSE PlanOf(req.action,
                IF spends THEN WithCleanup("aero", "escrow", req.amount, escrow(req.action))
                ELSE <<escrow(req.action)>>, req)

\* prepareAerodromeVote: a sequence of pools and weights, or a reset.
PlanVote(entries, reset) ==
    IF reset THEN (IF entries # <<>> THEN Refused
                   ELSE PlanOf("reset", <<[op |-> "reset"]>>, None))
    ELSE IF \/ Len(entries) \notin 1..MaxVotePools
            \/ \E i, k \in DOMAIN entries : entries[i].pool = entries[k].pool /\ i # k
            \/ \E i \in DOMAIN entries : entries[i].weight = 0
    THEN Refused
    ELSE PlanOf("vote", <<[op |-> "vote", entries |-> entries]>>, [entries |-> entries])

\* normalizeClaimSources: [contract, tokens] each, without repetition.
ValidSources(sources) ==
    /\ Len(sources) <= MaxSources
    /\ \A i, k \in DOMAIN sources : sources[i].contract = sources[k].contract => i = k
    /\ \A i \in DOMAIN sources :
          Len(sources[i].tokens) \in 1..MaxTokens /\ IsInjective(sources[i].tokens)

\* prepareAerodromeIncentiveClaim: up to three calls, the rebase last.
PlanIncentives(fees, bribes, rebase) ==
    IF ~ValidSources(fees) \/ ~ValidSources(bribes) \/ (fees \o bribes = <<>> /\ ~rebase)
    THEN Refused
    ELSE PlanOf("incentives",
            (IF fees = <<>> THEN <<>> ELSE <<[op |-> "claim", sources |-> fees]>>)
                \o (IF bribes = <<>> THEN <<>> ELSE <<[op |-> "claim", sources |-> bribes]>>)
                \o (IF rebase THEN <<[op |-> "claimRebase"]>> ELSE <<>>),
            [asked |-> {s.contract : s \in ToSet(fees \o bribes)}, rebase |-> rebase])

------------------------------------------------------------------------------
(***************************************************************************)
(* The contracts                                                           *)
(***************************************************************************)
NoLock == [owner |-> None, amount |-> 0, end |-> 0, permanent |-> FALSE, managed |-> FALSE,
           votes |-> <<>>, votedAt |-> None]

\* quoteAddLiquidity: the split that the reserves demand.
QuoteAdd(l, a, b) ==
    LET forA == (a * l.reserves[2]) \div l.reserves[1]
    IN  IF forA <= b THEN <<a, forA>> ELSE <<(b * l.reserves[1]) \div l.reserves[2], b>>

\* quoteRemoveLiquidity: both reserves in the ratio they are in.
QuoteRemove(l, amount) == <<amount * l.reserves[1], amount * l.reserves[2]>>

Gives(l, account, token, amount) == [l EXCEPT !.bal[account][token] = @ + amount]

\* A transferFrom by a spender that was approved.
Takes(l, token, spender, amount) ==
    IF l.bal[Owner][token] < amount \/ l.allowance[<<token, spender>>] < amount THEN Reverted
    ELSE [l EXCEPT !.bal[Owner][token] = @ - amount, !.allowance[<<token, spender>>] = @ - amount]

Then(l, next(_)) == IF l = Reverted THEN Reverted ELSE next(l)

Added(l, call) ==
    LET split == QuoteAdd(l, call.a, call.b)
    IN  IF call.deadline < l.now \/ split[1] < call.aMin \/ split[2] < call.bMin THEN Reverted
        ELSE Then(Takes(l, "a", "router", split[1]), LAMBDA m :
             Then(Takes(m, "b", "router", split[2]), LAMBDA n : Gives(n, call.recipient, "lp", 1)))

Removed(l, call) ==
    LET out == QuoteRemove(l, call.amount)
    IN  IF call.deadline < l.now \/ out[1] < call.aMin \/ out[2] < call.bMin THEN Reverted
        ELSE Then(Takes(l, "lp", "router", call.amount), LAMBDA m :
                  Gives(Gives(m, call.recipient, "a", out[1]), call.recipient, "b", out[2]))

\* The unlock time is floored to a week.
Unlock(now, duration) == Epoch(now + duration) * Week

Running(l) == l.lock.permanent \/ l.lock.end > l.now
VotedThisEpoch(l) == l.lock.votedAt # None /\ l.lock.votedAt = Epoch(l.now)

\* What the escrow does to a lock of the sender.  A new one is minted in a free slot, of
\* which the model has one.  A lock whose vote stands is not withdrawn (line 1366).
Locked(l, call) ==
    LET mine == l.lock.owner = Owner /\ ~l.lock.managed
        deposited(m, fresh) == Then(Takes(m, "aero", "escrow", call.amount), LAMBDA n :
                                    [n EXCEPT !.lock = fresh])
        until == Unlock(l.now, call.duration)
    IN  CASE call.op = "create" ->
                IF l.lock # NoLock \/ until <= l.now THEN Reverted
                ELSE deposited(l, [NoLock EXCEPT !.owner = Owner, !.amount = call.amount, !.end = until])
          [] ~mine -> Reverted
          [] call.op = "increase_amount" /\ Running(l) ->
                deposited(l, [l.lock EXCEPT !.amount = @ + call.amount])
          [] call.op = "extend" /\ Running(l) /\ ~l.lock.permanent /\ until > l.lock.end ->
                [l EXCEPT !.lock.end = until]
          [] call.op = "lock_permanent" /\ Running(l) /\ ~l.lock.permanent ->
                [l EXCEPT !.lock.permanent = TRUE, !.lock.end = 0]
          [] call.op = "unlock_permanent" /\ l.lock.permanent ->
                [l EXCEPT !.lock.permanent = FALSE, !.lock.end = Unlock(l.now, MaxLock)]
          [] call.op = "withdraw" /\ ~Running(l) /\ l.lock.votedAt = None ->
                [Gives(l, Owner, "aero", l.lock.amount) EXCEPT !.lock = NoLock]
          [] OTHER -> Reverted

\* The Voter takes the address of a gauge.
IsAlive(l, gauge) == gauge \in l.alive

\* DistributeWindow: votes and resets revert at the start of an epoch.
Distributing(l) == l.now % Week < Window

\* One vote an epoch, of a running lock, for pools whose gauge is alive.
Voted(l, call) ==
    IF l.lock.owner # Owner \/ l.lock.managed \/ VotedThisEpoch(l) \/ Distributing(l) THEN Reverted
    ELSE IF call.op = "reset" THEN [l EXCEPT !.lock.votes = <<>>, !.lock.votedAt = None]
    ELSE IF ~Running(l) \/ \E i \in DOMAIN call.entries : ~IsAlive(l, GaugeOf[call.entries[i].pool])
    THEN Reverted
    ELSE [l EXCEPT !.lock.votes = call.entries, !.lock.votedAt = Epoch(l.now)]

\* What the lock is owed by these contracts goes to its owner, whoever sends the claim; a
\* wrong address pays nothing.
Claimed(l, sources) ==
    LET due == {s.contract : s \in ToSet(sources)} \cap l.owed
    IN  IF l.lock.owner = None THEN Reverted
        ELSE [Gives(l, l.lock.owner, "reward", Cardinality(due)) EXCEPT !.owed = @ \ due]

\* The rebase compounds into the lock.
Rebased(l) ==
    IF l.lock.owner = None THEN Reverted
    ELSE [l EXCEPT !.lock.amount = @ + l.rebase, !.rebase = 0]

Apply(l, call) ==
    CASE call.op = "approve" -> [l EXCEPT !.allowance[call.key] = call.amount]
      [] call.op = "addLiquidity" -> Added(l, call)
      [] call.op = "removeLiquidity" -> Removed(l, call)
      [] call.op = "stake" ->
            Then(Takes(l, "lp", "gauge", call.amount), LAMBDA m : [m EXCEPT !.staked = @ + call.amount])
      [] call.op = "unstake" ->
            IF l.staked < call.amount THEN Reverted
            ELSE [Gives(l, Owner, "lp", call.amount) EXCEPT !.staked = @ - call.amount]
      [] call.op = "getReward" ->
            [Gives(l, call.account, "aero", l.earned[call.account]) EXCEPT !.earned[call.account] = 0]
      [] call.op \in {"vote", "reset"} -> Voted(l, call)
      [] call.op = "claim" -> Claimed(l, call.sources)
      [] call.op = "claimRebase" -> Rebased(l)
      [] OTHER -> Locked(l, call)

------------------------------------------------------------------------------
(***************************************************************************)
(* The reads of a plan: what its onchain_validation and its details want   *)
(* the client to see in them before it signs, and no more than that.       *)
(***************************************************************************)

\* quote_add_liquidity and the two balances; and a pool, which the ledger has.
AddReads(l, req) ==
    /\ l.bal[Owner]["a"] >= req.a /\ l.bal[Owner]["b"] >= req.b
    /\ QuoteAdd(l, req.a, req.b)[1] >= req.aMin /\ QuoteAdd(l, req.a, req.b)[2] >= req.bMin

\* pool, lp_balance and quote_remove_liquidity.
RemoveReads(l, req) ==
    /\ req.lpToken = "lp" /\ l.bal[Owner]["lp"] >= req.amount
    /\ QuoteRemove(l, req.amount)[1] >= req.aMin /\ QuoteRemove(l, req.amount)[2] >= req.bMin

\* staking_token and lp_balance; a gauge that is not alive is only reported.
StakeReads(l, req) == req.lpToken = "lp" /\ l.bal[Owner]["lp"] >= req.amount

\* staked_balance
UnstakeReads(l, req) == l.staked >= req.amount

\* Owner, escrow_type and locked, and of what is spent aero_balance.  Only a withdrawal
\* asks for more, and of the vote no more than that it is not of this epoch.
LockReads(l, action, req) ==
    /\ action # "create" => l.lock.owner = Owner /\ ~l.lock.managed
    /\ action \in {"create", "increase_amount"} => l.bal[Owner]["aero"] >= req.amount
    /\ action = "extend" => ~l.lock.permanent /\ Unlock(l.now, req.duration) > l.lock.end
    /\ action = "withdraw" =>
          l.lock.end <= l.now /\ ~l.lock.permanent /\ ~VotedThisEpoch(l)

\* balanceOfNFT: nothing is left of a lock that ended, or whose relay votes with it.
VotingPower(l) == IF Running(l) /\ ~l.lock.managed THEN l.lock.amount ELSE 0

\* owner, voting_power and last_voted.
VoterReads(l) == l.lock.owner = Owner /\ VotingPower(l) > 0 /\ ~VotedThisEpoch(l)

\* gauge_* and gauge_alive_*, with the address that isAlive is asked about for a pool.
GaugeReads(l, entries, asked) ==
    \A i \in DOMAIN entries :
        GaugeOf[entries[i].pool] # None /\ IsAlive(l, asked[entries[i].pool])

\* The address it is asked about in the code is the pool's own.
GaugeReadsAsSent(l, entries) == GaugeReads(l, entries, [pool \in DOMAIN GaugeOf |-> pool])

\* The one its parameter and the deposit into a gauge name is the gauge's.
GaugeReadsAsMeant(l, entries) == GaugeReads(l, entries, GaugeOf)

\* An owner: the sender, or else the client explains who is paid.
ClaimReads(l) == l.lock.owner # None

------------------------------------------------------------------------------
(***************************************************************************)
(* The session                                                             *)
(***************************************************************************)
Init == \E ledger \in Ledgers : Start(ledger, None)

AddRequests ==
    [tokenA : {"a"}, tokenB : {"a", "b"}, a : {0, 4}, b : {4}, aMin : {0, 2, 5}, bMin : {2},
     recipient : Accounts, deadline : 0..2]

PrepareAdd == \E req \in AddRequests : Prepared(PlanAdd(req, chain.now))

PrepareRemove ==
    \E req \in [amount : 0..2, lpToken : {None, "lp", "other_lp"}, aMin : {0, 2}, bMin : {1},
                recipient : Accounts, deadline : 0..2] : Prepared(PlanRemove(req, chain.now))

PrepareStake ==
    \E req \in [amount : 0..2, lpToken : {None, "lp", "other_lp"}] : Prepared(PlanStake(req))

PrepareUnstake == \E amount \in 0..2 : Prepared(PlanUnstake(amount))

PrepareGaugeClaim == \E account \in Accounts : Prepared(PlanGaugeClaim(account))

LockActions ==
    {"create", "increase_amount", "extend", "lock_permanent", "unlock_permanent", "withdraw"}

PrepareLock ==
    \E req \in [action : LockActions, amount : 0..1, duration : 1..(MaxLock + 1)] :
        Prepared(PlanLock(req))

PrepareVote ==
    \E n \in 0..2, reset \in BOOLEAN :
        \E entries \in [1..n -> [pool : DOMAIN GaugeOf, weight : {0, 2}]] :
            Prepared(PlanVote(entries, reset))

Sources == {<<>>} \cup {<<[contract |-> c, tokens |-> t]>> : c \in {"fees", "wrong"},
                                                             t \in {<<>>, <<"a">>, <<"a", "a">>}}

PrepareIncentives ==
    \E fees, bribes \in Sources, rebase \in BOOLEAN : Prepared(PlanIncentives(fees, bribes, rebase))

Outcome == Batch(Apply, chain, plan.calls)

Execute == Submitted(Outcome)

\* Time passes, the pool trades, the gauge pays; the lock changes hands, enters a relay or
\* votes elsewhere.
Move ==
    \/ chain.now < MaxTime /\ Moved({[chain EXCEPT !.now = @ + 1]})
    \/ Moved({[chain EXCEPT !.reserves = r] : r \in {<<1, 1>>, <<2, 1>>, <<1, 2>>}})
    \/ Moved({[chain EXCEPT !.earned[account] = @ + 1] : account \in Accounts})
    \/ chain.lock # NoLock
        /\ Moved({[chain EXCEPT !.lock.owner = "friend"], [chain EXCEPT !.lock.managed = TRUE],
                  [chain EXCEPT !.lock.votes = <<[pool |-> "pool", weight |-> 9]>>, !.lock.votedAt = Epoch(chain.now)]})

Next ==
    \/ PrepareAdd \/ PrepareRemove \/ PrepareStake \/ PrepareUnstake \/ PrepareGaugeClaim
    \/ PrepareLock \/ PrepareVote \/ PrepareIncentives \/ Execute \/ Move

Spec == Init /\ [][Next]_vars

------------------------------------------------------------------------------
(***************************************************************************)
(* Properties                                                              *)
(***************************************************************************)

\* The variables have their types, and no allowance outlives the batch that sets it.
TypeOK ==
    /\ SessionTypeOK
    /\ chain.now \in 0..MaxTime /\ chain.staked \in Nat
    /\ \A account \in Accounts : \A token \in DOMAIN chain.bal[account] :
          chain.bal[account][token] \in Nat
    /\ \A key \in DOMAIN chain.allowance : chain.allowance[key] = 0

\* The reads of the plan in hand pass; those of a vote, as they are meant.
ReadsPass ==
    LET req == plan.promise
    IN  CASE plan.kind = "add" -> AddReads(chain, req)
          [] plan.kind = "remove" -> RemoveReads(chain, req)
          [] plan.kind = "stake" -> StakeReads(chain, req)
          [] plan.kind = "unstake" -> UnstakeReads(chain, req)
          [] plan.kind \in LockActions -> LockReads(chain, plan.kind, req)
          [] plan.kind = "vote" -> VoterReads(chain) /\ GaugeReadsAsMeant(chain, req.entries)
          [] plan.kind = "reset" -> VoterReads(chain)
          [] plan.kind = "incentives" -> ClaimReads(chain)
          [] OTHER -> TRUE

\* The refusals that the reads do not exclude.  The deadline is the call's own; errors the
\* plan decodes name locks that have ended or are permanent (lines 127-128); votes and
\* resets meet the distribute window (119, 399).  A vote of an earlier epoch forbids the
\* withdrawal that the details allow (1366, 1233-1236).  The slot is the model's bound.
Foreseen ==
    LET req == plan.promise
        ended == ~Running(chain)
    IN  CASE plan.kind \in {"add", "remove"} -> chain.now > req.deadline
          [] plan.kind = "create" -> chain.lock # NoLock
          [] plan.kind \in {"increase_amount", "extend"} -> ended
          [] plan.kind = "lock_permanent" -> ended \/ chain.lock.permanent
          [] plan.kind = "unlock_permanent" -> ~chain.lock.permanent
          [] plan.kind = "withdraw" -> chain.lock.votedAt # None
          [] plan.kind \in {"vote", "reset"} -> Distributing(chain)
          [] OTHER -> FALSE

\* What left (below zero) or reached an account.
Change(account, token) == Outcome.bal[account][token] - chain.bal[account][token]

\* What the details of the plan in hand say of it, to the account they say, and nothing
\* to AERO, LP tokens or a lock beyond that.
DoesWhatItSays ==
    LET req == plan.promise
        after == Outcome.lock
        before == chain.lock
    IN  CASE plan.kind = "add" ->
                 /\ -Change(Owner, "a") \in req.aMin..req.a
                 /\ -Change(Owner, "b") \in req.bMin..req.b
                 /\ Change(req.recipient, "lp") = 1
          [] plan.kind = "remove" ->
                 /\ Outcome.bal[Owner]["lp"] = chain.bal[Owner]["lp"] - req.amount
                 /\ Change(req.recipient, "a") >= req.aMin
                 /\ Change(req.recipient, "b") >= req.bMin
          [] plan.kind = "stake" ->
                 Outcome.staked = chain.staked + req.amount /\ Change(Owner, "lp") = -req.amount
          [] plan.kind = "unstake" ->
                 /\ Change(Owner, "lp") = req.amount /\ Outcome.earned = chain.earned
          [] plan.kind = "gauge_claim" ->
                 /\ Change(req.account, "aero") = chain.earned[req.account]
                 /\ \A other \in Accounts \ {req.account} : Change(other, "aero") = 0
          [] plan.kind = "create" ->
                 /\ after.end > chain.now /\ after.end <= chain.now + MaxLock
                 /\ after.end > chain.now + req.duration - Week
          [] plan.kind = "increase_amount" ->
                 after = [before EXCEPT !.amount = @ + req.amount]
          [] plan.kind = "extend" ->
                 /\ after = [before EXCEPT !.end = after.end] /\ after.end > before.end
          [] plan.kind \in {"lock_permanent", "unlock_permanent"} ->
                 after.amount = before.amount /\ after.permanent # before.permanent
          [] plan.kind = "withdraw" ->
                 Change(Owner, "aero") = before.amount /\ after = NoLock
          [] plan.kind = "vote" -> after.votes = req.entries
          [] plan.kind = "reset" -> after.votes = <<>>
          [] plan.kind = "incentives" ->
                 /\ Change(before.owner, "reward") = Cardinality(req.asked \cap chain.owed)
                 /\ \A other \in Accounts \ {before.owner} : Change(other, "reward") = 0
                 /\ after.amount = before.amount + (IF req.rebase THEN chain.rebase ELSE 0)
          [] OTHER -> TRUE

\* A plan whose reads pass now fails now exactly if a refusal is foreseen, and otherwise
\* does what its details say.  "A duration under one week rounds to no lock at all"
\* (lockDuration): whenever within a week a plan for a lock is executed, that lock lies in
\* the future and is less than a week shorter than what was asked.
\*
\* A vote is judged by the reads as they are meant.  As sent they ask isAlive about the
\* pool (line 1340), not about its gauge (lines 88, 915 and 1015): they pass for no vote,
\* one that would succeed included, and a client that heeds them never votes.
AerodromeDelivers ==
    /\ plan.kind \notin {"none", "resolve"} /\ ReadsPass =>
          /\ (Outcome = Reverted) = Foreseen
          /\ Outcome # Reverted => DoesWhatItSays
    /\ plan.kind = "vote" => ~GaugeReadsAsSent(chain, plan.promise.entries)
==============================================================================
