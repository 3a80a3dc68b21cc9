----------------------------- MODULE PlanHandoff -----------------------------
(***************************************************************************)
(* From a tool call to the chain: a quote or preparation call asks its     *)
(* sources, builds plans, stores each one as an artifact and answers with  *)
(* references (collectQuotes of core.ts, the registerTool wrapper of       *)
(* server.ts, artifact-store.ts); the wallet fetches a reference by HTTP   *)
(* and carries the plan out against the allowances of the chain at that    *)
(* moment, which other plans and the user's interface have changed since.  *)
(*                                                                         *)
(* Wallet and chain are external: their steps are the ones the plans and   *)
(* their required_capabilities ask for.  Of a chain only the sender's      *)
(* allowances are kept.                                                    *)
(***************************************************************************)
EXTENDS SwapQuotes, FiniteSets, FiniteSetsExt

CONSTANTS
    Calls,          \* tool calls, each made once
    Tokens,         \* ERC-20 tokens of the sender
    Spenders,       \* contracts that are approved
    Intents,        \* call -> what it may ask of get_quotes_with_plans
    ActionPlans,    \* call -> the plans it may have another preparation tool build
    Standing,       \* the allowances the user grants elsewhere, as token and spender pairs
    Unlimited,      \* the allowance the interface grants, never used up
    TTL,            \* ARTIFACT_TTL_SECONDS
    MaxTime,        \* bound on the clock
    Rejected,       \* the promise of a source that failed
    Pending,        \* the promise of a source that has not answered
    None

ASSUME UnlimitedAssumption == Unlimited \in Nat /\ Unlimited > Bound

ASSUME TimeAssumption == TTL \in Nat /\ MaxTime \in Nat

VARIABLES
    now,
    allowed,    \* token and spender -> what the spender may take
    pc,         \* call -> how far it is
    request,    \* call -> its intent, or None for a call of another tool
    settled,    \* call -> source -> its candidate, Rejected or Pending
    bodies,     \* call -> the plans to store, in the order of the quotes
    store,      \* the artifact bucket: stored reference -> its object
    wallet      \* reference -> what the wallet made of it

vars == <<now, allowed, pc, request, settled, bodies, store, wallet>>

Pairs == Tokens \X Spenders

Sources == {"ekubo", "0x", "across", "layerzero", "lifi"}

\* An artifact id is random, so it stands for the call and the plan's place in it.
MaxBodies == 3
Refs == Calls \X (1..MaxBodies)

Unasked == [s \in Sources |-> Pending]

Idle == [status |-> "none", plan |-> NoPlan, step |-> 0, residue |-> {}]

TypeOK ==
    /\ now \in 0..MaxTime
    /\ allowed \in [Pairs -> 0..Unlimited]
    /\ pc \in [Calls -> {"idle", "quoting", "storing", "answered", "failed", "unavailable"}]
    /\ \A c \in Calls :
        /\ request[c] \in Intents[c] \cup {None}
        /\ \A s \in Sources : settled[c][s] \in {Pending, Rejected} \/ settled[c][s].source = s
        /\ Len(bodies[c]) <= MaxBodies
    /\ \A ref \in DOMAIN store : ref \in Refs /\ store[ref].uploaded \in 0..now
    /\ \A ref \in Refs :
        /\ wallet[ref].status \in
            {"none", "held", "missed", "done", "collided", "unfunded"}
        /\ wallet[ref].residue \subseteq Pairs

Init ==
    /\ now = 0
    /\ allowed = [p \in Pairs |-> 0]
    /\ pc = [c \in Calls |-> "idle"]
    /\ request = [c \in Calls |-> None]
    /\ settled = [c \in Calls |-> Unasked]
    /\ bodies = [c \in Calls |-> <<>>]
    /\ store = <<>>
    /\ wallet = [ref \in Refs |-> Idle]

-------------------------------------------------------------------------------
\* The server.

AskQuotes(c, intent) ==
    /\ pc[c] = "idle"
    /\ pc' = [pc EXCEPT ![c] = "quoting"]
    /\ request' = [request EXCEPT ![c] = intent]
    /\ UNCHANGED <<now, allowed, settled, bodies, store, wallet>>

StandingAllowance(token, source) ==
    IF <<token, source>> \in Pairs THEN allowed[<<token, source>>] ELSE 0

\* One source of the call answers, by the allowance there is then, or its promise rejects.
Settle(c, source) ==
    /\ pc[c] = "quoting"
    /\ source \in Range(RequestedSources(request[c]))
    /\ settled[c][source] = Pending
    /\ \E outcome \in {Rejected} \cup
            Quotes(source, request[c], StandingAllowance(request[c].token, source)) :
        settled' = [settled EXCEPT ![c][source] = outcome]
    /\ UNCHANGED <<now, allowed, pc, request, bodies, store, wallet>>

\* The candidates of a call, in the order its sources were asked.
Fulfilled(c) ==
    LET sources == RequestedSources(request[c])
    IN  FlattenSeq([i \in DOMAIN sources |->
            IF settled[c][sources[i]] = Rejected THEN <<>> ELSE <<sources[i]>>])

\* Mutant: Promise.all, which rejects with the first source that fails.
CollectQuotesAll(c) ==
    LET sources == RequestedSources(request[c])
        plans == [i \in DOMAIN sources |-> PrepareCandidate(request[c], settled[c][sources[i]])]
        failed == \E s \in Range(sources) : settled[c][s] = Rejected
    IN  /\ pc[c] = "quoting"
        /\ \A s \in Range(sources) : settled[c][s] # Pending
        /\ bodies' = [bodies EXCEPT ![c] = IF failed THEN <<>> ELSE plans]
        /\ pc' = [pc EXCEPT ![c] = IF failed THEN "unavailable" ELSE "storing"]
        /\ UNCHANGED <<now, allowed, request, settled, store, wallet>>

\* Promise.allSettled: after the last source, whatever the others did.
CollectQuotes(c) ==
    LET plans == [i \in DOMAIN Fulfilled(c) |->
                    PrepareCandidate(request[c], settled[c][Fulfilled(c)[i]])]
    IN  /\ pc[c] = "quoting"
        /\ \A s \in Range(RequestedSources(request[c])) : settled[c][s] # Pending
        /\ bodies' = [bodies EXCEPT ![c] = plans]
        /\ pc' = [pc EXCEPT ![c] = IF plans = <<>> THEN "unavailable" ELSE "storing"]
        /\ UNCHANGED <<now, allowed, request, settled, store, wallet>>

PrepareAction(c, plan) ==
    /\ pc[c] = "idle"
    /\ bodies' = [bodies EXCEPT ![c] = <<plan>>]
    /\ pc' = [pc EXCEPT ![c] = "storing"]
    /\ UNCHANGED <<now, allowed, request, settled, store, wallet>>

ToStore(c) == {i \in DOMAIN bodies[c] : bodies[c][i] # NoPlan}

NotStored(c) == {i \in ToStore(c) : <<c, i>> \notin DOMAIN store}

\* The puts of a call run side by side; those in flight go on after one has failed.
StoreArtifact(c) ==
    /\ pc[c] \in {"storing", "failed"}
    /\ \E i \in NotStored(c) :
        store' = [ref \in DOMAIN store \cup {<<c, i>>} |->
                    IF ref = <<c, i>> THEN [body |-> bodies[c][i], uploaded |-> now]
                    ELSE store[ref]]
    /\ UNCHANGED <<now, allowed, pc, request, settled, bodies, wallet>>

\* Promise.all: one put that fails fails the call, and no reference is returned.
StoreFails(c) ==
    /\ pc[c] = "storing"
    /\ NotStored(c) # {}
    /\ pc' = [pc EXCEPT ![c] = "failed"]
    /\ settled' = [settled EXCEPT ![c] = Unasked]
    /\ UNCHANGED <<now, allowed, request, bodies, store, wallet>>

\* Mutant: the references are returned while their puts are still under way.
RespondBeforePuts(c) ==
    /\ pc[c] = "storing"
    /\ pc' = [pc EXCEPT ![c] = "answered"]
    /\ settled' = [settled EXCEPT ![c] = Unasked]
    /\ UNCHANGED <<now, allowed, request, bodies, store, wallet>>

\* The candidates of a call are dropped when it returns.
Respond(c) ==
    /\ pc[c] = "storing"
    /\ NotStored(c) = {}
    /\ pc' = [pc EXCEPT ![c] = "answered"]
    /\ settled' = [settled EXCEPT ![c] = Unasked]
    /\ UNCHANGED <<now, allowed, request, bodies, store, wallet>>

\* loadArtifact finds the object, not past its window; otherwise it returns null.
LoadArtifact(ref) ==
    ref \in DOMAIN store /\ now - store[ref].uploaded <= TTL

-------------------------------------------------------------------------------
\* The wallet.  Of the plans of one answer the client chooses one.

Fetch(c, i) ==
    /\ pc[c] = "answered"
    /\ i \in ToStore(c)
    /\ \A j \in 1..MaxBodies : wallet[<<c, j>>].status = "none"
    /\ wallet' = [wallet EXCEPT ![<<c, i>>] =
            IF LoadArtifact(<<c, i>>)
            THEN [Idle EXCEPT !.status = "held", !.plan = store[<<c, i>>].body]
            ELSE [Idle EXCEPT !.status = "missed"]]
    /\ UNCHANGED <<now, allowed, pc, request, settled, bodies, store>>

\* What a call takes of each token: all it may where the token is in full.
Amount(take, full) == IF take.token \in full THEN take.most ELSE take.least

Approved(allowances, step) ==
    IF step.token \in Guarded /\ step.amount # 0 /\ allowances[<<step.token, step.spender>>] # 0
    THEN [result |-> "collided", allowed |-> allowances]
    ELSE [result |-> "ok",
          allowed |-> [allowances EXCEPT ![<<step.token, step.spender>>] = step.amount]]

Used(takes, full) == MapThenSumSet(LAMBDA take : Amount(take, full), takes)

\* Native value travels with the call and needs no allowance.
Called(allowances, step, full) ==
    LET takes == {take \in step.takes : take.token # Native}
        used(p) == Used({take \in takes : <<take.token, step.spender>> = p}, full)
        left(p) == IF allowances[p] = Unlimited THEN Unlimited ELSE allowances[p] - used(p)
    IN  IF \E take \in takes :
            Amount(take, full) > allowances[<<take.token, step.spender>>]
        THEN [result |-> "unfunded", allowed |-> allowances]
        ELSE [result |-> "ok", allowed |-> [p \in Pairs |-> left(p)]]

Transact(allowances, step, full) ==
    IF IsApproval(step) THEN Approved(allowances, step) ELSE Called(allowances, step, full)

\* The allowances a plan sets that are not zero.
Residue(allowances, plan) ==
    {p \in Pairs : allowances[p] # 0 /\ \E i \in DOMAIN plan.steps :
        IsNonzeroApproval(plan.steps[i])
        /\ p = <<plan.steps[i].token, plan.steps[i].spender>>}

\* Why a plan stopped: its approve met the guard, or its call the allowance.
Stopped(end) == IF end.result = "collided" THEN "collided" ELSE "unfunded"

\* The next transaction of a batch, unless one before it reverted.
Then(end, step, full) ==
    IF end.result = "ok" THEN Transact(end.allowed, step, full) ELSE end

\* The transactions of a plan one after another, up to the first that reverts.
BatchEnd(allowances, plan, full) ==
    LET run[i \in 0..Len(plan.steps)] ==
            IF i = 0 THEN [result |-> "ok", allowed |-> allowances]
            ELSE Then(run[i - 1], plan.steps[i], full)
    IN  run[Len(plan.steps)]

Settlers(plan) == {i \in DOMAIN plan.steps : IsNonzeroApproval(plan.steps[i])}

\* What the sender's transactions can be: no call takes the same token twice.
Takes == [token : Tokens \cup {Native}, least : Nat, most : Nat]

Kinds == {"approval", "execution", "allowance_cleanup"}

Transactions ==
    [kind : Kinds, op : {"approve"}, token : Tokens, spender : Spenders,
     amount : 0..(Unlimited - 1)]
    \cup {step \in [kind : Kinds, op : {"call"}, spender : Spenders, takes : SUBSET Takes] :
            /\ \A take \in step.takes : take.least <= take.most
            /\ \A take, other \in step.takes : take.token = other.token => take = other}

Nothing == [p \in Pairs |-> 0]

\* The builders without a cleanup for what their calls may leave.
Uncleaned == {"across", "orders"}

\* On a sender without allowances, an atomic plan that approves covers what its calls
\* may take, and when they take the least leaves an allowance to the uncleaned only.
SelfContained(plan) ==
    plan.atomic /\ Settlers(plan) # {} =>
        /\ BatchEnd(Nothing, plan, Tokens).result = "ok"
        /\ \A pair \in Residue(BatchEnd(Nothing, plan, {}).allowed, plan) :
                pair[2] \in Uncleaned

\* A plan that calls and does not approve an amount does not approve zero either.
RevokesNothing(plan) ==
    Settlers(plan) = {} /\ (\E i \in DOMAIN plan.steps : ~IsApproval(plan.steps[i]))
        => \A i \in DOMAIN plan.steps : ~IsApproval(plan.steps[i])

\* The plans of the tools, as ExecutionPlan builds them.
ASSUME ActionPlansAssumption ==
    \A c \in Calls : \A plan \in ActionPlans[c] :
        /\ plan.steps \in Seq(Transactions) /\ plan.steps # <<>>
        /\ plan.atomic \in BOOLEAN
        /\ plan = ExecutionPlanFromSteps(plan.steps, plan.atomic)
        /\ SelfContained(plan) /\ RevokesNothing(plan)

ASSUME NamesAssumption ==
    /\ \A c \in Calls : \A intent \in Intents[c] : intent.token \in Tokens \cup {Native}
    /\ {"router"} \cup (Sources \ {"ekubo"}) \subseteq Spenders /\ NoValue \notin Spenders
    /\ Standing \subseteq Pairs

\* One batch: every step or none.
ExecuteAtomic(ref, full) ==
    LET plan == wallet[ref].plan
        end == BatchEnd(allowed, plan, full)
    IN  /\ wallet[ref].status = "held"
        /\ plan.atomic
        /\ allowed' = IF end.result = "ok" THEN end.allowed ELSE allowed
        /\ wallet' = [wallet EXCEPT
                ![ref].status = IF end.result = "ok" THEN "done" ELSE Stopped(end),
                ![ref].residue = IF end.result = "ok" THEN Residue(end.allowed, plan) ELSE {}]
        /\ UNCHANGED <<now, pc, request, settled, bodies, store>>

\* Without atomic_batch the steps are transactions of their own, in order, and the
\* plan stops at the first that reverts.
ExecuteStep(ref, full) ==
    LET plan == wallet[ref].plan
        next == wallet[ref].step + 1
        end == Transact(allowed, plan.steps[next], full)
        last == next = Len(plan.steps)
    IN  /\ wallet[ref].status = "held"
        /\ ~plan.atomic
        /\ allowed' = end.allowed
        /\ wallet' = [wallet EXCEPT
                ![ref].step = next,
                ![ref].status = IF end.result # "ok" THEN Stopped(end)
                                ELSE IF last THEN "done" ELSE "held",
                ![ref].residue = IF last \/ end.result # "ok"
                                 THEN Residue(end.allowed, plan) ELSE {}]
        /\ UNCHANGED <<now, pc, request, settled, bodies, store>>

\* The interface grants an unlimited allowance, resetting a guarded token itself.
Grant(pair) ==
    /\ allowed' = [allowed EXCEPT ![pair] = Unlimited]
    /\ UNCHANGED <<now, pc, request, settled, bodies, store, wallet>>

Tick ==
    /\ now < MaxTime
    /\ now' = now + 1
    /\ UNCHANGED <<allowed, pc, request, settled, bodies, store, wallet>>

Server(c) ==
    \/ \E intent \in Intents[c] : AskQuotes(c, intent)
    \/ \E s \in Sources : Settle(c, s)
    \/ CollectQuotes(c)
    \/ \E plan \in ActionPlans[c] : PrepareAction(c, plan)
    \/ StoreArtifact(c)
    \/ StoreFails(c)
    \/ Respond(c)

Execute(ref) ==
    \E full \in SUBSET Tokens : ExecuteAtomic(ref, full) \/ ExecuteStep(ref, full)

Next ==
    \/ \E c \in Calls : Server(c)
    \/ \E c \in Calls, i \in 1..MaxBodies : Fetch(c, i)
    \/ \E ref \in Refs : Execute(ref)
    \/ \E pair \in Standing : Grant(pair)
    \/ Tick

Spec == Init /\ [][Next]_vars

-------------------------------------------------------------------------------
\* Properties.

Carried(ref) == wallet[ref].plan # NoPlan

\* An atomic plan never stops at the approve guard of a token, whatever allowance the
\* interface or another plan has left since it was built (withAllowanceResets).
AtomicNeverCollides ==
    \A ref \in Refs :
        Carried(ref) /\ wallet[ref].plan.atomic => wallet[ref].status # "collided"

\* An atomic plan that approves covers what its call may take up to the limit quoted,
\* whatever has become of the allowances its quote saw (buildApprovalTransactions).
ApprovingPlanIsFunded ==
    \A ref \in Refs :
        Carried(ref) /\ wallet[ref].plan.atomic /\ Settlers(wallet[ref].plan) # {}
            => wallet[ref].status # "unfunded"

\* An atomic plan whose call takes less than its limit returns the rest of the
\* allowance, except a bridge of Across and a TWAMM order, which have no cleanup.
AtomicReturnsAllowance ==
    \A ref \in Refs :
        Carried(ref) /\ wallet[ref].plan.atomic
            => \A pair \in wallet[ref].residue : pair[2] \in Uncleaned

\* Carrying out a plan that approves nothing only uses up allowances: one the user
\* granted elsewhere is not revoked by a swap that rests on it (prepareCandidate).
StandingAllowanceKept ==
    [][\A ref \in Refs :
        (/\ wallet[ref].status = "held"
         /\ wallet'[ref] # wallet[ref]
         /\ Settlers(wallet[ref].plan) = {}
         /\ \E i \in DOMAIN wallet[ref].plan.steps : ~IsApproval(wallet[ref].plan.steps[i]))
            => \A pair \in Pairs : allowed[pair] = Unlimited => allowed'[pair] = Unlimited]_vars

\* Every quote with calldata comes back with a reference to its own plan, and a call
\* finds no quote only when no source had one: a source that fails takes no other down.
FailureSparesOtherSources ==
    [][\A c \in Calls :
        /\ pc'[c] = "unavailable" /\ pc[c] = "quoting"
            => \A s \in Range(RequestedSources(request[c])) : settled[c][s] = Rejected
        /\ pc'[c] = "answered" /\ pc[c] = "storing" /\ request[c] # None
            => \A s \in Range(RequestedSources(request[c])) :
                settled[c][s] # Rejected
                /\ PrepareCandidate(request[c], settled[c][s]) # NoPlan
                    => \E i \in ToStore(c) : <<c, i>> \in DOMAIN store
                            /\ store[<<c, i>>].body = PrepareCandidate(request[c], settled[c][s])
      ]_vars

\* A 404 means the reference is older than its window, so running the tool again is
\* the right answer to it: a reference just handed out never misses.
MissMeansExpired ==
    \A ref \in Refs :
        wallet[ref].status = "missed"
            => ref \in DOMAIN store /\ now - store[ref].uploaded > TTL

\* What the doc comment of the reset list says of this server: every plan it builds
\* ends by returning the allowance to zero.
EveryPlanReturnsAllowance ==
    \A ref \in Refs : wallet[ref].status = "done" => wallet[ref].residue = {}
===============================================================================
