---------------------------- MODULE WalletSession ----------------------------
(***************************************************************************)
(* What the protocol tools have in common.  A preparation tool reads an    *)
(* index or an RPC node, builds a plan and forgets about it; the client    *)
(* holds the plan and its wallet submits it, later and perhaps twice, as   *)
(* one atomic batch (executionPlanFromSteps of src/src/execution-plan.ts), *)
(* while the chain moves and the index lags behind it.                     *)
(***************************************************************************)
EXTENDS Integers, Sequences, FiniteSets, SequencesExt, FiniteSetsExt, Functions

CONSTANTS
    Reverted,       \* the chain of a batch one call of which reverted
    Refused,        \* the ServiceError of a plan that is not prepared
    None,           \* what the code holds undefined or null in
    MaxPlans,       \* bound: plans prepared
    MaxRuns,        \* bound: how often one plan is submitted
    MaxMoves        \* bound: what is done elsewhere

VARIABLES
    chain,          \* the protocol's ledger
    view,           \* what the server's index or RPC node reports of it
    plan,           \* the plan in the client's hands
    plans,          \* plans prepared so far
    runs,           \* how often the plan in hand was submitted
    moves           \* what has been done elsewhere

vars == <<chain, view, plan, plans, runs, moves>>

\* A plan is what it does, what its details promise, and what it was built on.
PlanOf(kind, calls, promise) == [kind |-> kind, calls |-> calls, promise |-> promise]

NoPlan == PlanOf("none", <<>>, None)

\* A batch is atomic: it changes nothing if one of its calls reverts.
Batch(Apply(_, _), ledger, calls) ==
    LET after[k \in 0..Len(calls)] ==
            IF k = 0 THEN ledger
            ELSE LET l == after[k - 1]
                 IN  IF l = Reverted THEN Reverted ELSE Apply(l, calls[k])
    IN  after[Len(calls)]

Start(ledger, report) ==
    /\ chain = ledger /\ view = report
    /\ plan = NoPlan /\ plans = 0 /\ runs = 0 /\ moves = 0

\* A tool answers with the plan p, or with an error, which leaves no plan behind.
Prepared(p) ==
    /\ plans < MaxPlans
    /\ p # Refused
    /\ plan' = p /\ plans' = plans + 1 /\ runs' = 0
    /\ UNCHANGED <<chain, view, moves>>

\* The wallet submits the plan in hand, which has this outcome now.
Submitted(outcome) ==
    /\ plan # NoPlan
    /\ runs < MaxRuns /\ runs' = runs + 1
    /\ chain' = IF outcome = Reverted THEN chain ELSE outcome
    /\ UNCHANGED <<view, plan, plans, moves>>

\* The index catches up.
Synced(report) ==
    /\ view' = report
    /\ UNCHANGED <<chain, plan, plans, runs, moves>>

\* Something else happens to the ledger.
Moved(ledgers) ==
    /\ moves < MaxMoves /\ moves' = moves + 1
    /\ chain' \in ledgers
    /\ UNCHANGED <<view, plan, plans, runs>>

SessionTypeOK ==
    /\ plans \in 0..MaxPlans /\ runs \in 0..MaxRuns /\ moves \in 0..MaxMoves
    /\ (plan = NoPlan) = (plans = 0)
    /\ chain # Reverted
==============================================================================
