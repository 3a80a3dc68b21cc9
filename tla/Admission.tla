------------------------------- MODULE Admission -------------------------------
(***************************************************************************)
(* Admission control of the Worker (src/src/rate-limit.ts and the fetch    *)
(* handler of src/src/index.ts).  Every request draws one unit from the    *)
(* burst and the sustained budget of its caller; a tool call on an MCP     *)
(* route is then priced from its body and draws its price from two more    *)
(* budgets before the MCP handler sees it.                                 *)
(*                                                                         *)
(* The limiter takes no weight: a price of n is n calls of limit(), issued *)
(* together and answered one by one, interleaved with every other request. *)
(* A body is a sequence of tool names, with NoTool for a message that      *)
(* calls none, or Garbled when it is not JSON.  Sizes are in units of      *)
(* 262,144 bytes, the cap README.md:943 states; the code's is eight.       *)
(***************************************************************************)
EXTENDS Integers, Sequences, FiniteSetsExt

CONSTANTS
    Slots,          \* requests in flight
    Callers,        \* rate-limit actors
    CallerOf,       \* the caller of each slot
    Bound,          \* the budgets whose binding is configured
    Limit,          \* how many units a window of each budget grants
    Period,         \* the length of each budget's window
    Tools,          \* tool names
    Cost,           \* TOOL_COST and defaultToolCost
    Metered,        \* METERED_TOOLS
    NoTool, Garbled,
    MaxUnits,       \* MAX_UNITS_PER_REQUEST
    MaxBatch,       \* MAX_BATCH_LENGTH
    MaxBody,        \* MAX_MCP_BODY_BYTES
    Requests        \* bound: the requests callers may send

RequestBudgets == {"burst", "sustained"}
ToolBudgets == {"metered", "tools"}
Budgets == RequestBudgets \cup ToolBudgets

\* What a path is: an MCP endpoint; that endpoint with a protocols query, or a path
\* below it, that names no protocol; the two server cards; another page; none of them.
Routes == {"mcp", "bad_facet", "bad_slug", "card", "page", "unknown"}

ASSUME CallersAssumption == CallerOf \in [Slots -> Callers]

ASSUME BudgetsAssumption ==
    /\ Bound \subseteq Budgets
    /\ Limit \in [Budgets -> Nat]
    /\ Period \in [Budgets -> Nat]

ASSUME PricesAssumption ==
    /\ Cost \in [Tools -> Nat]
    /\ Metered \subseteq Tools
    /\ NoTool \notin Tools
    /\ {MaxUnits, MaxBatch, MaxBody} \subseteq Nat
    /\ MaxBatch <= MaxUnits     \* 20 and 40: draw's own clamp never bites

ASSUME RequestsAssumption ==
    /\ Requests # {}
    /\ Requests \subseteq
        [method : {"GET", "POST", "OPTIONS"}, route : Routes,
         size : Nat, body : Seq(Tools \cup {NoTool}) \cup {Garbled},
         identified : BOOLEAN]

VARIABLES
    used,       \* used[<<b, c>>]: what this window of budget b granted to c
    pc,         \* where each request is
    req,        \* the request a slot carries
    pending,    \* pending[s][b]: limit() calls not yet answered
    granted,    \* granted[s][b]: those answered with success
    denied,     \* the budgets that answered one without success
    failed,     \* the budgets a call to which threw
    reply,      \* the response
    waits       \* the windows a refused caller lets pass before it retries

vars == <<used, pc, req, pending, granted, denied, failed, reply, waits>>
slot == <<pc, req, pending, granted, denied, failed, reply, waits>>

NoDraws == [b \in Budgets |-> 0]
NoReply == [status |-> 0]
Points == {"idle", "rate", "route", "price", "tools", "done"}

------------------------------------------------------------------------------
(***************************************************************************)
(* Prices                                                                  *)
(***************************************************************************)
ToolCost(m) == IF m = NoTool THEN 0 ELSE Cost[m]

Units(body) == MapThenSumSet(LAMBDA i : ToolCost(body[i]), DOMAIN body)

MeteredCalls(body) == Quantify(DOMAIN body, LAMBDA i : body[i] \in Metered)

\* Mutant: the two weights are swapped.
WeightSwapped(r, b) == IF b = "tools" THEN MeteredCalls(r.body) ELSE Units(r.body)

Weight(r, b) == IF b = "tools" THEN Units(r.body) ELSE MeteredCalls(r.body)

\* A request whose price chargeForMcpBody states.
Priced(r) == r.method = "POST" /\ r.route = "mcp" /\ r.body # Garbled

------------------------------------------------------------------------------
(***************************************************************************)
(* Draws                                                                   *)
(***************************************************************************)

\* Mutant: the limiter key leaves the caller out.
SharedKey(b, s) == <<b, CHOOSE c \in Callers : TRUE>>

Key(b, s) == <<b, CallerOf[s]>>

\* Mutant: a binding that is not configured is drawn from.
DrawsUnbound(b, units) == IF units < MaxUnits THEN units ELSE MaxUnits

DrawsOf(b, units) ==
    IF b \in Bound THEN (IF units < MaxUnits THEN units ELSE MaxUnits) ELSE 0

\* Issue the draws of one stage, forgetting those of the stage before.
Issue(s, draws) ==
    /\ pending' = [pending EXCEPT ![s] = draws]
    /\ granted' = [granted EXCEPT ![s] = NoDraws]
    /\ denied' = [denied EXCEPT ![s] = {}]
    /\ failed' = [failed EXCEPT ![s] = {}]

Answered(s, b) == pending[s][b] = 0 \/ b \in failed[s]

\* Mutant: a limiter that throws refuses.
PassesUnlessDown(s, b) == b \notin denied[s] /\ b \notin failed[s]

\* draw: every answer is a success, or the limiter threw.
Passes(s, b) == b \notin denied[s] \/ b \in failed[s]

\* One limit() call is answered.  The counters lag behind concurrent requests
\* (README.md:924-932), so an exhausted budget may still grant.
LimitAnswers(s, b) ==
    /\ pending[s][b] > 0
    /\ pending' = [pending EXCEPT ![s][b] = @ - 1]
    /\ LET k == Key(b, s) IN
       \/ /\ used' = [used EXCEPT ![k] = IF @ < Limit[b] THEN @ + 1 ELSE @]
          /\ granted' = [granted EXCEPT ![s][b] = @ + 1]
          /\ UNCHANGED denied
       \/ /\ used[k] >= Limit[b]
          /\ denied' = [denied EXCEPT ![s] = @ \cup {b}]
          /\ UNCHANGED <<used, granted>>
    /\ UNCHANGED <<pc, req, failed, reply, waits>>

LimitThrows(s, b) ==
    /\ pending[s][b] > 0
    /\ pending' = [pending EXCEPT ![s][b] = @ - 1]
    /\ failed' = [failed EXCEPT ![s] = @ \cup {b}]
    /\ UNCHANGED <<used, pc, req, granted, denied, reply, waits>>

NewWindow(b) ==
    /\ used' = [k \in DOMAIN used |-> IF k[1] = b THEN 0 ELSE used[k]]
    /\ waits' = [s \in Slots |-> waits[s] \ {b}]
    /\ UNCHANGED <<pc, req, pending, granted, denied, failed, reply>>

------------------------------------------------------------------------------
(***************************************************************************)
(* One request                                                             *)
(***************************************************************************)
Init ==
    /\ used = [k \in Budgets \X Callers |-> 0]
    /\ pc = [s \in Slots |-> "idle"]
    /\ req = [s \in Slots |-> CHOOSE r \in Requests : TRUE]
    /\ pending = [s \in Slots |-> NoDraws]
    /\ granted = [s \in Slots |-> NoDraws]
    /\ denied = [s \in Slots |-> {}]
    /\ failed = [s \in Slots |-> {}]
    /\ reply = [s \in Slots |-> NoReply]
    /\ waits = [s \in Slots |-> {}]

Goto(s, point) == pc' = [pc EXCEPT ![s] = point]

Reply(s, r) == Goto(s, "done") /\ reply' = [reply EXCEPT ![s] = r]

\* fetch: a preflight skips the request budgets.
Begin(s, r) ==
    /\ req' = [req EXCEPT ![s] = r]
    /\ reply' = [reply EXCEPT ![s] = NoReply]
    /\ waits' = [waits EXCEPT ![s] = {}]
    /\ IF r.method = "OPTIONS"
       THEN Goto(s, "route") /\ Issue(s, NoDraws)
       ELSE /\ Goto(s, "rate")
            /\ Issue(s, [b \in Budgets |->
                            IF b \in RequestBudgets THEN DrawsOf(b, 1) ELSE 0])
    /\ UNCHANGED used

Arrive(s) == pc[s] = "idle" /\ \E r \in Requests : Begin(s, r)

\* rateLimited: Retry-After is the period of the budget that refused.
TooMany(s, b, enveloped) ==
    /\ Reply(s, [status |-> 429, scope |-> b, enveloped |-> enveloped])
    /\ waits' = [waits EXCEPT ![s] = {x \in Bound : Period[x] <= Period[b]}]

\* enforceRequestRate: both budgets are drawn, the burst refusal is named first.
RateDecided(s) ==
    /\ pc[s] = "rate"
    /\ \A b \in RequestBudgets : Answered(s, b)
    /\ CASE ~Passes(s, "burst") -> TooMany(s, "burst", FALSE)
         [] Passes(s, "burst") /\ ~Passes(s, "sustained") ->
               TooMany(s, "sustained", FALSE)
         [] OTHER -> Goto(s, "route") /\ UNCHANGED <<reply, waits>>
    /\ UNCHANGED <<used, req, pending, granted, denied, failed>>

\* fetch, off the MCP routes: a preflight of a card, then only GET (or HEAD, which GET
\* stands for here) of a path that there is.
PageStatus(r) ==
    IF r.route = "card" /\ r.method = "OPTIONS" THEN 200
    ELSE IF r.method # "GET" THEN 405
    ELSE IF r.route = "unknown" THEN 404 ELSE 200

\* fetch, after the request budgets: a name that is no protocol is refused whatever the
\* method, and only a POST to an MCP route is priced.
Route(s) ==
    /\ pc[s] = "route"
    /\ LET r == req[s] IN
       CASE r.route = "bad_facet" -> Reply(s, [status |-> 400])
         [] r.route = "bad_slug" -> Reply(s, [status |-> 404])
         [] r.route = "mcp" /\ r.method = "POST" -> Goto(s, "price") /\ UNCHANGED reply
         [] r.route = "mcp" /\ r.method # "POST" -> Reply(s, [status |-> 200])
         [] OTHER -> Reply(s, [status |-> PageStatus(r)])
    /\ UNCHANGED <<used, req, pending, granted, denied, failed, waits>>

\* Mutant: the ceiling is left to draw(), which clamps the weight to it.
RefusalClamping(r) ==
    CASE r.size > MaxBody -> 413
      [] r.size <= MaxBody /\ r.body # Garbled /\ Len(r.body) > MaxBatch -> 400
      [] OTHER -> 0

\* admitMcpRequest and chargeForMcpBody: the status a body is refused with, or
\* 0; a body that is not JSON is left to the handler's own parse error.
Refusal(r) ==
    IF r.size > MaxBody THEN 413
    ELSE IF r.body # Garbled /\ (Len(r.body) > MaxBatch \/ Units(r.body) > MaxUnits)
         THEN 400 ELSE 0

Price(s) ==
    /\ pc[s] = "price"
    /\ LET r == req[s] IN
       IF Refusal(r) # 0
       THEN Reply(s, [status |-> Refusal(r)]) /\ UNCHANGED <<pending, granted, denied, failed>>
       ELSE IF r.body = Garbled \/ \A b \in ToolBudgets : Weight(r, b) = 0
       THEN Reply(s, [status |-> 200]) /\ UNCHANGED <<pending, granted, denied, failed>>
       ELSE /\ Goto(s, "tools")
            /\ Issue(s, [b \in Budgets |->
                            IF b \in ToolBudgets THEN DrawsOf(b, Weight(r, b)) ELSE 0])
            /\ UNCHANGED reply
    /\ UNCHANGED <<used, req, waits>>

\* enforceToolRate: a metered refusal is named first.
ToolsDecided(s) ==
    /\ pc[s] = "tools"
    /\ \A b \in ToolBudgets : Answered(s, b)
    /\ LET enveloped == Len(req[s].body) = 1 /\ req[s].identified IN
       CASE ~Passes(s, "metered") -> TooMany(s, "metered", enveloped)
         [] Passes(s, "metered") /\ ~Passes(s, "tools") -> TooMany(s, "tools", enveloped)
         [] OTHER -> Reply(s, [status |-> 200]) /\ UNCHANGED waits
    /\ UNCHANGED <<used, req, pending, granted, denied, failed>>

\* The slot is free once the calls a failed draw left behind are answered.
Quiet(s) == pc[s] = "done" /\ pending[s] = NoDraws

\* The exchange is over; its locals are gone.
Return(s) ==
    /\ Quiet(s)
    /\ Goto(s, "idle")
    /\ req' = [req EXCEPT ![s] = CHOOSE r \in Requests : TRUE]
    /\ reply' = [reply EXCEPT ![s] = NoReply]
    /\ waits' = [waits EXCEPT ![s] = {}]
    /\ Issue(s, NoDraws)
    /\ UNCHANGED used

\* A client that honours Retry-After sends the same request again.
Retry(s) ==
    /\ Quiet(s)
    /\ reply[s].status = 429
    /\ waits[s] = {}
    /\ Begin(s, req[s])

Code(s) ==
    \/ RateDecided(s) \/ Route(s) \/ Price(s) \/ ToolsDecided(s)
    \/ \E b \in Budgets : LimitAnswers(s, b)

Next ==
    \/ \E s \in Slots :
          \/ Arrive(s) \/ Code(s) \/ Return(s) \/ Retry(s)
          \/ \E b \in Budgets : LimitThrows(s, b)
    \/ \E b \in Budgets : NewWindow(b)

Spec == Init /\ [][Next]_vars

\* The runtime answers and resumes every request, windows end, and a client
\* that was told to wait comes back with the request it had.
PoliteNext ==
    \/ \E s \in Slots :
          \/ Arrive(s) \/ Code(s) \/ Retry(s)
          \/ reply[s].status # 429 /\ Return(s)
          \/ \E b \in Budgets : LimitThrows(s, b)
    \/ \E b \in Budgets : NewWindow(b)

PoliteSpec ==
    /\ Init /\ [][PoliteNext]_vars
    /\ \A s \in Slots : WF_vars(Code(s)) /\ WF_vars(Retry(s))
    /\ \A b \in Budgets : WF_vars(NewWindow(b))

------------------------------------------------------------------------------
(***************************************************************************)
(* Properties                                                              *)
(***************************************************************************)
Statuses == {200, 400, 404, 405, 413}
Replies ==
    [status : Statuses \cup {0}]
        \cup [status : {429}, scope : Budgets, enveloped : BOOLEAN]

\* Every variable has its type.
TypeOK ==
    /\ used \in [Budgets \X Callers -> Nat]
    /\ \A k \in DOMAIN used : used[k] <= Limit[k[1]]
    /\ pc \in [Slots -> Points]
    /\ req \in [Slots -> Requests]
    /\ pending \in [Slots -> [Budgets -> Nat]]
    /\ granted \in [Slots -> [Budgets -> Nat]]
    /\ denied \in [Slots -> SUBSET Bound]
    /\ failed \in [Slots -> SUBSET Bound]
    /\ reply \in [Slots -> Replies]
    /\ waits \in [Slots -> SUBSET Bound]

Handled(s) == pc[s] = "done" /\ reply[s].status = 200

\* README.md:944-947, "the unit ceiling refuses rather than clamps": a tool
\* call reaches the MCP handler only if each limiter that is bound, and did not
\* fail on it, granted every unit of its price - however its own draws, and
\* those of the caller's other requests, interleave.
AdmittedPaid ==
    \A s \in Slots, b \in Bound :
        Handled(s) /\ Priced(req[s]) /\ b \in ToolBudgets /\ b \notin failed[s]
        => granted[s][b] = Weight(req[s], b)

\* README.md:919-922: an outage of a limiter never refuses a request, even when
\* an earlier answer of that same limiter had already said no.
OutageNeverRefuses ==
    \A s \in Slots :
        pc[s] = "done" /\ reply[s].status = 429 =>
            /\ reply[s].scope \in denied[s]
            /\ reply[s].scope \notin failed[s]

\* README.md:912-914: nothing but a request that names a paid tool and fits the
\* ceilings spends the budget behind the invoice; no volume of cheap or refused
\* calls does, even while their own draws are still being answered.
OnlyPaidCallsSpendMetered ==
    [][\A c \in Callers :
          used'[<<"metered", c>>] > used[<<"metered", c>>] =>
            \E s \in Slots :
               /\ CallerOf[s] = c
               /\ Priced(req[s]) /\ MeteredCalls(req[s].body) > 0
               /\ Refusal(req[s]) = 0]_vars

\* A caller with one request at a time, whose price fits the windows, that
\* retries when Retry-After says so, is served in the end: what its refused
\* attempts drew, and whatever the other callers do, never starves it.
PoliteCallerServed ==
    \A s \in Slots : pc[s] = "rate" ~> pc[s] = "done" /\ reply[s].status # 429

(***************************************************************************)
(* A claim of the documentation that the code does not keep                *)
(***************************************************************************)

\* README.md:951-955: a 429 to a single identified JSON-RPC call "also carries a
\* JSON-RPC error", whatever its scope, burst and sustained included.
IdentifiedCallGetsError ==
    \A s \in Slots :
        /\ pc[s] = "done" /\ reply[s].status = 429
        /\ Priced(req[s]) /\ Len(req[s].body) = 1 /\ req[s].identified
        => reply[s].enveloped
================================================================================
