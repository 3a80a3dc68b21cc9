---------------------------- MODULE Admission_proofs ----------------------------
(***************************************************************************)
(* Proofs about Admission, for any slots, callers, budgets, limits, prices *)
(* and requests.                                                           *)
(*                                                                         *)
(* What the runs check is not inductive.  That a handled call was paid is  *)
(* decided two stages after its draws were issued, while limit() calls of  *)
(* this and of every other request are answered in between, and some of a  *)
(* failed draw only after the reply.  SlotInv records what each stage      *)
(* knows: whose draws are under way, and that those of a budget that       *)
(* neither refused nor failed always add up to its price.                  *)
(***************************************************************************)
EXTENDS Admission, DataTheorems

\* Draws of a tool budget under way belong to a priced call that fits the
\* ceilings and has a price in that budget.
DrawsInv(s) ==
    \A b \in Budgets : pending[s][b] > 0 =>
        /\ b \in Bound
        /\ b \in ToolBudgets =>
              Priced(req[s]) /\ Refusal(req[s]) = 0 /\ Weight(req[s], b) > 0

\* Before the price is known nothing is drawn from a tool budget.
UnpricedInv(s) ==
    pc[s] \in {"rate", "route", "price"} =>
        \A b \in ToolBudgets : pending[s][b] = 0 /\ granted[s][b] = 0

\* Only a POST to an MCP route reaches the price.
PriceInv(s) ==
    pc[s] = "price" => req[s].method = "POST" /\ req[s].route = "mcp"

\* While the price is drawn, what a sound budget granted and what it has still
\* to answer make up the weight.
ToolsInv(s) ==
    pc[s] = "tools" =>
        /\ Priced(req[s]) /\ Refusal(req[s]) = 0
        /\ \A b \in ToolBudgets \cap Bound :
              b \notin denied[s] \cup failed[s] =>
                  granted[s][b] + pending[s][b] = Weight(req[s], b)

\* A reply rests on answers that are all in.
ReplyInv(s) ==
    pc[s] = "done" =>
        /\ reply[s].status = 200 /\ Priced(req[s]) =>
              \A b \in ToolBudgets \cap Bound : b \notin failed[s] =>
                  pending[s][b] = 0 /\ granted[s][b] = Weight(req[s], b)
        /\ reply[s].status = 429 =>
              /\ reply[s].scope \in denied[s] \ failed[s]
              /\ pending[s][reply[s].scope] = 0

SlotInv(s) ==
    DrawsInv(s) /\ UnpricedInv(s) /\ PriceInv(s) /\ ToolsInv(s) /\ ReplyInv(s)

IInv == TypeOK /\ \A s \in Slots : SlotInv(s)

-------------------------------------------------------------------------------
Bodies == Seq(Tools \cup {NoTool})

\* The units of a body are a number.
LEMMA UnitsType ==
    ASSUME NEW body \in Bodies
    PROVE  Units(body) \in Nat
<1> DEFINE S == DOMAIN body
           cost(i) == ToolCost(body[i])
           pick == [s \in SUBSET S |-> CHOOSE i \in s : TRUE]
           step == [p \in S \X Nat |-> cost(p[1]) + p[2]]
           Sum(g) == g = [s \in SUBSET S |->
                           IF s = {} THEN 0
                           ELSE cost(CHOOSE i \in s : TRUE) + g[s \ {CHOOSE i \in s : TRUE}]]
           iter == CHOOSE g : Sum(g)
<1>1. Units(body) = iter[S]
  BY DEF Units, MapThenSumSet, MapThenFoldSet
<1>2. IsFiniteSet(S)
  BY FS_Interval DEF Bodies
<1>3. Picks(pick, S)
  BY DEF Picks
<1>4. \A i \in S : cost(i) \in Nat
  BY PricesAssumption DEF ToolCost, Bodies
<1>5. step \in [S \X Nat -> Nat]
  BY <1>4
<1>6. PICK g \in [SUBSET S -> Nat] : SetRecursion(g, S, 0, pick, step)
  <2> HIDE DEF S, pick, step
  <2> QED
    BY <1>2, <1>3, <1>5, SetRecursionExists, 0 \in Nat
<1>7. Sum(g)
  <2> HIDE DEF cost, S
  <2>1. ASSUME NEW s \in SUBSET S, s # {}
        PROVE  g[s] = cost(CHOOSE i \in s : TRUE) + g[s \ {CHOOSE i \in s : TRUE}]
    <3>1. pick[s] = CHOOSE i \in s : TRUE
      OBVIOUS
    <3>2. pick[s] \in S /\ s \ {pick[s]} \in SUBSET S
      BY <1>3, <2>1 DEF Picks
    <3> HIDE DEF pick
    <3>3. g[s] = cost(pick[s]) + g[s \ {pick[s]}]
      BY <1>6, <2>1, <3>2 DEF SetRecursion
    <3> QED
      BY ONLY <3>1, <3>3
  <2>2. g[{}] = 0
    BY <1>6 DEF SetRecursion
  <2> QED
    BY ONLY <2>1, <2>2, <1>6, g \in [SUBSET S -> Nat] DEF Sum
<1>8. Sum(iter)
  BY ONLY <1>7 DEF iter
<1>9. \A s \in SUBSET S : iter[s] \in Nat
  <2> HIDE DEF iter, cost, S
  <2>1. iter[{}] \in Nat
    BY <1>8
  <2>2. ASSUME NEW s \in SUBSET S, s # {}, iter[s \ {pick[s]}] \in Nat
        PROVE  iter[s] \in Nat
    <3>1. iter[s] = cost(CHOOSE i \in s : TRUE) + iter[s \ {CHOOSE i \in s : TRUE}]
      BY <1>8, <2>2
    <3>2. pick[s] = CHOOSE i \in s : TRUE
      OBVIOUS
    <3> HIDE DEF pick
    <3>3. cost(pick[s]) \in Nat
      BY <1>3, <1>4, <2>2 DEF Picks
    <3>4. iter[s] = cost(pick[s]) + iter[s \ {pick[s]}]
      BY ONLY <3>1, <3>2
    <3> QED
      BY ONLY <2>2, <3>3, <3>4
  <2> HIDE DEF pick
  <2> QED
    BY <1>2, <1>3, <2>1, <2>2, SetRecursionType
<1> QED
  BY <1>1, <1>9

\* MeteredCalls counts messages of a body.
LEMMA MeteredCallsType ==
    ASSUME NEW body \in Bodies
    PROVE  MeteredCalls(body) \in 0 .. Len(body)
<1> DEFINE T == {i \in DOMAIN body : body[i] \in Metered}
<1>1. IsFiniteSet(DOMAIN body) /\ Cardinality(DOMAIN body) = Len(body)
  <2>1. DOMAIN body = 1 .. Len(body) /\ Len(body) \in Nat
    BY DEF Bodies
  <2> QED
    <3>1. ASSUME NEW n \in Nat PROVE IsFiniteSet(1 .. n) /\ Cardinality(1 .. n) = n
      BY FS_Interval
    <3> QED
      BY <2>1, <3>1
<1>2. Cardinality(T) <= Len(body) /\ Cardinality(T) \in Nat
  BY <1>1, FS_Subset, FS_CardinalityType
<1> QED
  BY <1>2 DEF MeteredCalls, Quantify, Bodies

\* The price of a request that states one, and what a request within the
\* ceilings draws for it: draw's clamp leaves it alone.
LEMMA WeightType ==
    ASSUME NEW r \in Requests, r.body # Garbled, NEW b \in ToolBudgets
    PROVE  /\ Weight(r, b) \in Nat
           /\ DrawsOf(b, Weight(r, b)) \in Nat
           /\ Refusal(r) = 0 /\ b \in Bound => DrawsOf(b, Weight(r, b)) = Weight(r, b)
           /\ b \notin Bound => DrawsOf(b, Weight(r, b)) = 0
<1>1. r.body \in Bodies /\ Len(r.body) \in Nat
  BY RequestsAssumption DEF Bodies
<1>2. Units(r.body) \in Nat
  BY <1>1, UnitsType
<1>3. MeteredCalls(r.body) \in Nat /\ MeteredCalls(r.body) <= Len(r.body)
  BY <1>1, MeteredCallsType
<1>4. Weight(r, b) \in Nat
  BY <1>2, <1>3 DEF Weight
<1>5. MaxUnits \in Nat /\ MaxBatch \in Nat /\ MaxBatch <= MaxUnits
  BY PricesAssumption
<1>6. Refusal(r) = 0 => Weight(r, b) <= MaxUnits
  BY <1>1, <1>2, <1>3, <1>5 DEF Refusal, Weight
<1> QED
  BY <1>4, <1>5, <1>6 DEF DrawsOf

-------------------------------------------------------------------------------
\* Every step keeps the types.
LEMMA IssueType ==
    ASSUME TypeOK, NEW s \in Slots, NEW draws \in [Budgets -> Nat], Issue(s, draws)
    PROVE  /\ pending' \in [Slots -> [Budgets -> Nat]]
           /\ granted' \in [Slots -> [Budgets -> Nat]]
           /\ denied' \in [Slots -> SUBSET Bound]
           /\ failed' \in [Slots -> SUBSET Bound]
<1>1. NoDraws \in [Budgets -> Nat]
  BY DEF NoDraws
<1>2. pending' \in [Slots -> [Budgets -> Nat]]
  BY DEF TypeOK, Issue
<1>3. granted' \in [Slots -> [Budgets -> Nat]]
  BY <1>1 DEF TypeOK, Issue
<1> QED
  BY <1>2, <1>3 DEF TypeOK, Issue

\* A request that begins keeps the type.
LEMMA BeginType ==
    ASSUME TypeOK, NEW s \in Slots, NEW r \in Requests, Begin(s, r)
    PROVE  TypeOK'
<1> DEFINE draws == [b \in Budgets |-> IF b \in RequestBudgets THEN DrawsOf(b, 1) ELSE 0]
<1>1. draws \in [Budgets -> Nat] /\ NoDraws \in [Budgets -> Nat]
  BY PricesAssumption DEF DrawsOf, NoDraws
<1>2. \/ Goto(s, "route") /\ Issue(s, NoDraws)
      \/ Goto(s, "rate") /\ Issue(s, draws)
  BY DEF Begin
<1> HIDE DEF draws
<1>3. /\ pc' \in [Slots -> Points]
      /\ \E d \in [Budgets -> Nat] : Issue(s, d)
  BY <1>1, <1>2 DEF TypeOK, Goto, Points
<1>4. /\ req' \in [Slots -> Requests]
      /\ reply' \in [Slots -> Replies]
      /\ waits' \in [Slots -> SUBSET Bound]
      /\ used' = used
  BY DEF Begin, TypeOK, NoReply, Replies
<1> QED
  BY <1>3, <1>4, IssueType DEF TypeOK

\* So does every step.
LEMMA TypeStep == IInv /\ [Next]_vars => TypeOK'
<1> SUFFICES ASSUME IInv, [Next]_vars PROVE TypeOK'
  OBVIOUS
<1>0. TypeOK
  BY DEF IInv
<1>1. ASSUME NEW s \in Slots, Arrive(s) PROVE TypeOK'
  BY <1>0, <1>1, BeginType DEF Arrive
<1>2. ASSUME NEW s \in Slots, Retry(s) PROVE TypeOK'
  <2>1. req[s] \in Requests /\ Begin(s, req[s])
    BY <1>0, <1>2 DEF Retry, TypeOK
  <2> QED
    BY <1>0, <2>1, BeginType
<1>3. ASSUME NEW s \in Slots, NEW b \in Budgets, NEW e \in BOOLEAN, TooMany(s, b, e),
             UNCHANGED <<used, req, pending, granted, denied, failed>>
      PROVE  TypeOK'
  <2>1. [status |-> 429, scope |-> b, enveloped |-> e] \in Replies
    BY DEF Replies
  <2>2. reply' \in [Slots -> Replies] /\ pc' \in [Slots -> Points]
    BY <1>0, <1>3, <2>1 DEF TooMany, Reply, Goto, TypeOK, Points
  <2>3. waits' \in [Slots -> SUBSET Bound]
    BY <1>0, <1>3 DEF TooMany, TypeOK
  <2> QED
    BY <1>0, <1>3, <2>2, <2>3 DEF TypeOK
<1>4. ASSUME NEW s \in Slots, NEW n \in Statuses, Reply(s, [status |-> n])
      PROVE  pc' \in [Slots -> Points] /\ reply' \in [Slots -> Replies]
  <2>1. [status |-> n] \in Replies
    BY DEF Replies
  <2> QED
    BY <1>0, <1>4, <2>1 DEF Reply, Goto, TypeOK, Points
<1>5. ASSUME NEW s \in Slots, RateDecided(s) PROVE TypeOK'
  <2>1. CASE \E b \in RequestBudgets : TooMany(s, b, FALSE)
    BY <1>3, <1>5, <2>1 DEF RateDecided, Budgets
  <2>2. CASE Goto(s, "route") /\ UNCHANGED <<reply, waits>>
    BY <1>0, <1>5, <2>2 DEF RateDecided, Goto, TypeOK, Points
  <2> QED
    BY <1>5, <2>1, <2>2 DEF RateDecided, RequestBudgets
<1>6. ASSUME NEW s \in Slots, Route(s) PROVE TypeOK'
  <2>1. \/ \E n \in Statuses : Reply(s, [status |-> n])
        \/ Goto(s, "price") /\ UNCHANGED reply
    <3>1. PageStatus(req[s]) \in Statuses /\ {200, 400, 404} \subseteq Statuses
      BY DEF PageStatus, Statuses
    <3>2. \/ Goto(s, "price") /\ UNCHANGED reply
          \/ \E n \in {200, 400, 404, PageStatus(req[s])} : Reply(s, [status |-> n])
      BY <1>6, Zenon DEF Route
    <3> QED
      BY <3>1, <3>2, Zenon
  <2>2. pc' \in [Slots -> Points] /\ reply' \in [Slots -> Replies]
    BY <1>0, <1>4, <2>1 DEF Goto, TypeOK, Points
  <2> QED
    BY <1>0, <1>6, <2>2 DEF Route, TypeOK
<1>7. ASSUME NEW s \in Slots, Price(s) PROVE TypeOK'
  <2> DEFINE r == req[s]
             draws == [b \in Budgets |-> IF b \in ToolBudgets THEN DrawsOf(b, Weight(r, b)) ELSE 0]
  <2>1. r \in Requests
    BY <1>0 DEF TypeOK
  <2>2. UNCHANGED <<used, req, waits>>
    BY <1>7 DEF Price
  <2>3. CASE \E n \in Statuses : Reply(s, [status |-> n]) /\ UNCHANGED <<pending, granted, denied, failed>>
    BY <1>0, <1>4, <2>2, <2>3 DEF TypeOK
  <2>4. CASE r.body # Garbled /\ Goto(s, "tools") /\ Issue(s, draws) /\ UNCHANGED reply
    <3>1. draws \in [Budgets -> Nat]
      BY <2>1, <2>4, WeightType
    <3> HIDE DEF draws
    <3>2. pc' \in [Slots -> Points]
      BY <1>0, <2>4 DEF Goto, TypeOK, Points
    <3> QED
      BY <1>0, <2>2, <2>4, <3>1, <3>2, IssueType DEF TypeOK
  <2> QED
    BY <1>7, <2>3, <2>4 DEF Price, Refusal, Statuses
<1>8. ASSUME NEW s \in Slots, ToolsDecided(s) PROVE TypeOK'
  <2>1. CASE \E b \in ToolBudgets, e \in BOOLEAN : TooMany(s, b, e)
    BY <1>3, <1>8, <2>1 DEF ToolsDecided, Budgets
  <2>2. CASE Reply(s, [status |-> 200]) /\ UNCHANGED waits
    BY <1>0, <1>4, <1>8, <2>2 DEF ToolsDecided, TypeOK, Statuses
  <2> QED
    BY <1>8, <2>1, <2>2 DEF ToolsDecided, ToolBudgets
<1>9. ASSUME NEW s \in Slots, NEW b \in Budgets, LimitAnswers(s, b) PROVE TypeOK'
  <2>1. b \in Bound /\ pending[s][b] > 0
    BY <1>9 DEF LimitAnswers, IInv, SlotInv, DrawsInv
  <2>2. pending' \in [Slots -> [Budgets -> Nat]]
    BY <1>0, <1>9, <2>1 DEF LimitAnswers, TypeOK
  <2>3. granted' \in [Slots -> [Budgets -> Nat]] /\ denied' \in [Slots -> SUBSET Bound]
    <3>1. \/ granted' = [granted EXCEPT ![s][b] = @ + 1] /\ UNCHANGED denied
          \/ denied' = [denied EXCEPT ![s] = @ \cup {b}] /\ UNCHANGED granted
      BY <1>9 DEF LimitAnswers
    <3>2. granted' \in [Slots -> [Budgets -> Nat]]
      BY <1>0, <3>1 DEF TypeOK
    <3>3. denied' \in [Slots -> SUBSET Bound]
      BY <1>0, <2>1, <3>1 DEF TypeOK
    <3> QED
      BY <3>2, <3>3
  <2>4. /\ used' \in [Budgets \X Callers -> Nat]
        /\ \A k \in Budgets \X Callers : used'[k] <= Limit[k[1]]
    <3>1. Key(b, s) \in Budgets \X Callers /\ Key(b, s)[1] = b /\ Limit[b] \in Nat
      BY CallersAssumption, BudgetsAssumption DEF Key
    <3>2. \/ used' = used
          \/ used' = [used EXCEPT ![Key(b, s)] = IF @ < Limit[b] THEN @ + 1 ELSE @]
      BY <1>9 DEF LimitAnswers
    <3> QED
      BY <1>0, <3>1, <3>2 DEF TypeOK
  <2> QED
    BY <1>0, <1>9, <2>2, <2>3, <2>4 DEF LimitAnswers, TypeOK
<1>10. ASSUME NEW s \in Slots, NEW b \in Budgets, LimitThrows(s, b) PROVE TypeOK'
  <2>1. b \in Bound /\ pending[s][b] > 0
    BY <1>10 DEF LimitThrows, IInv, SlotInv, DrawsInv
  <2>2. pending' \in [Slots -> [Budgets -> Nat]]
    BY <1>0, <1>10, <2>1 DEF LimitThrows, TypeOK
  <2> QED
    BY <1>0, <1>10, <2>1, <2>2 DEF LimitThrows, TypeOK
<1>11. ASSUME NEW s \in Slots, Return(s) PROVE TypeOK'
  <2>1. NoDraws \in [Budgets -> Nat] /\ Issue(s, NoDraws)
    BY <1>11 DEF Return, NoDraws
  <2>2. (CHOOSE r \in Requests : TRUE) \in Requests
    BY RequestsAssumption
  <2>3. pc' \in [Slots -> Points] /\ req' \in [Slots -> Requests]
    BY <1>0, <1>11, <2>2 DEF Return, Goto, TypeOK, Points
  <2>4. reply' \in [Slots -> Replies] /\ waits' \in [Slots -> SUBSET Bound] /\ used' = used
    BY <1>0, <1>11 DEF Return, TypeOK, NoReply, Replies
  <2> QED
    BY <1>0, <2>1, <2>3, <2>4, IssueType DEF TypeOK
<1>12. ASSUME NEW b \in Budgets, NewWindow(b) PROVE TypeOK'
  <2>1. /\ used' \in [Budgets \X Callers -> Nat]
        /\ \A k \in Budgets \X Callers : used'[k] <= Limit[k[1]]
    BY <1>0, <1>12, BudgetsAssumption DEF NewWindow, TypeOK
  <2> QED
    BY <1>0, <1>12, <2>1 DEF NewWindow, TypeOK
<1>13. CASE UNCHANGED vars
  BY <1>0, <1>13 DEF TypeOK, vars
<1> QED
  BY <1>1, <1>2, <1>5, <1>6, <1>7, <1>8, <1>9, <1>10, <1>11, <1>12, <1>13 DEF Next, Code

-------------------------------------------------------------------------------
\* What is known of a slot rests on that slot's own state alone.
LEMMA SlotKept ==
    ASSUME NEW s \in Slots, SlotInv(s),
           pc'[s] = pc[s], req'[s] = req[s], reply'[s] = reply[s],
           pending'[s] = pending[s], granted'[s] = granted[s],
           denied'[s] = denied[s], failed'[s] = failed[s]
    PROVE  SlotInv(s)'
BY DEF SlotInv, DrawsInv, UnpricedInv, PriceInv, ToolsInv, ReplyInv

\* A step of one slot leaves the state of the others alone.
OnlySlot(s) ==
    \A t \in Slots \ {s} :
        /\ pc'[t] = pc[t] /\ req'[t] = req[t] /\ reply'[t] = reply[t]
        /\ pending'[t] = pending[t] /\ granted'[t] = granted[t]
        /\ denied'[t] = denied[t] /\ failed'[t] = failed[t]

\* What a request that begins does to its slot.
LEMMA BeginStep ==
    ASSUME IInv, NEW s \in Slots, NEW r \in Requests, Begin(s, r)
    PROVE  OnlySlot(s) /\ SlotInv(s)'
<1> DEFINE draws == [b \in Budgets |-> IF b \in RequestBudgets THEN DrawsOf(b, 1) ELSE 0]
<1>0. TypeOK
  BY DEF IInv
<1>1. \/ Goto(s, "route") /\ Issue(s, NoDraws)
      \/ Goto(s, "rate") /\ Issue(s, draws)
  BY DEF Begin
<1>2. /\ \A b \in Budgets : draws[b] > 0 => b \in Bound /\ b \notin ToolBudgets
      /\ \A b \in ToolBudgets : b \in Budgets /\ draws[b] = 0
  BY DEF DrawsOf, RequestBudgets, ToolBudgets, Budgets
<1>3. \A b \in Budgets : ~ (NoDraws[b] > 0) /\ NoDraws[b] = 0
  BY DEF NoDraws
<1> HIDE DEF draws
<1>4. OnlySlot(s)
  BY <1>0, <1>1 DEF Begin, OnlySlot, Goto, Issue, TypeOK
<1>5. /\ pc'[s] \in {"route", "rate"}
      /\ pending'[s] \in {NoDraws, draws} /\ granted'[s] = NoDraws
  BY <1>0, <1>1 DEF Goto, Issue, TypeOK
<1>6. DrawsInv(s)'
  BY <1>2, <1>3, <1>5 DEF DrawsInv
<1>7. UnpricedInv(s)'
  BY <1>2, <1>3, <1>5 DEF UnpricedInv
<1> QED
  BY <1>4, <1>5, <1>6, <1>7 DEF SlotInv, PriceInv, ToolsInv, ReplyInv

\* The states a refusal or a pass at a stage leaves behind: only the place of
\* the request and its reply change.
LEMMA RateDecidedStep ==
    ASSUME IInv, NEW s \in Slots, RateDecided(s)
    PROVE  OnlySlot(s) /\ SlotInv(s)'
<1>0. TypeOK /\ SlotInv(s)
  BY DEF IInv
<1>1. UNCHANGED <<req, pending, granted, denied, failed>> /\ pc[s] = "rate"
  BY DEF RateDecided
<1>2. DrawsInv(s)'
  BY <1>0, <1>1 DEF SlotInv, DrawsInv
<1>3. CASE \E b \in RequestBudgets : TooMany(s, b, FALSE) /\ ~Passes(s, b)
  <2> PICK b \in RequestBudgets : TooMany(s, b, FALSE) /\ ~Passes(s, b)
    BY <1>3
  <2>1. /\ pc'[s] = "done" /\ reply'[s] = [status |-> 429, scope |-> b, enveloped |-> FALSE]
        /\ OnlySlot(s)
    BY <1>0, <1>1 DEF TooMany, Reply, Goto, OnlySlot, TypeOK
  <2>2. b \in denied[s] \ failed[s] /\ pending[s][b] = 0
    BY DEF Passes, RateDecided, Answered
  <2>3. ReplyInv(s)'
    BY <1>1, <2>1, <2>2 DEF ReplyInv
  <2> QED
    BY <1>2, <2>1, <2>3 DEF SlotInv, UnpricedInv, PriceInv, ToolsInv
<1>4. CASE Goto(s, "route") /\ UNCHANGED reply
  <2>1. pc'[s] = "route" /\ OnlySlot(s)
    BY <1>0, <1>1, <1>4 DEF Goto, OnlySlot, TypeOK
  <2> QED
    BY <1>0, <1>1, <1>2, <2>1 DEF SlotInv, UnpricedInv, PriceInv, ToolsInv, ReplyInv
<1> QED
  BY <1>3, <1>4 DEF RateDecided, RequestBudgets

\* What the routing of a request does to it.
LEMMA RouteStep ==
    ASSUME IInv, NEW s \in Slots, Route(s)
    PROVE  OnlySlot(s) /\ SlotInv(s)'
<1>0. TypeOK /\ SlotInv(s)
  BY DEF IInv
<1>1. UNCHANGED <<req, pending, granted, denied, failed>> /\ pc[s] = "route"
  BY DEF Route
<1>2. DrawsInv(s)'
  BY <1>0, <1>1 DEF SlotInv, DrawsInv
<1>3. CASE \E n \in Statuses : Reply(s, [status |-> n]) /\ ~Priced(req[s])
  <2> PICK n \in Statuses : Reply(s, [status |-> n]) /\ ~Priced(req[s])
    BY <1>3
  <2>1. pc'[s] = "done" /\ reply'[s] = [status |-> n] /\ OnlySlot(s)
    BY <1>0, <1>1 DEF Reply, Goto, OnlySlot, TypeOK
  <2>2. reply'[s].status # 429
    BY <2>1 DEF Statuses
  <2> QED
    BY <1>1, <1>2, <1>3, <2>1, <2>2
       DEF SlotInv, UnpricedInv, PriceInv, ToolsInv, ReplyInv, Priced
<1>4. CASE Goto(s, "price") /\ UNCHANGED reply /\ req[s].method = "POST" /\ req[s].route = "mcp"
  <2>1. pc'[s] = "price" /\ OnlySlot(s)
    BY <1>0, <1>1, <1>4 DEF Goto, OnlySlot, TypeOK
  <2> QED
    BY <1>0, <1>1, <1>2, <1>4, <2>1 DEF SlotInv, UnpricedInv, PriceInv, ToolsInv, ReplyInv
<1>5. PageStatus(req[s]) \in Statuses
  BY DEF PageStatus, Statuses
<1> QED
  BY <1>3, <1>4, <1>5 DEF Route, Statuses, Priced

\* What the pricing of its tools does to it.
LEMMA PriceStep ==
    ASSUME IInv, NEW s \in Slots, Price(s)
    PROVE  OnlySlot(s) /\ SlotInv(s)'
<1> DEFINE r == req[s]
           draws == [b \in Budgets |-> IF b \in ToolBudgets THEN DrawsOf(b, Weight(r, b)) ELSE 0]
<1>0. TypeOK /\ SlotInv(s)
  BY DEF IInv
<1>1. /\ pc[s] = "price" /\ req' = req
      /\ r \in Requests /\ r.method = "POST" /\ r.route = "mcp"
  BY <1>0 DEF Price, SlotInv, PriceInv, TypeOK
<1>2. CASE \E n \in {400, 413} : Reply(s, [status |-> n])
                                    /\ UNCHANGED <<pending, granted, denied, failed>>
  <2>1. pc'[s] = "done" /\ reply'[s].status \in {400, 413} /\ OnlySlot(s)
    BY <1>0, <1>1, <1>2 DEF Reply, Goto, OnlySlot, TypeOK
  <2> QED
    BY <1>0, <1>1, <1>2, <2>1
       DEF SlotInv, DrawsInv, UnpricedInv, PriceInv, ToolsInv, ReplyInv
<1>3. CASE /\ r.body = Garbled \/ \A b \in ToolBudgets : Weight(r, b) = 0
           /\ Reply(s, [status |-> 200]) /\ UNCHANGED <<pending, granted, denied, failed>>
  <2>1. pc'[s] = "done" /\ reply'[s].status = 200 /\ OnlySlot(s)
    BY <1>0, <1>1, <1>3 DEF Reply, Goto, OnlySlot, TypeOK
  <2>2. ASSUME Priced(r), NEW b \in ToolBudgets
        PROVE  pending[s][b] = 0 /\ granted[s][b] = Weight(r, b)
    <3>1. Weight(r, b) = 0 /\ b \in Budgets
      BY <1>3, <2>2 DEF Priced, Budgets
    <3>2. ~ (pending[s][b] > 0) /\ granted[s][b] = 0
      BY <1>0, <1>1, <3>1 DEF SlotInv, DrawsInv, UnpricedInv
    <3> QED
      BY <1>0, <3>1, <3>2 DEF TypeOK
  <2>3. ReplyInv(s)'
    BY <1>1, <1>3, <2>1, <2>2 DEF ReplyInv
  <2> QED
    BY <1>0, <1>1, <1>3, <2>1, <2>3
       DEF SlotInv, DrawsInv, UnpricedInv, PriceInv, ToolsInv
<1>4. CASE /\ Refusal(r) = 0 /\ r.body # Garbled
           /\ Goto(s, "tools") /\ Issue(s, draws) /\ UNCHANGED reply
  <2>1. \A b \in ToolBudgets :
           /\ b \in Bound => draws[b] = Weight(r, b)
           /\ b \notin Bound => draws[b] = 0
    BY <1>1, <1>4, WeightType DEF Budgets
  <2>2. \A b \in Budgets \ ToolBudgets : draws[b] = 0
    OBVIOUS
  <2>3. \A b \in ToolBudgets : b \in Budgets /\ NoDraws[b] = 0 /\ Weight(r, b) \in Nat
    BY <1>1, <1>4, WeightType DEF Budgets, NoDraws
  <2> HIDE DEF draws
  <2>4. /\ pc'[s] = "tools" /\ pending'[s] = draws /\ granted'[s] = NoDraws
        /\ OnlySlot(s)
    BY <1>0, <1>1, <1>4 DEF Goto, Issue, OnlySlot, TypeOK
  <2>5. Priced(r)
    BY <1>1, <1>4 DEF Priced
  <2>6. DrawsInv(s)'
    BY <1>1, <1>4, <2>1, <2>2, <2>4, <2>5 DEF DrawsInv
  <2>7. ToolsInv(s)'
    BY <1>1, <1>4, <2>1, <2>3, <2>4, <2>5 DEF ToolsInv
  <2> QED
    BY <2>4, <2>6, <2>7 DEF SlotInv, UnpricedInv, PriceInv, ReplyInv
<1> QED
  BY <1>2, <1>3, <1>4 DEF Price, Refusal

\* What the decision on its tools does to it.
LEMMA ToolsDecidedStep ==
    ASSUME IInv, NEW s \in Slots, ToolsDecided(s)
    PROVE  OnlySlot(s) /\ SlotInv(s)'
<1>0. TypeOK /\ SlotInv(s)
  BY DEF IInv
<1>1. UNCHANGED <<req, pending, granted, denied, failed>> /\ pc[s] = "tools"
  BY DEF ToolsDecided
<1>2. DrawsInv(s)'
  BY <1>0, <1>1 DEF SlotInv, DrawsInv
<1>3. CASE \E b \in ToolBudgets, e \in BOOLEAN : TooMany(s, b, e) /\ ~Passes(s, b)
  <2> PICK b \in ToolBudgets, e \in BOOLEAN : TooMany(s, b, e) /\ ~Passes(s, b)
    BY <1>3
  <2>1. /\ pc'[s] = "done" /\ reply'[s] = [status |-> 429, scope |-> b, enveloped |-> e]
        /\ OnlySlot(s)
    BY <1>0, <1>1 DEF TooMany, Reply, Goto, OnlySlot, TypeOK
  <2>2. b \in denied[s] \ failed[s] /\ pending[s][b] = 0
    BY DEF Passes, ToolsDecided, Answered
  <2>3. ReplyInv(s)'
    BY <1>1, <2>1, <2>2 DEF ReplyInv
  <2> QED
    BY <1>2, <2>1, <2>3 DEF SlotInv, UnpricedInv, PriceInv, ToolsInv
<1>4. CASE Reply(s, [status |-> 200]) /\ \A b \in ToolBudgets : Passes(s, b)
  <2>1. pc'[s] = "done" /\ reply'[s] = [status |-> 200] /\ OnlySlot(s)
    BY <1>0, <1>1, <1>4 DEF Reply, Goto, OnlySlot, TypeOK
  <2>2. ASSUME NEW b \in ToolBudgets \cap Bound, b \notin failed[s]
        PROVE  pending[s][b] = 0 /\ granted[s][b] = Weight(req[s], b)
    <3>1. pending[s][b] = 0 /\ b \notin denied[s]
      BY <1>4, <2>2 DEF ToolsDecided, Answered, Passes
    <3>2. granted[s][b] + pending[s][b] = Weight(req[s], b)
      BY <1>0, <1>1, <2>2, <3>1 DEF SlotInv, ToolsInv
    <3> QED
      BY <1>0, <3>1, <3>2 DEF TypeOK, Budgets
  <2>3. ReplyInv(s)'
    BY <1>1, <2>1, <2>2 DEF ReplyInv
  <2> QED
    BY <1>2, <2>1, <2>3 DEF SlotInv, UnpricedInv, PriceInv, ToolsInv
<1> QED
  BY <1>3, <1>4 DEF ToolsDecided, ToolBudgets

\* One answer leaves what its budget granted and still has to answer adding up,
\* unless the budget refuses or fails with it.
LEMMA AnswerStep ==
    ASSUME IInv, NEW s \in Slots, NEW b \in Budgets, LimitAnswers(s, b) \/ LimitThrows(s, b)
    PROVE  OnlySlot(s) /\ SlotInv(s)'
<1>0. TypeOK /\ SlotInv(s)
  BY DEF IInv
<1>1. /\ pending[s][b] > 0 /\ pending[s][b] \in Nat /\ granted[s][b] \in Nat
      /\ pending' = [pending EXCEPT ![s][b] = @ - 1]
      /\ UNCHANGED <<pc, req, reply>>
  BY <1>0 DEF LimitAnswers, LimitThrows, TypeOK
<1>2. \/ /\ granted' = [granted EXCEPT ![s][b] = @ + 1]
         /\ UNCHANGED <<denied, failed>>
      \/ /\ denied' = [denied EXCEPT ![s] = @ \cup {b}]
         /\ UNCHANGED <<granted, failed>>
      \/ /\ failed' = [failed EXCEPT ![s] = @ \cup {b}]
         /\ UNCHANGED <<granted, denied>>
  BY DEF LimitAnswers, LimitThrows
<1>3. OnlySlot(s)
  BY <1>0, <1>1, <1>2 DEF OnlySlot, TypeOK
<1>4. /\ pending'[s][b] = pending[s][b] - 1
      /\ \A x \in Budgets \ {b} : pending'[s][x] = pending[s][x] /\ granted'[s][x] = granted[s][x]
      /\ \A x \in Budgets \ {b} : x \in denied'[s] <=> x \in denied[s]
      /\ \A x \in Budgets \ {b} : x \in failed'[s] <=> x \in failed[s]
      /\ \/ granted'[s][b] = granted[s][b] + 1 /\ denied'[s] = denied[s] /\ failed'[s] = failed[s]
         \/ granted'[s][b] = granted[s][b] /\ b \in denied'[s] /\ failed'[s] = failed[s]
         \/ granted'[s][b] = granted[s][b] /\ denied'[s] = denied[s] /\ b \in failed'[s]
  BY <1>0, <1>1, <1>2 DEF TypeOK
<1>5. \A x \in Budgets \ {b} : pending'[s][x] = pending[s][x] /\ granted'[s][x] = granted[s][x]
  BY <1>4
<1>6. DrawsInv(s)'
  BY <1>0, <1>1, <1>4 DEF SlotInv, DrawsInv
<1>7. UnpricedInv(s)'
  BY <1>0, <1>1, <1>4 DEF SlotInv, UnpricedInv, ToolBudgets, Budgets
<1>8. ToolsInv(s)'
  <2> SUFFICES ASSUME pc[s] = "tools", NEW x \in ToolBudgets \cap Bound,
                      x \notin denied'[s] \cup failed'[s]
               PROVE  granted'[s][x] + pending'[s][x] = Weight(req[s], x)
    BY <1>0, <1>1 DEF SlotInv, ToolsInv
  <2>1. x \in Budgets
    BY DEF Budgets
  <2>2. x \notin denied[s] \cup failed[s]
    BY <1>4, <2>1
  <2>3. granted[s][x] + pending[s][x] = Weight(req[s], x)
    BY <1>0, <2>2 DEF SlotInv, ToolsInv
  <2>4. CASE x = b
    BY <1>1, <1>4, <2>3, <2>4
  <2>5. CASE x # b
    BY <1>4, <2>1, <2>3, <2>5
  <2> QED
    BY <2>4, <2>5
<1>9. ReplyInv(s)'
  <2> SUFFICES ASSUME pc[s] = "done" PROVE ReplyInv(s)'
    BY <1>1 DEF ReplyInv
  <2>1. ASSUME reply[s].status = 200, Priced(req[s]), NEW x \in ToolBudgets \cap Bound,
               x \notin failed'[s]
        PROVE  pending'[s][x] = 0 /\ granted'[s][x] = Weight(req[s], x)
    <3>1. x \in Budgets /\ x \notin failed[s]
      BY <1>4, <2>1 DEF Budgets
    <3>2. pending[s][x] = 0 /\ granted[s][x] = Weight(req[s], x)
      BY <1>0, <2>1, <3>1 DEF SlotInv, ReplyInv
    <3> QED
      BY <1>1, <1>4, <3>1, <3>2
  <2>2. ASSUME reply[s].status = 429
        PROVE  /\ reply[s].scope \in denied'[s] \ failed'[s]
               /\ pending'[s][reply[s].scope] = 0
    <3>1. reply[s].scope \in denied[s] \ failed[s] /\ pending[s][reply[s].scope] = 0
      BY <1>0, <2>2 DEF SlotInv, ReplyInv
    <3>2. reply[s].scope \in Budgets \ {b}
      BY <1>0, <1>1, <3>1, BudgetsAssumption DEF TypeOK
    <3> QED
      BY <1>4, <3>1, <3>2
  <2> QED
    BY <1>1, <2>1, <2>2 DEF ReplyInv
<1>10. PriceInv(s)'
  BY <1>0, <1>1 DEF SlotInv, PriceInv
<1> QED
  BY <1>3, <1>6, <1>7, <1>8, <1>9, <1>10 DEF SlotInv

\* What the answer does to it.
LEMMA ReturnStep ==
    ASSUME IInv, NEW s \in Slots, Return(s)
    PROVE  OnlySlot(s) /\ SlotInv(s)'
<1>0. TypeOK
  BY DEF IInv
<1>1. OnlySlot(s)
  BY <1>0 DEF Return, Goto, Issue, OnlySlot, TypeOK
<1>2. pc'[s] = "idle" /\ pending'[s] = NoDraws
  BY <1>0 DEF Return, Goto, Issue, TypeOK
<1>3. \A b \in Budgets : NoDraws[b] = 0
  BY DEF NoDraws
<1>4. DrawsInv(s)'
  BY <1>2, <1>3 DEF DrawsInv
<1> QED
  BY <1>1, <1>2, <1>4 DEF SlotInv, UnpricedInv, PriceInv, ToolsInv, ReplyInv

-------------------------------------------------------------------------------
\* The invariant holds at first.
LEMMA InitInv == Init => IInv
<1> SUFFICES ASSUME Init PROVE IInv
  OBVIOUS
<1>1. NoDraws \in [Budgets -> Nat] /\ \A b \in Budgets : NoDraws[b] = 0
  BY DEF NoDraws
<1>2. (CHOOSE r \in Requests : TRUE) \in Requests
  BY RequestsAssumption
<1>3. TypeOK
  <2>1. /\ used \in [Budgets \X Callers -> Nat]
        /\ \A k \in DOMAIN used : used[k] <= Limit[k[1]]
    BY BudgetsAssumption DEF Init
  <2> QED
    BY <1>1, <1>2, <2>1 DEF Init, TypeOK, Points, NoReply, Replies
<1>4. ASSUME NEW s \in Slots PROVE SlotInv(s)
  <2>1. pc[s] = "idle" /\ pending[s] = NoDraws
    BY DEF Init
  <2>2. DrawsInv(s)
    BY <1>1, <2>1 DEF DrawsInv
  <2> QED
    BY <2>1, <2>2 DEF SlotInv, UnpricedInv, PriceInv, ToolsInv, ReplyInv
<1> QED
  BY <1>3, <1>4 DEF IInv

\* And every step keeps it.
LEMMA InvStep == IInv /\ [Next]_vars => IInv'
<1> SUFFICES ASSUME IInv, [Next]_vars PROVE IInv'
  OBVIOUS
<1>0. TypeOK'
  BY TypeStep
<1>1. ASSUME NEW s \in Slots, OnlySlot(s), SlotInv(s)' PROVE \A t \in Slots : SlotInv(t)'
  BY <1>1, SlotKept DEF OnlySlot, IInv
<1>2. ASSUME NEW s \in Slots, Arrive(s) PROVE \A t \in Slots : SlotInv(t)'
  BY <1>1, <1>2, BeginStep DEF Arrive
<1>3. ASSUME NEW s \in Slots, Retry(s) PROVE \A t \in Slots : SlotInv(t)'
  <2>1. req[s] \in Requests /\ Begin(s, req[s])
    BY <1>3 DEF Retry, IInv, TypeOK
  <2> QED
    BY <1>1, <2>1, BeginStep
<1>4. ASSUME NEW s \in Slots, Code(s) PROVE \A t \in Slots : SlotInv(t)'
  BY <1>1, <1>4, RateDecidedStep, RouteStep, PriceStep, ToolsDecidedStep, AnswerStep
     DEF Code
<1>5. ASSUME NEW s \in Slots, NEW b \in Budgets, LimitThrows(s, b)
      PROVE  \A t \in Slots : SlotInv(t)'
  BY <1>1, <1>5, AnswerStep
<1>6. ASSUME NEW s \in Slots, Return(s) PROVE \A t \in Slots : SlotInv(t)'
  BY <1>1, <1>6, ReturnStep
<1>7. ASSUME NEW b \in Budgets, NewWindow(b) PROVE \A t \in Slots : SlotInv(t)'
  BY <1>7, SlotKept DEF NewWindow, IInv
<1>8. ASSUME UNCHANGED vars, NEW t \in Slots PROVE SlotInv(t)'
  <2>1. UNCHANGED <<pc, req, pending, granted, denied, failed, reply>>
    BY <1>8 DEF vars
  <2>2. SlotInv(t)
    BY DEF IInv
  <2> QED
    BY <2>1, <2>2, SlotKept
<1>9. ASSUME Next PROVE \A t \in Slots : SlotInv(t)'
  <2>1. CASE \E s \in Slots :
                \/ Arrive(s) \/ Code(s) \/ Return(s) \/ Retry(s)
                \/ \E b \in Budgets : LimitThrows(s, b)
    <3> PICK s \in Slots :
           \/ Arrive(s) \/ Code(s) \/ Return(s) \/ Retry(s)
           \/ \E b \in Budgets : LimitThrows(s, b)
      BY <2>1
    <3> QED
      BY <1>2, <1>3, <1>4, <1>5, <1>6
  <2> QED
    BY <1>7, <1>9, <2>1 DEF Next
<1> QED
  BY <1>0, <1>8, <1>9 DEF IInv

\* The inductive invariant holds in every reachable state.
THEOREM Invariance == Spec => []IInv
BY InitInv, InvStep, PTL DEF Spec

\* Every variable of admission control keeps its type; no window grants more
\* than its limit (rate-limit.ts, index.ts).
THEOREM TypeCorrect == Spec => []TypeOK
BY Invariance, PTL DEF IInv

\* A tool call reaches the MCP handler only if each bound limiter that did not
\* fail on it granted every unit of its price (draw, enforceToolRate).
THEOREM AdmittedPaidHolds == Spec => []AdmittedPaid
<1>1. IInv => AdmittedPaid
  BY DEF IInv, AdmittedPaid, Handled, SlotInv, ReplyInv
<1> QED
  BY <1>1, Invariance, PTL

\* A limiter's outage never refuses a request: the budget a 429 names refused
\* and did not fail (draw's catch).
THEOREM OutageNeverRefusesHolds == Spec => []OutageNeverRefuses
<1>1. IInv => OutageNeverRefuses
  BY DEF IInv, OutageNeverRefuses, SlotInv, ReplyInv
<1> QED
  BY <1>1, Invariance, PTL

\* Only a request that names a metered tool and fits the ceilings spends the
\* metered budget of its caller (enforceToolRate, chargeForMcpBody).
THEOREM OnlyPaidCallsSpendMeteredHolds == Spec => OnlyPaidCallsSpendMetered
<1> DEFINE Paid ==
      \A c \in Callers :
         used'[<<"metered", c>>] > used[<<"metered", c>>] =>
            \E s \in Slots :
               /\ CallerOf[s] = c
               /\ Priced(req[s]) /\ MeteredCalls(req[s].body) > 0
               /\ Refusal(req[s]) = 0
<1>1. ASSUME IInv, [Next]_vars PROVE [Paid]_vars
  <2> SUFFICES ASSUME NEW c \in Callers, used'[<<"metered", c>>] > used[<<"metered", c>>]
               PROVE  \E s \in Slots :
                         /\ CallerOf[s] = c
                         /\ Priced(req[s]) /\ MeteredCalls(req[s].body) > 0
                         /\ Refusal(req[s]) = 0
    OBVIOUS
  <2> DEFINE k == <<"metered", c>>
  <2>0. /\ used \in [Budgets \X Callers -> Nat] /\ k \in Budgets \X Callers
        /\ \A s \in Slots : SlotInv(s)
    BY <1>1 DEF IInv, TypeOK, Budgets, ToolBudgets
  <2>1. used' # used
    BY <2>0
  <2>2. ~ \E b \in Budgets : NewWindow(b)
    <3> SUFFICES ASSUME NEW b \in Budgets, NewWindow(b) PROVE FALSE
      OBVIOUS
    <3>1. used'[k] = IF k[1] = b THEN 0 ELSE used[k]
      BY <2>0 DEF NewWindow
    <3> QED
      BY <2>0, <3>1
  <2>3. PICK s \in Slots, b \in Budgets : LimitAnswers(s, b)
    BY <1>1, <2>1, <2>2
       DEF Next, vars, Code, Arrive, Retry, Return, Begin, RateDecided, Route, Price,
           ToolsDecided, LimitThrows
  <2>4. Key(b, s) = k
    <3>1. \/ used' = used
          \/ used' = [used EXCEPT ![Key(b, s)] = IF @ < Limit[b] THEN @ + 1 ELSE @]
      BY <2>3 DEF LimitAnswers
    <3>2. Key(b, s) \in Budgets \X Callers
      BY CallersAssumption DEF Key
    <3> QED
      BY <2>0, <2>1, <3>1, <3>2
  <2>5. b = "metered" /\ CallerOf[s] = c /\ pending[s]["metered"] > 0
    BY <2>3, <2>4 DEF Key, LimitAnswers
  <2>6. /\ Priced(req[s]) /\ Refusal(req[s]) = 0
        /\ Weight(req[s], "metered") > 0
    BY <2>0, <2>5 DEF SlotInv, DrawsInv, Budgets, ToolBudgets
  <2> QED
    BY <2>5, <2>6 DEF Weight
<1> QED
  BY <1>1, Invariance, PTL DEF Spec, OnlyPaidCallsSpendMetered
================================================================================
