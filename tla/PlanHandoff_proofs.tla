--------------------------- MODULE PlanHandoff_proofs ---------------------------
(***************************************************************************)
(* The properties of the handoff, for any number of calls, any answers of  *)
(* the quote sources, any plans of the other tools that meet               *)
(* ActionPlansAssumption, any allowances the interface grants meanwhile,   *)
(* and whatever puts fail or are still under way when another call         *)
(* answers.                                                                *)
(*                                                                         *)
(* First what withAllowanceResets makes of a list of transactions of any   *)
(* length; then what a good plan does to allowances that have changed      *)
(* since it was built; last an inductive invariant that carries good plans *)
(* from the builders through the bucket to the wallet.                     *)
(***************************************************************************)
EXTENDS PlanHandoff, DataTheorems

-------------------------------------------------------------------------------
(***************************************************************************)
(* executionPlanFromSteps: what the resets add, and that no approval of    *)
(* its result meets the approve guard of a token.                          *)
(***************************************************************************)

Reset(step) == Approve("approval", step.token, step.spender, 0)

\* The transactions withAllowanceResets makes of step i.
Block(steps, i) ==
    IF NeedsReset(steps, i) THEN <<Reset(steps[i]), steps[i]>> ELSE <<steps[i]>>

\* withAllowanceResets puts together what it makes of one transaction after another.
LEMMA ResetsRecursion ==
    ASSUME NEW S, NEW steps \in Seq(S), \A s \in S : IsNonzeroApproval(s) => Reset(s) \in S
    PROVE  LET blocks == [i \in DOMAIN steps |-> Block(steps, i)]
           IN  /\ blocks \in Seq(Seq(S)) /\ Len(blocks) = Len(steps)
               /\ WithAllowanceResets(steps) = FlattenSeq(blocks)
               /\ \A i \in DOMAIN steps :
                     /\ steps[i] \in Range(blocks[i])
                     /\ \A x \in Range(blocks[i]) :
                           x = steps[i] \/ (IsNonzeroApproval(steps[i]) /\ x = Reset(steps[i]))
               /\ \E g \in [0 .. Len(steps) -> Seq(S)] :
                     /\ g[0] = <<>>
                     /\ \A i \in 1 .. Len(steps) : g[i] = g[i - 1] \o Block(steps, i)
                     /\ WithAllowanceResets(steps) = g[Len(steps)]
<1> DEFINE blocks == [i \in DOMAIN steps |-> Block(steps, i)]
           n == Len(steps)
<1>0. n \in Nat
  OBVIOUS
<1>1. DOMAIN steps = 1 .. n /\ \A i \in 1 .. n : steps[i] \in S
  OBVIOUS
<1>2. WithAllowanceResets(steps) = FlattenSeq(blocks)
  BY DEF WithAllowanceResets, Block, Reset
<1>3. ASSUME NEW i \in 1 .. n
      PROVE  /\ blocks[i] = Block(steps, i) /\ blocks[i] \in Seq(S)
             /\ steps[i] \in Range(blocks[i])
             /\ \A x \in Range(blocks[i]) :
                    x = steps[i] \/ (IsNonzeroApproval(steps[i]) /\ x = Reset(steps[i]))
  <2>0. blocks[i] = Block(steps, i) /\ steps[i] \in S
    BY <1>1
  <2> HIDE DEF blocks
  <2>1. CASE NeedsReset(steps, i)
    <3>1. blocks[i] = <<Reset(steps[i]), steps[i]>>
      BY <2>0, <2>1 DEF Block
    <3>2. IsNonzeroApproval(steps[i]) /\ Reset(steps[i]) \in S /\ steps[i] \in S
      BY <2>0, <2>1 DEF NeedsReset
    <3>3. <<Reset(steps[i]), steps[i]>> \in Seq(S)
      BY <3>2
    <3>4. Range(<<Reset(steps[i]), steps[i]>>) = {Reset(steps[i]), steps[i]}
      <4>1. DOMAIN <<Reset(steps[i]), steps[i]>> = {1, 2}
        OBVIOUS
      <4> QED
        BY <4>1 DEF Range
    <3>5. Range(blocks[i]) = {Reset(steps[i]), steps[i]} /\ blocks[i] \in Seq(S)
      BY ONLY <3>1, <3>3, <3>4
    <3> QED
      BY ONLY <2>0, <3>2, <3>5
  <2>2. CASE ~NeedsReset(steps, i)
    <3>1. blocks[i] = <<steps[i]>>
      BY <2>0, <2>2 DEF Block
    <3>2. Range(<<steps[i]>>) = {steps[i]}
      BY DOMAIN <<steps[i]>> = {1} DEF Range
    <3>3. <<steps[i]>> \in Seq(S)
      BY <2>0
    <3>4. Range(blocks[i]) = {steps[i]} /\ blocks[i] \in Seq(S)
      BY ONLY <3>1, <3>2, <3>3
    <3> QED
      BY ONLY <2>0, <3>4
  <2> QED
    BY <2>1, <2>2
<1>4. blocks \in Seq(Seq(S)) /\ Len(blocks) = n /\ DOMAIN blocks = 1 .. n
  <2>1. blocks = [i \in 1 .. n |-> Block(steps, i)] /\ \A i \in 1 .. n : Block(steps, i) \in Seq(S)
    BY <1>1, <1>3
  <2> QED
    BY <1>0, <2>1
<1> HIDE DEF blocks, n
<1>5. PICK g \in [0 .. n -> Seq(S)] : Joins(g, blocks) /\ FlattenSeq(blocks) = g[n]
  BY <1>4, FlattenRecursion
<1>6. \A i \in 1 .. n : g[i] = g[i - 1] \o Block(steps, i)
  BY <1>3, <1>4, <1>5 DEF Joins
<1> QED
  BY <1>1, <1>2, <1>3, <1>4, <1>5, <1>6 DEF Joins, blocks, n

\* What withAllowanceResets makes of a list keeps its transactions, adds only resets
\* of tokens it approves, and never needs a reset: every approval of an amount of a
\* guarded token comes right after one of zero for its spender.
THEOREM ResetsSuffice ==
    ASSUME NEW S, NEW steps \in Seq(S), \A s \in S : IsNonzeroApproval(s) => Reset(s) \in S
    PROVE  /\ WithAllowanceResets(steps) \in Seq(S)
           /\ Range(steps) \subseteq Range(WithAllowanceResets(steps))
           /\ \A x \in Range(WithAllowanceResets(steps)) :
                 \/ x \in Range(steps)
                 \/ \E i \in DOMAIN steps : IsNonzeroApproval(steps[i]) /\ x = Reset(steps[i])
           /\ \A i \in DOMAIN WithAllowanceResets(steps) :
                 ~NeedsReset(WithAllowanceResets(steps), i)
<1> DEFINE blocks == [i \in DOMAIN steps |-> Block(steps, i)]
           n == Len(steps)
<1>0. n \in Nat
  OBVIOUS
<1>1. DOMAIN steps = 1 .. n /\ \A i \in 1 .. n : steps[i] \in S
  OBVIOUS
<1>2. /\ blocks \in Seq(Seq(S)) /\ Len(blocks) = n
      /\ WithAllowanceResets(steps) = FlattenSeq(blocks)
      /\ \A i \in DOMAIN steps :
            /\ steps[i] \in Range(blocks[i])
            /\ \A x \in Range(blocks[i]) :
                  x = steps[i] \/ (IsNonzeroApproval(steps[i]) /\ x = Reset(steps[i]))
  BY ResetsRecursion
<1>3. PICK g \in [0 .. n -> Seq(S)] :
        /\ g[0] = <<>>
        /\ \A i \in 1 .. n : g[i] = g[i - 1] \o Block(steps, i)
        /\ WithAllowanceResets(steps) = g[n]
  BY ResetsRecursion
<1>4. DOMAIN blocks = 1 .. n
  OBVIOUS
<1>5. ASSUME NEW i \in 1 .. n PROVE Block(steps, i) \in Seq(S)
  <2>1. steps[i] \in S /\ (NeedsReset(steps, i) => Reset(steps[i]) \in S)
    BY <1>1 DEF NeedsReset
  <2> QED
    BY <2>1 DEF Block
<1> HIDE DEF blocks, n
<1> DEFINE Clean(s, k) ==
              /\ k = 0 => s = <<>>
              /\ k # 0 => s # <<>> /\ s[Len(s)] = steps[k]
              /\ \A i \in 1 .. Len(s) : ~NeedsReset(s, i)
<1>6. Clean(g[0], 0)
  BY <1>3
<1>7. ASSUME NEW k \in Nat, k + 1 <= n, Clean(g[k], k) PROVE Clean(g[k + 1], k + 1)
  <2> DEFINE s == g[k]
             b == Block(steps, k + 1)
  <2>0. k \in 0 .. n /\ k + 1 \in 1 .. n /\ (k + 1) - 1 = k /\ k + 1 # 0
    BY <1>0, <1>7
  <2>1. s \in Seq(S) /\ b \in Seq(S) /\ g[k + 1] = s \o b
    <3>1. g[k + 1] = g[(k + 1) - 1] \o b
      BY <1>3, <2>0
    <3> QED
      BY <1>5, <2>0, <3>1
  <2>2. Clean(s, k)
    BY <1>7
  <2> HIDE DEF s
  <2>3. ASSUME NEW i \in 1 .. Len(s) PROVE ~NeedsReset(s \o b, i)
    <3>1. (s \o b)[i] = s[i] /\ (i > 1 => (s \o b)[i - 1] = s[i - 1])
      BY <2>1
    <3>2. ~NeedsReset(s, i)
      BY <2>2
    <3> HIDE DEF Clean, b
    <3> QED
      BY ONLY <3>1, <3>2 DEF NeedsReset, AlreadyReset
  <2>4. CASE NeedsReset(steps, k + 1)
    <3> DEFINE step == steps[k + 1]
    <3>1. b = <<Reset(step), step>>
      BY <2>4 DEF Block
    <3> HIDE DEF b, step, Clean
    <3>2. /\ Len(s \o b) = Len(s) + 2 /\ Len(s) \in Nat
          /\ (s \o b)[Len(s) + 1] = Reset(step) /\ (s \o b)[Len(s) + 2] = step
      BY <2>1, <3>1
    <3>3. ~NeedsReset(s \o b, Len(s) + 1)
      BY <3>2 DEF NeedsReset, IsNonzeroApproval, Reset, Approve
    <3>4. ~NeedsReset(s \o b, Len(s) + 2)
      <4>1. (Len(s) + 2) - 1 = Len(s) + 1 /\ Len(s) + 2 > 1
        BY <3>2
      <4> QED
        BY <3>2, <4>1 DEF NeedsReset, AlreadyReset, IsApproval, Reset, Approve
    <3>5. \A i \in 1 .. Len(s) + 2 : ~NeedsReset(s \o b, i)
      BY <2>3, <3>2, <3>3, <3>4
    <3>6. s \o b # <<>>
      BY <3>2
    <3> QED
      BY <2>0, <2>1, <3>2, <3>5, <3>6 DEF Clean, step
  <2>5. CASE ~NeedsReset(steps, k + 1)
    <3> DEFINE step == steps[k + 1]
    <3>1. b = <<step>>
      BY <2>5 DEF Block
    <3> HIDE DEF b, step
    <3>2. /\ Len(s \o b) = Len(s) + 1 /\ Len(s) \in Nat
          /\ (s \o b)[Len(s) + 1] = step
          /\ Len(s) > 0 => (s \o b)[Len(s)] = s[Len(s)]
      BY <2>1, <3>1
    <3>3. ~NeedsReset(s \o b, Len(s) + 1)
      <4> SUFFICES ASSUME IsNonzeroApproval(step), RequiresAllowanceReset(step.token)
                   PROVE  AlreadyReset(s \o b, Len(s) + 1)
        BY <3>2 DEF NeedsReset
      <4>1. AlreadyReset(steps, k + 1)
        BY <2>5 DEF NeedsReset, step
      <4>2. k # 0 /\ s # <<>> /\ s[Len(s)] = steps[k]
        BY <2>0, <2>2, <4>1 DEF AlreadyReset
      <4>3. Len(s) > 0 /\ (Len(s) + 1) - 1 = Len(s) /\ Len(s) + 1 > 1
        BY <2>1, <3>2, <4>2
      <4> HIDE DEF Clean
      <4>4. (s \o b)[(Len(s) + 1) - 1] = steps[(k + 1) - 1] /\ (s \o b)[Len(s) + 1] = steps[k + 1]
        BY ONLY <2>0, <3>2, <4>2, <4>3 DEF step
      <4> QED
        BY ONLY <4>1, <4>3, <4>4 DEF AlreadyReset
    <3> HIDE DEF Clean
    <3>4. \A i \in 1 .. Len(s) + 1 : ~NeedsReset(s \o b, i)
      BY <2>3, <3>2, <3>3
    <3>5. s \o b # <<>>
      BY <3>2
    <3> QED
      BY <2>0, <2>1, <3>2, <3>4, <3>5 DEF Clean, step
  <2> QED
    BY <2>4, <2>5
<1> HIDE DEF Clean
<1> DEFINE Done == {k \in Nat : k <= n => Clean(g[k], k)}
<1>8. 0 \in Done
  BY <1>6
<1>9. ASSUME NEW k \in Done PROVE k + 1 \in Done
  <2>1. k \in Nat /\ k + 1 \in Nat /\ (k + 1 <= n => k <= n)
    BY <1>0
  <2> QED
    BY <1>7, <2>1
<1>10. Done \in SUBSET Nat
  OBVIOUS
<1> HIDE DEF Done
<1>11. Clean(g[n], n)
  <2>1. n \in Done
    BY <1>0, <1>8, <1>9, <1>10, InductionOverNat
  <2> QED
    BY <1>0, <2>1 DEF Done
<1>12. /\ FlattenSeq(blocks) \in Seq(S)
       /\ \A i \in DOMAIN blocks : Range(blocks[i]) \subseteq Range(FlattenSeq(blocks))
       /\ \A x \in Range(FlattenSeq(blocks)) : \E i \in DOMAIN blocks : x \in Range(blocks[i])
  BY <1>2, FlattenRange
<1>13. Range(steps) \subseteq Range(FlattenSeq(blocks))
  BY <1>1, <1>2, <1>4, <1>12 DEF Range
<1>14. \A x \in Range(FlattenSeq(blocks)) :
         \/ x \in Range(steps)
         \/ \E i \in DOMAIN steps : IsNonzeroApproval(steps[i]) /\ x = Reset(steps[i])
  <2> TAKE x \in Range(FlattenSeq(blocks))
  <2>1. PICK i \in 1 .. n : x \in Range(blocks[i])
    BY <1>4, <1>12
  <2>2. x = steps[i] \/ (IsNonzeroApproval(steps[i]) /\ x = Reset(steps[i]))
    BY <1>1, <1>2, <2>1
  <2>3. i \in DOMAIN steps /\ steps[i] \in Range(steps)
    BY <1>1 DEF Range
  <2> QED
    BY <2>2, <2>3
<1>15. DOMAIN FlattenSeq(blocks) = 1 .. Len(g[n]) /\ \A i \in 1 .. Len(g[n]) : ~NeedsReset(g[n], i)
  BY <1>2, <1>3, <1>11, <1>12 DEF Clean
<1> QED
  BY <1>2, <1>3, <1>12, <1>13, <1>14, <1>15

-------------------------------------------------------------------------------
(***************************************************************************)
(* Carrying out a plan against any allowances.  The argument compares      *)
(* three runs of the same transactions: the one at hand, and the two of a  *)
(* sender without allowances whose calls take the most and the least they  *)
(* may.  Once the plan has approved a pair, the allowance at hand lies     *)
(* between the other two, so a plan that covers itself and cleans up after *)
(* itself on a clean sender does so on any.                                *)
(***************************************************************************)

Allowances == [Pairs -> 0 .. Unlimited]

Ends == [result : {"ok", "collided", "unfunded"}, allowed : Allowances]

\* What a call takes of a pair.
TakesOf(step, p) ==
    {take \in {take \in step.takes : take.token # Native} : <<take.token, step.spender>> = p}

-------------------------------------------------------------------------------
\* Used is a fold: of nothing it is zero, of one take its amount.
LEMMA UsedOfOne ==
    ASSUME NEW full, NEW T, NEW one, T = {} \/ T = {one}, one \in Takes
    PROVE  Used(T, full) = IF T = {} THEN 0 ELSE Amount(one, full)
<1> DEFINE Solves(f) == f = [s \in SUBSET T |->
                              IF s = {} THEN 0
                              ELSE Amount(CHOOSE x \in s : TRUE, full)
                                     + f[s \ {CHOOSE x \in s : TRUE}]]
           iter == CHOOSE f : Solves(f)
<1>1. Used(T, full) = iter[T]
  BY DEF Used, MapThenSumSet, MapThenFoldSet
<1>2. Amount(one, full) \in Nat
  BY DEF Amount, Takes
<1> DEFINE f == [s \in SUBSET T |-> IF s = {} THEN 0 ELSE Amount(one, full)]
<1>3. \A s \in SUBSET T : s # {} => (CHOOSE x \in s : TRUE) = one /\ s \ {one} = {}
  OBVIOUS
<1>4. ASSUME NEW s \in SUBSET T
      PROVE  f[s] = IF s = {} THEN 0
                    ELSE Amount(CHOOSE x \in s : TRUE, full) + f[s \ {CHOOSE x \in s : TRUE}]
  <2>1. CASE s = {}
    BY <2>1
  <2>2. CASE s # {}
    <3>1. (CHOOSE x \in s : TRUE) = one /\ s \ {one} = {}
      BY <1>3, <2>2
    <3>2. f[{}] = 0 /\ f[s] = Amount(one, full)
      BY <2>2
    <3> HIDE DEF f
    <3>3. f[s] = Amount(one, full) + f[{}]
      BY ONLY <1>2, <3>2
    <3> QED
      BY ONLY <2>2, <3>1, <3>3
  <2> QED
    BY <2>1, <2>2
<1>5. Solves(f)
  BY <1>4
<1>6. Solves(iter)
  BY ONLY <1>5 DEF iter
<1> HIDE DEF iter, f
<1>7. CASE T = {}
  BY <1>1, <1>6, <1>7
<1>8. CASE T # {}
  <2>1. iter[{}] = 0
    BY <1>6
  <2>2. T \in SUBSET T /\ (CHOOSE x \in T : TRUE) = one /\ T \ {one} = {}
    BY <1>3, <1>8
  <2>3. iter[T] = Amount(CHOOSE x \in T : TRUE, full) + iter[T \ {CHOOSE x \in T : TRUE}]
    BY <1>6, <1>8, <2>2
  <2>4. iter[T] = Amount(one, full) + 0
    BY ONLY <2>1, <2>2, <2>3
  <2> QED
    BY ONLY <1>1, <1>2, <1>8, <2>4
<1> QED
  BY <1>7, <1>8

\* A call takes a pair's amount once, at least the least and at most the most.
LEMMA TakingBounds ==
    ASSUME NEW step \in Transactions, step.op = "call", NEW full \in SUBSET Tokens,
           NEW p \in Pairs
    PROVE  /\ Used(TakesOf(step, p), full) \in Nat
           /\ Used(TakesOf(step, p), {}) \in Nat
           /\ Used(TakesOf(step, p), {}) <= Used(TakesOf(step, p), full)
           /\ Used(TakesOf(step, p), full) <= Used(TakesOf(step, p), Tokens)
           /\ \A take \in TakesOf(step, p) :
                 Used(TakesOf(step, p), full) = Amount(take, full)
<1>1. /\ step.takes \in SUBSET Takes
      /\ \A take \in step.takes : take.least <= take.most
      /\ \A take, other \in step.takes : take.token = other.token => take = other
  BY DEF Transactions
<1>2. CASE TakesOf(step, p) = {}
  <2>1. [token |-> Native, least |-> 0, most |-> 0] \in Takes
    BY DEF Takes
  <2>2. \A any : Used({}, any) = 0
    BY <2>1, UsedOfOne
  <2> QED
    BY <1>2, <2>2
<1>3. CASE TakesOf(step, p) # {}
  <2>1. PICK one : one \in TakesOf(step, p)
    BY <1>3
  <2>2. one \in Takes /\ one \in step.takes /\ one.token = p[1] /\ one.token \in Tokens
    BY <1>1, <2>1 DEF TakesOf, Takes, Pairs
  <2>3. TakesOf(step, p) = {one}
    BY <1>1, <2>1, <2>2 DEF TakesOf
  <2>4. \A any : Used(TakesOf(step, p), any) = Amount(one, any)
    BY <2>2, <2>3, UsedOfOne
  <2>5. one.least \in Nat /\ one.most \in Nat /\ one.least <= one.most
    BY <1>1, <2>2 DEF Takes
  <2> QED
    BY <2>2, <2>3, <2>4, <2>5 DEF Amount
<1> QED
  BY <1>2, <1>3

\* A call succeeds when every pair has what it takes of it, and then leaves the rest.
LEMMA CallOutcome ==
    ASSUME NEW step \in Transactions, step.op = "call", NEW full \in SUBSET Tokens,
           NEW a \in Allowances
    PROVE  LET end == Called(a, step, full)
           IN  /\ end \in Ends /\ end.result # "collided"
               /\ end.result = "ok" <=> \A p \in Pairs : Used(TakesOf(step, p), full) <= a[p]
               /\ end.result = "ok" =>
                    end.allowed = [p \in Pairs |->
                        IF a[p] = Unlimited THEN Unlimited
                        ELSE a[p] - Used(TakesOf(step, p), full)]
<1> DEFINE end == Called(a, step, full)
           taking(p) == Used(TakesOf(step, p), full)
           rest == [p \in Pairs |-> IF a[p] = Unlimited THEN Unlimited ELSE a[p] - taking(p)]
           short == \E take \in {take \in step.takes : take.token # Native} :
                        Amount(take, full) > a[<<take.token, step.spender>>]
<1>1. end = IF short THEN [result |-> "unfunded", allowed |-> a]
            ELSE [result |-> "ok", allowed |-> rest]
  BY DEF Called, TakesOf
<1>2. step.takes \in SUBSET Takes /\ step.spender \in Spenders
  BY DEF Transactions
<1>3. ASSUME NEW take \in step.takes, take.token # Native
      PROVE  /\ <<take.token, step.spender>> \in Pairs
             /\ Amount(take, full) = taking(<<take.token, step.spender>>)
  <2>1. <<take.token, step.spender>> \in Pairs
    BY <1>2, <1>3 DEF Pairs, Takes
  <2>2. take \in TakesOf(step, <<take.token, step.spender>>)
    BY <1>3 DEF TakesOf
  <2> QED
    BY <2>1, <2>2, TakingBounds
<1>4. ASSUME NEW p \in Pairs, TakesOf(step, p) = {} PROVE taking(p) = 0
  <2>1. [token |-> Native, least |-> 0, most |-> 0] \in Takes
    BY DEF Takes
  <2> QED
    BY <1>4, <2>1, UsedOfOne
<1>5. ASSUME NEW p \in Pairs
      PROVE  /\ taking(p) \in Nat /\ a[p] \in 0 .. Unlimited
             /\ ~short => taking(p) <= a[p]
  <2>1. taking(p) \in Nat /\ a[p] \in 0 .. Unlimited
    BY TakingBounds DEF Allowances
  <2>2. CASE TakesOf(step, p) = {}
    <3>1. taking(p) = 0
      BY <1>4, <2>2
    <3> HIDE DEF taking
    <3> QED
      BY <2>1, <3>1
  <2>3. CASE TakesOf(step, p) # {}
    <3>1. PICK take \in TakesOf(step, p) : TRUE
      BY <2>3
    <3>2. take \in step.takes /\ take.token # Native /\ <<take.token, step.spender>> = p
      BY DEF TakesOf
    <3>3. Amount(take, full) = taking(p)
      BY <1>3, <3>2
    <3> HIDE DEF taking
    <3> QED
      BY <2>1, <3>2, <3>3
  <2> QED
    BY <2>2, <2>3
<1>6. ASSUME short PROVE \E p \in Pairs : ~(taking(p) <= a[p])
  <2>1. PICK take \in step.takes : take.token # Native
                                   /\ Amount(take, full) > a[<<take.token, step.spender>>]
    BY <1>6
  <2>2. /\ <<take.token, step.spender>> \in Pairs
        /\ Amount(take, full) = taking(<<take.token, step.spender>>)
    BY <1>3, <2>1
  <2> HIDE DEF taking
  <2>3. ~(taking(<<take.token, step.spender>>) <= a[<<take.token, step.spender>>])
    BY <1>5, <2>1, <2>2
  <2> QED
    BY <2>2, <2>3
<1> HIDE DEF taking, short
<1>7. ~short => rest \in Allowances
  BY <1>5, UnlimitedAssumption DEF Allowances
<1>8. end \in Ends
  BY <1>1, <1>7 DEF Ends
<1> HIDE DEF rest
<1>9. (end.result = "ok" <=> ~short) /\ end.result # "collided"
  BY <1>1
<1>10. end.result = "ok" <=> \A p \in Pairs : taking(p) <= a[p]
  BY <1>5, <1>6, <1>9
<1> QED
  BY <1>1, <1>8, <1>9, <1>10 DEF rest, taking

\* An approve sets its pair, or meets the guard of its token.
LEMMA ApproveOutcome ==
    ASSUME NEW step \in Transactions, step.op = "approve", NEW a \in Allowances
    PROVE  LET end == Approved(a, step)
               p == <<step.token, step.spender>>
           IN  /\ end \in Ends /\ end.result \in {"ok", "collided"}
               /\ p \in Pairs /\ step.amount \in 0 .. (Unlimited - 1)
               /\ end.result = "ok" => end.allowed = [a EXCEPT ![p] = step.amount]
               /\ end.result = "collided" =>
                    step.token \in Guarded /\ step.amount # 0 /\ a[p] # 0
<1>1. step.token \in Tokens /\ step.spender \in Spenders /\ step.amount \in 0 .. (Unlimited - 1)
  BY DEF Transactions
<1>2. <<step.token, step.spender>> \in Pairs
  BY <1>1 DEF Pairs
<1>3. [a EXCEPT ![<<step.token, step.spender>>] = step.amount] \in Allowances
  <2>1. step.amount \in 0 .. Unlimited
    BY <1>1, UnlimitedAssumption
  <2> QED
    BY <2>1 DEF Allowances
<1> QED
  BY <1>1, <1>2, <1>3 DEF Approved, Ends

\* Every transaction is the one or the other.
LEMMA TransactType ==
    ASSUME NEW step \in Transactions, NEW a \in Allowances, NEW full \in SUBSET Tokens
    PROVE  /\ IsApproval(step) => step.op = "approve" /\ Transact(a, step, full) = Approved(a, step)
           /\ ~IsApproval(step) => step.op = "call" /\ Transact(a, step, full) = Called(a, step, full)
           /\ Transact(a, step, full) \in Ends
<1>1. step.op \in {"approve", "call"}
  BY DEF Transactions
<1> QED
  BY <1>1, CallOutcome, ApproveOutcome DEF Transact, IsApproval

-------------------------------------------------------------------------------
\* g[i] is where the first i transactions of a plan end.
Runs(g, a, plan, full) ==
    /\ g[0] = [result |-> "ok", allowed |-> a]
    /\ \A i \in 1 .. Len(plan.steps) : g[i] = Then(g[i - 1], plan.steps[i], full)

\* The end of a batch is reached transaction by transaction.
LEMMA BatchRecursion ==
    ASSUME NEW plan, plan.steps \in Seq(Transactions), NEW a \in Allowances,
           NEW full \in SUBSET Tokens
    PROVE  \E g \in [0 .. Len(plan.steps) -> Ends] :
               Runs(g, a, plan, full) /\ BatchEnd(a, plan, full) = g[Len(plan.steps)]
<1> DEFINE n == Len(plan.steps)
           base == [result |-> "ok", allowed |-> a]
           step == [p \in Ends \X (1 .. n) |-> Then(p[1], plan.steps[p[2]], full)]
           Solves(f) == f = [i \in 0 .. n |->
                              IF i = 0 THEN base ELSE Then(f[i - 1], plan.steps[i], full)]
           run == CHOOSE f : Solves(f)
<1>1. n \in Nat /\ \A i \in 1 .. n : plan.steps[i] \in Transactions
  OBVIOUS
<1>2. base \in Ends
  BY DEF Ends
<1>3. ASSUME NEW end \in Ends, NEW s \in Transactions PROVE Then(end, s, full) \in Ends
  BY TransactType DEF Then, Ends
<1>4. step \in [Ends \X (1 .. n) -> Ends]
  BY <1>1, <1>3
<1>5. PICK g \in [0 .. n -> Ends] : RangeRecursion(g, n, base, step)
  <2> HIDE DEF n, step, base
  <2> QED
    BY <1>1, <1>2, <1>4, RangeRecursionExists
<1> HIDE DEF n
<1>6. ASSUME NEW i \in 1 .. n PROVE g[i] = Then(g[i - 1], plan.steps[i], full)
  <2>1. i - 1 \in 0 .. n
    BY <1>1
  <2>2. g[i] = step[<<g[i - 1], i>>]
    BY <1>5 DEF RangeRecursion
  <2> QED
    BY <2>1, <2>2
<1>7. g[0] = base
  BY <1>5 DEF RangeRecursion
<1>8. Solves(g)
  <2>1. ASSUME NEW i \in 0 .. n
        PROVE  g[i] = IF i = 0 THEN base ELSE Then(g[i - 1], plan.steps[i], full)
    BY <1>1, <1>6, <1>7
  <2> QED
    BY <2>1
<1>9. Solves(run)
  BY ONLY <1>8 DEF run
<1>10. BatchEnd(a, plan, full) = run[n]
  BY DEF BatchEnd, n
<1> HIDE DEF run, base
<1>11. \A i \in 0 .. n : run[i] = g[i]
  <2> DEFINE Same == {i \in Nat : i <= n => run[i] = g[i]}
  <2>1. 0 \in Same
    BY <1>1, <1>7, <1>9
  <2>2. ASSUME NEW i \in Same PROVE i + 1 \in Same
    <3> SUFFICES ASSUME i + 1 <= n PROVE run[i + 1] = g[i + 1]
      OBVIOUS
    <3>1. i + 1 \in 1 .. n /\ i + 1 \in 0 .. n /\ (i + 1) - 1 = i /\ i <= n /\ i + 1 # 0
      BY <1>1
    <3>2. run[i] = g[i]
      BY <3>1
    <3>3. run[i + 1] = Then(run[(i + 1) - 1], plan.steps[i + 1], full)
      BY <1>9, <3>1
    <3>4. g[i + 1] = Then(g[(i + 1) - 1], plan.steps[i + 1], full)
      BY <1>6, <3>1
    <3> QED
      BY ONLY <3>1, <3>2, <3>3, <3>4
  <2>3. Same \in SUBSET Nat
    OBVIOUS
  <2> HIDE DEF Same
  <2>4. Same = Nat
    BY <2>1, <2>2, <2>3, InductionOverNat
  <2> QED
    BY <1>1, <2>4 DEF Same
<1>12. Runs(g, a, plan, full)
  BY <1>6, <1>7 DEF Runs, n, base
<1>13. BatchEnd(a, plan, full) = g[n]
  BY <1>1, <1>10, <1>11
<1> QED
  BY <1>12, <1>13 DEF n

-------------------------------------------------------------------------------
NeedsNoReset(plan) == \A i \in DOMAIN plan.steps : ~NeedsReset(plan.steps, i)

\* Where every approval of a guarded token follows its reset, none meets the guard.
LEMMA NeverCollides ==
    ASSUME NEW plan, plan.steps \in Seq(Transactions), NeedsNoReset(plan),
           NEW a \in Allowances, NEW full \in SUBSET Tokens,
           NEW g \in [0 .. Len(plan.steps) -> Ends], Runs(g, a, plan, full)
    PROVE  \A i \in 0 .. Len(plan.steps) : g[i].result # "collided"
<1> DEFINE n == Len(plan.steps)
           Free == {end \in Ends : end.result # "collided"}
<1>1. n \in Nat /\ \A i \in 1 .. n : plan.steps[i] \in Transactions
  OBVIOUS
<1>2. DOMAIN plan.steps = 1 .. n
  OBVIOUS
<1>3. g \in [0 .. n -> Ends] /\ g[0] = [result |-> "ok", allowed |-> a]
      /\ \A i \in 1 .. n : g[i] = Then(g[i - 1], plan.steps[i], full)
  BY DEF Runs
<1> HIDE DEF n
<1>4. g[0] \in Free
  BY <1>1, <1>3
<1>5. ASSUME NEW i \in 1 .. n, g[i - 1] \in Free PROVE g[i] \in Free
  <2> DEFINE step == plan.steps[i]
             p == <<step.token, step.spender>>
             before == g[i - 1]
  <2>1. /\ step \in Transactions /\ before \in Free /\ before.allowed \in Allowances
        /\ g[i] = Then(before, step, full)
    BY <1>1, <1>3, <1>5 DEF Ends
  <2>2. g[i] \in Ends
    <3>1. i \in 0 .. n
      BY <1>1
    <3> QED
      BY <1>3, <3>1
  <2>3. CASE before.result # "ok"
    BY <2>1, <2>3 DEF Then
  <2>4. CASE before.result = "ok" /\ ~IsApproval(step)
    <3>1. g[i] = Called(before.allowed, step, full) /\ step.op = "call"
      BY <2>1, <2>4, TransactType DEF Then
    <3>2. g[i].result # "collided"
      BY <2>1, <3>1, CallOutcome
    <3> QED
      BY <2>2, <3>2
  <2>5. CASE before.result = "ok" /\ IsApproval(step)
    <3>1. g[i] = Approved(before.allowed, step) /\ step.op = "approve"
      BY <2>1, <2>5, TransactType DEF Then
    <3> SUFFICES ASSUME g[i].result = "collided" PROVE FALSE
      BY <2>2
    <3>2. step.token \in Guarded /\ step.amount # 0 /\ before.allowed[p] # 0
      BY <2>1, <3>1, ApproveOutcome
    <3>3. AlreadyReset(plan.steps, i)
      BY <1>2, <2>5, <3>2
         DEF NeedsNoReset, NeedsReset, IsNonzeroApproval, RequiresAllowanceReset
    <3> DEFINE reset == plan.steps[i - 1]
    <3>4. /\ i > 1 /\ IsApproval(reset) /\ reset.token = step.token
          /\ reset.spender = step.spender /\ reset.amount = 0
      BY <3>3 DEF AlreadyReset
    <3>5. i - 1 \in 1 .. n /\ (i - 1) - 1 \in 0 .. n
      BY <1>1, <3>4
    <3>6. /\ reset \in Transactions /\ before = Then(g[(i - 1) - 1], reset, full)
          /\ g[(i - 1) - 1] \in Ends
      BY <1>1, <1>3, <3>5
    <3> DEFINE first == g[(i - 1) - 1]
    <3> HIDE DEF reset, before, first, step
    <3>7. first.result = "ok" /\ before = Transact(first.allowed, reset, full)
      BY <2>5, <3>6 DEF Then, first
    <3>8. first.allowed \in Allowances
      BY <3>6 DEF Ends, first
    <3>9. before = Approved(first.allowed, reset) /\ reset.op = "approve"
      BY <3>4, <3>6, <3>7, <3>8, TransactType
    <3>10. /\ before.allowed = [first.allowed EXCEPT ![<<reset.token, reset.spender>>] = reset.amount]
           /\ <<reset.token, reset.spender>> \in Pairs
      BY <2>5, <3>6, <3>8, <3>9, ApproveOutcome
    <3>11. before.allowed[p] = 0
      BY <3>4, <3>8, <3>10 DEF Allowances
    <3> QED
      BY <3>2, <3>11
  <2> QED
    BY <2>3, <2>4, <2>5
<1> HIDE DEF Free
<1>6. \A i \in 0 .. n : g[i] \in Free
  BY <1>1, <1>4, <1>5, RangeRecursionType
<1> QED
  BY <1>6 DEF Free, n

\* A plan without approvals only uses allowances up, and an unlimited one not even that.
LEMMA CallsKeepUnlimited ==
    ASSUME NEW plan, plan.steps \in Seq(Transactions),
           \A i \in DOMAIN plan.steps : ~IsApproval(plan.steps[i]),
           NEW a \in Allowances, NEW full \in SUBSET Tokens, NEW p \in Pairs,
           a[p] = Unlimited
    PROVE  BatchEnd(a, plan, full).allowed[p] = Unlimited
<1> DEFINE n == Len(plan.steps)
           Kept == {end \in Ends : end.allowed[p] = Unlimited}
<1>1. PICK g \in [0 .. n -> Ends] : Runs(g, a, plan, full) /\ BatchEnd(a, plan, full) = g[n]
  BY BatchRecursion
<1>2. /\ n \in Nat
      /\ \A i \in 1 .. n : plan.steps[i] \in Transactions /\ ~IsApproval(plan.steps[i])
  OBVIOUS
<1>3. g[0] = [result |-> "ok", allowed |-> a]
      /\ \A i \in 1 .. n : g[i] = Then(g[i - 1], plan.steps[i], full)
  BY <1>1 DEF Runs
<1> HIDE DEF n
<1>4. g[0] \in Kept
  BY <1>2, <1>3
<1>5. ASSUME NEW i \in 1 .. n, g[i - 1] \in Kept PROVE g[i] \in Kept
  <2> DEFINE before == g[i - 1]
             step == plan.steps[i]
  <2>1. /\ g[i] \in Ends /\ before \in Kept /\ before.allowed \in Allowances
        /\ step \in Transactions /\ ~IsApproval(step) /\ g[i] = Then(before, step, full)
    BY <1>2, <1>3, <1>5 DEF Ends
  <2> HIDE DEF before, step
  <2>2. CASE before.result # "ok"
    BY <2>1, <2>2 DEF Then
  <2>3. CASE before.result = "ok"
    <3>1. g[i] = Called(before.allowed, step, full) /\ step.op = "call"
      BY <2>1, <2>3, TransactType DEF Then
    <3>2. CASE g[i].result = "ok"
      <4>1. g[i].allowed = [q \in Pairs |->
              IF before.allowed[q] = Unlimited THEN Unlimited
              ELSE before.allowed[q] - Used(TakesOf(step, q), full)]
        <5> DEFINE end == Called(before.allowed, step, full)
        <5>1. end.result = "ok" =>
                end.allowed = [q \in Pairs |->
                    IF before.allowed[q] = Unlimited THEN Unlimited
                    ELSE before.allowed[q] - Used(TakesOf(step, q), full)]
          BY <2>1, <3>1, CallOutcome
        <5> QED
          BY ONLY <3>1, <3>2, <5>1
      <4> QED
        BY <2>1, <4>1
    <3>3. CASE g[i].result # "ok"
      <4>1. Called(before.allowed, step, full).result # "ok"
              => Called(before.allowed, step, full).allowed = before.allowed
        BY DEF Called
      <4>2. g[i].allowed = before.allowed
        BY ONLY <3>1, <3>3, <4>1
      <4> QED
        BY <2>1, <4>2
    <3> QED
      BY <3>2, <3>3
  <2> QED
    BY <2>2, <2>3
<1> HIDE DEF Kept
<1>6. \A i \in 0 .. n : g[i] \in Kept
  BY <1>2, <1>4, <1>5, RangeRecursionType
<1> QED
  BY <1>1, <1>2, <1>6 DEF Kept

-------------------------------------------------------------------------------
\* Where three runs of the same transactions are: all have succeeded so far, the
\* run that takes the most leaves the least, and of a pair the plan has approved
\* the run at hand leaves no more than the one that takes the least.
Between(most, end, least, approved) ==
    /\ most.result = "ok" /\ end.result = "ok" /\ least.result = "ok"
    /\ \A p \in Pairs :
          /\ most.allowed[p] <= end.allowed[p]
          /\ most.allowed[p] <= least.allowed[p] /\ least.allowed[p] < Unlimited
    /\ \A p \in approved : end.allowed[p] <= least.allowed[p]

PairOf(step) == IF IsApproval(step) THEN {<<step.token, step.spender>>} ELSE {}

\* A transaction keeps the run at hand between the other two.
LEMMA BetweenStep ==
    ASSUME NEW step \in Transactions, NEW full \in SUBSET Tokens,
           NEW most \in Ends, NEW end \in Ends, NEW least \in Ends,
           NEW approved \in SUBSET Pairs, Between(most, end, least, approved),
           Then(most, step, Tokens).result = "ok",
           Then(end, step, full).result # "collided",
           Then(least, step, {}).result # "collided"
    PROVE  /\ Between(Then(most, step, Tokens), Then(end, step, full), Then(least, step, {}),
                      approved \cup PairOf(step))
           /\ PairOf(step) \in SUBSET Pairs
<1> DEFINE m == Then(most, step, Tokens)
           e == Then(end, step, full)
           l == Then(least, step, {})
<1>0. Tokens \in SUBSET Tokens /\ {} \in SUBSET Tokens
  OBVIOUS
<1>1. /\ most.allowed \in Allowances /\ end.allowed \in Allowances /\ least.allowed \in Allowances
      /\ most.result = "ok" /\ end.result = "ok" /\ least.result = "ok"
  BY DEF Ends, Between
<1>2. /\ m = Transact(most.allowed, step, Tokens) /\ e = Transact(end.allowed, step, full)
      /\ l = Transact(least.allowed, step, {})
  BY <1>1 DEF Then
<1>3. \A p \in Pairs :
        /\ most.allowed[p] \in 0 .. Unlimited /\ end.allowed[p] \in 0 .. Unlimited
        /\ least.allowed[p] \in 0 .. Unlimited
        /\ most.allowed[p] <= end.allowed[p] /\ most.allowed[p] <= least.allowed[p]
        /\ least.allowed[p] < Unlimited
  BY <1>1 DEF Allowances, Between
<1>4. m.result = "ok" /\ e.result # "collided" /\ l.result # "collided"
  OBVIOUS
<1> HIDE DEF m, e, l
<1>5. CASE IsApproval(step)
  <2> DEFINE q == <<step.token, step.spender>>
  <2>1. step.op = "approve" /\ m = Approved(most.allowed, step)
        /\ e = Approved(end.allowed, step) /\ l = Approved(least.allowed, step)
    BY <1>0, <1>1, <1>2, <1>5, TransactType
  <2>2. \A a \in Allowances :
          /\ Approved(a, step).result \in {"ok", "collided"}
          /\ q \in Pairs /\ step.amount \in 0 .. (Unlimited - 1)
          /\ Approved(a, step).result = "ok" =>
                Approved(a, step).allowed = [a EXCEPT ![q] = step.amount]
    BY <2>1, ApproveOutcome
  <2>3. /\ m.result = "ok" /\ e.result = "ok" /\ l.result = "ok"
        /\ m.allowed = [most.allowed EXCEPT ![q] = step.amount]
        /\ e.allowed = [end.allowed EXCEPT ![q] = step.amount]
        /\ l.allowed = [least.allowed EXCEPT ![q] = step.amount]
        /\ q \in Pairs /\ step.amount \in 0 .. (Unlimited - 1)
    BY <1>1, <1>4, <2>1, <2>2
  <2>4. DOMAIN most.allowed = Pairs /\ DOMAIN end.allowed = Pairs /\ DOMAIN least.allowed = Pairs
    BY <1>1 DEF Allowances
  <2>5. PairOf(step) = {q}
    BY <1>5 DEF PairOf
  <2> HIDE DEF q
  <2>6. /\ m.allowed[q] = step.amount /\ e.allowed[q] = step.amount /\ l.allowed[q] = step.amount
        /\ \A p \in Pairs \ {q} :
              /\ m.allowed[p] = most.allowed[p] /\ e.allowed[p] = end.allowed[p]
              /\ l.allowed[p] = least.allowed[p]
    BY <2>3, <2>4
  <2>7. step.amount \in Nat /\ step.amount < Unlimited
    BY <2>3, UnlimitedAssumption
  <2>8. ASSUME NEW p \in Pairs
        PROVE  /\ m.allowed[p] <= e.allowed[p]
               /\ m.allowed[p] <= l.allowed[p] /\ l.allowed[p] < Unlimited
    <3>1. CASE p = q
      BY <2>6, <2>7, <3>1
    <3>2. CASE p # q
      BY <1>3, <2>6, <3>2
    <3> QED
      BY <3>1, <3>2
  <2>9. ASSUME NEW p \in approved \cup {q} PROVE e.allowed[p] <= l.allowed[p]
    <3>1. CASE p = q
      BY <2>6, <2>7, <3>1
    <3>2. CASE p # q
      <4>1. p \in approved /\ p \in Pairs /\ end.allowed[p] <= least.allowed[p]
        BY <3>2, <2>9 DEF Between
      <4> QED
        BY <2>6, <3>2, <4>1
    <3> QED
      BY <3>1, <3>2
  <2>10. Between(m, e, l, approved \cup {q})
    BY <2>3, <2>8, <2>9 DEF Between
  <2> QED
    BY <2>3, <2>5, <2>10 DEF m, e, l
<1>6. CASE ~IsApproval(step)
  <2>1. step.op = "call" /\ m = Called(most.allowed, step, Tokens)
        /\ e = Called(end.allowed, step, full) /\ l = Called(least.allowed, step, {})
    BY <1>0, <1>1, <1>2, <1>6, TransactType
  <2> DEFINE taking(p, f) == Used(TakesOf(step, p), f)
  <2>2. \A a \in Allowances, f \in SUBSET Tokens :
          /\ Called(a, step, f).result = "ok" <=> \A p \in Pairs : taking(p, f) <= a[p]
          /\ Called(a, step, f).result = "ok" =>
                Called(a, step, f).allowed =
                  [p \in Pairs |-> IF a[p] = Unlimited THEN Unlimited ELSE a[p] - taking(p, f)]
    BY <2>1, CallOutcome
  <2>3. \A p \in Pairs :
          /\ taking(p, full) \in Nat /\ taking(p, {}) \in Nat /\ taking(p, Tokens) \in Nat
          /\ taking(p, {}) <= taking(p, full) /\ taking(p, full) <= taking(p, Tokens)
    BY <1>0, <2>1, TakingBounds
  <2> HIDE DEF taking
  <2>4. \A p \in Pairs : taking(p, Tokens) <= most.allowed[p]
    BY <1>0, <1>1, <1>4, <2>1, <2>2
  <2>5. \A p \in Pairs : taking(p, full) <= end.allowed[p] /\ taking(p, {}) <= least.allowed[p]
    BY <1>3, <2>3, <2>4
  <2>6. m.result = "ok" /\ e.result = "ok" /\ l.result = "ok"
    BY <1>0, <1>1, <1>4, <2>1, <2>2, <2>5
  <2>12. \A a \in Allowances, f \in SUBSET Tokens :
           Called(a, step, f).result = "ok" =>
             \A p \in Pairs : Called(a, step, f).allowed[p] =
                IF a[p] = Unlimited THEN Unlimited ELSE a[p] - taking(p, f)
    BY <2>2
  <2>13. \A p \in Pairs :
           m.allowed[p] = IF most.allowed[p] = Unlimited THEN Unlimited
                          ELSE most.allowed[p] - taking(p, Tokens)
    BY ONLY <1>0, <1>1, <2>1, <2>12, <2>6
  <2>14. \A p \in Pairs :
           l.allowed[p] = IF least.allowed[p] = Unlimited THEN Unlimited
                          ELSE least.allowed[p] - taking(p, {})
    BY ONLY <1>0, <1>1, <2>1, <2>12, <2>6
  <2>15. \A p \in Pairs :
           e.allowed[p] = IF end.allowed[p] = Unlimited THEN Unlimited
                          ELSE end.allowed[p] - taking(p, full)
    BY ONLY <1>1, <2>1, <2>12, <2>6, full \in SUBSET Tokens
  <2>7. ASSUME NEW p \in Pairs
        PROVE  /\ m.allowed[p] = most.allowed[p] - taking(p, Tokens)
               /\ l.allowed[p] = least.allowed[p] - taking(p, {})
               /\ e.allowed[p] = IF end.allowed[p] = Unlimited THEN Unlimited
                                 ELSE end.allowed[p] - taking(p, full)
    <3>1. most.allowed[p] # Unlimited /\ least.allowed[p] # Unlimited
      BY <1>3, UnlimitedAssumption
    <3> QED
      BY <2>13, <2>14, <2>15, <3>1
  <2>8. ASSUME NEW p \in Pairs
        PROVE  /\ m.allowed[p] <= e.allowed[p]
               /\ m.allowed[p] <= l.allowed[p] /\ l.allowed[p] < Unlimited
    BY <1>3, <2>3, <2>4, <2>7, UnlimitedAssumption
  <2>9. ASSUME NEW p \in approved PROVE e.allowed[p] <= l.allowed[p]
    <3>1. p \in Pairs /\ end.allowed[p] <= least.allowed[p]
      BY DEF Between
    <3> QED
      BY <1>3, <2>3, <2>7, <3>1, UnlimitedAssumption
  <2>10. Between(m, e, l, approved)
    BY <2>6, <2>8, <2>9 DEF Between
  <2>11. PairOf(step) = {}
    BY <1>6 DEF PairOf
  <2> QED
    BY <2>10, <2>11 DEF m, e, l
<1> QED
  BY <1>5, <1>6

\* An atomic plan that covers and cleans up what it approves on a sender without
\* allowances does so on any sender, whatever its calls take.
THEOREM SelfContainedAnywhere ==
    ASSUME NEW plan, plan.steps \in Seq(Transactions), plan.atomic,
           NeedsNoReset(plan), SelfContained(plan), Settlers(plan) # {},
           NEW a \in Allowances, NEW full \in SUBSET Tokens
    PROVE  /\ BatchEnd(a, plan, full).result = "ok"
           /\ \A p \in Residue(BatchEnd(a, plan, full).allowed, plan) : p[2] \in Uncleaned
<1> DEFINE n == Len(plan.steps)
<1>0. Nothing \in Allowances /\ Tokens \in SUBSET Tokens /\ {} \in SUBSET Tokens
  BY UnlimitedAssumption DEF Nothing, Allowances
<1>1. PICK m \in [0 .. n -> Ends] :
        Runs(m, Nothing, plan, Tokens) /\ BatchEnd(Nothing, plan, Tokens) = m[n]
  BY <1>0, BatchRecursion
<1>2. PICK e \in [0 .. n -> Ends] : Runs(e, a, plan, full) /\ BatchEnd(a, plan, full) = e[n]
  BY BatchRecursion
<1>3. PICK l \in [0 .. n -> Ends] :
        Runs(l, Nothing, plan, {}) /\ BatchEnd(Nothing, plan, {}) = l[n]
  BY <1>0, BatchRecursion
<1>4. /\ n \in Nat /\ DOMAIN plan.steps = 1 .. n
      /\ \A i \in 1 .. n : plan.steps[i] \in Transactions
  OBVIOUS
<1>5. \A i \in 0 .. n : e[i].result # "collided" /\ l[i].result # "collided"
  BY <1>0, <1>2, <1>3, NeverCollides
<1>6. /\ m[0] = [result |-> "ok", allowed |-> Nothing]
      /\ e[0] = [result |-> "ok", allowed |-> a]
      /\ l[0] = [result |-> "ok", allowed |-> Nothing]
      /\ \A i \in 1 .. n : /\ m[i] = Then(m[i - 1], plan.steps[i], Tokens)
                          /\ e[i] = Then(e[i - 1], plan.steps[i], full)
                          /\ l[i] = Then(l[i - 1], plan.steps[i], {})
  BY <1>1, <1>2, <1>3 DEF Runs
<1>7. m[n].result = "ok" /\ \A p \in Residue(l[n].allowed, plan) : p[2] \in Uncleaned
  BY <1>1, <1>3 DEF SelfContained
<1> HIDE DEF n
\* A run that ends well has been well at every transaction.
<1>8. \A i \in 0 .. n : m[i].result = "ok"
  <2> DEFINE Well == {k \in Nat : k <= n => m[n - k].result = "ok"}
  <2>1. 0 \in Well
    BY <1>4, <1>7
  <2>2. ASSUME NEW k \in Well PROVE k + 1 \in Well
    <3> SUFFICES ASSUME k + 1 <= n PROVE m[n - (k + 1)].result = "ok"
      OBVIOUS
    <3>1. k <= n /\ n - k \in 1 .. n /\ (n - k) - 1 = n - (k + 1)
      BY <1>4
    <3>2. m[n - k].result = "ok"
      BY <3>1
    <3>3. m[n - k] = Then(m[n - (k + 1)], plan.steps[n - k], Tokens)
      BY <1>6, <3>1
    <3> QED
      BY <3>2, <3>3 DEF Then
  <2>3. Well \in SUBSET Nat
    OBVIOUS
  <2> HIDE DEF Well
  <2>4. Well = Nat
    BY <2>1, <2>2, <2>3, InductionOverNat
  <2> TAKE i \in 0 .. n
  <2>5. n - i \in Well /\ n - i <= n /\ n - (n - i) = i
    BY <1>4, <2>4
  <2> QED
    BY <2>5 DEF Well
<1> DEFINE approved(i) == UNION {PairOf(plan.steps[j]) : j \in 1 .. i}
           Holds == {i \in Nat : i <= n =>
                        Between(m[i], e[i], l[i], approved(i)) /\ approved(i) \in SUBSET Pairs}
<1>9. 0 \in Holds
  <2>1. approved(0) = {}
    OBVIOUS
  <2>2. \A p \in Pairs : Nothing[p] = 0 /\ a[p] \in 0 .. Unlimited
    BY DEF Nothing, Allowances
  <2>3. Between(m[0], e[0], l[0], {})
    <3>1. /\ m[0].result = "ok" /\ e[0].result = "ok" /\ l[0].result = "ok"
          /\ m[0].allowed = Nothing /\ e[0].allowed = a /\ l[0].allowed = Nothing
      BY <1>6
    <3>2. ASSUME NEW p \in Pairs
          PROVE  /\ m[0].allowed[p] <= e[0].allowed[p]
                 /\ m[0].allowed[p] <= l[0].allowed[p] /\ l[0].allowed[p] < Unlimited
      <4>1. 0 < Unlimited
        BY UnlimitedAssumption, AmountsAssumption
      <4> QED
        BY <2>2, <3>1, <4>1
    <3> QED
      BY <3>1, <3>2 DEF Between
  <2> QED
    BY <2>1, <2>3
<1>10. ASSUME NEW i \in Holds PROVE i + 1 \in Holds
  <2> SUFFICES ASSUME i + 1 <= n
               PROVE  /\ Between(m[i + 1], e[i + 1], l[i + 1], approved(i + 1))
                      /\ approved(i + 1) \in SUBSET Pairs
    OBVIOUS
  <2>1. /\ i \in Nat /\ i <= n /\ i \in 0 .. n /\ i + 1 \in 1 .. n /\ i + 1 \in 0 .. n
        /\ (i + 1) - 1 = i
    BY <1>4
  <2>2. Between(m[i], e[i], l[i], approved(i)) /\ approved(i) \in SUBSET Pairs
    BY <2>1
  <2> DEFINE step == plan.steps[i + 1]
  <2>3. /\ m[i + 1] = Then(m[i], step, Tokens) /\ e[i + 1] = Then(e[i], step, full)
        /\ l[i + 1] = Then(l[i], step, {}) /\ step \in Transactions
    BY <1>4, <1>6, <2>1
  <2>4. 1 .. (i + 1) = (1 .. i) \cup {i + 1}
    BY <2>1
  <2>5. approved(i + 1) = approved(i) \cup PairOf(step)
    BY <2>4
  <2>6. m[i] \in Ends /\ e[i] \in Ends /\ l[i] \in Ends
    BY <1>1, <1>2, <1>3, <2>1 DEF n
  <2>7. /\ m[i + 1].result = "ok" /\ e[i + 1].result # "collided" /\ l[i + 1].result # "collided"
    BY <1>5, <1>8, <2>1
  <2> HIDE DEF approved, step
  <2>8. /\ Between(Then(m[i], step, Tokens), Then(e[i], step, full), Then(l[i], step, {}),
                   approved(i) \cup PairOf(step))
        /\ PairOf(step) \in SUBSET Pairs
    <3>1. /\ Then(m[i], step, Tokens).result = "ok"
          /\ Then(e[i], step, full).result # "collided"
          /\ Then(l[i], step, {}).result # "collided"
      BY <2>3, <2>7
    <3> QED
      BY <2>2, <2>3, <2>6, <3>1, BetweenStep, Zenon
  <2> QED
    BY <2>2, <2>3, <2>5, <2>8
<1>11. Holds \in SUBSET Nat
  OBVIOUS
<1> HIDE DEF Holds
<1>12. n \in Holds
  BY <1>4, <1>9, <1>10, <1>11, InductionOverNat
<1>13. Between(m[n], e[n], l[n], approved(n)) /\ approved(n) \in SUBSET Pairs
  BY <1>4, <1>12 DEF Holds
<1>14. ASSUME NEW p \in Residue(e[n].allowed, plan) PROVE p[2] \in Uncleaned
  <2>1. PICK i \in 1 .. n : /\ IsNonzeroApproval(plan.steps[i])
                            /\ p = <<plan.steps[i].token, plan.steps[i].spender>>
    BY <1>4, <1>14 DEF Residue
  <2>2. p \in approved(n)
    BY <2>1 DEF IsNonzeroApproval, PairOf
  <2>3. p \in Pairs /\ e[n].allowed[p] # 0
    BY <1>14 DEF Residue
  <2>4. e[n].allowed[p] <= l[n].allowed[p]
    BY <1>13, <2>2 DEF Between
  <2>5. e[n].allowed \in Allowances /\ l[n].allowed \in Allowances
    <3>1. n \in 0 .. n
      BY <1>4
    <3> QED
      BY <1>2, <1>3, <3>1 DEF n, Ends
  <2>6. l[n].allowed[p] # 0
    BY <2>3, <2>4, <2>5 DEF Allowances
  <2>7. p \in Residue(l[n].allowed, plan)
    BY <1>4, <2>1, <2>3, <2>6 DEF Residue
  <2> QED
    BY <1>7, <2>7
<1> QED
  BY <1>2, <1>13, <1>14 DEF Between, n

-------------------------------------------------------------------------------
\* What the proofs need of a plan the wallet carries out.
GoodPlan(plan) ==
    /\ plan.steps \in Seq(Transactions) /\ plan.steps # <<>>
    /\ plan.atomic \in BOOLEAN
    /\ NeedsNoReset(plan) /\ SelfContained(plan) /\ RevokesNothing(plan)

\* A reset is a transaction.
LEMMA ResetIsTransaction ==
    \A step \in Transactions : IsNonzeroApproval(step) => Reset(step) \in Transactions
<1>1. 0 \in 0 .. (Unlimited - 1)
  BY UnlimitedAssumption, AmountsAssumption
<1> QED
  BY <1>1 DEF Transactions, Kinds, IsNonzeroApproval, IsApproval, Reset, Approve

\* What is assumed of the plans of the other tools makes them good.
LEMMA ToolPlansGood ==
    ASSUME NEW c \in Calls, NEW plan \in ActionPlans[c]
    PROVE  GoodPlan(plan)
<1>1. /\ plan.steps \in Seq(Transactions) /\ plan.steps # <<>> /\ plan.atomic \in BOOLEAN
      /\ plan = ExecutionPlanFromSteps(plan.steps, plan.atomic)
      /\ SelfContained(plan) /\ RevokesNothing(plan)
  BY ActionPlansAssumption
<1>2. plan.steps = WithAllowanceResets(plan.steps)
  BY <1>1 DEF ExecutionPlanFromSteps
<1>3. NeedsNoReset(plan)
  BY <1>1, <1>2, ResetIsTransaction, ResetsSuffice DEF NeedsNoReset
<1> QED
  BY <1>1, <1>3 DEF GoodPlan

\* The transactions of a plan of one call: with or without a reset, and a cleanup.
Zero(t, name) == Approve("approval", t, name, 0)
Full(t, name) == Approve("approval", t, name, Bound)
Clean(t, name) == Approve("allowance_cleanup", t, name, 0)
Call(name, take) == Use(name, {take})

Unapproved(name, take) == <<Call(name, take)>>

Approving(t, name, take) ==
    {<<Full(t, name), Call(name, take)>>, <<Zero(t, name), Full(t, name), Call(name, take)>>}

Cleaning(t, name, take) ==
    {<<Full(t, name), Call(name, take), Clean(t, name)>>,
     <<Zero(t, name), Full(t, name), Call(name, take), Clean(t, name)>>}

\* What a call of a quote may take.
TakesOfQuote(t) == {Exactly(t, Bound), UpTo(t, Bound)}

\* The plan of a quote approves all its call may take and cleans up, or its call takes
\* exactly what it approves, or it is a bridge of Across; or it approves nothing.
CandidateSteps(t, name, take, steps, atomic) ==
    \/ steps = Unapproved(name, take) /\ ~atomic
    \/ /\ t # Native /\ atomic
       /\ \/ steps \in Cleaning(t, name, take)
          \/ steps \in Approving(t, name, take) /\ (take = Exactly(t, Bound) \/ name = "across")

\* The forms of the steps a candidate's plan is made from.
LEMMA CandidateForm ==
    ASSUME NEW intent, NEW source \in Sources, NEW al, NEW candidate \in Quotes(source, intent, al),
           PrepareCandidate(intent, candidate) # NoPlan
    PROVE  \E name \in {"router"} \cup (Sources \ {"ekubo"}), take \in TakesOfQuote(intent.token),
              atomic \in BOOLEAN : \E steps :
             /\ PrepareCandidate(intent, candidate) = ExecutionPlanFromSteps(steps, atomic)
             /\ CandidateSteps(intent.token, name, take, steps, atomic)
<1> DEFINE t == intent.token
           take == Taken(intent, candidate.source)
           ekubo == candidate.source = "ekubo"
           approvals == IF ekubo THEN RouterApproval(intent)
                        ELSE BuildApprovalTransactions(intent, candidate)
           spender == IF ekubo THEN IF t = Native THEN NoValue ELSE "router"
                      ELSE candidate.approvalSpender
           cleanups == CandidateCleanups(intent, candidate.source, spender, approvals)
           name == IF ekubo THEN "router" ELSE candidate.source
           steps == approvals \o <<Call(name, take)>> \o cleanups
           atomic == approvals # <<>> \/ cleanups # <<>>
<1>1. PrepareCandidate(intent, candidate) = ExecutionPlanFromSteps(steps, atomic)
  BY DEF PrepareCandidate, PlanOf, Call
<1>2. take \in TakesOfQuote(t) /\ atomic \in BOOLEAN
  BY DEF Taken, TakesOfQuote
<1>3. candidate.source = source
  BY DEF Quotes, QuoteEkubo, QuoteZeroX, QuoteAcross, QuoteLayerZero, QuoteLiFi, Candidate, Sources
<1>4. name \in {"router"} \cup (Sources \ {"ekubo"})
  BY <1>3
<1>5. \/ approvals = <<>>
      \/ /\ t # Native /\ spender = name /\ approvals \in {<<Full(t, name)>>, <<Zero(t, name), Full(t, name)>>}
  <2>1. CASE source = "ekubo"
    BY <1>3, <2>1 DEF RouterApproval, Full
  <2>2. CASE source # "ekubo"
    <3>1. approvals = BuildApprovalTransactions(intent, candidate) /\ name = source
      BY <1>3, <2>2
    <3>2. candidate.approvalSpender \in {NoValue, source}
      BY <2>2 DEF Quotes, QuoteZeroX, QuoteAcross, QuoteLayerZero, QuoteLiFi, Candidate, Sources
    <3>3. (IF candidate.maximumAmountIn # NoValue THEN candidate.maximumAmountIn
           ELSE candidate.amountIn) = Bound
      BY <2>2, AmountsAssumption, PlanNamesAssumption
         DEF Quotes, QuoteZeroX, QuoteAcross, QuoteLayerZero, QuoteLiFi, Candidate, Sources, Input
    <3> HIDE DEF approvals, name
    <3>4. CASE t = Native \/ ~candidate.approvalRequired \/ candidate.approvalSpender = NoValue
      BY <3>1, <3>4 DEF BuildApprovalTransactions
    <3>5. CASE ~(t = Native \/ ~candidate.approvalRequired \/ candidate.approvalSpender = NoValue)
      <4>1. /\ t # Native /\ candidate.approvalSpender = source
            /\ approvals = (IF candidate.approvalActual \notin {NoValue, 0}
                            THEN <<Zero(t, source)>> ELSE <<>>) \o <<Full(t, source)>>
        BY <3>1, <3>2, <3>3, <3>5 DEF BuildApprovalTransactions, Zero, Full
      <4>2. approvals \in {<<Full(t, source)>>, <<Zero(t, source), Full(t, source)>>}
        <5>1. <<>> \o <<Full(t, source)>> = <<Full(t, source)>>
          OBVIOUS
        <5>2. <<Zero(t, source)>> \o <<Full(t, source)>> = <<Zero(t, source), Full(t, source)>>
          BY JoinedTuples
        <5> QED
          BY <4>1, <5>1, <5>2
      <4>3. spender = source
        BY <1>3, <2>2, <4>1
      <4> QED
        BY <3>1, <4>1, <4>2, <4>3
    <3> QED
      BY <3>4, <3>5
  <2> QED
    BY <2>1, <2>2
<1>6. cleanups = IF /\ ExactOutput(intent) /\ candidate.source # "across" /\ t # Native
                    /\ spender # NoValue /\ approvals # <<>>
                 THEN <<Clean(t, spender)>> ELSE <<>>
  BY DEF CandidateCleanups, Clean
<1> HIDE DEF approvals, cleanups
<1>7. CASE approvals = <<>>
  <2>1. cleanups = <<>>
    BY <1>6, <1>7
  <2>2. steps = Unapproved(name, take) /\ ~atomic
    BY <1>7, <2>1 DEF Unapproved
  <2>3. CandidateSteps(t, name, take, steps, atomic)
    BY <2>2 DEF CandidateSteps
  <2> HIDE DEF t, name, take, steps, atomic
  <2> QED
    BY <1>1, <1>2, <1>4, <2>3 DEF t
<1>8. CASE approvals # <<>>
  <2>1. /\ t # Native /\ spender = name /\ atomic
        /\ approvals \in {<<Full(t, name)>>, <<Zero(t, name), Full(t, name)>>}
    BY <1>5, <1>8
  <2>2. CASE cleanups # <<>>
    <3>1. cleanups = <<Clean(t, name)>>
      BY <1>6, <2>1, <2>2
    <3>2. CandidateSteps(t, name, take, steps, atomic)
      <4> DEFINE a == Full(t, name)
                 z == Zero(t, name)
                 u == Call(name, take)
                 k == Clean(t, name)
      <4>1. steps \in {<<a, u, k>>, <<z, a, u, k>>}
        <5> HIDE DEF a, z, u, k
        <5>1. <<a>> \o <<u>> \o <<k>> = <<a, u, k>>
          <6>1. <<a>> \o <<u>> = <<a, u>>
            BY JoinedTuples
          <6>2. <<a, u>> \o <<k>> = <<a, u, k>>
            BY JoinedTuples
          <6> QED
            BY ONLY <6>1, <6>2
        <5>2. <<z, a>> \o <<u>> \o <<k>> = <<z, a, u, k>>
          <6>1. <<z, a>> \o <<u>> = <<z, a, u>>
            BY JoinedTuples
          <6>2. <<z, a, u>> \o <<k>> = <<z, a, u, k>>
            BY JoinedTuples
          <6> QED
            BY ONLY <6>1, <6>2
        <5> QED
          BY <2>1, <3>1, <5>1, <5>2 DEF a, z, u, k
      <4> HIDE DEF steps, atomic
      <4> QED
        BY <2>1, <4>1 DEF CandidateSteps, Cleaning
    <3> HIDE DEF t, name, take, steps, atomic
    <3> QED
      BY <1>1, <1>2, <1>4, <3>2 DEF t
  <2>3. CASE cleanups = <<>>
    <3>1. take = Exactly(t, Bound) \/ name = "across"
      <4>1. spender # NoValue
        BY <1>4, <2>1, NamesAssumption
      <4>2. ~ExactOutput(intent) \/ candidate.source = "across"
        BY <1>6, <1>8, <2>1, <2>3, <4>1
      <4> QED
        BY <4>2 DEF Taken
    <3>2. CandidateSteps(t, name, take, steps, atomic)
      <4> DEFINE a == Full(t, name)
                 z == Zero(t, name)
                 u == Call(name, take)
      <4>1. steps \in {<<a, u>>, <<z, a, u>>}
        <5> HIDE DEF a, z, u
        <5>1. <<a>> \o <<u>> \o <<>> = <<a, u>>
          <6>1. <<a>> \o <<u>> = <<a, u>>
            BY JoinedTuples
          <6>2. <<a, u>> \o <<>> = <<a, u>>
            BY JoinedTuples
          <6> QED
            BY ONLY <6>1, <6>2
        <5>2. <<z, a>> \o <<u>> \o <<>> = <<z, a, u>>
          <6>1. <<z, a>> \o <<u>> = <<z, a, u>>
            BY JoinedTuples
          <6>2. <<z, a, u>> \o <<>> = <<z, a, u>>
            BY JoinedTuples
          <6> QED
            BY ONLY <6>1, <6>2
        <5> QED
          BY <2>1, <2>3, <5>1, <5>2 DEF a, z, u
      <4> HIDE DEF steps, atomic
      <4> QED
        BY <2>1, <3>1, <4>1 DEF CandidateSteps, Approving
    <3> HIDE DEF t, name, take, steps, atomic
    <3> QED
      BY <1>1, <1>2, <1>4, <3>2 DEF t
  <2> QED
    BY <2>2, <2>3
<1> QED
  BY <1>7, <1>8

\* The steps of these forms are transactions.
LEMMA StepsAreTransactions ==
    ASSUME NEW t \in Tokens \cup {Native}, NEW name \in Spenders, NEW take \in TakesOfQuote(t)
    PROVE  /\ Call(name, take) \in Transactions
           /\ t \in Tokens => /\ Zero(t, name) \in Transactions /\ Full(t, name) \in Transactions
                             /\ Clean(t, name) \in Transactions
<1>1. /\ 0 \in 0 .. (Unlimited - 1) /\ Bound \in 0 .. (Unlimited - 1)
      /\ Bound \in Nat /\ 0 <= Bound
  BY UnlimitedAssumption, AmountsAssumption
<1>2. take \in Takes /\ take.least <= take.most
  BY <1>1 DEF TakesOfQuote, Exactly, UpTo, Takes
<1>3. Call(name, take) \in Transactions
  BY <1>2 DEF Call, Use, Transactions, Kinds
<1>4. ASSUME t \in Tokens
      PROVE  /\ Zero(t, name) \in Transactions /\ Full(t, name) \in Transactions
             /\ Clean(t, name) \in Transactions
  BY <1>1, <1>4 DEF Zero, Full, Clean, Approve, Transactions, Kinds
<1> QED
  BY <1>3, <1>4

\* withAllowanceResets keeps the form of a quote's plan: it at most puts the reset first.
LEMMA FormKept ==
    ASSUME NEW t \in Tokens \cup {Native}, NEW name \in Spenders, NEW take \in TakesOfQuote(t),
           NEW atomic \in BOOLEAN, NEW steps, CandidateSteps(t, name, take, steps, atomic)
    PROVE  /\ steps \in Seq(Transactions)
           /\ CandidateSteps(t, name, take, WithAllowanceResets(steps), atomic)
<1> DEFINE z == Zero(t, name)
           a == Full(t, name)
           u == Call(name, take)
           k == Clean(t, name)
           forms == {<<u>>, <<a, u>>, <<z, a, u>>, <<a, u, k>>, <<z, a, u, k>>}
<1>1. /\ u \in Transactions
      /\ t # Native => z \in Transactions /\ a \in Transactions /\ k \in Transactions
  BY StepsAreTransactions
<1>2. \A x : Block(<<x>>, 1) = IF NeedsReset(<<x>>, 1) THEN <<Reset(x), x>> ELSE <<x>>
  BY DEF Block
<1>3. /\ ~IsNonzeroApproval(u) /\ ~IsNonzeroApproval(z) /\ ~IsNonzeroApproval(k)
      /\ Reset(a) = z
      /\ IsApproval(z) /\ z.token = a.token /\ z.spender = a.spender /\ z.amount = 0
  BY DEF Call, Zero, Full, Clean, Use, Approve, IsNonzeroApproval, IsApproval, Reset
<1> HIDE DEF z, a, u, k
<1>4. ASSUME NEW s \in Seq(Transactions), s # <<>>
      PROVE  \E g : /\ g[0] = <<>> /\ WithAllowanceResets(s) = g[Len(s)]
                    /\ \A i \in 1 .. Len(s) : g[i] = g[i - 1] \o Block(s, i)
  <2>1. \E g \in [0 .. Len(s) -> Seq(Transactions)] :
           /\ g[0] = <<>>
           /\ \A i \in 1 .. Len(s) : g[i] = g[i - 1] \o Block(s, i)
           /\ WithAllowanceResets(s) = g[Len(s)]
    BY ResetIsTransaction, ResetsRecursion
  <2> QED
    BY ONLY <2>1
\* What the reset, the approval, the call and the cleanup become.
<1>5. ASSUME NEW s \in Seq(Transactions), NEW i \in DOMAIN s
      PROVE  /\ s[i] \in {z, u, k} => Block(s, i) = <<s[i]>>
             /\ s[i] = a => Block(s, i) \in {<<a>>, <<z, a>>}
             /\ s[i] = a /\ i > 1 /\ s[i - 1] = z => Block(s, i) = <<a>>
  <2>1. s[i] \in {z, u, k} => ~NeedsReset(s, i)
    BY <1>3 DEF NeedsReset
  <2>2. s[i] = a /\ i > 1 /\ s[i - 1] = z => ~NeedsReset(s, i)
    BY <1>3 DEF NeedsReset, AlreadyReset
  <2> QED
    BY <1>3, <2>1, <2>2 DEF Block
<1>6. ASSUME steps = <<u>> PROVE steps \in Seq(Transactions) /\ WithAllowanceResets(steps) = <<u>>
  <2>1. steps \in Seq(Transactions) /\ Len(steps) = 1 /\ steps[1] = u /\ steps # <<>>
    BY <1>1, <1>6
  <2>2. PICK g : /\ g[0] = <<>> /\ WithAllowanceResets(steps) = g[1]
                 /\ \A i \in 1 .. 1 : g[i] = g[i - 1] \o Block(steps, i)
    BY <1>4, <2>1
  <2>3. Block(steps, 1) = <<u>>
    BY <1>5, <2>1
  <2>4. g[1] = <<>> \o <<u>>
    BY <2>2, <2>3
  <2> QED
    BY <2>1, <2>2, <2>4, JoinedTuples
<1>7. ASSUME t # Native, steps \in {<<a, u>>, <<a, u, k>>}
      PROVE  /\ steps \in Seq(Transactions)
             /\ WithAllowanceResets(steps) \in
                  IF Len(steps) = 2 THEN {<<a, u>>, <<z, a, u>>} ELSE {<<a, u, k>>, <<z, a, u, k>>}
  <2>1. /\ steps \in Seq(Transactions) /\ steps # <<>> /\ Len(steps) \in {2, 3}
        /\ steps[1] = a /\ steps[2] = u /\ (Len(steps) = 3 => steps[3] = k)
    <3>1. CASE steps = <<a, u>>
      BY <1>1, <1>7, <3>1
    <3>2. CASE steps = <<a, u, k>>
      BY <1>1, <1>7, <3>2
    <3> QED
      BY <1>7, <3>1, <3>2
  <2>2. PICK g : /\ g[0] = <<>> /\ WithAllowanceResets(steps) = g[Len(steps)]
                 /\ \A i \in 1 .. Len(steps) : g[i] = g[i - 1] \o Block(steps, i)
    BY <1>4, <2>1
  <2>3. /\ Block(steps, 1) \in {<<a>>, <<z, a>>} /\ Block(steps, 2) = <<u>>
        /\ Len(steps) = 3 => Block(steps, 3) = <<k>>
    BY <1>5, <2>1
  <2>4. /\ g[1] = <<>> \o Block(steps, 1) /\ g[2] = g[1] \o <<u>>
        /\ Len(steps) = 3 => g[3] = g[2] \o <<k>>
    <3>1. /\ g[1] = g[1 - 1] \o Block(steps, 1) /\ g[2] = g[2 - 1] \o Block(steps, 2)
          /\ Len(steps) = 3 => g[3] = g[3 - 1] \o Block(steps, 3)
      <4>1. 1 \in 1 .. Len(steps) /\ 2 \in 1 .. Len(steps) /\ (Len(steps) = 3 => 3 \in 1 .. Len(steps))
        BY <2>1
      <4> QED
        BY ONLY <2>2, <4>1
    <3>2. 1 - 1 = 0 /\ 2 - 1 = 1 /\ 3 - 1 = 2
      OBVIOUS
    <3> QED
      BY ONLY <2>2, <2>3, <3>1, <3>2
  <2>5. \A x, y : <<>> \o <<x>> = <<x>> /\ <<>> \o <<x, y>> = <<x, y>>
    <3> SUFFICES ASSUME NEW x, NEW y
                 PROVE  <<>> \o <<x>> = <<x>> /\ <<>> \o <<x, y>> = <<x, y>>
      OBVIOUS
    <3>1. <<x>> \in Seq({x, y}) /\ <<x, y>> \in Seq({x, y})
      OBVIOUS
    <3>2. \A q \in Seq({x, y}) : <<>> \o q = q
      OBVIOUS
    <3> QED
      BY <3>1, <3>2
  <2>6. g[1] \in {<<a>>, <<z, a>>}
    BY <2>3, <2>4, <2>5
  <2>7. g[2] \in {<<a, u>>, <<z, a, u>>}
    <3>1. <<a>> \o <<u>> = <<a, u>> /\ <<z, a>> \o <<u>> = <<z, a, u>>
      BY JoinedTuples
    <3> QED
      BY ONLY <2>4, <2>6, <3>1
  <2>8. Len(steps) = 3 => g[3] \in {<<a, u, k>>, <<z, a, u, k>>}
    <3>1. <<a, u>> \o <<k>> = <<a, u, k>> /\ <<z, a, u>> \o <<k>> = <<z, a, u, k>>
      BY JoinedTuples
    <3> QED
      BY ONLY <2>4, <2>7, <3>1
  <2> QED
    BY ONLY <2>1, <2>2, <2>7, <2>8
<1>8. ASSUME t # Native, steps \in {<<z, a, u>>, <<z, a, u, k>>}
      PROVE  /\ steps \in Seq(Transactions)
             /\ WithAllowanceResets(steps) = steps
  <2>1. /\ steps \in Seq(Transactions) /\ steps # <<>> /\ Len(steps) \in {3, 4}
        /\ steps[1] = z /\ steps[2] = a /\ steps[3] = u /\ (Len(steps) = 4 => steps[4] = k)
    <3>1. CASE steps = <<z, a, u>>
      BY <1>1, <1>8, <3>1
    <3>2. CASE steps = <<z, a, u, k>>
      BY <1>1, <1>8, <3>2
    <3> QED
      BY <1>8, <3>1, <3>2
  <2>2. PICK g : /\ g[0] = <<>> /\ WithAllowanceResets(steps) = g[Len(steps)]
                 /\ \A i \in 1 .. Len(steps) : g[i] = g[i - 1] \o Block(steps, i)
    BY <1>4, <2>1
  <2>3. /\ Block(steps, 1) = <<z>> /\ Block(steps, 2) = <<a>> /\ Block(steps, 3) = <<u>>
        /\ Len(steps) = 4 => Block(steps, 4) = <<k>>
    BY <1>5, <2>1
  <2>4. /\ g[1] = <<>> \o <<z>> /\ g[2] = g[1] \o <<a>> /\ g[3] = g[2] \o <<u>>
        /\ Len(steps) = 4 => g[4] = g[3] \o <<k>>
    <3>1. /\ g[1] = g[1 - 1] \o Block(steps, 1) /\ g[2] = g[2 - 1] \o Block(steps, 2)
          /\ g[3] = g[3 - 1] \o Block(steps, 3)
          /\ Len(steps) = 4 => g[4] = g[4 - 1] \o Block(steps, 4)
      <4>1. /\ 1 \in 1 .. Len(steps) /\ 2 \in 1 .. Len(steps) /\ 3 \in 1 .. Len(steps)
            /\ Len(steps) = 4 => 4 \in 1 .. Len(steps)
        BY <2>1
      <4> QED
        BY ONLY <2>2, <4>1
    <3>2. 1 - 1 = 0 /\ 2 - 1 = 1 /\ 3 - 1 = 2 /\ 4 - 1 = 3
      OBVIOUS
    <3> QED
      BY ONLY <2>2, <2>3, <3>1, <3>2
  <2>5. /\ <<>> \o <<z>> = <<z>> /\ <<z>> \o <<a>> = <<z, a>> /\ <<z, a>> \o <<u>> = <<z, a, u>>
        /\ <<z, a, u>> \o <<k>> = <<z, a, u, k>>
    BY JoinedTuples
  <2>6. g[3] = <<z, a, u>> /\ (Len(steps) = 4 => g[4] = <<z, a, u, k>>)
    BY ONLY <2>4, <2>5
  <2>7. steps = IF Len(steps) = 3 THEN <<z, a, u>> ELSE <<z, a, u, k>>
    BY <1>8
  <2> QED
    BY ONLY <2>1, <2>2, <2>6, <2>7
<1>9. CASE steps = <<u>> /\ ~atomic
  BY <1>6, <1>9 DEF CandidateSteps, Unapproved, u
<1>10. CASE t # Native /\ atomic /\ steps \in {<<a, u, k>>, <<z, a, u, k>>}
  <2>1. Len(<<a, u, k>>) = 3
    OBVIOUS
  <2>2. steps \in Seq(Transactions) /\ WithAllowanceResets(steps) \in {<<a, u, k>>, <<z, a, u, k>>}
    <3>1. CASE steps = <<a, u, k>>
      <4>1. Len(steps) # 2
        BY <2>1, <3>1
      <4> QED
        BY <1>7, <1>10, <3>1, <4>1
    <3>2. CASE steps = <<z, a, u, k>>
      BY <1>8, <1>10, <3>2
    <3> QED
      BY <1>10, <3>1, <3>2
  <2> QED
    BY <1>10, <2>2 DEF CandidateSteps, Cleaning, z, a, u, k
<1>11. CASE /\ t # Native /\ atomic /\ steps \in {<<a, u>>, <<z, a, u>>}
            /\ take = Exactly(t, Bound) \/ name = "across"
  <2>1. Len(<<a, u>>) = 2
    OBVIOUS
  <2>2. steps \in Seq(Transactions) /\ WithAllowanceResets(steps) \in {<<a, u>>, <<z, a, u>>}
    BY <1>7, <1>8, <1>11, <2>1
  <2> QED
    BY <1>11, <2>2 DEF CandidateSteps, Approving, z, a, u
<1> QED
  BY <1>9, <1>10, <1>11 DEF CandidateSteps, Unapproved, Approving, Cleaning, z, a, u, k

\* Where the plan of a quote that approves ends on a sender without allowances.
LEMMA FormRun ==
    ASSUME NEW t \in Tokens, t # Native, NEW name \in Spenders, NEW take \in TakesOfQuote(t),
           NEW plan, plan.steps \in Cleaning(t, name, take) \cup Approving(t, name, take),
           plan.steps \in Seq(Transactions), NEW full \in SUBSET Tokens
    PROVE  /\ BatchEnd(Nothing, plan, full).result = "ok"
           /\ BatchEnd(Nothing, plan, full).allowed[<<t, name>>] =
                IF plan.steps \in Cleaning(t, name, take) THEN 0 ELSE Bound - Amount(take, full)
<1> DEFINE z == Zero(t, name)
           a == Full(t, name)
           u == Call(name, take)
           k == Clean(t, name)
           p == <<t, name>>
           n == Len(plan.steps)
           At(end, value) == end \in Ends /\ end.result = "ok" /\ end.allowed[p] = value
<1>1. p \in Pairs
  BY DEF Pairs
<1>2. /\ z \in Transactions /\ a \in Transactions /\ k \in Transactions /\ u \in Transactions
      /\ IsApproval(z) /\ IsApproval(a) /\ IsApproval(k) /\ ~IsApproval(u)
  <2>1. z \in Transactions /\ a \in Transactions /\ k \in Transactions /\ u \in Transactions
    BY StepsAreTransactions
  <2> QED
    BY <2>1 DEF IsApproval, Zero, Full, Clean, Call, Use, Approve
<1>3. Bound \in Nat /\ Bound < Unlimited /\ Unlimited \in Nat
  BY AmountsAssumption, UnlimitedAssumption
<1>4. ASSUME NEW step \in {z, a, k}, NEW end, NEW value, At(end, value), step = a => value = 0
      PROVE  At(Then(end, step, full), step.amount)
  <2>1. /\ end.allowed \in Allowances /\ step \in Transactions /\ step.op = "approve"
        /\ Then(end, step, full) = Approved(end.allowed, step)
    BY <1>2, <1>4, TransactType DEF Ends, Then
  <2>2. <<step.token, step.spender>> = p /\ (step # a => step.amount = 0)
    BY DEF Zero, Full, Clean, Approve
  <2> HIDE DEF p, z, a, k
  <2>3. /\ Approved(end.allowed, step) \in Ends
        /\ Approved(end.allowed, step).result = "ok" =>
              Approved(end.allowed, step).allowed = [end.allowed EXCEPT ![p] = step.amount]
        /\ Approved(end.allowed, step).result # "ok" => step.amount # 0 /\ end.allowed[p] # 0
    BY <2>1, <2>2, ApproveOutcome
  <2>4. Approved(end.allowed, step).result = "ok"
    BY <1>4, <2>2, <2>3
  <2>5. [end.allowed EXCEPT ![p] = step.amount][p] = step.amount
    BY <1>1, <2>1 DEF Allowances
  <2> QED
    BY <2>1, <2>3, <2>4, <2>5
<1>5. ASSUME NEW end, At(end, Bound)
      PROVE  At(Then(end, u, full), Bound - Amount(take, full))
  <2>1. u.op = "call" /\ end.allowed \in Allowances /\ Then(end, u, full) = Called(end.allowed, u, full)
    BY <1>2, <1>5, TransactType DEF Ends, Then
  <2>2. u.takes = {take} /\ u.spender = name
    BY DEF Call, Use
  <2>3. take.token = t /\ take \in Takes /\ Amount(take, full) \in Nat /\ Amount(take, full) <= Bound
    BY <1>3 DEF TakesOfQuote, Exactly, UpTo, Takes, Amount
  <2>4. TakesOf(u, p) = {take} /\ \A q \in Pairs \ {p} : TakesOf(u, q) = {}
    <3> HIDE DEF u
    <3> QED
      BY <2>2, <2>3 DEF TakesOf
  <2> HIDE DEF u
  <2>5. Used(TakesOf(u, p), full) = Amount(take, full)
    BY <2>3, <2>4, UsedOfOne
  <2>6. \A q \in Pairs \ {p} : Used(TakesOf(u, q), full) = 0
    BY <2>3, <2>4, UsedOfOne
  <2> HIDE DEF p
  <2>7. ASSUME NEW q \in Pairs PROVE Used(TakesOf(u, q), full) <= end.allowed[q]
    <3>1. CASE q = p
      BY <1>5, <2>3, <2>5, <3>1
    <3>2. CASE q # p
      <4>1. end.allowed[q] \in 0 .. Unlimited
        BY <2>1 DEF Allowances
      <4> QED
        BY <2>6, <3>2, <4>1
    <3> QED
      BY <3>1, <3>2
  <2> DEFINE called == Called(end.allowed, u, full)
  <2>8. /\ called \in Ends
        /\ called.result = "ok" <=> \A q \in Pairs : Used(TakesOf(u, q), full) <= end.allowed[q]
        /\ called.result = "ok" =>
              called.allowed = [q \in Pairs |->
                  IF end.allowed[q] = Unlimited THEN Unlimited
                  ELSE end.allowed[q] - Used(TakesOf(u, q), full)]
    BY <1>2, <2>1, CallOutcome
  <2> HIDE DEF called
  <2>9. called.result = "ok"
    BY <2>7, <2>8
  <2>10. called.allowed[p] = Bound - Amount(take, full)
    <3>1. end.allowed[p] = Bound /\ Bound # Unlimited
      BY <1>3, <1>5
    <3>2. called.allowed[p] = IF end.allowed[p] = Unlimited THEN Unlimited
                              ELSE end.allowed[p] - Used(TakesOf(u, p), full)
      BY <1>1, <2>8, <2>9
    <3> QED
      BY <2>5, <3>1, <3>2
  <2> QED
    BY <2>1, <2>8, <2>9, <2>10 DEF called
<1>6. Nothing \in Allowances /\ Nothing[p] = 0
  BY <1>1, <1>3 DEF Nothing, Allowances
<1>7. PICK g \in [0 .. n -> Ends] :
        Runs(g, Nothing, plan, full) /\ BatchEnd(Nothing, plan, full) = g[n]
  BY <1>6, BatchRecursion
<1>8. /\ g[0] = [result |-> "ok", allowed |-> Nothing]
      /\ \A i \in 1 .. n : g[i] = Then(g[i - 1], plan.steps[i], full)
  BY <1>7 DEF Runs
<1>9. At(g[0], 0)
  BY <1>6, <1>7, <1>8 DEF Ends
<1>10. z.amount = 0 /\ a.amount = Bound /\ k.amount = 0
  BY DEF Zero, Full, Clean, Approve
<1>11. plan.steps \in {<<a, u>>, <<z, a, u>>, <<a, u, k>>, <<z, a, u, k>>}
       /\ (plan.steps \in Cleaning(t, name, take) <=> plan.steps \in {<<a, u, k>>, <<z, a, u, k>>})
  BY DEF Cleaning, Approving
<1> HIDE DEF At, z, a, u, k, p
<1>14. k # a
  BY <1>10, AmountsAssumption
<1>12. CASE plan.steps \in {<<a, u>>, <<a, u, k>>}
  <2>1. /\ n \in {2, 3} /\ n = 3 <=> plan.steps = <<a, u, k>>
        /\ plan.steps[1] = a /\ plan.steps[2] = u /\ (n = 3 => plan.steps[3] = k)
    <3>1. CASE plan.steps = <<a, u>>
      BY <3>1
    <3>2. CASE plan.steps = <<a, u, k>>
      BY <3>2
    <3> QED
      BY <1>12, <3>1, <3>2
  <2>2. /\ g[1] = Then(g[0], a, full) /\ g[2] = Then(g[1], u, full)
        /\ n = 3 => g[3] = Then(g[2], k, full)
    <3>1. 1 \in 1 .. n /\ 2 \in 1 .. n /\ (n = 3 => 3 \in 1 .. n)
      BY <2>1
    <3>2. 1 - 1 = 0 /\ 2 - 1 = 1 /\ 3 - 1 = 2
      OBVIOUS
    <3>3. /\ g[1] = Then(g[1 - 1], plan.steps[1], full) /\ g[2] = Then(g[2 - 1], plan.steps[2], full)
          /\ n = 3 => g[3] = Then(g[3 - 1], plan.steps[3], full)
      BY ONLY <1>8, <3>1
    <3> QED
      BY ONLY <2>1, <3>2, <3>3
  <2>3. At(g[2], Bound - Amount(take, full))
    BY <1>4, <1>5, <1>9, <1>10, <2>2
  <2>4. n = 3 => At(g[3], 0)
    BY <1>4, <1>10, <1>14, <2>2, <2>3
  <2>5. plan.steps \in Cleaning(t, name, take) <=> n = 3
    <3>1. <<a, u>> # <<a, u, k>> /\ <<a, u>> # <<z, a, u, k>>
      OBVIOUS
    <3> HIDE DEF n
    <3> QED
      BY <1>11, <1>12, <2>1, <3>1
  <2>6. At(g[n], IF n = 3 THEN 0 ELSE Bound - Amount(take, full))
    BY <2>1, <2>3, <2>4
  <2> HIDE DEF n
  <2> QED
    BY <1>7, <2>5, <2>6 DEF At, p
<1>13. CASE plan.steps \in {<<z, a, u>>, <<z, a, u, k>>}
  <2>1. /\ n \in {3, 4} /\ n = 4 <=> plan.steps = <<z, a, u, k>>
        /\ plan.steps[1] = z /\ plan.steps[2] = a /\ plan.steps[3] = u
        /\ n = 4 => plan.steps[4] = k
    <3>1. CASE plan.steps = <<z, a, u>>
      BY <3>1
    <3>2. CASE plan.steps = <<z, a, u, k>>
      BY <3>2
    <3> QED
      BY <1>13, <3>1, <3>2
  <2>2. /\ g[1] = Then(g[0], z, full) /\ g[2] = Then(g[1], a, full) /\ g[3] = Then(g[2], u, full)
        /\ n = 4 => g[4] = Then(g[3], k, full)
    <3>1. 1 \in 1 .. n /\ 2 \in 1 .. n /\ 3 \in 1 .. n /\ (n = 4 => 4 \in 1 .. n)
      BY <2>1
    <3>2. 1 - 1 = 0 /\ 2 - 1 = 1 /\ 3 - 1 = 2 /\ 4 - 1 = 3
      OBVIOUS
    <3>3. /\ g[1] = Then(g[1 - 1], plan.steps[1], full) /\ g[2] = Then(g[2 - 1], plan.steps[2], full)
          /\ g[3] = Then(g[3 - 1], plan.steps[3], full)
          /\ n = 4 => g[4] = Then(g[4 - 1], plan.steps[4], full)
      BY ONLY <1>8, <3>1
    <3> QED
      BY ONLY <2>1, <3>2, <3>3
  <2>3. At(g[3], Bound - Amount(take, full))
    <3>1. At(g[1], 0)
      BY <1>4, <1>9, <1>10, <2>2
    <3>2. At(g[2], Bound)
      BY <1>4, <1>10, <2>2, <3>1
    <3> QED
      BY <1>5, <2>2, <3>2
  <2>4. n = 4 => At(g[4], 0)
    BY <1>4, <1>10, <1>14, <2>2, <2>3
  <2>5. plan.steps \in Cleaning(t, name, take) <=> n = 4
    <3>1. <<z, a, u>> # <<a, u, k>> /\ <<z, a, u>> # <<z, a, u, k>>
      <4>1. z # a
        BY <1>10, AmountsAssumption
      <4> QED
        BY <4>1
    <3> HIDE DEF n
    <3> QED
      BY <1>11, <1>13, <2>1, <3>1
  <2>6. At(g[n], IF n = 4 THEN 0 ELSE Bound - Amount(take, full))
    BY <2>1, <2>3, <2>4
  <2> HIDE DEF n
  <2> QED
    BY <1>7, <2>5, <2>6 DEF At, p
<1> QED
  BY <1>11, <1>12, <1>13

\* Every plan made of a quote is a good one.
THEOREM CandidatePlansGood ==
    ASSUME NEW intent, intent.token \in Tokens \cup {Native}, NEW source \in Sources, NEW al,
           NEW candidate \in Quotes(source, intent, al),
           PrepareCandidate(intent, candidate) # NoPlan
    PROVE  GoodPlan(PrepareCandidate(intent, candidate))
<1> DEFINE t == intent.token
           plan == PrepareCandidate(intent, candidate)
<1>1. PICK name \in {"router"} \cup (Sources \ {"ekubo"}), take \in TakesOfQuote(t),
           atomic \in BOOLEAN : \E steps :
        plan = ExecutionPlanFromSteps(steps, atomic) /\ CandidateSteps(t, name, take, steps, atomic)
  BY CandidateForm
<1>2. PICK steps :
        plan = ExecutionPlanFromSteps(steps, atomic) /\ CandidateSteps(t, name, take, steps, atomic)
  BY <1>1
<1>3. name \in Spenders
  BY NamesAssumption
<1>4. /\ steps \in Seq(Transactions)
      /\ CandidateSteps(t, name, take, WithAllowanceResets(steps), atomic)
  BY <1>2, <1>3, FormKept
<1>5. plan.steps = WithAllowanceResets(steps) /\ plan.atomic = atomic
  BY <1>2 DEF ExecutionPlanFromSteps
<1>6. plan.steps \in Seq(Transactions) /\ NeedsNoReset(plan)
  BY <1>4, <1>5, ResetIsTransaction, ResetsSuffice DEF NeedsNoReset
<1>7. CandidateSteps(t, name, take, plan.steps, plan.atomic) /\ plan.atomic \in BOOLEAN
  BY <1>4, <1>5
<1> HIDE DEF plan
<1> DEFINE z == Zero(t, name)
           a == Full(t, name)
           u == Call(name, take)
           k == Clean(t, name)
<1>8. /\ IsNonzeroApproval(a) /\ ~IsNonzeroApproval(z) /\ ~IsNonzeroApproval(k)
      /\ ~IsNonzeroApproval(u) /\ ~IsApproval(u)
      /\ a.token = t /\ a.spender = name
  BY AmountsAssumption
     DEF Zero, Full, Clean, Call, Use, Approve, IsApproval, IsNonzeroApproval
<1>9. plan.steps \in {<<u>>, <<a, u>>, <<z, a, u>>, <<a, u, k>>, <<z, a, u, k>>}
  BY <1>7 DEF CandidateSteps, Unapproved, Approving, Cleaning
<1> HIDE DEF z, a, u, k
<1>10. plan.steps # <<>>
  <2>1. /\ <<u>> # <<>> /\ <<a, u>> # <<>> /\ <<z, a, u>> # <<>>
        /\ <<a, u, k>> # <<>> /\ <<z, a, u, k>> # <<>>
    OBVIOUS
  <2> QED
    BY <1>9, <2>1
<1> SUFFICES GoodPlan(plan)
  BY DEF plan
<1>11. CASE plan.steps = <<u>>
  <2>1. DOMAIN plan.steps = {1} /\ plan.steps[1] = u
    BY <1>11
  <2>2. Settlers(plan) = {} /\ \A i \in DOMAIN plan.steps : ~IsApproval(plan.steps[i])
    BY <1>8, <2>1 DEF Settlers
  <2>3. SelfContained(plan) /\ RevokesNothing(plan)
    BY <2>2 DEF SelfContained, RevokesNothing
  <2> QED
    BY <1>6, <1>7, <1>10, <2>3 DEF GoodPlan
<1>12. CASE plan.steps # <<u>>
  <2>1. \E i \in DOMAIN plan.steps : plan.steps[i] = a
    <3>1. CASE plan.steps \in {<<a, u>>, <<a, u, k>>}
      <4>1. 1 \in DOMAIN plan.steps /\ plan.steps[1] = a
        BY <3>1
      <4> QED
        BY <4>1
    <3>2. CASE plan.steps \in {<<z, a, u>>, <<z, a, u, k>>}
      <4>1. 2 \in DOMAIN plan.steps /\ plan.steps[2] = a
        BY <3>2
      <4> QED
        BY <4>1
    <3> QED
      BY <1>9, <1>12, <3>1, <3>2
  <2>2. Settlers(plan) # {}
    BY <1>8, <2>1 DEF Settlers
  <2>3. RevokesNothing(plan)
    BY <2>2 DEF RevokesNothing
  <2>4. /\ t # Native /\ t \in Tokens
        /\ plan.steps \in Cleaning(t, name, take) \cup Approving(t, name, take)
        /\ plan.steps \notin Cleaning(t, name, take) => take = Exactly(t, Bound) \/ name = "across"
    BY <1>7, <1>12 DEF CandidateSteps, Unapproved, u
  <2>5. \A full \in SUBSET Tokens :
          /\ BatchEnd(Nothing, plan, full).result = "ok"
          /\ BatchEnd(Nothing, plan, full).allowed[<<t, name>>] =
                IF plan.steps \in Cleaning(t, name, take) THEN 0 ELSE Bound - Amount(take, full)
    BY <1>3, <1>6, <2>4, FormRun
  <2>6. BatchEnd(Nothing, plan, Tokens).result = "ok"
    BY <2>5
  <2>7. ASSUME NEW pair \in Residue(BatchEnd(Nothing, plan, {}).allowed, plan)
        PROVE  pair[2] \in Uncleaned
    <3>1. PICK i \in DOMAIN plan.steps :
            IsNonzeroApproval(plan.steps[i]) /\ pair = <<plan.steps[i].token, plan.steps[i].spender>>
      BY <2>7 DEF Residue
    <3>2. plan.steps[i] \in {z, a, u, k}
      <4>1. CASE plan.steps = <<a, u>>
        BY <4>1
      <4>2. CASE plan.steps = <<z, a, u>>
        BY <4>2
      <4>3. CASE plan.steps = <<a, u, k>>
        BY <4>3
      <4>4. CASE plan.steps = <<z, a, u, k>>
        BY <4>4
      <4> QED
        BY <1>9, <1>12, <4>1, <4>2, <4>3, <4>4
    <3>3. pair = <<t, name>>
      BY <1>8, <3>1, <3>2
    <3>4. BatchEnd(Nothing, plan, {}).allowed[<<t, name>>] # 0
      BY <2>7, <3>3 DEF Residue
    <3>5. plan.steps \notin Cleaning(t, name, take) /\ Bound - Amount(take, {}) # 0
      <4>1. {} \in SUBSET Tokens
        OBVIOUS
      <4> QED
        BY <2>5, <3>4, <4>1
    <3>6. take # Exactly(t, Bound)
      BY <3>5, AmountsAssumption DEF Exactly, Amount
    <3> QED
      BY <2>4, <3>3, <3>5, <3>6 DEF Uncleaned
  <2>8. SelfContained(plan)
    BY <2>6, <2>7 DEF SelfContained
  <2> QED
    BY <1>6, <1>7, <1>10, <2>3, <2>8 DEF GoodPlan
<1> QED
  BY <1>11, <1>12

\* What carrying out a good plan as one batch may come to.
THEOREM GoodPlansHold ==
    ASSUME NEW plan, GoodPlan(plan), plan.atomic, NEW a \in Allowances, NEW full \in SUBSET Tokens
    PROVE  LET end == BatchEnd(a, plan, full)
           IN  /\ end \in Ends /\ end.result # "collided"
               /\ Settlers(plan) # {} => end.result = "ok"
               /\ \A p \in Residue(end.allowed, plan) : p[2] \in Uncleaned
<1> DEFINE n == Len(plan.steps)
<1>1. PICK g \in [0 .. n -> Ends] : Runs(g, a, plan, full) /\ BatchEnd(a, plan, full) = g[n]
  BY BatchRecursion DEF GoodPlan
<1>2. n \in 0 .. n
  BY DEF GoodPlan
<1>3. g[n] \in Ends /\ g[n].result # "collided"
  BY <1>1, <1>2, NeverCollides DEF GoodPlan
<1>4. CASE Settlers(plan) = {}
  <2>1. \A allowances : Residue(allowances, plan) = {}
    BY <1>4 DEF Residue, Settlers
  <2> QED
    BY <1>1, <1>3, <1>4, <2>1
<1>5. CASE Settlers(plan) # {}
  <2>1. /\ BatchEnd(a, plan, full).result = "ok"
        /\ \A p \in Residue(BatchEnd(a, plan, full).allowed, plan) : p[2] \in Uncleaned
    BY <1>5, SelfContainedAnywhere DEF GoodPlan
  <2> QED
    BY <1>1, <1>3, <2>1
<1> QED
  BY <1>4, <1>5

-------------------------------------------------------------------------------
(***************************************************************************)
(* The handoff                                                             *)
(***************************************************************************)

\* What a call holds: step, intent, answers and plans are its pc, request, settled
\* and bodies.  A plan to store is a good one, and nothing is stored before the plans
\* are fixed; once they are, every answer with a plan has it among them.
CallHolds(c, step, intent, answers, plans) ==
    /\ step \in {"idle", "quoting", "storing", "answered", "failed", "unavailable"}
    /\ intent \in Intents[c] \cup {None}
    /\ step = "idle" => intent = None
    /\ step = "quoting" => intent \in Intents[c]
    /\ step \in {"idle", "quoting"} => plans = <<>>
    /\ DOMAIN answers = Sources
    /\ \A s \in Sources :
        \/ answers[s] \in {Pending, Rejected}
        \/ step \in {"quoting", "storing", "unavailable"}
           /\ \E al \in 0 .. Unlimited : answers[s] \in Quotes(s, intent, al)
    /\ Len(plans) \in 0 .. MaxBodies /\ DOMAIN plans = 1 .. Len(plans)
    /\ \A i \in DOMAIN plans : plans[i] = NoPlan \/ GoodPlan(plans[i])
    /\ step = "storing" /\ intent # None =>
        \A s \in Range(RequestedSources(intent)) :
            answers[s] # Rejected => \E i \in DOMAIN plans : plans[i] = PrepareCandidate(intent, answers[s])

\* What the bucket holds under a reference is the plan of its call.
ObjectHolds(ref) ==
    /\ ref \in Refs
    /\ ref[2] \in ToStore(ref[1])
    /\ store[ref].body = bodies[ref[1]][ref[2]]
    /\ store[ref].uploaded \in 0 .. now

\* What the wallet made of a reference: a plan it carries is a good one, and if
\* atomic has met no guard, was funded and has left what no builder cleans up.
WalletHolds(held) ==
    /\ DOMAIN held = {"status", "plan", "step", "residue"}
    /\ held.status \in {"none", "held", "missed", "done", "collided", "unfunded"}
    /\ held.residue \subseteq Pairs
    /\ held.status \in {"none", "missed"} => held.plan = NoPlan
    /\ held.status \notin {"none", "missed"} =>
        /\ GoodPlan(held.plan)
        /\ held.step \in Nat
        /\ held.status = "held" => held.step < Len(held.plan.steps)
        /\ held.plan.atomic =>
            /\ held.status # "collided"
            /\ Settlers(held.plan) # {} => held.status # "unfunded"
            /\ \A pair \in held.residue : pair[2] \in Uncleaned

PlansInv ==
    /\ now \in 0 .. MaxTime /\ allowed \in Allowances
    /\ pc \in [Calls -> {"idle", "quoting", "storing", "answered", "failed", "unavailable"}]
    /\ DOMAIN request = Calls /\ DOMAIN settled = Calls
    /\ DOMAIN bodies = Calls /\ DOMAIN wallet = Refs
    /\ \A c \in Calls : CallHolds(c, pc[c], request[c], settled[c], bodies[c])
    /\ \A ref \in DOMAIN store : ObjectHolds(ref)
    /\ \A ref \in Refs : WalletHolds(wallet[ref])

-------------------------------------------------------------------------------
\* At most three sources are asked.
LEMMA RequestedType ==
    ASSUME NEW intent
    PROVE  /\ RequestedSources(intent) \in Seq(Sources)
           /\ Len(RequestedSources(intent)) <= MaxBodies
<1> DEFINE keyed(source) == IF source \in Configured THEN <<source>> ELSE <<>>
<1>1. \A s \in Sources : keyed(s) \in Seq(Sources) /\ Len(keyed(s)) <= 1
  OBVIOUS
<1>2. {"ekubo", "0x", "across", "layerzero", "lifi"} = Sources
  BY DEF Sources
<1>3. <<"across">> \in Seq(Sources) /\ <<"ekubo">> \in Seq(Sources)
  BY <1>2
<1> HIDE DEF keyed
<1>4. CASE intent.cross
  <2>1. RequestedSources(intent) = <<"across">> \o keyed("layerzero") \o keyed("lifi")
    BY <1>4 DEF RequestedSources, keyed
  <2>2. /\ keyed("layerzero") \in Seq(Sources) /\ Len(keyed("layerzero")) <= 1
        /\ keyed("lifi") \in Seq(Sources) /\ Len(keyed("lifi")) <= 1
    BY <1>1, <1>2
  <2> QED
    BY <1>3, <2>1, <2>2 DEF MaxBodies
<1>5. CASE ~intent.cross
  <2>1. RequestedSources(intent) = <<"ekubo">> \o keyed("0x")
    BY <1>5 DEF RequestedSources, keyed
  <2>2. keyed("0x") \in Seq(Sources) /\ Len(keyed("0x")) <= 1
    BY <1>1, <1>2
  <2> QED
    BY <1>3, <2>1, <2>2 DEF MaxBodies
<1> QED
  BY <1>4, <1>5

\* The candidates are of the sources that did not fail, each of them once or more.
LEMMA FulfilledHolds ==
    ASSUME NEW c
    PROVE  /\ Fulfilled(c) \in Seq(Sources) /\ Len(Fulfilled(c)) <= MaxBodies
           /\ \A s \in Range(RequestedSources(request[c])) :
                settled[c][s] # Rejected => s \in Range(Fulfilled(c))
           /\ \A s \in Range(Fulfilled(c)) :
                s \in Range(RequestedSources(request[c])) /\ settled[c][s] # Rejected
<1> DEFINE sources == RequestedSources(request[c])
           n == Len(sources)
           seqs == [i \in DOMAIN sources |->
                      IF settled[c][sources[i]] = Rejected THEN <<>> ELSE <<sources[i]>>]
<1>1. /\ sources \in Seq(Sources) /\ n \in Nat /\ n <= 3 /\ DOMAIN sources = 1 .. n
      /\ \A i \in 1 .. n : sources[i] \in Sources
  BY RequestedType DEF MaxBodies
<1> HIDE DEF sources
<1>2. /\ seqs \in Seq(Seq(Sources)) /\ Len(seqs) = n /\ DOMAIN seqs = 1 .. n
      /\ \A i \in 1 .. n : Len(seqs[i]) <= 1
  <2>1. \A i \in 1 .. n : seqs[i] \in Seq(Sources) /\ Len(seqs[i]) <= 1
    BY <1>1
  <2>2. DOMAIN seqs = 1 .. n
    BY <1>1
  <2> HIDE DEF seqs
  <2>3. seqs \in Seq(Seq(Sources)) /\ Len(seqs) = n
    <3>1. seqs = [i \in 1 .. n |-> seqs[i]]
      BY <1>1, <2>2 DEF seqs
    <3> QED
      BY <1>1, <2>1, <2>2, <3>1
  <2> QED
    BY <2>1, <2>2, <2>3
<1>3. Fulfilled(c) = FlattenSeq(seqs)
  BY DEF Fulfilled, sources
<1>4. /\ Fulfilled(c) \in Seq(Sources)
      /\ \A i \in 1 .. n : Range(seqs[i]) \subseteq Range(Fulfilled(c))
      /\ \A s \in Range(Fulfilled(c)) : \E i \in 1 .. n : s \in Range(seqs[i])
  <2> HIDE DEF seqs
  <2> QED
    BY <1>2, <1>3, FlattenRange
<1>5. Len(Fulfilled(c)) <= 3
  <2> HIDE DEF seqs
  <2>1. PICK g \in [0 .. n -> Seq(Sources)] : Joins(g, seqs) /\ Fulfilled(c) = g[n]
    BY <1>2, <1>3, FlattenRecursion
  <2>2. g[0] = <<>> /\ \A i \in 1 .. n : g[i] = g[i - 1] \o seqs[i]
    BY <1>2, <2>1 DEF Joins
  <2>3. ASSUME NEW i \in 1 .. n PROVE g[i - 1] \in Seq(Sources) /\ seqs[i] \in Seq(Sources)
    <3>1. i - 1 \in 0 .. n
      BY <1>1
    <3>2. g[i - 1] \in Seq(Sources)
      BY <2>1, <3>1
    <3>3. seqs[i] \in Seq(Sources)
      BY <1>2
    <3> QED
      BY <3>2, <3>3
  <2>4. \A i \in 1 .. n : Len(g[i]) <= Len(g[i - 1]) + 1
    BY <1>2, <2>2, <2>3
  <2>5. Len(g[0]) = 0 /\ \A i \in 0 .. n : Len(g[i]) \in Nat
    BY <1>1, <2>1, <2>2
  <2>6. 1 - 1 = 0 /\ 2 - 1 = 1 /\ 3 - 1 = 2
    OBVIOUS
  <2>7. 1 <= n => Len(g[1]) <= 1
    BY <1>1, <2>4, <2>5, <2>6
  <2>8. 2 <= n => Len(g[2]) <= 2
    BY <1>1, <2>4, <2>5, <2>6, <2>7
  <2>9. 3 <= n => Len(g[3]) <= 3
    BY <1>1, <2>4, <2>5, <2>6, <2>8
  <2> QED
    BY <1>1, <2>1, <2>5, <2>7, <2>8, <2>9
<1>6. ASSUME NEW i \in 1 .. n
      PROVE  Range(seqs[i]) = IF settled[c][sources[i]] = Rejected THEN {} ELSE {sources[i]}
  <2>1. CASE settled[c][sources[i]] = Rejected
    BY <1>1, <2>1 DEF Range
  <2>2. CASE settled[c][sources[i]] # Rejected
    <3>1. seqs[i] = <<sources[i]>>
      BY <1>1, <2>2
    <3> QED
      BY <2>2, <3>1 DEF Range
  <2> QED
    BY <2>1, <2>2
<1>7. Range(sources) = {sources[i] : i \in 1 .. n}
  BY <1>1 DEF Range
<1> HIDE DEF seqs
<1> QED
  BY <1>4, <1>5, <1>6, <1>7 DEF MaxBodies, sources

\* Whatever a source answers makes a good plan or none.
LEMMA AnswersGood ==
    ASSUME NEW c \in Calls, NEW intent \in Intents[c], NEW s \in Sources, NEW al,
           NEW candidate \in Quotes(s, intent, al)
    PROVE  \/ PrepareCandidate(intent, candidate) = NoPlan
           \/ GoodPlan(PrepareCandidate(intent, candidate))
<1>1. intent.token \in Tokens \cup {Native}
  BY NamesAssumption
<1> QED
  BY <1>1, CandidatePlansGood

\* What a source answers is named after it.
LEMMA AnswersNamed ==
    ASSUME NEW intent, NEW s \in Sources, NEW al, NEW candidate \in Quotes(s, intent, al)
    PROVE  candidate.source = s
BY DEF Quotes, QuoteEkubo, QuoteZeroX, QuoteAcross, QuoteLayerZero, QuoteLiFi, Candidate, Sources

-------------------------------------------------------------------------------
\* A step of one call that fixes its plans at most once keeps the invariant if the
\* call does.
LEMMA CallMoves ==
    ASSUME PlansInv, NEW c \in Calls, UNCHANGED <<now, allowed, store, wallet>>,
           pc' \in [Calls ->
                {"idle", "quoting", "storing", "answered", "failed", "unavailable"}],
           DOMAIN request' = Calls, DOMAIN settled' = Calls, DOMAIN bodies' = Calls,
           \A d \in Calls \ {c} : /\ pc'[d] = pc[d] /\ request'[d] = request[d]
                                  /\ settled'[d] = settled[d] /\ bodies'[d] = bodies[d],
           CallHolds(c, pc'[c], request'[c], settled'[c], bodies'[c]),
           bodies'[c] = bodies[c] \/ bodies[c] = <<>>
    PROVE  PlansInv'
<1>1. \A d \in Calls : CallHolds(d, pc'[d], request'[d], settled'[d], bodies'[d])
  BY DEF PlansInv
<1>2. ASSUME NEW ref \in DOMAIN store PROVE ObjectHolds(ref)'
  <2>1. ObjectHolds(ref) /\ ref[1] \in Calls
    BY DEF PlansInv, ObjectHolds, Refs
  <2>2. ref[1] = c => bodies[c] # <<>>
    BY <2>1 DEF ObjectHolds, ToStore
  <2>3. bodies'[ref[1]] = bodies[ref[1]]
    BY <2>1, <2>2
  <2> QED
    BY <2>1, <2>3 DEF ObjectHolds, ToStore
<1> QED
  BY <1>1, <1>2 DEF PlansInv

\* A step of the wallet, the interface or the clock keeps the invariant if what
\* became of the one reference it may touch does.
LEMMA WalletMoves ==
    ASSUME PlansInv, UNCHANGED <<pc, request, settled, bodies, store>>,
           now' \in now .. MaxTime, allowed' \in Allowances,
           DOMAIN wallet' = Refs, NEW ref,
           \A r \in Refs \ {ref} : wallet'[r] = wallet[r],
           ref \in Refs => WalletHolds(wallet'[ref])
    PROVE  PlansInv'
<1>1. \A r \in Refs : WalletHolds(wallet'[r])
  BY DEF PlansInv
<1>2. \A r \in DOMAIN store : ObjectHolds(r)'
  BY TimeAssumption DEF PlansInv, ObjectHolds, ToStore
<1>3. now' \in 0 .. MaxTime
  BY TimeAssumption DEF PlansInv
<1> QED
  BY <1>1, <1>2, <1>3 DEF PlansInv

\* No plan is held at first.
LEMMA InitPlans == Init => PlansInv
<1> SUFFICES ASSUME Init PROVE PlansInv
  OBVIOUS
<1>1. \A c \in Calls : CallHolds(c, pc[c], request[c], settled[c], bodies[c])
  BY DEF Init, CallHolds, Unasked, MaxBodies
<1>2. \A ref \in Refs : WalletHolds(wallet[ref])
  BY DEF Init, WalletHolds, Idle
<1>3. allowed \in Allowances /\ now \in 0 .. MaxTime
  BY UnlimitedAssumption, TimeAssumption DEF Init, Allowances
<1> QED
  BY <1>1, <1>2, <1>3 DEF Init, PlansInv

\* The plans of a call whose sources have all settled.
LEMMA CollectHolds ==
    ASSUME PlansInv, NEW c \in Calls, CollectQuotes(c)
    PROVE  PlansInv'
<1> DEFINE intent == request[c]
           plans == [i \in DOMAIN Fulfilled(c) |->
                        PrepareCandidate(intent, settled[c][Fulfilled(c)[i]])]
           n == Len(Fulfilled(c))
<1>1. /\ CallHolds(c, pc[c], request[c], settled[c], bodies[c])
      /\ pc[c] = "quoting" /\ DOMAIN pc = Calls /\ DOMAIN bodies = Calls
      /\ bodies' = [bodies EXCEPT ![c] = plans]
      /\ pc' = [pc EXCEPT ![c] = IF plans = <<>> THEN "unavailable" ELSE "storing"]
      /\ UNCHANGED <<now, allowed, request, settled, store, wallet>>
      /\ \A s \in Range(RequestedSources(intent)) : settled[c][s] # Pending
  BY DEF PlansInv, CollectQuotes
<1>2. intent \in Intents[c] /\ bodies[c] = <<>> /\ DOMAIN settled[c] = Sources
  BY <1>1 DEF CallHolds
<1>3. /\ n \in 0 .. MaxBodies /\ DOMAIN Fulfilled(c) = 1 .. n
      /\ \A i \in 1 .. n : Fulfilled(c)[i] \in Sources /\ Fulfilled(c)[i] \in Range(Fulfilled(c))
  <2>1. Fulfilled(c) \in Seq(Sources) /\ Len(Fulfilled(c)) <= 3
    BY FulfilledHolds DEF MaxBodies
  <2>2. n \in Nat /\ DOMAIN Fulfilled(c) = 1 .. n /\ \A i \in 1 .. n : Fulfilled(c)[i] \in Sources
    BY <2>1
  <2> QED
    BY <2>1, <2>2 DEF Range, MaxBodies
<1>4. ASSUME NEW s \in Range(Fulfilled(c)), s \in Sources
      PROVE  PrepareCandidate(intent, settled[c][s]) = NoPlan
             \/ GoodPlan(PrepareCandidate(intent, settled[c][s]))
  <2>1. settled[c][s] \notin {Pending, Rejected}
    BY <1>1, FulfilledHolds
  <2>2. PICK al : settled[c][s] \in Quotes(s, intent, al)
    BY <1>1, <1>4, <2>1 DEF CallHolds
  <2> QED
    BY <1>2, <1>4, <2>2, AnswersGood
<1>5. DOMAIN plans = 1 .. n /\ Len(plans) = n
  BY <1>3
<1>6. \A i \in 1 .. n : plans[i] = NoPlan \/ GoodPlan(plans[i])
  BY <1>3, <1>4
<1>7. ASSUME NEW s \in Range(RequestedSources(intent)), settled[c][s] # Rejected
      PROVE  \E i \in 1 .. n : plans[i] = PrepareCandidate(intent, settled[c][s])
  <2>1. s \in Range(Fulfilled(c))
    BY <1>7, FulfilledHolds
  <2>2. PICK i \in 1 .. n : s = Fulfilled(c)[i]
    BY <1>3, <2>1 DEF Range
  <2> QED
    BY <1>3, <2>2
<1> HIDE DEF plans, n
<1>8. CallHolds(c, pc'[c], request'[c], settled'[c], bodies'[c])
  <2>1. /\ pc'[c] \in {"unavailable", "storing"} /\ bodies'[c] = plans
        /\ request'[c] = intent /\ settled'[c] = settled[c]
    <3>1. c \in DOMAIN pc /\ c \in DOMAIN bodies
      BY <1>1
    <3> QED
      BY <1>1, <3>1
  <2>2. \A s \in Sources : settled[c][s] \in {Pending, Rejected}
            \/ \E al \in 0 .. Unlimited : settled[c][s] \in Quotes(s, intent, al)
    BY <1>1 DEF CallHolds
  <2> QED
    BY <1>2, <1>3, <1>5, <1>6, <1>7, <2>1, <2>2 DEF CallHolds
<1> QED
  BY <1>1, <1>2, <1>8, CallMoves DEF PlansInv

\* What a plan the wallet carries out comes to.
LEMMA ExecuteHolds ==
    ASSUME PlansInv, NEW ref \in Refs, NEW full \in SUBSET Tokens,
           ExecuteAtomic(ref, full) \/ ExecuteStep(ref, full)
    PROVE  PlansInv'
<1> DEFINE held == wallet[ref]
           plan == held.plan
<1>1. /\ WalletHolds(held) /\ held.status = "held"
      /\ DOMAIN wallet = Refs /\ now \in 0 .. MaxTime /\ allowed \in Allowances
      /\ UNCHANGED <<now, pc, request, settled, bodies, store>>
  BY DEF PlansInv, ExecuteAtomic, ExecuteStep
<1>2. /\ GoodPlan(plan) /\ held.step \in Nat /\ held.step < Len(plan.steps)
      /\ DOMAIN held = {"status", "plan", "step", "residue"}
  BY <1>1 DEF WalletHolds
<1>3. CASE ExecuteAtomic(ref, full)
  <2> DEFINE end == BatchEnd(allowed, plan, full)
  <2>1. /\ plan.atomic
        /\ allowed' = IF end.result = "ok" THEN end.allowed ELSE allowed
        /\ wallet' = [wallet EXCEPT
                ![ref].status = IF end.result = "ok" THEN "done" ELSE Stopped(end),
                ![ref].residue = IF end.result = "ok" THEN Residue(end.allowed, plan) ELSE {}]
    BY <1>3 DEF ExecuteAtomic
  <2>2. /\ end \in Ends /\ end.result # "collided"
        /\ Settlers(plan) # {} => end.result = "ok"
        /\ \A p \in Residue(end.allowed, plan) : p[2] \in Uncleaned
    BY <1>1, <1>2, <2>1, GoodPlansHold
  <2>3. Residue(end.allowed, plan) \subseteq Pairs
    BY DEF Residue
  <2>4. allowed' \in Allowances
    BY <1>1, <2>1, <2>2 DEF Ends
  <2> HIDE DEF end
  <2>5. /\ wallet'[ref].plan = plan /\ wallet'[ref].step = held.step
        /\ wallet'[ref].status = IF end.result = "ok" THEN "done" ELSE "unfunded"
        /\ wallet'[ref].residue = IF end.result = "ok" THEN Residue(end.allowed, plan) ELSE {}
        /\ DOMAIN wallet'[ref] = {"status", "plan", "step", "residue"}
        /\ DOMAIN wallet' = Refs /\ \A r \in Refs \ {ref} : wallet'[r] = wallet[r]
    BY <1>1, <1>2, <2>1, <2>2 DEF Stopped
  <2>6. WalletHolds(wallet'[ref])
    BY <1>2, <2>1, <2>2, <2>3, <2>5 DEF WalletHolds
  <2> QED
    BY <1>1, <2>4, <2>5, <2>6, WalletMoves, TimeAssumption
<1>4. CASE ExecuteStep(ref, full)
  <2> DEFINE next == held.step + 1
             end == Transact(allowed, plan.steps[next], full)
             last == next = Len(plan.steps)
  <2>1. /\ ~plan.atomic
        /\ allowed' = end.allowed
        /\ wallet' = [wallet EXCEPT
                ![ref].step = next,
                ![ref].status = IF end.result # "ok" THEN Stopped(end)
                                ELSE IF last THEN "done" ELSE "held",
                ![ref].residue = IF last \/ end.result # "ok"
                                 THEN Residue(end.allowed, plan) ELSE {}]
    BY <1>4 DEF ExecuteStep
  <2>2. plan.steps[next] \in Transactions
    BY <1>2 DEF GoodPlan
  <2>3. end \in Ends
    BY <1>1, <2>2, TransactType
  <2>4. Residue(end.allowed, plan) \subseteq Pairs
    BY DEF Residue
  <2>5. allowed' \in Allowances
    BY <2>1, <2>3 DEF Ends
  <2>6. Len(plan.steps) \in Nat
    BY <1>2 DEF GoodPlan
  <2> HIDE DEF end
  <2>7. /\ wallet'[ref].plan = plan /\ wallet'[ref].step = next
        /\ wallet'[ref].status \in {"collided", "unfunded", "done", "held"}
        /\ wallet'[ref].status = "held" => next # Len(plan.steps)
        /\ wallet'[ref].residue \in {Residue(end.allowed, plan), {}}
        /\ DOMAIN wallet'[ref] = {"status", "plan", "step", "residue"}
        /\ DOMAIN wallet' = Refs /\ \A r \in Refs \ {ref} : wallet'[r] = wallet[r]
    BY <1>1, <1>2, <2>1 DEF Stopped
  <2>8. next \in Nat /\ (next # Len(plan.steps) => next < Len(plan.steps))
    BY <1>2, <2>6
  <2> HIDE DEF next
  <2>9. WalletHolds(wallet'[ref])
    BY <1>2, <2>1, <2>4, <2>7, <2>8 DEF WalletHolds
  <2> QED
    BY <1>1, <2>5, <2>7, <2>9, WalletMoves, TimeAssumption
<1> QED
  BY <1>3, <1>4

\* Every step keeps the plans that are held good.
LEMMA PlansStep == PlansInv /\ [Next]_vars => PlansInv'
<1> SUFFICES ASSUME PlansInv, [Next]_vars PROVE PlansInv'
  OBVIOUS
<1>1. ASSUME NEW c \in Calls, NEW intent \in Intents[c], AskQuotes(c, intent) PROVE PlansInv'
  <2>1. CallHolds(c, pc[c], request[c], settled[c], bodies[c]) /\ pc[c] = "idle"
    BY <1>1 DEF PlansInv, AskQuotes
  <2>2. /\ pc'[c] = "quoting" /\ request'[c] = intent
        /\ settled' = settled /\ bodies' = bodies
    BY <1>1 DEF PlansInv, AskQuotes
  <2>3. CallHolds(c, pc'[c], request'[c], settled'[c], bodies'[c])
    BY <2>1, <2>2 DEF CallHolds
  <2> QED
    BY <1>1, <2>3, CallMoves DEF PlansInv, AskQuotes
<1>2. ASSUME NEW c \in Calls, NEW s \in Sources, Settle(c, s) PROVE PlansInv'
  <2>1. CallHolds(c, pc[c], request[c], settled[c], bodies[c]) /\ pc[c] = "quoting"
    BY <1>2 DEF PlansInv, Settle
  <2> DEFINE al == StandingAllowance(request[c].token, s)
  <2>2. PICK outcome \in {Rejected} \cup Quotes(s, request[c], al) :
          settled' = [settled EXCEPT ![c][s] = outcome]
    BY <1>2 DEF Settle
  <2>3. al \in 0 .. Unlimited
    BY UnlimitedAssumption DEF StandingAllowance, PlansInv, Allowances
  <2> HIDE DEF al
  <2>4. /\ UNCHANGED <<now, allowed, pc, request, bodies, store, wallet>>
        /\ DOMAIN settled' = DOMAIN settled /\ c \in DOMAIN settled
        /\ \A d \in Calls \ {c} : settled'[d] = settled[d]
        /\ settled'[c] = [settled[c] EXCEPT ![s] = outcome]
    BY <1>2, <2>2 DEF Settle, PlansInv
  <2>5. CallHolds(c, pc'[c], request'[c], settled'[c], bodies'[c])
    BY <2>1, <2>2, <2>3, <2>4 DEF CallHolds
  <2> QED
    BY <2>4, <2>5, CallMoves DEF PlansInv
<1>3. ASSUME NEW c \in Calls, CollectQuotes(c) PROVE PlansInv'
  BY <1>3, CollectHolds
<1>4. ASSUME NEW c \in Calls, NEW plan \in ActionPlans[c], PrepareAction(c, plan) PROVE PlansInv'
  <2>1. CallHolds(c, pc[c], request[c], settled[c], bodies[c]) /\ pc[c] = "idle"
    BY <1>4 DEF PlansInv, PrepareAction
  <2>2. /\ pc'[c] = "storing" /\ bodies'[c] = <<plan>>
        /\ settled' = settled /\ request' = request
    BY <1>4 DEF PlansInv, PrepareAction
  <2>3. GoodPlan(plan)
    BY ToolPlansGood
  <2>4. /\ Len(<<plan>>) = 1 /\ DOMAIN <<plan>> = 1 .. 1 /\ <<plan>>[1] = plan
        /\ \A i \in 1 .. 1 : i = 1
    OBVIOUS
  <2>5. CallHolds(c, pc'[c], request'[c], settled'[c], bodies'[c])
    BY <2>1, <2>2, <2>3, <2>4 DEF CallHolds, MaxBodies
  <2> QED
    BY <1>4, <2>1, <2>5, CallMoves DEF PlansInv, PrepareAction, CallHolds
<1>5. ASSUME NEW c \in Calls, StoreArtifact(c) PROVE PlansInv'
  <2>1. PICK i \in NotStored(c) :
          store' = [ref \in DOMAIN store \cup {<<c, i>>} |->
                      IF ref = <<c, i>> THEN [body |-> bodies[c][i], uploaded |-> now]
                      ELSE store[ref]]
    BY <1>5 DEF StoreArtifact
  <2>2. UNCHANGED <<now, allowed, pc, request, settled, bodies, wallet>>
    BY <1>5 DEF StoreArtifact
  <2>3. CallHolds(c, pc[c], request[c], settled[c], bodies[c]) /\ now \in 0 .. MaxTime
    BY DEF PlansInv
  <2>4. i \in ToStore(c) /\ i \in 1 .. MaxBodies /\ <<c, i>> \in Refs /\ now \in 0 .. now
    BY <2>3 DEF NotStored, ToStore, CallHolds, Refs, MaxBodies
  <2>5. ASSUME NEW ref \in DOMAIN store' PROVE ObjectHolds(ref)'
    <3>1. CASE ref = <<c, i>>
      BY <2>1, <2>2, <2>4, <3>1 DEF ObjectHolds, ToStore
    <3>2. CASE ref # <<c, i>>
      <4>1. ref \in DOMAIN store /\ store'[ref] = store[ref] /\ ObjectHolds(ref)
        BY <2>1, <3>2 DEF PlansInv
      <4> QED
        BY <2>2, <4>1 DEF ObjectHolds, ToStore
    <3> QED
      BY <3>1, <3>2
  <2> QED
    BY <2>2, <2>5 DEF PlansInv
<1>6. ASSUME NEW c \in Calls, StoreFails(c) \/ Respond(c) PROVE PlansInv'
  <2>1. CallHolds(c, pc[c], request[c], settled[c], bodies[c]) /\ pc[c] = "storing"
    BY <1>6 DEF PlansInv, StoreFails, Respond
  <2>2. /\ pc'[c] \in {"failed", "answered"} /\ settled'[c] = Unasked
        /\ UNCHANGED <<now, allowed, request, bodies, store, wallet>>
        /\ pc' \in [Calls ->
             {"idle", "quoting", "storing", "answered", "failed", "unavailable"}]
        /\ DOMAIN settled' = Calls
        /\ \A d \in Calls \ {c} : pc'[d] = pc[d] /\ settled'[d] = settled[d]
    BY <1>6 DEF PlansInv, StoreFails, Respond
  <2>3. CallHolds(c, pc'[c], request'[c], settled'[c], bodies'[c])
    BY <2>1, <2>2 DEF CallHolds, Unasked
  <2> QED
    BY <2>2, <2>3, CallMoves DEF PlansInv
<1>7. ASSUME NEW c \in Calls, NEW i \in 1 .. MaxBodies, Fetch(c, i) PROVE PlansInv'
  <2> DEFINE ref == <<c, i>>
  <2>1. /\ ref \in Refs /\ DOMAIN wallet = Refs /\ now \in 0 .. MaxTime /\ allowed \in Allowances
        /\ CallHolds(c, pc[c], request[c], settled[c], bodies[c])
    BY DEF PlansInv, Refs
  <2>2. /\ UNCHANGED <<now, allowed, pc, request, settled, bodies, store>>
        /\ i \in ToStore(c)
        /\ DOMAIN wallet' = Refs /\ \A r \in Refs \ {ref} : wallet'[r] = wallet[r]
        /\ wallet'[ref] = IF LoadArtifact(ref)
                          THEN [Idle EXCEPT !.status = "held", !.plan = store[ref].body]
                          ELSE [Idle EXCEPT !.status = "missed"]
    BY <1>7, <2>1 DEF Fetch
  <2>3. CASE LoadArtifact(ref)
    <3>1. store[ref].body = bodies[c][i]
      BY <2>3 DEF LoadArtifact, PlansInv, ObjectHolds
    <3>2. GoodPlan(bodies[c][i])
      BY <2>1, <2>2 DEF CallHolds, ToStore
    <3>3. bodies[c][i].steps \in Seq(Transactions) /\ bodies[c][i].steps # <<>>
      BY <3>2 DEF GoodPlan
    <3>4. 0 < Len(bodies[c][i].steps)
      BY <3>3
    <3>5. WalletHolds(wallet'[ref])
      BY <2>2, <2>3, <3>1, <3>2, <3>4 DEF WalletHolds, Idle
    <3> QED
      BY <2>1, <2>2, <3>5, WalletMoves, TimeAssumption
  <2>4. CASE ~LoadArtifact(ref)
    <3>1. WalletHolds(wallet'[ref])
      BY <2>2, <2>4 DEF WalletHolds, Idle
    <3> QED
      BY <2>1, <2>2, <3>1, WalletMoves, TimeAssumption
  <2> QED
    BY <2>3, <2>4
<1>8. ASSUME NEW ref \in Refs, Execute(ref) PROVE PlansInv'
  BY <1>8, ExecuteHolds DEF Execute
<1>9. ASSUME NEW pair \in Standing, Grant(pair) PROVE PlansInv'
  <2>1. allowed' \in Allowances
    <3>1. allowed \in [Pairs -> 0 .. Unlimited] /\ allowed' = [allowed EXCEPT ![pair] = Unlimited]
      BY <1>9 DEF Grant, PlansInv, Allowances
    <3>2. Unlimited \in 0 .. Unlimited
      BY UnlimitedAssumption
    <3> QED
      BY <3>1, <3>2 DEF Allowances
  <2> QED
    BY <1>9, <2>1, WalletMoves, TimeAssumption DEF Grant, PlansInv
<1>10. CASE Tick
  BY <1>10, WalletMoves, TimeAssumption DEF Tick, PlansInv
<1>11. CASE UNCHANGED vars
  BY <1>11, WalletMoves, TimeAssumption DEF vars, PlansInv
<1> QED
  BY <1>1, <1>2, <1>3, <1>4, <1>5, <1>6, <1>7, <1>8, <1>9, <1>10, <1>11 DEF Next, Server

\* Good plans are all a call builds, stores and hands out, and all a wallet carries out.
THEOREM PlansInvariance == Spec => []PlansInv
  BY InitPlans, PlansStep, PTL DEF Spec

-------------------------------------------------------------------------------
\* The variables keep their types, and the answers of a source are its own.
THEOREM TypeCorrect == Spec => []TypeOK
<1>1. PlansInv => TypeOK
  <2> SUFFICES ASSUME PlansInv PROVE TypeOK
    OBVIOUS
  <2>1. ASSUME NEW c \in Calls
        PROVE  /\ request[c] \in Intents[c] \cup {None}
               /\ \A s \in Sources : settled[c][s] \in {Pending, Rejected} \/ settled[c][s].source = s
               /\ Len(bodies[c]) <= MaxBodies
    <3>1. CallHolds(c, pc[c], request[c], settled[c], bodies[c])
      BY DEF PlansInv
    <3>2. Len(bodies[c]) <= MaxBodies
      <4>1. Len(bodies[c]) \in 0 .. 3
        BY <3>1 DEF CallHolds, MaxBodies
      <4>2. \A n \in 0 .. 3 : n <= 3
        OBVIOUS
      <4> QED
        BY <4>1, <4>2 DEF MaxBodies
    <3> QED
      BY <3>1, <3>2, AnswersNamed DEF CallHolds
  <2>2. \A ref \in DOMAIN store : ref \in Refs /\ store[ref].uploaded \in 0 .. now
    BY DEF PlansInv, ObjectHolds
  <2>3. \A ref \in Refs :
          /\ wallet[ref].status \in {"none", "held", "missed", "done", "collided", "unfunded"}
          /\ wallet[ref].residue \subseteq Pairs
    BY DEF PlansInv, WalletHolds
  <2> QED
    BY <2>1, <2>2, <2>3 DEF PlansInv, TypeOK, Allowances
<1> QED
  BY <1>1, PlansInvariance, PTL

\* No atomic plan of any builder stops at an approve guard, whatever allowances
\* other plans and the interface left (withAllowanceResets).
THEOREM AtomicNeverCollidesHolds == Spec => []AtomicNeverCollides
<1>1. PlansInv => AtomicNeverCollides
  BY DEF PlansInv, WalletHolds, AtomicNeverCollides, Carried
<1> QED
  BY <1>1, PlansInvariance, PTL

\* An atomic plan that approves is funded whenever it is carried out
\* (buildApprovalTransactions).
THEOREM ApprovingPlanIsFundedHolds == Spec => []ApprovingPlanIsFunded
<1>1. PlansInv => ApprovingPlanIsFunded
  BY DEF PlansInv, WalletHolds, ApprovingPlanIsFunded, Carried
<1> QED
  BY <1>1, PlansInvariance, PTL

\* What an atomic plan leaves is an allowance of a builder without a cleanup.
THEOREM AtomicReturnsAllowanceHolds == Spec => []AtomicReturnsAllowance
<1>1. PlansInv => AtomicReturnsAllowance
  BY DEF PlansInv, WalletHolds, AtomicReturnsAllowance, Carried
<1> QED
  BY <1>1, PlansInvariance, PTL

\* A plan that approves nothing revokes no allowance the user granted elsewhere,
\* in any transaction of it (prepareCandidate).
THEOREM StandingAllowanceKeptHolds == Spec => StandingAllowanceKept
<1> DEFINE Kept ==
      \A ref \in Refs :
        (/\ wallet[ref].status = "held"
         /\ wallet'[ref] # wallet[ref]
         /\ Settlers(wallet[ref].plan) = {}
         /\ \E i \in DOMAIN wallet[ref].plan.steps : ~IsApproval(wallet[ref].plan.steps[i]))
            => \A pair \in Pairs : allowed[pair] = Unlimited => allowed'[pair] = Unlimited
<1>1. ASSUME PlansInv, [Next]_vars PROVE [Kept]_vars
  <2> DEFINE plan(r) == wallet[r].plan
  <2> SUFFICES ASSUME NEW ref \in Refs, wallet[ref].status = "held", wallet'[ref] # wallet[ref],
                      Settlers(plan(ref)) = {},
                      \E i \in DOMAIN plan(ref).steps : ~IsApproval(plan(ref).steps[i]),
                      NEW pair \in Pairs, allowed[pair] = Unlimited
               PROVE  allowed'[pair] = Unlimited
    OBVIOUS
  <2>1. PICK full \in SUBSET Tokens : ExecuteAtomic(ref, full) \/ ExecuteStep(ref, full)
    <3>1. DOMAIN wallet = Refs /\ wallet' # wallet
      BY <1>1 DEF PlansInv
    <3>2. ASSUME NEW c \in Calls, Server(c) PROVE FALSE
      BY <3>1, <3>2 DEF Server, AskQuotes, Settle, CollectQuotes, PrepareAction, StoreArtifact,
                        StoreFails, Respond
    <3>3. ASSUME NEW c \in Calls, NEW i \in 1 .. MaxBodies, Fetch(c, i) PROVE FALSE
      <4>1. wallet[<<c, i>>].status = "none" /\ \A r \in Refs \ {<<c, i>>} : wallet'[r] = wallet[r]
        BY <3>1, <3>3 DEF Fetch
      <4> QED
        BY <4>1
    <3>4. ASSUME NEW r \in Refs, Execute(r) PROVE r = ref
      BY <3>1, <3>4 DEF Execute, ExecuteAtomic, ExecuteStep
    <3>5. Next
      BY <1>1, <3>1 DEF vars
    <3>6. ~Tick /\ \A p \in Standing : ~Grant(p)
      BY <3>1 DEF Tick, Grant
    <3>7. Execute(ref)
      BY <3>2, <3>3, <3>4, <3>5, <3>6 DEF Next
    <3> QED
      BY <3>7 DEF Execute
  <2>2. /\ WalletHolds(wallet[ref]) /\ allowed \in Allowances
    BY <1>1 DEF PlansInv
  <2>3. GoodPlan(plan(ref)) /\ wallet[ref].step \in Nat /\ wallet[ref].step < Len(plan(ref).steps)
    BY <2>2 DEF WalletHolds
  <2>4. /\ plan(ref).steps \in Seq(Transactions)
        /\ \A i \in DOMAIN plan(ref).steps : ~IsApproval(plan(ref).steps[i])
    BY <2>3 DEF GoodPlan, RevokesNothing
  <2>5. CASE ExecuteAtomic(ref, full)
    <3>1. BatchEnd(allowed, plan(ref), full).allowed[pair] = Unlimited
      BY <2>2, <2>4, CallsKeepUnlimited
    <3> QED
      BY <2>5, <3>1 DEF ExecuteAtomic
  <2>6. CASE ExecuteStep(ref, full)
    <3> DEFINE next == wallet[ref].step + 1
               step == plan(ref).steps[next]
    <3>1. next \in DOMAIN plan(ref).steps /\ ~IsApproval(step)
      BY <2>3, <2>4
    <3>2. allowed' = Called(allowed, step, full).allowed
      BY <2>6, <3>1 DEF ExecuteStep, Transact
    <3> HIDE DEF step
    <3> QED
      BY <3>2 DEF Called
  <2> QED
    BY <2>1, <2>5, <2>6
<1> QED
  BY <1>1, PlansInvariance, PTL DEF Spec, StandingAllowanceKept

\* A source that fails takes no other quote of its call down: none is unavailable
\* while another source answered, and every plan is stored when the call answers.
THEOREM FailureSparesOtherSourcesHolds == Spec => FailureSparesOtherSources
<1> DEFINE Asked(c) == Range(RequestedSources(request[c]))
           Delivered(c, s) ==
              \E i \in ToStore(c) : <<c, i>> \in DOMAIN store
                      /\ store[<<c, i>>].body = PrepareCandidate(request[c], settled[c][s])
<1>1. ASSUME PlansInv, [Next]_vars, NEW c \in Calls,
             pc'[c] = "unavailable", pc[c] = "quoting", NEW s \in Asked(c)
      PROVE  settled[c][s] = Rejected
  <2>1. CollectQuotes(c)
    <3>1. pc'[c] # pc[c] /\ DOMAIN pc = Calls
      BY <1>1 DEF PlansInv
    <3>2. PICK d \in Calls : Server(d)
      BY <1>1, <3>1 DEF Next, vars, Fetch, Execute, ExecuteAtomic, ExecuteStep, Grant, Tick
    <3> QED
      BY <1>1, <3>1, <3>2 DEF Server, AskQuotes, Settle, CollectQuotes,
            PrepareAction, StoreArtifact, StoreFails, Respond
  <2> DEFINE plans == [i \in DOMAIN Fulfilled(c) |->
                        PrepareCandidate(request[c], settled[c][Fulfilled(c)[i]])]
  <2>2. plans = <<>>
    BY <1>1, <2>1 DEF CollectQuotes, PlansInv
  <2>3. DOMAIN Fulfilled(c) = {}
    BY <2>2
  <2>4. s \notin Range(Fulfilled(c))
    BY <2>3 DEF Range
  <2> QED
    BY <2>4, FulfilledHolds
<1>2. ASSUME PlansInv, [Next]_vars, NEW c \in Calls,
             pc'[c] = "answered", pc[c] = "storing", request[c] # None,
             NEW s \in Asked(c), settled[c][s] # Rejected,
             PrepareCandidate(request[c], settled[c][s]) # NoPlan
      PROVE  Delivered(c, s)
  <2>1. Respond(c)
    <3>1. pc'[c] # pc[c] /\ DOMAIN pc = Calls
      BY <1>2 DEF PlansInv
    <3>2. PICK d \in Calls : Server(d)
      BY <1>2, <3>1 DEF Next, vars, Fetch, Execute, ExecuteAtomic, ExecuteStep, Grant, Tick
    <3> QED
      BY <1>2, <3>1, <3>2 DEF Server, AskQuotes, Settle, CollectQuotes,
            PrepareAction, StoreArtifact, StoreFails, Respond
  <2>2. PICK i \in DOMAIN bodies[c] : bodies[c][i] = PrepareCandidate(request[c], settled[c][s])
    BY <1>2 DEF PlansInv, CallHolds
  <2>3. i \in ToStore(c) /\ <<c, i>> \in DOMAIN store
    BY <1>2, <2>1, <2>2 DEF Respond, NotStored, ToStore
  <2>4. store[<<c, i>>].body = bodies[c][i]
    BY <1>2, <2>3 DEF PlansInv, ObjectHolds
  <2> QED
    BY <2>2, <2>3, <2>4
<1> DEFINE Spared ==
      \A c \in Calls :
        /\ pc'[c] = "unavailable" /\ pc[c] = "quoting"
            => \A s \in Range(RequestedSources(request[c])) : settled[c][s] = Rejected
        /\ pc'[c] = "answered" /\ pc[c] = "storing" /\ request[c] # None
            => \A s \in Range(RequestedSources(request[c])) :
                settled[c][s] # Rejected
                /\ PrepareCandidate(request[c], settled[c][s]) # NoPlan
                    => \E i \in ToStore(c) : <<c, i>> \in DOMAIN store
                            /\ store[<<c, i>>].body = PrepareCandidate(request[c], settled[c][s])
<1>3. ASSUME PlansInv, [Next]_vars PROVE [Spared]_vars
  BY <1>1, <1>2, <1>3
<1> QED
  BY <1>3, PlansInvariance, PTL DEF Spec, FailureSparesOtherSources

-------------------------------------------------------------------------------
\* MissMeansExpired is not inductive: it speaks of the moment a wallet fetches, and
\* rests on what has become of the puts of the call that answered and on objects
\* staying as they were stored.

\* An object was stored no later than now, and a call answers only when every
\* plan of its answer is in the bucket.
HandoffInv ==
    /\ now \in Nat
    /\ DOMAIN wallet = Refs /\ DOMAIN pc = Calls
    /\ \A ref \in DOMAIN store : store[ref].uploaded \in Nat
    /\ \A c \in Calls : pc[c] = "answered" => NotStored(c) = {}
    /\ MissMeansExpired

\* What every step keeps of the bucket: objects stay, and stay as they are.
ObjectsStay ==
    /\ DOMAIN store \subseteq DOMAIN store'
    /\ \A ref \in DOMAIN store : store'[ref] = store[ref]

-------------------------------------------------------------------------------
\* A step of the wallet or the chain that leaves the call states, the clock and
\* the bucket alone keeps the invariant if it makes no reference miss.
LEMMA WalletKeeps ==
    ASSUME HandoffInv, UNCHANGED <<now, pc, bodies, store>>, DOMAIN wallet' = Refs,
           \A ref \in Refs : wallet'[ref].status = "missed" => wallet[ref].status = "missed"
    PROVE  HandoffInv'
BY DEF HandoffInv, MissMeansExpired, NotStored, ToStore

\* A step that leaves the wallet alone and keeps the objects keeps what was
\* missed expired: the clock only advances.
LEMMA MissesStay ==
    ASSUME HandoffInv, ObjectsStay, wallet' = wallet, now' \in Nat, now' >= now,
           TTL \in Nat
    PROVE  MissMeansExpired'
BY DEF HandoffInv, MissMeansExpired, ObjectsStay

\* The invariant of misses holds at first.
LEMMA InitHandoff == Init => HandoffInv
<1> SUFFICES ASSUME Init PROVE HandoffInv
  OBVIOUS
<1>1. \A ref \in Refs : wallet[ref].status # "missed"
  BY DEF Init, Idle
<1>2. DOMAIN store = {}
  BY DEF Init
<1>3. \A c \in Calls : pc[c] # "answered"
  BY DEF Init
<1> QED
  BY <1>1, <1>2, <1>3 DEF Init, HandoffInv, MissMeansExpired, NotStored

\* And every step keeps it.
LEMMA HandoffStep == HandoffInv /\ [Next]_vars => HandoffInv'
<1> SUFFICES ASSUME HandoffInv, [Next]_vars PROVE HandoffInv'
  OBVIOUS
<1> USE TimeAssumption
<1>1. ASSUME NEW c \in Calls, NEW intent, AskQuotes(c, intent) PROVE HandoffInv'
  <2>1. ObjectsStay /\ wallet' = wallet /\ now' = now
    BY <1>1 DEF AskQuotes, ObjectsStay
  <2>2. MissMeansExpired'
    BY <2>1, MissesStay DEF HandoffInv
  <2>3. \A d \in Calls : pc'[d] = "answered" => NotStored(d)' = {}
    BY <1>1 DEF AskQuotes, HandoffInv, NotStored, ToStore
  <2> QED
    BY <1>1, <2>2, <2>3 DEF AskQuotes, HandoffInv
<1>2. ASSUME NEW c \in Calls, NEW s, Settle(c, s) PROVE HandoffInv'
  <2>1. UNCHANGED <<now, pc, bodies, store, wallet>>
    BY <1>2 DEF Settle
  <2> QED
    BY <2>1, WalletKeeps DEF HandoffInv
<1>3. ASSUME NEW c \in Calls, CollectQuotes(c) PROVE HandoffInv'
  <2>1. /\ ObjectsStay /\ wallet' = wallet /\ now' = now
        /\ pc[c] = "quoting" /\ pc'[c] # "answered"
        /\ DOMAIN pc' = DOMAIN pc
        /\ \A d \in Calls \ {c} : pc'[d] = pc[d] /\ bodies'[d] = bodies[d]
    BY <1>3 DEF CollectQuotes, ObjectsStay, HandoffInv
  <2>2. MissMeansExpired'
    BY <2>1, MissesStay DEF HandoffInv
  <2>3. \A d \in Calls : pc'[d] = "answered" => NotStored(d)' = {}
    BY <1>3, <2>1 DEF CollectQuotes, HandoffInv, NotStored, ToStore
  <2> QED
    BY <1>3, <2>1, <2>2, <2>3 DEF CollectQuotes, HandoffInv
<1>4. ASSUME NEW c \in Calls, NEW plan, PrepareAction(c, plan) PROVE HandoffInv'
  <2>1. /\ ObjectsStay /\ wallet' = wallet /\ now' = now
        /\ pc'[c] # "answered"
        /\ DOMAIN pc' = DOMAIN pc
        /\ \A d \in Calls \ {c} : pc'[d] = pc[d] /\ bodies'[d] = bodies[d]
    BY <1>4 DEF PrepareAction, ObjectsStay, HandoffInv
  <2>2. MissMeansExpired'
    BY <2>1, MissesStay DEF HandoffInv
  <2>3. \A d \in Calls : pc'[d] = "answered" => NotStored(d)' = {}
    BY <1>4, <2>1 DEF PrepareAction, HandoffInv, NotStored, ToStore
  <2> QED
    BY <1>4, <2>1, <2>2, <2>3 DEF PrepareAction, HandoffInv
<1>5. ASSUME NEW c \in Calls, StoreArtifact(c) PROVE HandoffInv'
  <2>1. PICK i \in NotStored(c) :
          store' = [ref \in DOMAIN store \cup {<<c, i>>} |->
                      IF ref = <<c, i>> THEN [body |-> bodies[c][i], uploaded |-> now]
                      ELSE store[ref]]
    BY <1>5 DEF StoreArtifact
  <2>2. UNCHANGED <<now, pc, bodies, wallet>>
    BY <1>5 DEF StoreArtifact
  <2>3. ObjectsStay
    BY <2>1 DEF ObjectsStay, NotStored
  <2>4. MissMeansExpired'
    BY <2>2, <2>3, MissesStay DEF HandoffInv
  <2>5. \A d \in Calls : pc'[d] = "answered" => NotStored(d)' = {}
    BY <2>2, <2>3 DEF ObjectsStay, HandoffInv, NotStored, ToStore
  <2>6. \A ref \in DOMAIN store' : store'[ref].uploaded \in Nat
    BY <2>1 DEF HandoffInv
  <2> QED
    BY <2>2, <2>4, <2>5, <2>6 DEF HandoffInv
<1>6. ASSUME NEW c \in Calls, StoreFails(c) PROVE HandoffInv'
  <2>1. ObjectsStay /\ wallet' = wallet /\ now' = now
    BY <1>6 DEF StoreFails, ObjectsStay
  <2>2. MissMeansExpired'
    BY <2>1, MissesStay DEF HandoffInv
  <2>3. \A d \in Calls : pc'[d] = "answered" => NotStored(d)' = {}
    BY <1>6 DEF StoreFails, HandoffInv, NotStored, ToStore
  <2> QED
    BY <1>6, <2>2, <2>3 DEF StoreFails, HandoffInv
<1>7. ASSUME NEW c \in Calls, Respond(c) PROVE HandoffInv'
  <2>1. ObjectsStay /\ wallet' = wallet /\ now' = now
    BY <1>7 DEF Respond, ObjectsStay
  <2>2. MissMeansExpired'
    BY <2>1, MissesStay DEF HandoffInv
  <2>3. \A d \in Calls : pc'[d] = "answered" => NotStored(d)' = {}
    BY <1>7 DEF Respond, HandoffInv, NotStored, ToStore
  <2> QED
    BY <1>7, <2>2, <2>3 DEF Respond, HandoffInv
<1>8. ASSUME NEW c \in Calls, NEW i \in 1..MaxBodies, Fetch(c, i) PROVE HandoffInv'
  <2> DEFINE ref == <<c, i>>
  <2>1. UNCHANGED <<now, pc, bodies, store>> /\ DOMAIN wallet' = Refs
    BY <1>8 DEF Fetch, HandoffInv
  <2>2. ref \in DOMAIN store
    BY <1>8 DEF Fetch, HandoffInv, NotStored
  <2>3. CASE LoadArtifact(ref)
    <3>1. \A r \in Refs : wallet'[r].status = "missed" => wallet[r].status = "missed"
      BY <1>8, <2>3 DEF Fetch, HandoffInv, Idle, Refs
    <3> QED
      BY <2>1, <3>1, WalletKeeps
  <2>4. CASE ~LoadArtifact(ref)
    <3>1. now - store[ref].uploaded > TTL
      BY <2>2, <2>4 DEF LoadArtifact, HandoffInv
    <3>2. \A r \in Refs \ {ref} : wallet'[r] = wallet[r]
      BY <1>8 DEF Fetch, HandoffInv
    <3>3. MissMeansExpired'
      BY <2>1, <2>2, <3>1, <3>2 DEF HandoffInv, MissMeansExpired
    <3> QED
      BY <2>1, <3>3 DEF HandoffInv, NotStored, ToStore
  <2> QED
    BY <2>3, <2>4
<1>9. ASSUME NEW ref \in Refs, NEW full, ExecuteAtomic(ref, full) PROVE HandoffInv'
  <2>1. UNCHANGED <<now, pc, bodies, store>>
    BY <1>9 DEF ExecuteAtomic
  <2>2. wallet[ref].status = "held"
    BY <1>9 DEF ExecuteAtomic
  <2>3. /\ DOMAIN wallet' = Refs
        /\ \A r \in Refs : wallet'[r].status = "missed" => wallet[r].status = "missed"
    BY <1>9, <2>2 DEF ExecuteAtomic, Stopped, HandoffInv
  <2> QED
    BY <2>1, <2>3, WalletKeeps
<1>10. ASSUME NEW ref \in Refs, NEW full, ExecuteStep(ref, full) PROVE HandoffInv'
  <2>1. UNCHANGED <<now, pc, bodies, store>>
    BY <1>10 DEF ExecuteStep
  <2>2. /\ DOMAIN wallet' = Refs
        /\ \A r \in Refs : wallet'[r].status = "missed" => wallet[r].status = "missed"
    BY <1>10 DEF ExecuteStep, Stopped, HandoffInv
  <2> QED
    BY <2>1, <2>2, WalletKeeps
<1>11. ASSUME NEW pair, Grant(pair) PROVE HandoffInv'
  BY <1>11, WalletKeeps DEF Grant, HandoffInv
<1>12. CASE Tick
  <2>1. ObjectsStay /\ wallet' = wallet /\ now' \in Nat /\ now' >= now
    BY <1>12 DEF Tick, ObjectsStay, HandoffInv
  <2>2. MissMeansExpired'
    BY <2>1, MissesStay
  <2> QED
    BY <1>12, <2>1, <2>2 DEF Tick, HandoffInv, NotStored, ToStore
<1>13. CASE UNCHANGED vars
  BY <1>13, WalletKeeps DEF vars, HandoffInv
<1> QED
  BY <1>1, <1>2, <1>3, <1>4, <1>5, <1>6, <1>7, <1>8, <1>9, <1>10, <1>11, <1>12, <1>13
     DEF Next, Server, Execute

\* A 404 of an artifact means its window has ended, whatever the bounds.
THEOREM MissMeansExpiredHolds == Spec => []MissMeansExpired
<1>1. HandoffInv => MissMeansExpired
  BY DEF HandoffInv
<1> QED
  BY <1>1, InitHandoff, HandoffStep, PTL DEF Spec
===============================================================================
