------------------------ MODULE MCVe33Allocation_proofs ------------------------
(***************************************************************************)
(* What holds of a reallocation, for any stakes, targets and recommended   *)
(* weights, any number of basis points and any limit of targets: what is   *)
(* recommended can be executed as it stands, and the plan made of it cuts  *)
(* little, places every unit, serves each target what it is due, and moves *)
(* nothing when it is made again.                                          *)
(***************************************************************************)
EXTENDS MCVe33Allocation, Ve33Allocation_proofs

-------------------------------------------------------------------------------
(***************************************************************************)
(* The candidates, and the weight that is shared among them                *)
(***************************************************************************)

\* Rows that stand for their index, with numbers in their fields.
IsRows(rows) ==
    /\ DOMAIN rows \in SUBSET Int /\ IsFiniteSet(DOMAIN rows)
    /\ \A i \in DOMAIN rows : rows[i].rank \in Int /\ rows[i].weight \in Int /\ rows[i].cap \in Int

\* The candidates of highest priority, as many as a reallocation takes.
Best(rows, open) ==
    {i \in open : Cardinality({k \in open : Prior(rows, k, i)}) < MaxExecutable}

\* The candidates are the best of the rows that are available, each once.
LEMMA CandidatesFacts ==
    ASSUME NEW rows, IsRows(rows), NEW pools, NEW prune
    PROVE  LET open == Available(rows, pools, prune)
               candidates == Candidates(rows, pools, prune)
           IN  /\ candidates \in Seq(open) /\ Len(candidates) \in Nat
               /\ Len(candidates) <= MaxExecutable
               /\ DOMAIN candidates = 1 .. Len(candidates)
               /\ Range(candidates) = Best(rows, open)
               /\ \A i, k \in DOMAIN candidates : candidates[i] = candidates[k] => i = k
               /\ open \in SUBSET DOMAIN rows
<1> DEFINE open == Available(rows, pools, prune)
           R == {p \in open \X open : Prior(rows, p[1], p[2])}
           s == Sorted(open, LAMBDA i, k : Prior(rows, i, k))
           at(k) == CHOOSE x \in open : Cardinality({y \in open : Prior(rows, y, x)}) = k - 1
           l == Lesser(Len(s), MaxExecutable)
           first == SubSeq(s, 1, l)
<1>0. open \in SUBSET DOMAIN rows
  BY DEF Available
<1>1. IsFiniteSet(open) /\ Cardinality(open) \in Nat
  BY <1>0, FS_Subset, FS_CardinalityType DEF IsRows
<1>2. Candidates(rows, pools, prune) = first
  BY DEF Candidates, Lesser
<1>3. \A x \in open : x \in Int /\ rows[x].rank \in Int
  BY <1>0 DEF IsRows
<1>4. s = [k \in 1 .. Cardinality(open) |-> at(k)]
  BY DEF Sorted
<1> HIDE DEF open, s, l
<1>5. Orders(R, open)
  <2>2. \A x, y \in open : <<x, y>> \in R <=> Prior(rows, x, y)
    OBVIOUS
  <2> HIDE DEF R
  <2>4. ASSUME NEW x \in open PROVE <<x, x>> \notin R
    BY <1>3, <2>2 DEF Prior
  <2>5. ASSUME NEW x \in open, NEW y \in open, NEW z \in open, <<x, y>> \in R, <<y, z>> \in R
        PROVE  <<x, z>> \in R
    BY <1>3, <2>2, <2>5 DEF Prior
  <2>6. ASSUME NEW x \in open, NEW y \in open, x # y PROVE <<x, y>> \in R \/ <<y, x>> \in R
    BY <1>3, <2>2, <2>6 DEF Prior
  <2> QED
    BY <2>4, <2>5, <2>6 DEF Orders
<1>6. \A x \in open : Below(x, R, open) = {y \in open : Prior(rows, y, x)}
  BY DEF Below
<1> HIDE DEF R, at
<1>7. ASSUME NEW k \in 1 .. Cardinality(open)
      PROVE  s[k] \in open /\ Cardinality(Below(s[k], R, open)) = k - 1
  <2>1. \E x \in open : Cardinality({y \in open : Prior(rows, y, x)}) = k - 1
    <3>1. PICK x \in open : Cardinality(Below(x, R, open)) = k - 1
      BY <1>1, <1>5, Places
    <3>2. Below(x, R, open) = {y \in open : Prior(rows, y, x)}
      BY <1>6
    <3> QED
      BY <3>1, <3>2
  <2>2. s[k] \in open /\ Cardinality({y \in open : Prior(rows, y, s[k])}) = k - 1
    <3>1. at(k) \in open /\ Cardinality({y \in open : Prior(rows, y, at(k))}) = k - 1
      BY <2>1 DEF at
    <3> QED
      BY <1>4, <3>1
  <2> QED
    BY <1>6, <2>2
<1>8. /\ first \in Seq(open) /\ Len(first) \in Nat /\ Len(first) <= MaxExecutable
      /\ DOMAIN first = 1 .. Len(first)
      /\ Range(first) = {x \in open : Cardinality(Below(x, R, open)) < MaxExecutable}
      /\ \A i, k \in DOMAIN first : first[i] = first[k] => i = k
  <2>1. s = [k \in 1 .. Cardinality(open) |-> s[k]]
    BY <1>4
  <2>2. \A k \in 1 .. Cardinality(open) : s[k] \in open /\ Cardinality(Below(s[k], R, open)) = k - 1
    BY <1>7
  <2>4. s \in Seq(open) /\ Len(s) = Cardinality(open) /\ Range(s) = open
    BY <1>1, <1>5, <2>1, <2>2, PlacesInOrder
  <2>5. IsFiniteSet(open) /\ MaxExecutable \in Nat
    BY <1>1, ExecutableAssumption
  <2>6. l = Lesser(Len(s), MaxExecutable)
    BY DEF l
  <2>7. Leads(SubSeq(s, 1, l), open, R, MaxExecutable)
    BY <1>5, <2>2, <2>4, <2>5, <2>6, Foremost
  <2> QED
    BY <2>7 DEF Leads
<1>9. {x \in open : Cardinality(Below(x, R, open)) < MaxExecutable} = Best(rows, open)
  BY <1>6 DEF Best
<1> QED
  BY <1>0, <1>2, <1>8, <1>9 DEF open

\* The pools worth most votes, as many as a reallocation takes.
Heaviest(D, votes) ==
    LET order == Sorted(D, LAMBDA a, b : InOrder(votes, a, b))
    IN  SubSeq(order, 1, Min({Len(order), MaxExecutable}))

\* They are candidates, each once and no more than fit.
LEMMA HeaviestFacts ==
    ASSUME NEW D, IsFiniteSet(D), NEW votes, \A k \in D : k \in Int /\ votes[k] \in Int
    PROVE  LET kept == Heaviest(D, votes)
           IN  /\ kept \in Seq(D) /\ Len(kept) \in Nat /\ Len(kept) <= MaxExecutable
               /\ DOMAIN kept = 1 .. Len(kept)
               /\ \A i, k \in DOMAIN kept : kept[i] = kept[k] => i = k
<1> DEFINE R == {p \in D \X D : InOrder(votes, p[1], p[2])}
           s == Sorted(D, LAMBDA a, b : InOrder(votes, a, b))
           at(k) == CHOOSE x \in D : Cardinality({y \in D : InOrder(votes, y, x)}) = k - 1
           l == Lesser(Len(s), MaxExecutable)
           first == SubSeq(s, 1, l)
<1>1. Cardinality(D) \in Nat
  BY FS_CardinalityType
<1>4. s = [k \in 1 .. Cardinality(D) |-> at(k)]
  BY DEF Sorted
<1> HIDE DEF s, l
<1>5. Orders(R, D)
  <2>2. \A x, y \in D : <<x, y>> \in R <=> InOrder(votes, x, y)
    OBVIOUS
  <2> HIDE DEF R
  <2>4. ASSUME NEW x \in D PROVE <<x, x>> \notin R
    BY <2>2 DEF InOrder
  <2>5. ASSUME NEW x \in D, NEW y \in D, NEW z \in D, <<x, y>> \in R, <<y, z>> \in R
        PROVE  <<x, z>> \in R
    BY <2>2, <2>5 DEF InOrder
  <2>6. ASSUME NEW x \in D, NEW y \in D, x # y PROVE <<x, y>> \in R \/ <<y, x>> \in R
    BY <2>2, <2>6 DEF InOrder
  <2> QED
    BY <2>4, <2>5, <2>6 DEF Orders
<1>6. \A x \in D : Below(x, R, D) = {y \in D : InOrder(votes, y, x)}
  BY DEF Below
<1> HIDE DEF R, at
<1>7. ASSUME NEW k \in 1 .. Cardinality(D)
      PROVE  s[k] \in D /\ Cardinality(Below(s[k], R, D)) = k - 1
  <2>1. \E x \in D : Cardinality({y \in D : InOrder(votes, y, x)}) = k - 1
    <3>1. PICK x \in D : Cardinality(Below(x, R, D)) = k - 1
      BY <1>1, <1>5, Places
    <3>2. Below(x, R, D) = {y \in D : InOrder(votes, y, x)}
      BY <1>6
    <3> QED
      BY <3>1, <3>2
  <2>2. s[k] \in D /\ Cardinality({y \in D : InOrder(votes, y, s[k])}) = k - 1
    <3>1. at(k) \in D /\ Cardinality({y \in D : InOrder(votes, y, at(k))}) = k - 1
      BY <2>1 DEF at
    <3> QED
      BY <1>4, <3>1
  <2> QED
    BY <1>6, <2>2
<1>8. /\ first \in Seq(D) /\ Len(first) \in Nat /\ Len(first) <= MaxExecutable
      /\ DOMAIN first = 1 .. Len(first)
      /\ Range(first) = {x \in D : Cardinality(Below(x, R, D)) < MaxExecutable}
      /\ \A i, k \in DOMAIN first : first[i] = first[k] => i = k
  <2>1. s = [k \in 1 .. Cardinality(D) |-> s[k]]
    BY <1>4
  <2>2. \A k \in 1 .. Cardinality(D) : s[k] \in D /\ Cardinality(Below(s[k], R, D)) = k - 1
    BY <1>7
  <2>3. \A k \in 1 .. Cardinality(D) : Cardinality(Below(s[k], R, D)) = k - 1
    BY <2>2
  <2>4. s \in Seq(D) /\ Len(s) = Cardinality(D) /\ Range(s) = D
    BY <1>1, <1>5, <2>1, <2>2, PlacesInOrder
  <2>5. IsFiniteSet(D) /\ MaxExecutable \in Nat
    BY ExecutableAssumption
  <2>6. l = Lesser(Len(s), MaxExecutable)
    BY DEF l
  <2>7. Leads(SubSeq(s, 1, l), D, R, MaxExecutable)
    BY <1>5, <2>2, <2>4, <2>5, <2>6, Foremost
  <2> QED
    BY <2>7 DEF Leads
<1> QED
  BY <1>8 DEF s, l, Lesser, Heaviest

\* The shares of a number rounded down add up to no more than the number.
LEMMA FloorsFit ==
    ASSUME NEW S, IsFiniteSet(S), NEW w, \A x \in S : w[x] \in Nat \ {0}, NEW left \in Nat,
           NEW score, score = SumOver(w, S),
           NEW base, \A x \in S : base[x] = (left * w[x]) \div score
    PROVE  /\ S # {} => score \in Nat \ {0}
           /\ \A x \in S : base[x] \in Nat /\ (left * w[x]) % score \in Int
           /\ SumOver(base, S) \in Nat /\ SumOver(base, S) <= left
<1> DEFINE exact == [x \in S |-> left * w[x]]
           rem == [x \in S |-> (left * w[x]) % score]
           whole == [x \in S |-> score * base[x]]
<1>1. S # {} => score \in Nat \ {0}
  BY SumType
<1>2. \A x \in S : exact[x] = left * w[x] /\ rem[x] = (left * w[x]) % score /\ whole[x] = score * base[x]
  OBVIOUS
<1> HIDE DEF exact, rem, whole
<1>3. ASSUME NEW x \in S
      PROVE  /\ base[x] \in Nat /\ rem[x] \in Nat /\ whole[x] \in Int
             /\ exact[x] = whole[x] + rem[x] /\ score \in Nat \ {0}
  <2> DEFINE a == left * w[x]
  <2>1. a \in Int /\ a >= 0
    OBVIOUS
  <2>2. score \in Nat \ {0}
    BY <1>1
  <2>3. base[x] = a \div score /\ exact[x] = a /\ rem[x] = a % score /\ whole[x] = score * base[x]
    BY <1>2
  <2> HIDE DEF a
  <2>4. /\ a \div score \in Int /\ a % score \in Int /\ 0 <= a % score
        /\ a = score * (a \div score) + (a % score) /\ a \div score >= 0
    BY <2>1, <2>2, DivisionFacts
  <2>5. score * base[x] \in Int
    BY <2>2, <2>3, <2>4
  <2> QED
    BY <2>2, <2>3, <2>4, <2>5
<1>4. CASE S = {}
  <2>1. SumOver(base, S) = 0
    BY <1>4, SumEmpty
  <2> QED
    BY <1>4, <2>1
<1>5. CASE S # {}
  <2> DEFINE b == SumOver(base, S)
             r == SumOver(rem, S)
  <2>1. score \in Nat \ {0}
    BY <1>1, <1>5
  <2>2. b \in Int /\ b >= 0
    <3>1. \A x \in S : base[x] \in Int /\ base[x] >= 0
      BY <1>3
    <3> QED
      BY <3>1, SumType
  <2>3. r \in Int /\ r >= 0
    <3>1. \A x \in S : rem[x] \in Int /\ rem[x] >= 0
      BY <1>3
    <3> QED
      BY <3>1, SumType
  <2>4. SumOver(exact, S) = left * score
    <3>1. \A x \in S : w[x] \in Int /\ exact[x] = left * w[x]
      BY <1>2
    <3>2. left \in Int
      OBVIOUS
    <3> QED
      BY <3>1, <3>2, SumTimes
  <2>5. SumOver(whole, S) = score * b
    <3>1. \A x \in S : base[x] \in Int /\ whole[x] = score * base[x]
      BY <1>2, <1>3
    <3>2. score \in Int
      BY <2>1
    <3> QED
      BY <3>1, <3>2, SumTimes
  <2>6. SumOver(exact, S) = SumOver(whole, S) + r
    <3>1. \A x \in S : whole[x] \in Int /\ rem[x] \in Int /\ exact[x] = whole[x] + rem[x]
      BY <1>3
    <3> QED
      BY <3>1, SumPlus
  <2> HIDE DEF b, r
  <2>7. left * score = score * b + r
    BY <2>4, <2>5, <2>6
  <2>8. b <= left
    <3>1. SUFFICES ASSUME b >= left + 1 PROVE FALSE
      BY <2>2
    <3>2. score * b >= score * (left + 1)
      BY <2>1, <2>2, <3>1
    <3>3. score * (left + 1) = left * score + score
      BY <2>1
    <3> QED
      BY <2>1, <2>2, <2>3, <2>7, <3>2, <3>3
  <2>9. \A x \in S : base[x] \in Nat /\ (left * w[x]) % score \in Int
    BY <1>2, <1>3
  <2> QED
    BY <2>1, <2>2, <2>8, <2>9 DEF b
<1> QED
  BY <1>4, <1>5

\* What the rows of C can hold.
CapsOf(rows, C) == SumOver([i \in C |-> rows[i].cap], C)

\* A division of the whole among the rows of C: none gets less than its own weight or more
\* than its cap, and what is left can be placed unless the caps are too small.
Shared(st, rows, C) ==
    /\ st = [weights |-> st.weights, left |-> st.left, stuck |-> st.stuck]
    /\ st.weights \in [C -> Int] /\ st.left \in Nat /\ st.stuck \in BOOLEAN
    /\ \A i \in C : rows[i].weight <= st.weights[i] /\ st.weights[i] <= rows[i].cap
    /\ SumOver(st.weights, C) + st.left = BpsTotal
    /\ CapsOf(rows, C) >= BpsTotal => ~st.stuck

\* A round keeps a division one, and places something unless it is stuck.
LEMMA RoundKeeps ==
    ASSUME NEW rows, IsRows(rows), RowsSound(rows), NEW C, C \in SUBSET DOMAIN rows,
           NEW st, Shared(st, rows, C)
    PROVE  LET after == Round(rows, st)
           IN  /\ Shared(after, rows, C)
               /\ st.stuck => after.stuck
               /\ after.left <= st.left
               /\ ~after.stuck /\ st.left # 0 => after.left < st.left
<1> DEFINE w == st.weights
           l == st.left
           active == Open(rows, st.weights)
           score == Total([i \in active |-> rows[i].weight])
           rem == [i \in active |-> (st.left * rows[i].weight) % score]
           share(i) == IF i \in active
                       THEN Min({rows[i].cap - st.weights[i], (st.left * rows[i].weight) \div score})
                       ELSE 0
           grown == [i \in DOMAIN st.weights |-> st.weights[i] + share(i)]
           rest == st.left - (Total(grown) - Total(st.weights))
           open == active \cap Open(rows, grown)
           unit == {i \in open : Cardinality({k \in open : InOrder(rem, k, i)}) < rest}
           after == Round(rows, st)
           one == [i \in C |-> IF i \in unit THEN 1 ELSE 0]
           shares == [i \in C |-> share(i)]
<1>1. /\ DOMAIN w = C /\ IsFiniteSet(C) /\ C \in SUBSET Int /\ l \in Nat
      /\ \A i \in C : w[i] \in Int /\ rows[i].weight <= w[i] /\ w[i] <= rows[i].cap
      /\ SumOver(w, C) + l = BpsTotal
  BY FS_Subset DEF Shared, IsRows
<1>2. \A i \in C : rows[i].weight \in Nat \ {0} /\ rows[i].cap \in Int
  BY DEF RowsSound, IsRows
<1>3. CASE l = 0 \/ st.stuck
  <2>1. after = st
    BY <1>3 DEF Round
  <2>2. l <= l
    BY <1>1
  <2> QED
    BY <1>3, <2>1, <2>2
<1>4. CASE ~(l = 0 \/ st.stuck)
  <2>1. after = [weights |-> [i \in DOMAIN grown |-> grown[i] + (IF i \in unit THEN 1 ELSE 0)],
                 left |-> rest - Cardinality(unit), stuck |-> unit = {} /\ rest # 0]
    BY <1>4 DEF Round
  <2>2. active = {i \in C : w[i] < rows[i].cap} /\ open = {i \in active : grown[i] < rows[i].cap}
    BY <1>1 DEF Open
  <2>3. /\ DOMAIN grown = C /\ \A i \in C : grown[i] = w[i] + shares[i]
    BY <1>1
  <2>4. \A i \in C : one[i] = (IF i \in unit THEN 1 ELSE 0) /\ shares[i] = share(i)
    OBVIOUS
  <2>5. \A i \in active : rem[i] = (l * rows[i].weight) % score
    OBVIOUS
  <2>6. unit = First(open, rem, rest)
    BY DEF First
  <2>7. /\ score = SumOver([i \in active |-> rows[i].weight], active)
        /\ Total(w) = SumOver(w, C) /\ Total(grown) = SumOver(grown, C)
    BY <1>1, <2>3 DEF Total, SumOver
  <2>8. rest = l - (Total(grown) - Total(w))
    OBVIOUS
  <2> DEFINE own == [i \in active |-> rows[i].weight]
             base == [i \in active |-> (l * rows[i].weight) \div score]
             bases == [i \in C |-> IF i \in active THEN base[i] ELSE 0]
  <2>9. /\ \A i \in active : own[i] = rows[i].weight /\ base[i] = (l * own[i]) \div score
        /\ \A i \in C : bases[i] = IF i \in active THEN base[i] ELSE 0
        /\ score = SumOver(own, active)
    BY <2>7
  <2>10. \A i \in C : shares[i] = IF i \in active THEN Lesser(rows[i].cap - w[i], base[i]) ELSE 0
    BY <2>4 DEF Lesser
  <2> HIDE DEF w, l, active, score, rem, share, grown, rest, open, unit, after, one, shares, own, base, bases
  <2>11. /\ active \in SUBSET C /\ IsFiniteSet(active)
         /\ open \in SUBSET C /\ IsFiniteSet(open) /\ open \in SUBSET active
    <3>1. active \in SUBSET C /\ open \in SUBSET active
      BY <2>2
    <3> QED
      BY <1>1, <3>1, FS_Subset
  <2>12. /\ \A i \in active : base[i] \in Nat /\ (l * own[i]) % score \in Int
         /\ SumOver(base, active) \in Nat /\ SumOver(base, active) <= l
    <3>1. \A i \in active : own[i] \in Nat \ {0}
      BY <1>2, <2>9, <2>11
    <3>2. \A i \in active : base[i] = (l * own[i]) \div score
      BY <2>9
    <3> QED
      BY <1>1, <2>9, <2>11, <3>1, <3>2, FloorsFit
  <2>13. SumOver(bases, C) = SumOver(base, active)
    <3>1. \A i \in active : base[i] \in Int
      BY <2>12
    <3>2. \A i \in C : bases[i] = IF i \in active THEN base[i] ELSE 0
      BY <2>9
    <3> QED
      BY <1>1, <2>11, <3>1, <3>2, SumWithin
  <2>14. ASSUME NEW i \in C
         PROVE  /\ shares[i] \in Nat /\ shares[i] <= bases[i] /\ bases[i] \in Nat
                /\ w[i] + shares[i] <= rows[i].cap
    <3>1. CASE i \in active
      <4>1. /\ rows[i].cap - w[i] \in Int /\ rows[i].cap - w[i] > 0 /\ base[i] \in Nat
            /\ rows[i].cap \in Int /\ w[i] \in Int
        BY <1>1, <1>2, <2>2, <2>12, <3>1
      <4>2. /\ shares[i] \in {rows[i].cap - w[i], base[i]}
            /\ shares[i] <= rows[i].cap - w[i] /\ shares[i] <= base[i]
        BY <2>10, <3>1, <4>1, LesserFacts
      <4>3. bases[i] = base[i]
        BY <2>9, <3>1
      <4> QED
        BY <4>1, <4>2, <4>3
    <3>2. CASE i \notin active
      BY <1>1, <1>2, <2>9, <2>10, <3>2
    <3> QED
      BY <3>1, <3>2
  <2>15. /\ SumOver(shares, C) \in Nat /\ SumOver(shares, C) <= l
    <3>1. \A i \in C : shares[i] \in Int /\ bases[i] \in Int /\ shares[i] >= 0 /\ shares[i] <= bases[i]
      BY <2>14
    <3>2. SumOver(shares, C) <= SumOver(bases, C)
      BY <1>1, <3>1, SumOrder
    <3>3. SumOver(shares, C) \in Int /\ SumOver(shares, C) >= 0
      BY <1>1, <3>1, SumType
    <3>4. SumOver(bases, C) \in Nat /\ SumOver(bases, C) <= l
      BY <2>12, <2>13
    <3> QED
      BY <1>1, <3>2, <3>3, <3>4
  <2>16. SumOver(grown, C) = SumOver(w, C) + SumOver(shares, C) /\ SumOver(w, C) \in Int
    <3>1. \A i \in C : w[i] \in Int /\ shares[i] \in Int /\ grown[i] = w[i] + shares[i]
      BY <1>1, <2>3, <2>14
    <3> QED
      BY <1>1, <3>1, SumPlus, SumType
  <2>17. rest \in Nat /\ rest <= l /\ SumOver(grown, C) + rest = BpsTotal /\ SumOver(grown, C) \in Int
    BY <1>1, <2>7, <2>8, <2>15, <2>16
  <2>18. /\ IsFiniteSet(unit) /\ Cardinality(unit) \in Nat /\ Cardinality(unit) <= rest
         /\ rest > 0 /\ open # {} => unit # {}
         /\ unit \in SUBSET open
    <3>1. open \in SUBSET Int
      BY <1>1, <2>11
    <3>2. \A i \in open : rem[i] \in Int
      BY <2>5, <2>9, <2>11, <2>12
    <3>3. /\ IsFiniteSet(First(open, rem, rest)) /\ Cardinality(First(open, rem, rest)) \in Nat
          /\ Cardinality(First(open, rem, rest)) <= rest
          /\ rest > 0 /\ open # {} => First(open, rem, rest) # {}
      BY <2>11, <2>17, <3>1, <3>2, RankCounts
    <3>4. First(open, rem, rest) \in SUBSET open
      BY DEF First
    <3> QED
      BY <2>6, <3>3, <3>4
  <2>19. /\ SumOver(one, C) = Cardinality(unit)
    BY <1>1, <2>4, <2>11, <2>18, SumCounts
  <2>20. /\ after.weights = [i \in C |-> grown[i] + one[i]]
         /\ after.left = rest - Cardinality(unit) /\ after.stuck = (unit = {} /\ rest # 0)
         /\ after = [weights |-> after.weights, left |-> after.left, stuck |-> after.stuck]
    BY <2>1, <2>3, <2>4
  <2>21. ASSUME NEW i \in C
         PROVE  /\ after.weights[i] \in Int /\ grown[i] \in Int /\ one[i] \in Int
                /\ after.weights[i] = grown[i] + one[i]
                /\ rows[i].weight <= after.weights[i] /\ after.weights[i] <= rows[i].cap
    <3>1. grown[i] = w[i] + shares[i] /\ after.weights[i] = grown[i] + one[i]
      BY <2>3, <2>20
    <3>2. CASE i \in unit
      <4>1. grown[i] < rows[i].cap /\ one[i] = 1
        BY <2>2, <2>4, <2>18, <3>2
      <4> QED
        BY <1>1, <1>2, <2>14, <3>1, <4>1
    <3>3. CASE i \notin unit
      <4>1. one[i] = 0
        BY <2>4, <3>3
      <4> QED
        BY <1>1, <1>2, <2>14, <3>1, <4>1
    <3> QED
      BY <3>2, <3>3
  <2>22. SumOver(after.weights, C) = SumOver(grown, C) + SumOver(one, C)
    <3>1. \A i \in C : grown[i] \in Int /\ one[i] \in Int /\ after.weights[i] = grown[i] + one[i]
      BY <2>21
    <3> QED
      BY <1>1, <3>1, SumPlus
  <2>23. after.left \in Nat /\ SumOver(after.weights, C) + after.left = BpsTotal /\ after.left <= l
    BY <1>1, <2>17, <2>18, <2>19, <2>20, <2>22
  <2>24. ASSUME CapsOf(rows, C) >= BpsTotal PROVE ~after.stuck
    <3>1. SUFFICES ASSUME unit = {}, rest # 0 PROVE FALSE
      BY <2>20
    <3>2. open = {}
      BY <2>17, <2>18, <3>1
    <3> DEFINE caps == [i \in C |-> rows[i].cap]
    <3>3. \A i \in C : caps[i] = rows[i].cap
      OBVIOUS
    <3>4. CapsOf(rows, C) = SumOver(caps, C)
      BY DEF CapsOf
    <3> HIDE DEF caps
    <3>5. ASSUME NEW i \in C PROVE caps[i] \in Int /\ grown[i] \in Int /\ caps[i] <= grown[i]
      <4>1. caps[i] = rows[i].cap /\ caps[i] \in Int /\ grown[i] \in Int
        BY <1>2, <2>21, <3>3
      <4>2. ~(grown[i] < rows[i].cap)
        <5>1. CASE i \in active
          BY <2>2, <3>2, <5>1
        <5>2. CASE i \notin active
          <6>1. ~(w[i] < rows[i].cap) /\ shares[i] = 0
            BY <2>2, <2>10, <5>2
          <6> QED
            BY <1>1, <2>3, <6>1
        <5> QED
          BY <5>1, <5>2
      <4> QED
        BY <4>1, <4>2
    <3>6. SumOver(caps, C) <= SumOver(grown, C) /\ SumOver(caps, C) \in Int
      BY <1>1, <3>5, SumOrder, SumType
    <3> QED
      BY <2>17, <2>24, <3>1, <3>4, <3>6, BpsAssumption
  <2>25. Shared(after, rows, C)
    <3>1. after.weights \in [C -> Int]
      <4>1. after.weights = [i \in C |-> grown[i] + one[i]]
        BY <2>20
      <4>2. \A i \in C : grown[i] + one[i] \in Int
        BY <2>21
      <4> QED
        BY <4>1, <4>2
    <3>2. after.stuck \in BOOLEAN
      BY <2>20
    <3> QED
      BY <2>20, <2>21, <2>23, <2>24, <3>1, <3>2 DEF Shared
  <2>26. ~after.stuck /\ l # 0 => after.left < l
    <3>1. unit # {} => Cardinality(unit) # 0
      BY <2>18, FS_EmptySet
    <3>2. ASSUME ~after.stuck, l # 0 PROVE unit # {} \/ rest = 0
      BY <2>20, <3>2
    <3>3. after.left = rest - Cardinality(unit)
      BY <2>20
    <3> QED
      BY <1>1, <2>17, <2>18, <3>1, <3>2, <3>3
  <2> QED
    BY <1>4, <2>23, <2>25, <2>26 DEF l, after
<1> QED
  BY <1>3, <1>4

\* The weight of the rows that are withheld: not negative, and as much room is missing for
\* it as the caps fall short of the whole.
LEMMA WithheldFacts ==
    ASSUME NEW rows, IsRows(rows), RowsSound(rows), NEW C, C \in SUBSET DOMAIN rows,
           NEW own, own = [i \in C |-> rows[i].weight],
           NEW room, room = [i \in C |-> rows[i].cap - rows[i].weight]
    PROVE  /\ SumOver(own, C) \in Nat /\ SumOver(own, C) <= BpsTotal
           /\ CapsOf(rows, C) \in Int
           /\ SumOver(room, C) = CapsOf(rows, C) - SumOver(own, C)
<1> DEFINE D == DOMAIN rows
           all == [i \in D |-> rows[i].weight]
           within == [i \in D |-> IF i \in C THEN own[i] ELSE 0]
           caps == [i \in C |-> rows[i].cap]
<1>1. IsFiniteSet(D) /\ IsFiniteSet(C) /\ C \in SUBSET D
  BY FS_Subset DEF IsRows
<1>2. \A i \in D : rows[i].weight \in Nat /\ rows[i].cap \in Int
  BY DEF RowsSound, IsRows
<1>3. /\ \A i \in D : all[i] = rows[i].weight /\ within[i] = (IF i \in C THEN own[i] ELSE 0)
      /\ \A i \in C : /\ caps[i] = rows[i].cap /\ own[i] = rows[i].weight
                      /\ room[i] = rows[i].cap - rows[i].weight
  OBVIOUS
<1>4. SumOver(all, D) = BpsTotal
  BY DEF RowsSound, Total, SumOver
<1>5. CapsOf(rows, C) = SumOver(caps, C)
  BY DEF CapsOf
<1> HIDE DEF D, all, within, caps
<1>6. \A i \in C : own[i] \in Int /\ own[i] >= 0 /\ caps[i] \in Int /\ room[i] \in Int /\ caps[i] = room[i] + own[i]
  BY <1>1, <1>2, <1>3
<1>7. SumOver(within, D) = SumOver(own, C)
  <2>1. \A i \in C : own[i] \in Int
    BY <1>6
  <2>2. \A i \in D : within[i] = IF i \in C THEN own[i] ELSE 0
    BY <1>3
  <2> QED
    BY <1>1, <2>1, <2>2, SumWithin
<1>8. SumOver(within, D) <= SumOver(all, D)
  <2>1. ASSUME NEW i \in D PROVE within[i] \in Int /\ all[i] \in Int /\ within[i] <= all[i]
    <3>1. CASE i \in C
      BY <1>2, <1>3, <3>1
    <3>2. CASE i \notin C
      BY <1>2, <1>3, <3>2
    <3> QED
      BY <3>1, <3>2
  <2> QED
    BY <1>1, <2>1, SumOrder
<1>9. SumOver(own, C) \in Int /\ SumOver(own, C) >= 0 /\ SumOver(caps, C) \in Int /\ SumOver(room, C) \in Int
  BY <1>1, <1>6, SumType
<1>10. SumOver(caps, C) = SumOver(room, C) + SumOver(own, C)
  <2>1. \A i \in C : room[i] \in Int /\ own[i] \in Int /\ caps[i] = room[i] + own[i]
    BY <1>6
  <2> QED
    BY <1>1, <2>1, SumPlus
<1> QED
  BY <1>4, <1>5, <1>7, <1>8, <1>9, <1>10

\* What the rounds keep: those that are not stuck are done, or have had a turn for each
\* unit they placed.
Turned(st, rows, C, turn) ==
    Shared(st, rows, C) /\ (~st.stuck => st.left = 0 \/ st.left + turn <= BpsTotal)

\* The weight of the rows withheld is shared out whole among the candidates, each between
\* its own weight and its cap; it is not only if the caps are too small.
LEMMA RedistributeFacts ==
    ASSUME NEW rows, IsRows(rows), RowsSound(rows), NEW c, NEW C, C \in SUBSET DOMAIN rows,
           ToSet(c) = C, c = <<>> <=> C = {}
    PROVE  LET weights == Redistribute(rows, c)
           IN  /\ weights = <<>> <=> CapsOf(rows, C) < BpsTotal
               /\ weights # <<>> =>
                    /\ weights \in [C -> Int] /\ SumOver(weights, C) = BpsTotal
                    /\ \A i \in C : rows[i].weight <= weights[i] /\ weights[i] <= rows[i].cap
<1> DEFINE own == [i \in ToSet(c) |-> rows[i].weight]
           space == [i \in ToSet(c) |-> rows[i].cap - rows[i].weight]
           left == BpsTotal - Total(own)
           room == Total(space)
           start == [weights |-> own, left |-> left, stuck |-> FALSE]
           Solves(f) == f = [turn \in 0 .. BpsTotal |->
                                IF turn = 0 THEN start ELSE Round(rows, f[turn - 1])]
           run == CHOOSE f : Solves(f)
           B == BpsTotal
           V == {st \in [weights : [C -> Int], left : Nat, stuck : BOOLEAN] : Shared(st, rows, C)}
           step == [p \in V \X (1 .. B) |-> Round(rows, p[1])]
           weights == Redistribute(rows, c)
<1>1. weights = IF c = <<>> \/ room < left \/ run[B].stuck THEN <<>> ELSE run[B].weights
  BY DEF Redistribute
<1>2. own = [i \in C |-> rows[i].weight] /\ space = [i \in C |-> rows[i].cap - rows[i].weight]
  OBVIOUS
<1>3. Total(own) = SumOver(own, C) /\ room = SumOver(space, C)
  BY <1>2 DEF Total, SumOver
<1>4. B \in Nat
  BY BpsAssumption
<1>5. left = B - Total(own) /\ start = [weights |-> own, left |-> left, stuck |-> FALSE]
  OBVIOUS
<1> HIDE DEF own, space, left, room, start, B
<1>6. left \in Nat /\ left <= B /\ (room < left <=> CapsOf(rows, C) < B) /\ SumOver(own, C) + left = B
  <2>1. /\ SumOver(own, C) \in Nat /\ SumOver(own, C) <= B
        /\ CapsOf(rows, C) \in Int
        /\ SumOver(space, C) = CapsOf(rows, C) - SumOver(own, C)
    BY <1>2, WithheldFacts DEF B
  <2> QED
    BY <1>3, <1>4, <1>5, <2>1
<1>7. Shared(start, rows, C)
  <2>1. \A i \in C : rows[i].weight \in Int /\ rows[i].cap \in Int /\ rows[i].weight <= rows[i].cap
    BY DEF IsRows, RowsSound
  <2>2. own \in [C -> Int] /\ \A i \in C : rows[i].weight <= own[i] /\ own[i] <= rows[i].cap
    BY <1>2, <2>1
  <2>3. start.weights = own /\ start.left = left /\ start.stuck = FALSE
    BY <1>5
  <2>4. start = [weights |-> start.weights, left |-> start.left, stuck |-> start.stuck]
    BY <1>5
  <2> QED
    BY <1>6, <2>2, <2>3, <2>4 DEF Shared, B
<1>8. \A st : Shared(st, rows, C) => st \in V
  <2> SUFFICES ASSUME NEW st, Shared(st, rows, C) PROVE st \in [weights : [C -> Int], left : Nat, stuck : BOOLEAN]
    OBVIOUS
  <2> QED
    BY DEF Shared
<1>9. \A st \in V : Shared(st, rows, C) /\ Shared(Round(rows, st), rows, C)
  <2> SUFFICES ASSUME NEW st, Shared(st, rows, C) PROVE Shared(Round(rows, st), rows, C)
    OBVIOUS
  <2> QED
    BY RoundKeeps
<1> HIDE DEF V
<1>10. step \in [V \X (1 .. B) -> V]
  BY <1>8, <1>9
<1>11. PICK g \in [0 .. B -> V] : RangeRecursion(g, B, start, step)
  <2>1. start \in V
    BY <1>7, <1>8
  <2> HIDE DEF step
  <2> QED
    BY <1>4, <1>10, <2>1, RangeRecursionExists
<1>12. Solves(g)
  <2>1. g[0] = start
    BY <1>11 DEF RangeRecursion
  <2>2. ASSUME NEW k \in 1 .. B PROVE g[k] = Round(rows, g[k - 1])
    <3>1. k - 1 \in 0 .. B
      BY <1>4
    <3>2. g[k] = step[<<g[k - 1], k>>]
      BY <1>11 DEF RangeRecursion
    <3> QED
      BY <3>1, <3>2
  <2>3. ASSUME NEW k \in 0 .. B PROVE g[k] = IF k = 0 THEN start ELSE Round(rows, g[k - 1])
    BY <1>4, <2>1, <2>2
  <2> QED
    BY <2>3 DEF B
<1>13. Solves(run)
  BY ONLY <1>12 DEF run
<1> HIDE DEF run, step
<1>14. run[0] = start /\ \A k \in 1 .. B : run[k] = Round(rows, run[k - 1])
  BY <1>4, <1>13 DEF B
<1> DEFINE good == [k \in 0 .. B |-> Turned(run[k], rows, C, k)]
<1>15. good[0] \in {TRUE}
  <2>1. start.left = left /\ left + 0 <= B
    BY <1>4, <1>5, <1>6
  <2>2. Turned(start, rows, C, 0)
    BY <1>7, <2>1 DEF Turned, B
  <2>3. good[0] = Turned(run[0], rows, C, 0)
    BY <1>4
  <2> QED
    BY <1>14, <2>2, <2>3
<1>16. ASSUME NEW k \in 1 .. B, good[k - 1] \in {TRUE} PROVE good[k] \in {TRUE}
  <2> DEFINE st == run[k - 1]
             after == run[k]
  <2>1. k \in 0 .. B /\ k - 1 \in 0 .. B
    BY <1>4
  <2>2. Turned(st, rows, C, k - 1)
    BY <1>16, <2>1
  <2>3. after = Round(rows, st)
    BY <1>14
  <2>4. good[k] = Turned(after, rows, C, k)
    BY <2>1
  <2> HIDE DEF good, st, after
  <2>5. Shared(st, rows, C)
    BY <2>2 DEF Turned
  <2>6. /\ Shared(after, rows, C) /\ (st.stuck => after.stuck)
        /\ after.left <= st.left /\ (~after.stuck /\ st.left # 0 => after.left < st.left)
    BY <2>3, <2>5, RoundKeeps
  <2>7. st.left \in Nat /\ after.left \in Nat
    BY <2>5, <2>6 DEF Shared
  <2>8. ASSUME ~after.stuck PROVE after.left = 0 \/ after.left + k <= B
    <3>1. st.left = 0 \/ st.left + (k - 1) <= B
      BY <2>2, <2>6, <2>8 DEF Turned, B
    <3> QED
      BY <1>4, <2>1, <2>6, <2>7, <2>8, <3>1
  <2> QED
    BY <2>4, <2>6, <2>8 DEF Turned, B
<1>17. \A k \in 0 .. B : good[k] \in {TRUE}
  <2> HIDE DEF good
  <2> QED
    BY <1>4, <1>15, <1>16, RangeRecursionType
<1>18. Turned(run[B], rows, C, B)
  <2>1. B \in 0 .. B
    BY <1>4
  <2>2. good[B] = Turned(run[B], rows, C, B)
    BY <2>1
  <2> QED
    BY <1>17, <2>1, <2>2
<1> HIDE DEF good, weights
<1> DEFINE last == run[B]
<1>19. /\ Shared(last, rows, C) /\ (~last.stuck => last.left = 0)
  <2>1. last.left \in Nat /\ Shared(last, rows, C)
    BY <1>18 DEF Turned, Shared
  <2>2. ~last.stuck => last.left = 0 \/ last.left + B <= B
    BY <1>18 DEF Turned, B
  <2> QED
    BY <1>4, <2>1, <2>2
<1> HIDE DEF last
<1>20. weights = IF c = <<>> \/ room < left \/ last.stuck THEN <<>> ELSE last.weights
  BY <1>1 DEF last
<1>21. C = {} => CapsOf(rows, C) = 0
  BY SumEmpty DEF CapsOf
<1>22. last.weights \in [C -> Int] /\ (C # {} => last.weights # <<>>)
  BY <1>19 DEF Shared
<1>23. B > 0
  BY BpsAssumption DEF B
<1>24. CASE c = <<>> \/ room < left \/ last.stuck
  <2>1. weights = <<>>
    BY <1>20, <1>24
  <2>2. CapsOf(rows, C) < B
    <3>1. CASE c = <<>>
      BY <1>21, <1>23, <3>1
    <3>2. CASE room < left
      BY <1>6, <3>2
    <3>3. CASE last.stuck
      <4>1. CapsOf(rows, C) \in Int
        BY <1>2, WithheldFacts
      <4>2. ~(CapsOf(rows, C) >= B)
        BY <1>19, <3>3 DEF Shared, B
      <4> QED
        BY <1>4, <4>1, <4>2
    <3> QED
      BY <1>24, <3>1, <3>2, <3>3
  <2> QED
    BY <2>1, <2>2 DEF weights, B
<1>25. CASE ~(c = <<>> \/ room < left \/ last.stuck)
  <2>1. weights = last.weights
    BY <1>20, <1>25
  <2>2. ~(CapsOf(rows, C) < B)
    BY <1>6, <1>25
  <2>3. weights # <<>> /\ weights \in [C -> Int]
    BY <1>22, <1>25, <2>1
  <2>4. SumOver(weights, C) + 0 = B /\ \A i \in C : rows[i].weight <= weights[i] /\ weights[i] <= rows[i].cap
    BY <1>19, <1>25, <2>1 DEF Shared, B
  <2>5. SumOver(weights, C) \in Int
    <3>1. IsFiniteSet(C)
      BY FS_Subset DEF IsRows
    <3>2. \A i \in C : weights[i] \in Int
      BY <2>3
    <3> QED
      BY <3>1, <3>2, SumType
  <2> QED
    BY <2>2, <2>3, <2>4, <2>5 DEF weights, B
<1> QED
  BY <1>24, <1>25

-------------------------------------------------------------------------------
(***************************************************************************)
(* The targets that are recommended                                        *)
(***************************************************************************)

\* What the provider is told to execute: nothing if the caps of the best rows are too small
\* for the whole, else their pools, each with a weight between its own and its cap.
LEMMA ProviderFacts ==
    ASSUME NEW rows, IsRows(rows), RowsSound(rows), NEW pools, NEW prune
    PROVE  LET c == Candidates(rows, pools, prune)
               t == ProviderTargets(rows, pools, prune)
               best == Best(rows, Available(rows, pools, prune))
           IN  /\ t = <<>> <=> CapsOf(rows, best) < BpsTotal
               /\ t # <<>> =>
                    /\ Weighted(t) /\ DOMAIN t = DOMAIN c /\ Len(t) <= MaxExecutable
                    /\ \A k \in DOMAIN c :
                         /\ t[k].pool = Resolve(pools, c[k]).id
                         /\ rows[c[k]].weight <= t[k].weight /\ t[k].weight <= rows[c[k]].cap
<1> DEFINE open == Available(rows, pools, prune)
           c == Candidates(rows, pools, prune)
           t == ProviderTargets(rows, pools, prune)
           C == Best(rows, open)
           w == Redistribute(rows, c)
           target(k) == [pool |-> Resolve(pools, c[k]).id, fee |-> rows[c[k]].fee, weight |-> w[c[k]]]
           n == Len(c)
<1>1. t = IF w = <<>> THEN <<>> ELSE [k \in DOMAIN c |-> target(k)]
  BY DEF ProviderTargets
<1>2. /\ c \in Seq(open) /\ n \in Nat /\ n <= MaxExecutable /\ DOMAIN c = 1 .. n /\ Range(c) = C
      /\ \A i, k \in DOMAIN c : c[i] = c[k] => i = k
      /\ open \in SUBSET DOMAIN rows
  BY CandidatesFacts
<1>3. \A k \in 1 .. n : /\ target(k).pool = Resolve(pools, c[k]).id /\ target(k).weight = w[c[k]]
  OBVIOUS
<1>4. C \in SUBSET DOMAIN rows
  BY <1>2 DEF Best
<1> HIDE DEF open, c, t, C, w, target
<1>5. ToSet(c) = C /\ \A y \in C : \E k \in 1 .. n : c[k] = y
  BY <1>2 DEF ToSet, Range
<1>6. \A k \in 1 .. n : c[k] \in C
  BY <1>2 DEF Range
<1>7. c = <<>> <=> C = {}
  <2>1. n = 0 <=> 1 .. n = {}
    BY <1>2
  <2>2. c = <<>> <=> n = 0
    BY <1>2
  <2> QED
    BY <1>5, <1>6, <2>1, <2>2
<1>8. /\ w = <<>> <=> CapsOf(rows, C) < BpsTotal
      /\ w # <<>> =>
           /\ w \in [C -> Int] /\ SumOver(w, C) = BpsTotal
           /\ \A i \in C : rows[i].weight <= w[i] /\ w[i] <= rows[i].cap
  BY <1>4, <1>5, <1>7, RedistributeFacts DEF w
<1>9. CASE w = <<>>
  BY <1>1, <1>8, <1>9 DEF t, C, open
<1>10. CASE w # <<>>
  <2>1. t = [k \in 1 .. n |-> target(k)]
    BY <1>1, <1>2, <1>10
  <2>2. t = [k \in 1 .. n |-> t[k]] /\ DOMAIN t = 1 .. n /\ \A k \in 1 .. n : t[k] = target(k)
    BY <2>1
  <2>3. t \in Seq(Range(t)) /\ Len(t) = n
    BY <1>2, <2>2, FunctionSequence
  <2>4. t # <<>>
    <3>1. C # {}
      BY <1>8, <1>10, SumEmpty, BpsAssumption
    <3>2. n # 0
      BY <1>5, <3>1
    <3> QED
      BY <1>2, <2>3, <3>2
  <2>5. \A k \in 1 .. n : /\ t[k].pool = Resolve(pools, c[k]).id /\ t[k].weight = w[c[k]]
                          /\ c[k] \in C /\ w[c[k]] \in Int
    BY <1>3, <1>6, <1>8, <1>10, <2>2
  <2>6. \A k \in 1 .. n : rows[c[k]].weight <= t[k].weight /\ t[k].weight <= rows[c[k]].cap
    BY <1>8, <1>10, <2>5
  <2>7. \A k \in 1 .. n : t[k].weight \in Nat
    <3>1. \A i \in C : rows[i].weight \in Int /\ 0 < rows[i].weight
      BY <1>4 DEF IsRows, RowsSound
    <3> QED
      BY <2>5, <2>6, <3>1
  <2>8. Total([k \in DOMAIN t |-> t[k].weight]) = BpsTotal
    <3> DEFINE S == 1 .. n
               g == [k \in S |-> t[k].weight]
    <3>1. IsFiniteSet(S)
      BY <1>2, FS_Interval
    <3>2. \A k \in S : g[k] = w[c[k]]
      BY <2>5
    <3>3. Total([k \in DOMAIN t |-> t[k].weight]) = SumOver(g, S)
      BY <2>2 DEF Total, SumOver
    <3>4. /\ \A k \in S : c[k] \in C
          /\ \A i, k \in S : c[i] = c[k] => i = k
          /\ \A y \in C : \E k \in S : c[k] = y
      BY <1>2, <1>5, <1>6
    <3>5. \A y \in C : w[y] \in Int
      BY <1>8, <1>10
    <3> HIDE DEF S, g
    <3>6. SumOver(g, S) = SumOver(w, C)
      BY <3>1, <3>2, <3>4, <3>5, SumRenamed
    <3> QED
      BY <1>8, <1>10, <3>3, <3>6
  <2>9. Weighted(t)
    BY <2>2, <2>3, <2>7, <2>8 DEF Weighted
  <2> QED
    BY <1>2, <1>8, <1>10, <2>2, <2>3, <2>4, <2>5, <2>6, <2>9 DEF t, C, open, c, n
<1> QED
  BY <1>9, <1>10

\* The elements of a sequence at some places, each once.
Ascending(places) == Sorted(places, <)

\* What is picked from a sequence is at the places given, each once.
LEMMA PickedFacts ==
    ASSUME NEW s, NEW places \in SUBSET Int, IsFiniteSet(places)
    PROVE  LET order == Ascending(places)
               picked == Picked(s, places)
               n == Cardinality(places)
           IN  /\ n \in Nat /\ picked \in Seq(Range(picked)) /\ Len(picked) = n
               /\ DOMAIN picked = 1 .. n /\ \A k \in 1 .. n : picked[k] = s[order[k]]
               /\ \A k \in 1 .. n : order[k] \in places
               /\ \A i, k \in 1 .. n : order[i] = order[k] => i = k
               /\ \A y \in places : \E k \in 1 .. n : order[k] = y
<1> DEFINE order == Ascending(places)
           picked == Picked(s, places)
           n == Cardinality(places)
<1>1. n \in Nat
  BY FS_CardinalityType
<1>2. /\ order \in Seq(places) /\ Len(order) = n /\ Range(order) = places
      /\ \A i, k \in DOMAIN order : i < k => order[i] < order[k]
  BY SortedNumbers DEF Ascending
<1>3. picked = [k \in DOMAIN order |-> s[order[k]]]
  BY DEF Picked, Ascending
<1> HIDE DEF order, picked, n
<1>4. DOMAIN order = 1 .. n
  BY <1>1, <1>2
<1>5. DOMAIN picked = 1 .. n /\ \A k \in 1 .. n : picked[k] = s[order[k]]
  BY <1>3, <1>4
<1>6. picked \in Seq(Range(picked)) /\ Len(picked) = n
  <2>1. picked = [k \in 1 .. n |-> picked[k]]
    BY <1>3, <1>4
  <2> QED
    BY <1>1, <2>1, FunctionSequence
<1>7. \A k \in 1 .. n : order[k] \in places
  BY <1>2, <1>4 DEF Range
<1>8. \A y \in places : \E k \in 1 .. n : order[k] = y
  BY <1>2, <1>4 DEF Range
<1>9. ASSUME NEW i \in 1 .. n, NEW k \in 1 .. n, order[i] = order[k] PROVE i = k
  <2>1. order[i] \in Int /\ i \in Int /\ k \in Int
    <3>1. order[i] \in places
      BY <1>7
    <3>2. \A y \in places : y \in Int
      OBVIOUS
    <3>3. i \in Int /\ k \in Int
      BY <1>1
    <3> QED
      BY ONLY <3>1, <3>2, <3>3
  <2>2. ~(i < k) /\ ~(k < i)
    BY <1>2, <1>4, <1>9, <2>1
  <2> QED
    BY <2>1, <2>2
<1> QED
  BY <1>1, <1>5, <1>6, <1>7, <1>8, <1>9 DEF order, picked, n

\* A target for each of some of the candidates.
Chosen(t, candidates, name) ==
    /\ \A k \in DOMAIN t : /\ t[k].weight > 0 /\ name[k] \in DOMAIN candidates
                           /\ t[k].pool = candidates[name[k]].pool
    /\ \A i, k \in DOMAIN t : name[i] = name[k] => i = k

\* What a voter is told to execute: the whole is apportioned to the candidates worth most
\* votes, and what is left at nothing is not a target.
LEMMA VoterFacts ==
    ASSUME NEW candidates, DOMAIN candidates \in SUBSET Int, IsFiniteSet(DOMAIN candidates),
           NEW votes, \A k \in DOMAIN candidates : votes[k] \in Int
    PROVE  LET t == VoterTargets(candidates, votes)
           IN  t # <<>> =>
                 Weighted(t) /\ Len(t) <= MaxExecutable /\ \E name : Chosen(t, candidates, name)
<1> DEFINE D == {k \in DOMAIN candidates : votes[k] > 0}
           kept == Heaviest(D, votes)
           worth == [k \in DOMAIN kept |-> votes[kept[k]]]
           bps == Apportion(BpsTotal, worth, Total(worth))
           target(k) == [pool |-> candidates[kept[k]].pool, fee |-> candidates[kept[k]].fee,
                         weight |-> bps[k]]
           all == [k \in DOMAIN kept |-> target(k)]
           places == {k \in DOMAIN kept : bps[k] > 0}
           t == VoterTargets(candidates, votes)
           n == Len(kept)
<1>1. t = Picked(all, places)
  BY DEF VoterTargets, Heaviest
<1>2. IsFiniteSet(D) /\ \A k \in D : k \in Int /\ votes[k] \in Int /\ votes[k] > 0
  BY FS_Subset
<1>3. D \in SUBSET DOMAIN candidates
  OBVIOUS
<1> HIDE DEF D
<1>4. /\ kept \in Seq(D) /\ n \in Nat /\ n <= MaxExecutable /\ DOMAIN kept = 1 .. n
      /\ \A i, k \in DOMAIN kept : kept[i] = kept[k] => i = k
  BY <1>2, HeaviestFacts
<1> HIDE DEF kept, n
<1>5. \A k \in 1 .. n : kept[k] \in D
  BY <1>4
<1>6. /\ DOMAIN worth = 1 .. n /\ worth \in [1 .. n -> Nat]
      /\ \A k \in 1 .. n : worth[k] > 0
  BY <1>2, <1>4, <1>5
<1>7. /\ all = [k \in 1 .. n |-> all[k]]
      /\ \A k \in 1 .. n : all[k].pool = candidates[kept[k]].pool /\ all[k].weight = bps[k]
  BY <1>4
<1>8. places = {k \in 1 .. n : bps[k] > 0}
  BY <1>4
<1> DEFINE S == 1 .. n
<1>9. S \in SUBSET Int /\ IsFiniteSet(S)
  BY <1>4, FS_Interval
<1> HIDE DEF S, worth, bps, target, all, places, t
<1>10. CASE n = 0
  <2>1. places = {}
    BY <1>8, <1>10
  <2>2. IsFiniteSet(places) /\ Cardinality(places) = 0
    BY <2>1, FS_EmptySet
  <2>3. Picked(all, places) \in Seq(Range(Picked(all, places))) /\ Len(Picked(all, places)) = 0
    <3>1. places \in SUBSET Int
      BY <2>1
    <3> QED
      BY <2>2, <3>1, PickedFacts
  <2> QED
    BY <1>1, <2>3 DEF t
<1>11. CASE n # 0
  <2> DEFINE den == Total(worth)
  <2>1. den \in Nat \ {0}
    <3>1. S # {} /\ worth \in [S -> Int] /\ \A x \in S : worth[x] > 0
      BY <1>4, <1>6, <1>11 DEF S
    <3>2. Total(worth) \in Int /\ Total(worth) > 0
      BY <1>9, <3>1, TotalType
    <3> QED
      BY <3>2
  <2>2. bps = Apportion(BpsTotal, worth, den)
    BY DEF bps
  <2> HIDE DEF den
  <2>3. bps \in [S -> Nat] /\ Total(bps) = BpsTotal
    <3>1. worth \in [S -> Nat]
      BY <1>6 DEF S
    <3>2. BpsTotal \in Nat /\ Total(worth) = den
      BY BpsAssumption DEF den
    <3> HIDE DEF places
    <3> QED
      BY <1>9, <2>1, <2>2, <3>1, <3>2, ApportionFair
  <2>4. Total(bps) = SumOver(bps, S)
    BY <2>3 DEF Total, SumOver
  <2>5. places \in SUBSET S /\ places \in SUBSET Int /\ IsFiniteSet(places)
        /\ \A k \in S : k \in places <=> bps[k] > 0
    <3>1. places \in SUBSET S /\ \A k \in S : k \in places <=> bps[k] > 0
      BY <1>8 DEF S
    <3>2. places \in SUBSET Int
      BY ONLY <1>9, <3>1
    <3> QED
      BY <1>9, <3>1, <3>2, FS_Subset
  <2>6. SumOver(bps, S) = SumOver(bps, places)
    <3>1. \A k \in S : bps[k] = IF k \in places THEN bps[k] ELSE 0
      BY <2>3, <2>5
    <3>2. \A k \in places : bps[k] \in Int
      BY <2>3, <2>5
    <3> QED
      BY <1>9, <2>5, <3>1, <3>2, SumWithin
  <2> DEFINE at == Ascending(places)
             c == Cardinality(places)
  <2>7. /\ c \in Nat /\ t \in Seq(Range(t)) /\ Len(t) = c
        /\ DOMAIN t = 1 .. c /\ \A k \in 1 .. c : t[k] = all[at[k]]
        /\ \A k \in 1 .. c : at[k] \in places
        /\ \A i, k \in 1 .. c : at[i] = at[k] => i = k
        /\ \A y \in places : \E k \in 1 .. c : at[k] = y
    BY <1>1, <2>5, PickedFacts
  <2> HIDE DEF at, c
  <2>8. \A k \in 1 .. c : /\ at[k] \in S /\ at[k] \in places
                          /\ t[k].pool = candidates[kept[at[k]]].pool
                          /\ t[k].weight = bps[at[k]] /\ bps[at[k]] \in Nat /\ bps[at[k]] > 0
    <3> SUFFICES ASSUME NEW k \in 1 .. c
                 PROVE  /\ at[k] \in S /\ at[k] \in places
                        /\ t[k].pool = candidates[kept[at[k]]].pool
                        /\ t[k].weight = bps[at[k]] /\ bps[at[k]] \in Nat /\ bps[at[k]] > 0
      OBVIOUS
    <3>1. at[k] \in places /\ t[k] = all[at[k]]
      BY <2>7
    <3>2. at[k] \in S /\ bps[at[k]] > 0 /\ bps[at[k]] \in Nat
      BY <2>3, <2>5, <3>1
    <3>3. at[k] \in 1 .. n
      BY <3>2 DEF S
    <3>4. t[k].pool = candidates[kept[at[k]]].pool /\ t[k].weight = bps[at[k]]
      BY <1>7, <3>1, <3>3
    <3> QED
      BY <3>1, <3>2, <3>4
  <2>9. Total([k \in DOMAIN t |-> t[k].weight]) = BpsTotal
    <3> DEFINE P == 1 .. c
               g == [k \in P |-> t[k].weight]
    <3>1. IsFiniteSet(P)
      BY <2>7, FS_Interval
    <3>2. \A k \in P : g[k] = bps[at[k]]
      BY <2>8
    <3>3. Total([k \in DOMAIN t |-> t[k].weight]) = SumOver(g, P)
      BY <2>7 DEF Total, SumOver
    <3>4. /\ \A k \in P : at[k] \in places
          /\ \A i, k \in P : at[i] = at[k] => i = k
          /\ \A y \in places : \E k \in P : at[k] = y
      BY <2>7
    <3>5. \A y \in places : bps[y] \in Int
      BY <2>3, <2>5
    <3> HIDE DEF P, g
    <3>6. SumOver(g, P) = SumOver(bps, places)
      BY <3>1, <3>2, <3>4, <3>5, SumRenamed
    <3> QED
      BY <2>3, <2>4, <2>6, <3>3, <3>6
  <2>10. Weighted(t)
    BY <2>7, <2>8, <2>9 DEF Weighted
  <2>11. Len(t) <= MaxExecutable
    <3>1. Cardinality(places) <= Cardinality(S) /\ Cardinality(S) = n
      <4>1. Cardinality(S) = n
        BY <1>4, FS_Interval DEF S
      <4> QED
        BY <1>9, <2>5, <4>1, FS_Subset
    <3> QED
      BY <1>4, <2>7, <3>1, ExecutableAssumption DEF c
  <2>12. \E name : Chosen(t, candidates, name)
    <3> DEFINE name == [k \in 1 .. c |-> kept[at[k]]]
    <3>1. \A k \in 1 .. c : name[k] = kept[at[k]] /\ name[k] \in DOMAIN candidates
      <4>1. \A k \in 1 .. c : at[k] \in 1 .. n
        BY <2>8 DEF S
      <4> QED
        BY <1>3, <1>5, <4>1
    <3>2. ASSUME NEW i \in 1 .. c, NEW k \in 1 .. c, name[i] = name[k] PROVE i = k
      <4>1. kept[at[i]] = kept[at[k]] /\ at[i] \in 1 .. n /\ at[k] \in 1 .. n
        BY <2>8, <3>2 DEF S
      <4>2. at[i] = at[k]
        BY <1>4, <4>1
      <4> QED
        BY <2>7, <4>2
    <3> HIDE DEF name
    <3>3. Chosen(t, candidates, name)
      BY <2>7, <2>8, <3>1, <3>2 DEF Chosen
    <3> QED
      BY <3>3
  <2> QED
    BY <2>10, <2>11, <2>12 DEF t
<1> QED
  BY <1>10, <1>11

-------------------------------------------------------------------------------
(***************************************************************************)
(* The inductive invariant.  Each list of targets is one the passes divide *)
(* the stake over whole, and a plan is what the passes made of the cohort. *)
(***************************************************************************)
\* NFTs with ids of their own, small ones before the first plan.
CohortSound == IsCohort(cohort) /\ (~settled => \A n \in cohort : n.id \in 1 .. MaxNfts)

\* Nothing to reallocate to, or different targets with weights that sum to the whole.
TargetsSound == targets # <<>> => Weighted(targets) /\ Apart(targets)

\* A plan is what the passes make of the cohort as it is.
ChunksSound ==
    chunks # Unallocated => Weighted(targets) /\ chunks = AllocateCohort(cohort, targets)

\* A snapshot's pools are named by the pair they are of.
PlanSound ==
    plan # None =>
        /\ plan = [rows |-> plan.rows, pools |-> plan.pools, prune |-> plan.prune, basis |-> plan.basis]
        /\ IsRows(plan.rows) /\ RowsSound(plan.rows)
        /\ IsFiniteSet(plan.pools) /\ \A p \in plan.pools : \E name : p.id = Id(p.pair, name)
        /\ \A i \in DOMAIN plan.rows : i # 0

\* What the voter provides liquidity to.
OwnPools == <<[pool |-> Id(1, "pool"), fee |-> 2], Vote("X", 2)>>

\* t is what is recommended to it for some votes.
OnVoter(t, rows, pools, prune) ==
    LET candidates == VoterCandidates(rows, pools, prune, OwnPools)
    IN  \E votes \in [DOMAIN candidates -> {0, 1, 2, 20}] : t = VoterTargets(candidates, votes)

\* Once there is a basis, the targets are what was recommended on it.
BasisSound ==
    plan # None =>
        /\ plan.basis = None => targets = <<>> /\ chunks = Unallocated
        /\ plan.basis # None => ~DuplicatePool(plan.rows, plan.pools)
        /\ \/ plan.basis = None
           \/ /\ plan.basis = "provider"
              /\ targets = ProviderTargets(plan.rows, plan.pools, plan.prune)
           \/ /\ plan.basis = "voter"
              /\ OnVoter(targets, plan.rows, plan.pools, plan.prune)

\* A cohort that has adopted a plan votes as it was told, and is not recommended others.
SettledSound ==
    settled => /\ Weighted(targets) /\ Served(cohort, targets)
               /\ plan # None => plan.basis # None

\* The inductive invariant.
AllocationInv ==
    /\ settled \in BOOLEAN /\ CohortSound /\ TargetsSound /\ ChunksSound /\ PlanSound /\ BasisSound
    /\ SettledSound

-------------------------------------------------------------------------------
(***************************************************************************)
(* Targets that are recommended are different pools                        *)
(***************************************************************************)

\* The candidates of a voter: those planned, and those of its own that are new.
Planned(rows, pools, prune) ==
    LET candidates == Candidates(rows, pools, prune)
    IN  [k \in DOMAIN candidates |->
            [pool |-> Resolve(pools, candidates[k]).id, fee |-> rows[candidates[k]].fee]]

\* Which of its own are new.
NewOwn(rows, pools, prune) ==
    {j \in DOMAIN OwnPools : \A k \in DOMAIN Planned(rows, pools, prune) :
        Planned(rows, pools, prune)[k].pool # OwnPools[j].pool}

\* A voter's candidates are the one list joined to the other.
LEMMA VoterCandidatesJoin ==
    ASSUME NEW rows, IsRows(rows), NEW pools, NEW prune
    PROVE  LET planned == Planned(rows, pools, prune)
               new == NewOwn(rows, pools, prune)
           IN  /\ VoterCandidates(rows, pools, prune, OwnPools) = planned \o Picked(OwnPools, new)
               /\ planned \in Seq(Range(planned))
               /\ new \in SUBSET Int /\ IsFiniteSet(new) /\ new \in SUBSET (1 .. 2)
<1> DEFINE planned == Planned(rows, pools, prune)
           new == NewOwn(rows, pools, prune)
           c == Candidates(rows, pools, prune)
<1>1. VoterCandidates(rows, pools, prune, OwnPools) = planned \o Picked(OwnPools, new)
  BY DEF VoterCandidates, Planned, NewOwn
<1>2. Len(c) \in Nat /\ DOMAIN c = 1 .. Len(c)
  BY CandidatesFacts
<1>3. planned \in Seq(Range(planned))
  <2>1. planned = [k \in 1 .. Len(c) |-> planned[k]]
    BY <1>2 DEF Planned
  <2> HIDE DEF planned, c
  <2> QED
    BY <1>2, <2>1, FunctionSequence
<1>4. new \in SUBSET (1 .. 2)
  <2>1. DOMAIN OwnPools = 1 .. 2
    BY DEF OwnPools
  <2> QED
    BY <2>1 DEF NewOwn
<1> HIDE DEF new
<1>5. new \in SUBSET Int /\ IsFiniteSet(new)
  <2>1. IsFiniteSet(1 .. 2)
    BY FS_Interval, 1 \in Int, 2 \in Int
  <2>2. \A k \in 1 .. 2 : k \in Int
    OBVIOUS
  <2> QED
    BY <1>4, <2>1, <2>2, FS_Subset
<1> QED
  BY <1>1, <1>3, <1>4, <1>5 DEF new

\* And there are finitely many of them.
LEMMA VoterCandidatesFacts ==
    ASSUME NEW rows, IsRows(rows), NEW pools, NEW prune
    PROVE  LET candidates == VoterCandidates(rows, pools, prune, OwnPools)
           IN  DOMAIN candidates \in SUBSET Int /\ IsFiniteSet(DOMAIN candidates)
<1> DEFINE planned == Planned(rows, pools, prune)
           new == NewOwn(rows, pools, prune)
           own == Picked(OwnPools, new)
<1>1. /\ VoterCandidates(rows, pools, prune, OwnPools) = planned \o own
      /\ planned \in Seq(Range(planned)) /\ new \in SUBSET Int /\ IsFiniteSet(new)
  BY VoterCandidatesJoin
<1> HIDE DEF planned, new
<1>2. own \in Seq(Range(own))
  BY <1>1, PickedFacts
<1> HIDE DEF own
<1>3. DOMAIN (planned \o own) \in SUBSET Int /\ IsFiniteSet(DOMAIN (planned \o own))
  BY <1>1, <1>2, JoinedDomain
<1> QED
  BY <1>1, <1>3

\* The pool a pair stands for is a concentrated one of it, and where there are others it
\* has the preferred spacing and they have not.
LEMMA ResolveFacts ==
    ASSUME NEW pools, IsFiniteSet(pools), NEW pair, Resolve(pools, pair) # NoPool
    PROVE  LET r == Resolve(pools, pair)
           IN  /\ r \in Matching(pools, pair)
               /\ \A q \in Matching(pools, pair) : q # r /\ q.tick # FullRange =>
                     r.tick = Preferred /\ q.tick # Preferred
<1> DEFINE concentrated == {p \in Matching(pools, pair) : p.tick # FullRange}
           preferred == {p \in concentrated : p.tick = Preferred}
           r == Resolve(pools, pair)
<1>1. r = IF Cardinality(concentrated) = 1 THEN CHOOSE p \in concentrated : TRUE
          ELSE IF Cardinality(preferred) = 1 THEN CHOOSE p \in preferred : TRUE
          ELSE NoPool
  BY DEF Resolve
<1>2. /\ concentrated \in SUBSET Matching(pools, pair) /\ preferred \in SUBSET concentrated
      /\ Matching(pools, pair) \in SUBSET pools
  BY DEF Matching
<1>3. IsFiniteSet(concentrated) /\ IsFiniteSet(preferred)
  BY <1>2, FS_Subset
<1>4. \A q \in Matching(pools, pair) : q \in concentrated <=> q.tick # FullRange
  OBVIOUS
<1>5. \A q \in concentrated : q \in preferred <=> q.tick = Preferred
  OBVIOUS
<1> HIDE DEF concentrated, preferred, r
<1>6. CASE Cardinality(concentrated) = 1
  <2>1. r = CHOOSE p \in concentrated : TRUE
    BY <1>1, <1>6
  <2>2. r \in concentrated /\ \A q \in concentrated : q = r
    BY <1>3, <1>6, <2>1, OnlyElement
  <2> QED
    BY <1>2, <1>4, <2>2 DEF r
<1>7. CASE Cardinality(concentrated) # 1
  <2>1. Cardinality(preferred) = 1 /\ r = CHOOSE p \in preferred : TRUE
    BY <1>1, <1>7 DEF r
  <2>2. r \in preferred /\ \A q \in preferred : q = r
    BY <1>3, <2>1, OnlyElement
  <2>3. r \in concentrated /\ r.tick = Preferred
    BY <1>2, <1>5, <2>2
  <2> QED
    BY <1>2, <1>4, <1>5, <2>2, <2>3 DEF r
<1> QED
  BY <1>6, <1>7

\* What holds of the directory of a snapshot.
Directory(rows, pools) ==
    /\ IsRows(rows) /\ RowsSound(rows) /\ IsFiniteSet(pools)
    /\ \A p \in pools : \E name : p.id = Id(p.pair, name)
    /\ ~DuplicatePool(rows, pools) /\ \A i \in DOMAIN rows : i # 0

\* A name tells the pair.
LEMMA IdApart ==
    ASSUME NEW i, NEW k, NEW a, NEW b, Id(i, a) = Id(k, b)
    PROVE  i = k /\ a = b
BY DEF Id

\* Each candidate stands for an initialized pool of its own pair, and no two for the same.
LEMMA CandidatePools ==
    ASSUME NEW rows, NEW pools, Directory(rows, pools), NEW prune
    PROVE  LET c == Candidates(rows, pools, prune)
               pool(k) == Resolve(pools, c[k])
           IN  /\ \A k \in DOMAIN c : /\ c[k] \in DOMAIN rows /\ pool(k) \in Matching(pools, c[k])
                                      /\ pool(k) # NoPool
                                      /\ pool(k).pair = c[k] /\ \E name : pool(k).id = Id(c[k], name)
                                      /\ \A p \in pools : p.id = pool(k).id => p.pair = c[k]
               /\ \A j, k \in DOMAIN c : pool(j).id = pool(k).id => j = k
<1> DEFINE c == Candidates(rows, pools, prune)
           pool(k) == Resolve(pools, c[k])
           open == Available(rows, pools, prune)
<1>1. /\ c \in Seq(open) /\ open \in SUBSET DOMAIN rows
      /\ \A i, k \in DOMAIN c : c[i] = c[k] => i = k
  BY CandidatesFacts DEF Directory
<1>2. \A i \in open : Resolve(pools, i) # NoPool
  BY DEF Available
<1> HIDE DEF c, open
<1>3. \A k \in DOMAIN c : c[k] \in open
  BY <1>1
<1>4. ASSUME NEW k \in DOMAIN c
      PROVE  /\ c[k] \in DOMAIN rows /\ pool(k) \in Matching(pools, c[k])
             /\ pool(k).pair = c[k] /\ \E name : pool(k).id = Id(c[k], name)
             /\ pool(k) # NoPool
  <2>1. c[k] \in open /\ c[k] \in DOMAIN rows /\ Resolve(pools, c[k]) # NoPool
    BY <1>1, <1>2, <1>3
  <2>2. pool(k) \in Matching(pools, c[k])
    BY <2>1, ResolveFacts DEF Directory
  <2>3. pool(k) \in pools /\ pool(k).pair = c[k]
    BY <2>2 DEF Matching
  <2> QED
    BY <2>1, <2>2, <2>3 DEF Directory
<1>5. ASSUME NEW k \in DOMAIN c, NEW p \in pools, p.id = pool(k).id PROVE p.pair = c[k]
  <2>1. PICK a : p.id = Id(p.pair, a)
    BY DEF Directory
  <2>2. PICK b : pool(k).id = Id(c[k], b)
    BY <1>4
  <2> QED
    BY <1>5, <2>1, <2>2, IdApart
<1>6. ASSUME NEW j \in DOMAIN c, NEW k \in DOMAIN c, pool(j).id = pool(k).id PROVE j = k
  <2>1. pool(j) \in pools
    BY <1>4 DEF Matching
  <2>2. c[j] = c[k]
    BY <1>4, <1>5, <1>6, <2>1
  <2> QED
    BY <1>1, <2>2
<1> HIDE DEF pool
<1> QED
  BY <1>4, <1>5, <1>6 DEF pool, c

\* The candidates of a voter are different pools.
LEMMA VoterPools ==
    ASSUME NEW rows, NEW pools, Directory(rows, pools), NEW prune
    PROVE  LET candidates == VoterCandidates(rows, pools, prune, OwnPools)
           IN  \A j, k \in DOMAIN candidates : candidates[j].pool = candidates[k].pool => j = k
<1> DEFINE planned == Planned(rows, pools, prune)
           new == NewOwn(rows, pools, prune)
           own == Picked(OwnPools, new)
           at == Ascending(new)
           n == Cardinality(new)
           c == Candidates(rows, pools, prune)
           all == planned \o own
<1>1. /\ VoterCandidates(rows, pools, prune, OwnPools) = all
      /\ planned \in Seq(Range(planned))
      /\ new \in SUBSET Int /\ IsFiniteSet(new) /\ new \in SUBSET (1 .. 2)
  BY VoterCandidatesJoin DEF Directory
<1>2. DOMAIN planned = DOMAIN c /\ \A k \in DOMAIN c : planned[k].pool = Resolve(pools, c[k]).id
  BY DEF Planned
<1>3. \A j, k \in DOMAIN c : Resolve(pools, c[j]).id = Resolve(pools, c[k]).id => j = k
  BY CandidatePools
<1>4. \A j \in new : \A k \in DOMAIN planned : planned[k].pool # OwnPools[j].pool
  BY DEF NewOwn
<1>5. \A i, j \in 1 .. 2 : OwnPools[i].pool = OwnPools[j].pool => i = j
  <2>1. OwnPools[1].pool = Id(1, "pool") /\ OwnPools[2].pool = Id(0, "X")
    BY DEF OwnPools, Vote
  <2>2. Id(1, "pool") # Id(0, "X")
    BY IdApart
  <2>3. \A i \in 1 .. 2 : i = 1 \/ i = 2
    OBVIOUS
  <2> QED
    BY <2>1, <2>2, <2>3
<1> HIDE DEF planned, new, c
<1>6. /\ n \in Nat /\ own \in Seq(Range(own)) /\ Len(own) = n /\ DOMAIN own = 1 .. n
      /\ \A k \in 1 .. n : own[k] = OwnPools[at[k]]
      /\ \A k \in 1 .. n : at[k] \in new
      /\ \A i, k \in 1 .. n : at[i] = at[k] => i = k
  BY <1>1, PickedFacts
<1> HIDE DEF own, at, n, all
<1> DEFINE l == Len(planned)
<1>7. /\ DOMAIN all = 1 .. (l + n) /\ l \in Nat
      /\ \A k \in 1 .. l : all[k] = planned[k] /\ k \in DOMAIN planned
      /\ \A k \in 1 .. n : all[l + k] = own[k]
  <2>1. planned \in Seq(Range(planned)) /\ own \in Seq(Range(own)) /\ Len(own) = n
    BY <1>1, <1>6
  <2> DEFINE S == Range(planned)
             T == Range(own)
  <2>2. planned \in Seq(S) /\ own \in Seq(T)
    BY <2>1
  <2> HIDE DEF S, T
  <2>3. /\ DOMAIN (planned \o own) = 1 .. (Len(planned) + Len(own)) /\ Len(planned) \in Nat
        /\ \A k \in 1 .. Len(planned) : (planned \o own)[k] = planned[k] /\ k \in DOMAIN planned
        /\ \A k \in 1 .. Len(own) : (planned \o own)[Len(planned) + k] = own[k]
    BY <2>2, JoinedDomain
  <2> QED
    BY <2>1, <2>3 DEF all
<1> HIDE DEF l
<1>8. ASSUME NEW j \in 1 .. n
      PROVE  /\ at[j] \in 1 .. 2 /\ at[j] \in new /\ all[l + j].pool = OwnPools[at[j]].pool
  BY <1>1, <1>6, <1>7
<1>9. ASSUME NEW j \in 1 .. l, NEW k \in 1 .. l, all[j].pool = all[k].pool PROVE j = k
  <2>1. j \in DOMAIN c /\ k \in DOMAIN c /\ all[j] = planned[j] /\ all[k] = planned[k]
    BY <1>2, <1>7
  <2> QED
    BY <1>2, <1>3, <1>9, <2>1
<1>10. ASSUME NEW j \in 1 .. n, NEW k \in 1 .. n, all[l + j].pool = all[l + k].pool PROVE j = k
  <2>1. at[j] = at[k]
    BY <1>5, <1>8, <1>10
  <2> QED
    BY <1>6, <2>1
<1>11. ASSUME NEW j \in 1 .. l, NEW k \in 1 .. n PROVE all[j].pool # all[l + k].pool
  <2>1. j \in DOMAIN planned /\ all[j] = planned[j]
    BY <1>7
  <2> QED
    BY <1>4, <1>8, <2>1
<1>12. \A j \in 1 .. (l + n) : j \in 1 .. l \/ \E k \in 1 .. n : j = l + k
  <2> SUFFICES ASSUME NEW j \in 1 .. (l + n), ~(j \in 1 .. l) PROVE j - l \in 1 .. n /\ j = l + (j - l)
    OBVIOUS
  <2> QED
    BY <1>6, <1>7
<1>13. ASSUME NEW j \in 1 .. (l + n), NEW k \in 1 .. (l + n), all[j].pool = all[k].pool PROVE j = k
  BY <1>9, <1>10, <1>11, <1>12, <1>13
<1> QED
  BY <1>1, <1>7, <1>13

\* What is recommended on either basis can be executed.
LEMMA RecommendedSound ==
    ASSUME NEW rows, NEW pools, Directory(rows, pools), NEW prune, NEW t, t # <<>>,
           t = ProviderTargets(rows, pools, prune) \/ OnVoter(t, rows, pools, prune)
    PROVE  /\ Weighted(t) /\ Len(t) <= MaxExecutable
           /\ \A k \in DOMAIN t : t[k].weight > 0
           /\ \A j, k \in DOMAIN t : t[j].pool = t[k].pool => j = k
<1> DEFINE c == Candidates(rows, pools, prune)
<1>1. Directory(rows, pools)
  OBVIOUS
<1>2. IsRows(rows) /\ RowsSound(rows) /\ \A i \in DOMAIN rows : rows[i].weight > 0
  BY <1>1 DEF Directory, RowsSound
<1>3. CASE t = ProviderTargets(rows, pools, prune)
  <2>1. /\ Weighted(t) /\ DOMAIN t = DOMAIN c /\ Len(t) <= MaxExecutable
        /\ \A k \in DOMAIN c : /\ t[k].pool = Resolve(pools, c[k]).id
                               /\ rows[c[k]].weight <= t[k].weight
    BY <1>2, <1>3, ProviderFacts
  <2>2. /\ \A k \in DOMAIN c : c[k] \in DOMAIN rows
        /\ \A j, k \in DOMAIN c : Resolve(pools, c[j]).id = Resolve(pools, c[k]).id => j = k
    BY <1>1, CandidatePools
  <2> HIDE DEF c
  <2>3. ASSUME NEW k \in DOMAIN t PROVE t[k].weight > 0
    <3>1. rows[c[k]].weight \in Int /\ rows[c[k]].weight > 0 /\ rows[c[k]].weight <= t[k].weight
      BY <1>2, <2>1, <2>2 DEF IsRows
    <3>2. t[k].weight \in Int
      BY <2>1 DEF Weighted
    <3> QED
      BY <3>1, <3>2
  <2> QED
    BY <2>1, <2>2, <2>3
<1>4. CASE ~(t = ProviderTargets(rows, pools, prune))
  <2> DEFINE candidates == VoterCandidates(rows, pools, prune, OwnPools)
  <2>1. PICK votes \in [DOMAIN candidates -> {0, 1, 2, 20}] : t = VoterTargets(candidates, votes)
    BY <1>4 DEF OnVoter
  <2>2. DOMAIN candidates \in SUBSET Int /\ IsFiniteSet(DOMAIN candidates)
    BY <1>2, VoterCandidatesFacts
  <2>3. \A j, k \in DOMAIN candidates : candidates[j].pool = candidates[k].pool => j = k
    BY <1>1, VoterPools
  <2> HIDE DEF candidates
  <2>4. \A k \in DOMAIN candidates : votes[k] \in Int
    OBVIOUS
  <2>5. Weighted(t) /\ Len(t) <= MaxExecutable /\ \E name : Chosen(t, candidates, name)
    BY <2>1, <2>2, <2>4, VoterFacts
  <2>6. PICK name : Chosen(t, candidates, name)
    BY <2>5
  <2>7. ASSUME NEW j \in DOMAIN t, NEW k \in DOMAIN t, t[j].pool = t[k].pool
        PROVE  j = k
    <3>1. candidates[name[j]].pool = candidates[name[k]].pool
          /\ name[j] \in DOMAIN candidates /\ name[k] \in DOMAIN candidates
      BY <2>6, <2>7 DEF Chosen
    <3>2. name[j] = name[k]
      BY <2>3, <3>1
    <3> QED
      BY <2>6, <3>2 DEF Chosen
  <2> QED
    BY <2>5, <2>6, <2>7 DEF Chosen
<1> QED
  BY <1>3, <1>4

-------------------------------------------------------------------------------
(***************************************************************************)
(* What it starts from                                                     *)
(***************************************************************************)

\* The cohorts it starts from.
LEMMA CohortsSound ==
    ASSUME NEW c \in Cohorts
    PROVE  IsCohort(c) /\ \A n \in c : n.id \in 1 .. MaxNfts
<1> DEFINE Of(n) == {{[id |-> i, amount |-> a[i], vote |-> v[i]] : i \in 1 .. n} :
                        a \in [1 .. n -> 1 .. MaxAmount],
                        v \in [1 .. n -> {Order[1], Order[3], Elsewhere}]}
<1>a. Cohorts = UNION {Of(n) : n \in 1 .. MaxNfts}
  BY DEF Cohorts
<1> HIDE DEF Of
<1>b. PICK n \in 1 .. MaxNfts : c \in Of(n)
  BY <1>a
<1>0. \E a \in [1 .. n -> 1 .. MaxAmount], v \in [1 .. n -> {Order[1], Order[3], Elsewhere}] :
         c = {[id |-> i, amount |-> a[i], vote |-> v[i]] : i \in 1 .. n}
  BY <1>b DEF Of
<1>1. PICK a \in [1 .. n -> 1 .. MaxAmount], v \in [1 .. n -> {Order[1], Order[3], Elsewhere}] :
           c = {[id |-> i, amount |-> a[i], vote |-> v[i]] : i \in 1 .. n}
  BY <1>0
<1>2. MaxNfts \in Nat /\ MaxAmount \in Nat /\ n \in Nat /\ n <= MaxNfts
  BY <1>1, BoundsAssumption
<1> DEFINE S == 1 .. n
           f == [i \in S |-> [id |-> i, amount |-> a[i], vote |-> v[i]]]
<1>3. c = {f[i] : i \in S}
  BY <1>1
<1>4. \A i \in S : f[i].id = i /\ f[i].amount = a[i] /\ a[i] \in Nat \ {0} /\ i \in 1 .. MaxNfts /\ i \in Nat
  BY <1>1, <1>2
<1>5. IsFiniteSet(S)
  BY <1>2, FS_Interval
<1> HIDE DEF S, f
<1>6. IsFiniteSet(c)
  BY <1>3, <1>5, ImageFinite
<1>7. \A x \in c : x.id \in Nat /\ x.id \in 1 .. MaxNfts /\ x.amount \in Nat \ {0}
  BY <1>3, <1>4
<1>8. ASSUME NEW x \in c, NEW y \in c, x.id = y.id PROVE x = y
  <2>1. PICK i \in S : x = f[i]
    BY <1>3
  <2>2. PICK k \in S : y = f[k]
    BY <1>3
  <2>3. i = k
    BY <1>4, <1>8, <2>1, <2>2
  <2> QED
    BY <2>1, <2>2, <2>3
<1> QED
  BY <1>6, <1>7, <1>8 DEF IsCohort, Identified

\* The targets of an owner differ in their pool or in their fee.
LEMMA OrderApart ==
    \A i, k \in 1 .. 3 : Order[i].pool = Order[k].pool /\ Order[i].fee = Order[k].fee => i = k
<1>1. /\ Order[1].pool = Id(0, "A") /\ Order[1].fee = 1
      /\ Order[2].pool = Id(0, "B") /\ Order[2].fee = 1
      /\ Order[3].pool = Id(0, "A") /\ Order[3].fee = 2
  BY DEF Order, Vote
<1>2. Id(0, "A") # Id(0, "B")
  BY IdApart, "A" # "B"
<1>3. \A i \in 1 .. 3 : i = 1 \/ i = 2 \/ i = 3
  OBVIOUS
<1> QED
  BY <1>1, <1>2, <1>3

\* The targets of an owner of its own.
LEMMA TargetListsSound ==
    ASSUME NEW t \in TargetLists
    PROVE  Weighted(t) /\ Apart(t)
<1>0. PICK m \in 1 .. MaxTargets :
           \E w \in {f \in [1 .. m -> 1 .. BpsTotal] : Total(f) = BpsTotal} :
              t = [i \in 1 .. m |-> [pool |-> Order[i].pool, fee |-> Order[i].fee, weight |-> w[i]]]
  BY DEF TargetLists
<1>1. PICK w \in {f \in [1 .. m -> 1 .. BpsTotal] : Total(f) = BpsTotal} :
           t = [i \in 1 .. m |-> [pool |-> Order[i].pool, fee |-> Order[i].fee, weight |-> w[i]]]
  BY <1>0
<1>2. m \in Nat /\ w \in [1 .. m -> 1 .. BpsTotal] /\ Total(w) = BpsTotal /\ BpsTotal \in Nat
  BY <1>1, BoundsAssumption, BpsAssumption
<1>3. DOMAIN t = 1 .. m /\ t = [i \in 1 .. m |-> t[i]] /\ \A i \in 1 .. m : t[i].weight = w[i]
  BY <1>1
<1>4. t \in Seq(Range(t))
  BY <1>2, <1>3, FunctionSequence
<1>5. [i \in DOMAIN t |-> t[i].weight] = w
  <2>1. w = [i \in 1 .. m |-> w[i]]
    BY <1>2
  <2>2. [i \in DOMAIN t |-> t[i].weight] = [i \in 1 .. m |-> w[i]]
    BY <1>3
  <2> QED
    BY <2>1, <2>2
<1>6. \A i \in DOMAIN t : t[i].weight \in Nat
  BY <1>2, <1>3
<1>7. Weighted(t)
  BY <1>2, <1>4, <1>5, <1>6 DEF Weighted
<1>8. \A i \in DOMAIN t : i \in 1 .. 3 /\ t[i].pool = Order[i].pool /\ t[i].fee = Order[i].fee
  <2>1. m <= 3 /\ m \in Nat
    BY <1>2, BoundsAssumption
  <2> QED
    BY <1>1, <1>3, <2>1
<1>9. Apart(t)
  BY <1>8, OrderApart DEF Apart
<1> QED
  BY <1>7, <1>9

\* What a directory may list for a pair: pools of it, and no more than two.
LEMMA ListingsSound ==
    ASSUME NEW pair, NEW l \in Listings(pair)
    PROVE  IsFiniteSet(l) /\ \A p \in l : p.pair = pair /\ \E name : p.id = Id(pair, name)
<1> DEFINE one == One(pair)
           another(tick) == PoolOf(pair, Id(pair, "another"), tick)
<1>1. one = [pair |-> pair, id |-> Id(pair, "pool"), tick |-> 64, initialized |-> TRUE,
             inefficient |-> FALSE]
  BY DEF One, PoolOf
<1>2. \A tick : another(tick) = [pair |-> pair, id |-> Id(pair, "another"), tick |-> tick,
                                 initialized |-> TRUE, inefficient |-> FALSE]
  BY DEF PoolOf
<1>3. \A tick : another(tick).pair = pair /\ another(tick).id = Id(pair, "another")
  BY <1>2
<1>4. /\ one.pair = pair /\ one.id = Id(pair, "pool")
      /\ [one EXCEPT !.inefficient = TRUE].pair = pair
      /\ [one EXCEPT !.inefficient = TRUE].id = Id(pair, "pool")
      /\ [one EXCEPT !.initialized = FALSE].pair = pair
      /\ [one EXCEPT !.initialized = FALSE].id = Id(pair, "pool")
      /\ \A tick : /\ [one EXCEPT !.tick = tick].pair = pair
                   /\ [one EXCEPT !.tick = tick].id = Id(pair, "pool")
  BY <1>1
<1>5. l \in {{}, {one}, {[one EXCEPT !.inefficient = TRUE]}, {[one EXCEPT !.initialized = FALSE]},
             {[one EXCEPT !.tick = FullRange]}, {one, another(FullRange)}, {one, another(32)},
             {one, another(Preferred)}, {[one EXCEPT !.tick = Preferred], another(Preferred)},
             {one, [one EXCEPT !.tick = Preferred]}}
  BY DEF Listings
<1> HIDE DEF one, another
<1>6. \E p, q : l \in {{}, {p}, {p, q}}
  BY <1>5
<1>7. IsFiniteSet(l)
  <2>1. PICK p, q : l = {} \/ l = {p} \/ l = {p} \cup {q}
    BY <1>6
  <2>2. IsFiniteSet({}) /\ IsFiniteSet({p}) /\ IsFiniteSet({p} \cup {q})
    BY FS_EmptySet, FS_Singleton, FS_AddElement
  <2> QED
    BY <2>1, <2>2
<1>8. \A p \in l : p.pair = pair /\ (p.id = Id(pair, "pool") \/ p.id = Id(pair, "another"))
  BY <1>3, <1>4, <1>5
<1> QED
  BY <1>7, <1>8
\* The snapshots it starts from.
LEMMA SnapshotsSound ==
    ASSUME NEW s \in Snapshots, RowsSound(s.rows)
    PROVE  /\ s = [rows |-> s.rows, pools |-> s.pools, prune |-> s.prune, basis |-> s.basis]
           /\ s.basis = None /\ IsRows(s.rows)
           /\ IsFiniteSet(s.pools) /\ \A p \in s.pools : \E name : p.id = Id(p.pair, name)
           /\ \A i \in DOMAIN s.rows : i # 0
<1> DEFINE Good(l) == IsFiniteSet(l) /\ \A p \in l : \E name : p.id = Id(p.pair, name)
<1>0. IsFiniteSet(1 .. 4)
  BY FS_Interval, 1 \in Int, 4 \in Int
<1>1. ASSUME NEW w \in [1 .. 4 -> Int], NEW c \in [1 .. 4 -> Int], NEW r \in [1 .. 4 -> Int]
      PROVE  IsRows(RowsOf(w, c, r)) /\ \A i \in DOMAIN RowsOf(w, c, r) : i # 0
  <2> DEFINE rows == RowsOf(w, c, r)
  <2>1. DOMAIN rows = 1 .. 4 /\ \A i \in 1 .. 4 : rows[i].rank = r[i] /\ rows[i].weight = w[i] /\ rows[i].cap = c[i]
    BY DEF RowsOf
  <2>2. 1 .. 4 \in SUBSET Int /\ IsFiniteSet(1 .. 4) /\ 0 \notin 1 .. 4
    <3>1. 1 .. 4 \in SUBSET Int /\ 0 \notin 1 .. 4
      OBVIOUS
    <3> QED
      BY ONLY <1>0, <3>1
  <2> HIDE DEF rows
  <2>3. \A i \in DOMAIN rows : rows[i].rank \in Int /\ rows[i].weight \in Int /\ rows[i].cap \in Int
    BY <2>1
  <2>4. DOMAIN rows \in SUBSET Int /\ IsFiniteSet(DOMAIN rows) /\ 0 \notin DOMAIN rows
    BY ONLY <2>1, <2>2
  <2>5. IsRows(rows) /\ \A i \in DOMAIN rows : i # 0
    BY <2>3, <2>4 DEF IsRows
  <2> QED
    BY <2>5 DEF rows
<1>2. ASSUME NEW pair PROVE One(pair).pair = pair /\ One(pair).id = Id(pair, "pool")
  BY DEF One, PoolOf
<1>3. ASSUME NEW I \in SUBSET (1 .. 4) PROVE Good({One(i) : i \in I})
  <2> DEFINE f == [i \in I |-> One(i)]
  <2>1. IsFiniteSet(I)
    BY <1>0, FS_Subset
  <2>2. IsFiniteSet({f[i] : i \in I})
    <3> HIDE DEF f
    <3> QED
      BY <2>1, ImageFinite
  <2>3. {One(i) : i \in I} = {f[i] : i \in I}
    OBVIOUS
  <2> QED
    BY <1>2, <2>2, <2>3
<1>4. ASSUME NEW l \in Listings(1), NEW m \in Listings(2) PROVE Good(l \cup m \cup {One(3), One(4)})
  <2>1. Good(l) /\ Good(m)
    BY ListingsSound
  <2>2. IsFiniteSet({One(3)} \cup {One(4)}) /\ \A p \in {One(3), One(4)} : p.id = Id(p.pair, "pool")
    <3>1. ASSUME NEW p, NEW q PROVE IsFiniteSet({p} \cup {q})
      BY FS_Singleton, FS_AddElement
    <3> QED
      BY <1>2, <3>1
  <2>3. l \cup m \cup {One(3), One(4)} = (l \cup m) \cup ({One(3)} \cup {One(4)})
    OBVIOUS
  <2>4. IsFiniteSet((l \cup m) \cup ({One(3)} \cup {One(4)}))
    BY <2>1, <2>2, FS_Union
  <2> QED
    BY <2>1, <2>2, <2>3, <2>4
<1>5. \E rows, pools, prune :
         s = SnapshotOf(rows, pools, prune) /\ Good(pools)
         /\ \E w, c, r \in [1 .. 4 -> Int] : rows = RowsOf(w, c, r)
  <2>1. ASSUME NEW w \in Weights,
               NEW room \in [1 .. 4 -> {0, 1, 3}], NEW I \in SUBSET (1 .. 4),
               s = SnapshotOf(RowsOf(w, Capped(w, room), <<1, 2, 3, 4>>), {One(i) : i \in I}, FALSE)
        PROVE  \E rows, pools, prune :
                  s = SnapshotOf(rows, pools, prune) /\ Good(pools)
                  /\ \E w1, c1, r1 \in [1 .. 4 -> Int] : rows = RowsOf(w1, c1, r1)
    <3>1. w \in [1 .. 4 -> Int] /\ BpsTotal \in Int /\ \A i \in 1 .. 4 : w[i] + room[i] \in Int
      BY BpsAssumption DEF Weights
    <3>2. Capped(w, room) = [i \in 1 .. 4 |-> Lesser(BpsTotal, w[i] + room[i])]
      BY DEF Capped, Lesser
    <3>3. \A i \in 1 .. 4 : Lesser(BpsTotal, w[i] + room[i]) \in Int
      BY <3>1, LesserFacts
    <3>4. Capped(w, room) \in [1 .. 4 -> Int] /\ <<1, 2, 3, 4>> \in [1 .. 4 -> Int]
      BY <3>2, <3>3
    <3>5. Good({One(i) : i \in I})
      BY <1>3
    <3> QED
      BY <2>1, <3>1, <3>4, <3>5
  <2>2. ASSUME NEW c \in {<<2, 3, 4, 7>>, <<7, 7, 7, 7>>}, NEW r \in {<<1, 1, 1, 1>>, <<2, 2, 1, 1>>},
               NEW l \in Listings(1), NEW m \in Listings(2), NEW prune \in BOOLEAN,
               s = SnapshotOf(RowsOf(<<2, 2, 1, 2>>, c, r), l \cup m \cup {One(3), One(4)}, prune)
        PROVE  \E rows, pools, prune1 :
                  s = SnapshotOf(rows, pools, prune1) /\ Good(pools)
                  /\ \E w1, c1, r1 \in [1 .. 4 -> Int] : rows = RowsOf(w1, c1, r1)
    <3>1. c \in [1 .. 4 -> Int] /\ r \in [1 .. 4 -> Int] /\ <<2, 2, 1, 2>> \in [1 .. 4 -> Int]
      OBVIOUS
    <3>2. Good(l \cup m \cup {One(3), One(4)})
      BY <1>4
    <3> QED
      BY <2>2, <3>1, <3>2
  <2>3. \/ \E w \in Weights, room \in [1 .. 4 -> {0, 1, 3}], I \in SUBSET (1 .. 4) :
              s = WeightedSnapshot(w, room, I)
        \/ \E c \in {<<2, 3, 4, 7>>, <<7, 7, 7, 7>>}, r \in {<<1, 1, 1, 1>>, <<2, 2, 1, 1>>},
              l \in Listings(1), m \in Listings(2), prune \in BOOLEAN :
              s = ListedSnapshot(c, r, l, m, prune)
    <3>1. CASE s \in WeightedSnapshots
      BY <3>1 DEF WeightedSnapshots
    <3>2. CASE s \in ListedSnapshots
      BY <3>2 DEF ListedSnapshots
    <3> QED
      BY <3>1, <3>2 DEF Snapshots
  <2> QED
    BY <2>1, <2>2, <2>3 DEF WeightedSnapshot, ListedSnapshot
<1>6. PICK rows, pools, prune :
         s = SnapshotOf(rows, pools, prune) /\ Good(pools)
         /\ \E w, c, r \in [1 .. 4 -> Int] : rows = RowsOf(w, c, r)
  BY <1>5
<1>7. s = [rows |-> rows, pools |-> pools, prune |-> prune, basis |-> None]
  BY <1>6 DEF SnapshotOf
<1>8. s.rows = rows /\ s.pools = pools /\ s.prune = prune /\ s.basis = None
  BY <1>7
<1> QED
  BY <1>1, <1>6, <1>7, <1>8

-------------------------------------------------------------------------------
(***************************************************************************)
(* What a plan makes of the cohort, and of the NFTs that result            *)
(***************************************************************************)

\* What a plan makes of the cohort: chunks that are sound, and nothing uncut or unserved.
LEMMA ChunksPlaced ==
    ASSUME CohortSound, ChunksSound, chunks # Unallocated
    PROVE  \E st : /\ Placed(st, cohort, Len(targets), ApportionAmounts(StakeOf(cohort), targets))
                   /\ Uncut(st, cohort) = {} /\ Unserved(st) = {} /\ chunks = st.chunks
                   /\ Weighted(targets) /\ Len(targets) \in Nat
<1>1. IsCohort(cohort) /\ Weighted(targets) /\ chunks = AllocateCohort(cohort, targets)
  BY DEF CohortSound, ChunksSound
<1>2. Len(targets) \in Nat
  BY <1>1 DEF Weighted
<1> QED
  BY <1>1, <1>2, AllocateCohortPlaces

\* The NFTs that result from a plan: each a chunk of one that was, with an id of its own.
LEMMA PiecesSound ==
    ASSUME CohortSound, ChunksSound, chunks # Unallocated, ~settled
    PROVE  /\ \A n \in cohort : IsFiniteSet(DOMAIN chunks[n.id]) /\ IsFiniteSet(PiecesOf(n))
           /\ \A n \in cohort : \A i \in DOMAIN chunks[n.id] :
                /\ Piece(n, i).id \in Nat
                /\ Piece(n, i).amount = chunks[n.id][i].amount /\ Piece(n, i).amount \in Nat \ {0}
           /\ \A n, k \in cohort : \A i \in DOMAIN chunks[n.id], j \in DOMAIN chunks[k.id] :
                Piece(n, i).id = Piece(k, j).id => n = k /\ i = j
<1> DEFINE m == Len(targets)
<1>1. PICK st : /\ Placed(st, cohort, m, ApportionAmounts(StakeOf(cohort), targets))
                /\ chunks = st.chunks /\ m \in Nat
  BY ChunksPlaced
<1>2. IsCohort(cohort) /\ \A n \in cohort : n.id \in 1 .. MaxNfts
  BY DEF CohortSound
<1> HIDE DEF m
<1>3. \A n, k \in cohort : n.id = k.id => n = k
  BY <1>2, CohortFacts
<1>4. MaxNfts \in Nat
  BY BoundsAssumption
<1>5. ASSUME NEW n \in cohort
      PROVE  /\ IsFiniteSet(DOMAIN chunks[n.id])
             /\ \A i \in DOMAIN chunks[n.id] :
                  i \in Nat \ {0} /\ chunks[n.id][i].amount \in Nat \ {0}
  <2>1. st \in Divisions(Ids(cohort), m) /\ GoodCut(st.chunks[n.id])
    BY <1>1 DEF Placed
  <2>2. /\ st.chunks[n.id] \in Seq(Chunks(m)) /\ Len(st.chunks[n.id]) \in Nat
        /\ DOMAIN st.chunks[n.id] = 1 .. Len(st.chunks[n.id])
    BY <1>1, <1>2, <2>1, DivisionTypes
  <2> DEFINE cut == chunks[n.id]
  <2>3. cut \in Seq(Chunks(m)) /\ Len(cut) \in Nat /\ DOMAIN cut = 1 .. Len(cut) /\ GoodCut(cut)
    BY <1>1, <2>1, <2>2
  <2> HIDE DEF cut
  <2>4. ASSUME NEW i \in DOMAIN cut PROVE i \in Nat \ {0} /\ cut[i].amount \in Nat \ {0}
    <3>1. cut[i] \in Chunks(m) /\ i \in Nat \ {0}
      BY <2>3
    <3> QED
      BY <2>3, <3>1 DEF GoodCut, Chunks
  <2>5. IsFiniteSet(1 .. Len(cut))
    BY <2>3, FS_Interval
  <2> QED
    BY <2>3, <2>4, <2>5 DEF cut
<1> DEFINE id(n, i) == IF i = RetainedChunk(n, chunks[n.id], targets) THEN n.id
                       ELSE (MaxNfts + 1) * i + n.id
<1>6. \A n \in cohort : \A i \in DOMAIN chunks[n.id] :
         Piece(n, i).id = id(n, i) /\ Piece(n, i).amount = chunks[n.id][i].amount
  BY DEF Piece
<1>7. ASSUME NEW n \in cohort PROVE IsFiniteSet(PiecesOf(n))
  <2> DEFINE D == DOMAIN chunks[n.id]
             f == [i \in D |-> Piece(n, i)]
  <2>1. IsFiniteSet(D)
    BY <1>5
  <2>2. PiecesOf(n) = {f[i] : i \in D}
    BY DEF PiecesOf
  <2> HIDE DEF D, f
  <2> QED
    BY <2>1, <2>2, ImageFinite
<1>8. ASSUME NEW n \in cohort, NEW i \in DOMAIN chunks[n.id]
      PROVE  id(n, i) \in Nat
  <2>1. i \in Nat \ {0} /\ n.id \in 1 .. MaxNfts
    BY <1>2, <1>5
  <2> HIDE DEF id
  <2>2. id(n, i) = n.id \/ id(n, i) = (MaxNfts + 1) * i + n.id
    BY DEF id
  <2> QED
    BY <1>4, <2>1, <2>2, NumbersApart
<1>9. ASSUME NEW n \in cohort, NEW i \in DOMAIN chunks[n.id],
             NEW k \in cohort, NEW j \in DOMAIN chunks[k.id], id(n, i) = id(k, j)
      PROVE  n = k /\ i = j
  <2> DEFINE kn == RetainedChunk(n, chunks[n.id], targets)
             kk == RetainedChunk(k, chunks[k.id], targets)
  <2>1. i \in Nat \ {0} /\ j \in Nat \ {0} /\ n.id \in 1 .. MaxNfts /\ k.id \in 1 .. MaxNfts
    BY <1>2, <1>5
  <2>2. /\ (MaxNfts + 1) * i + n.id > MaxNfts /\ (MaxNfts + 1) * j + k.id > MaxNfts
        /\ (MaxNfts + 1) * i + n.id = (MaxNfts + 1) * j + k.id => i = j /\ n.id = k.id
    BY <1>4, <2>1, NumbersApart
  <2>3. /\ id(n, i) = IF i = kn THEN n.id ELSE (MaxNfts + 1) * i + n.id
        /\ id(k, j) = IF j = kk THEN k.id ELSE (MaxNfts + 1) * j + k.id
        /\ n = k => kn = kk
    OBVIOUS
  <2> HIDE DEF id, kn, kk
  <2>4. CASE i = kn /\ j = kk
    <3>1. n.id = k.id
      BY <1>9, <2>3, <2>4
    <3> QED
      BY <1>3, <2>3, <2>4, <3>1
  <2>5. CASE i # kn /\ j # kk
    <3>1. i = j /\ n.id = k.id
      BY <1>9, <2>2, <2>3, <2>5
    <3> QED
      BY <1>3, <3>1
  <2>6. CASE i = kn /\ j # kk
    <3> DEFINE other == (MaxNfts + 1) * j + k.id
    <3>1. n.id = other
      BY <1>9, <2>3, <2>6
    <3>2. other > MaxNfts /\ n.id \in 1 .. MaxNfts
      BY <2>1, <2>2
    <3> HIDE DEF other
    <3> QED
      BY <1>4, <3>1, <3>2
  <2>7. CASE i # kn /\ j = kk
    <3> DEFINE other == (MaxNfts + 1) * i + n.id
    <3>1. k.id = other
      BY <1>9, <2>3, <2>7
    <3>2. other > MaxNfts /\ k.id \in 1 .. MaxNfts
      BY <2>1, <2>2
    <3> HIDE DEF other
    <3> QED
      BY <1>4, <3>1, <3>2
  <2> QED
    BY <2>4, <2>5, <2>6, <2>7
<1> HIDE DEF id
<1>10. \A n \in cohort : \A i \in DOMAIN chunks[n.id] :
          /\ Piece(n, i).id \in Nat
          /\ Piece(n, i).amount = chunks[n.id][i].amount /\ Piece(n, i).amount \in Nat \ {0}
  BY <1>5, <1>6, <1>8
<1>11. ASSUME NEW n \in cohort, NEW k \in cohort, NEW i \in DOMAIN chunks[n.id],
              NEW j \in DOMAIN chunks[k.id], Piece(n, i).id = Piece(k, j).id
       PROVE  n = k /\ i = j
  <2>1. id(n, i) = id(k, j)
    BY <1>6, <1>11
  <2> QED
    BY <1>9, <2>1
<1> QED
  BY <1>5, <1>7, <1>10, <1>11

\* They are a cohort again.
LEMMA AdoptSound ==
    ASSUME CohortSound, ChunksSound, chunks # Unallocated, ~settled,
           NEW next, next = UNION {PiecesOf(n) : n \in cohort}
    PROVE  IsCohort(next)
<1>1. /\ \A n \in cohort : IsFiniteSet(PiecesOf(n))
      /\ \A n \in cohort : \A i \in DOMAIN chunks[n.id] :
            Piece(n, i).id \in Nat /\ Piece(n, i).amount \in Nat \ {0}
      /\ \A n, k \in cohort : \A i \in DOMAIN chunks[n.id], j \in DOMAIN chunks[k.id] :
            Piece(n, i).id = Piece(k, j).id => n = k /\ i = j
  BY PiecesSound
<1>2. IsFiniteSet(next)
  <2> DEFINE F == [n \in cohort |-> PiecesOf(n)]
             all == {F[n] : n \in cohort}
  <2>1. next = UNION all /\ \A n \in cohort : F[n] = PiecesOf(n)
    OBVIOUS
  <2>2. IsFiniteSet(cohort)
    BY CohortFacts DEF CohortSound
  <2> HIDE DEF F
  <2>3. IsFiniteSet(all) /\ \A s \in all : IsFiniteSet(s)
    BY <1>1, <2>1, <2>2, ImageFinite
  <2> HIDE DEF all
  <2> QED
    BY <2>1, <2>3, FS_UNION
<1>3. ASSUME NEW x \in next
      PROVE  \E n \in cohort : \E i \in DOMAIN chunks[n.id] : x = Piece(n, i)
  BY DEF PiecesOf
<1>4. \A x \in next : x.id \in Nat /\ x.amount \in Nat \ {0}
  BY <1>1, <1>3
<1>5. ASSUME NEW x \in next, NEW y \in next, x.id = y.id PROVE x = y
  <2>1. PICK n \in cohort : \E i \in DOMAIN chunks[n.id] : x = Piece(n, i)
    BY <1>3
  <2>2. PICK i \in DOMAIN chunks[n.id] : x = Piece(n, i)
    BY <2>1
  <2>3. PICK k \in cohort : \E j \in DOMAIN chunks[k.id] : y = Piece(k, j)
    BY <1>3
  <2>4. PICK j \in DOMAIN chunks[k.id] : y = Piece(k, j)
    BY <2>3
  <2>5. n = k /\ i = j
    BY <1>1, <1>5, <2>2, <2>4
  <2> QED
    BY <2>2, <2>4, <2>5
<1> QED
  BY <1>2, <1>4, <1>5 DEF IsCohort, Identified

\* What the pieces sum to is what the pieces of each NFT sum to, summed.
LEMMA PiecesSum ==
    ASSUME CohortSound, ChunksSound, chunks # Unallocated, ~settled,
           NEW f, \A n \in cohort : \A i \in DOMAIN chunks[n.id] : f[Piece(n, i)] \in Int,
           NEW total, \A n \in cohort : total[n] = Total([i \in DOMAIN chunks[n.id] |-> f[Piece(n, i)]])
    PROVE  SumOver(f, UNION {PiecesOf(n) : n \in cohort}) = SumOver(total, cohort)
<1> DEFINE F == [n \in cohort |-> PiecesOf(n)]
<1>1. /\ \A n \in cohort : IsFiniteSet(DOMAIN chunks[n.id]) /\ IsFiniteSet(PiecesOf(n))
      /\ \A n, k \in cohort : \A i \in DOMAIN chunks[n.id], j \in DOMAIN chunks[k.id] :
            Piece(n, i).id = Piece(k, j).id => n = k /\ i = j
  BY PiecesSound
<1>2. IsFiniteSet(cohort)
  BY CohortFacts DEF CohortSound
<1>3. \A n \in cohort : F[n] = PiecesOf(n)
  OBVIOUS
<1>4. UNION {PiecesOf(n) : n \in cohort} = UNION {F[n] : n \in cohort}
  OBVIOUS
<1> HIDE DEF F
<1>5. \A n, k \in cohort : n # k => \A x \in F[n] : x \notin F[k]
  BY <1>1, <1>3 DEF PiecesOf
<1>6. \A n \in cohort : \A x \in F[n] : f[x] \in Int
  BY <1>3 DEF PiecesOf
<1>7. ASSUME NEW n \in cohort PROVE total[n] = SumOver(f, F[n])
  <2> DEFINE D == DOMAIN chunks[n.id]
             T == PiecesOf(n)
             name == [i \in D |-> Piece(n, i)]
             g == [i \in D |-> f[Piece(n, i)]]
  <2>1. IsFiniteSet(D)
    BY <1>1
  <2>2. /\ \A y \in T : f[y] \in Int
        /\ \A i \in D : name[i] \in T /\ g[i] = f[name[i]]
        /\ \A y \in T : \E i \in D : name[i] = y
    BY DEF PiecesOf
  <2>3. \A i, j \in D : name[i] = name[j] => i = j
    BY <1>1
  <2>4. total[n] = Total(g) /\ Total(g) = SumOver(g, D)
    BY DEF Total, SumOver
  <2> HIDE DEF D, T, name, g
  <2>5. SumOver(g, D) = SumOver(f, T)
    BY <2>1, <2>2, <2>3, SumRenamed
  <2> QED
    BY <1>3, <2>4, <2>5 DEF T
<1>8. \A n \in cohort : IsFiniteSet(F[n])
  BY <1>1, <1>3
<1>9. SumOver(f, UNION {F[n] : n \in cohort}) = SumOver(total, cohort)
  BY ONLY <1>2, <1>5, <1>6, <1>7, <1>8, SumUnion
<1> QED
  BY <1>4, <1>9

\* They vote as the plan tells them: every target gets what it is due of the stake they have.
LEMMA AdoptServes ==
    ASSUME CohortSound, ChunksSound, chunks # Unallocated, ~settled, Apart(targets),
           NEW next, next = UNION {PiecesOf(n) : n \in cohort}
    PROVE  Served(next, targets)
<1> DEFINE m == Len(targets)
           due == ApportionAmounts(StakeOf(cohort), targets)
<1>1. PICK st : /\ Placed(st, cohort, m, due)
                /\ Uncut(st, cohort) = {} /\ Unserved(st) = {} /\ chunks = st.chunks
                /\ Weighted(targets) /\ m \in Nat
  BY ChunksPlaced
<1>2. IsCohort(cohort) /\ IsFiniteSet(cohort)
  BY CohortFacts DEF CohortSound
<1>3. DOMAIN targets = 1 .. m
  BY <1>1 DEF Weighted
<1> HIDE DEF m, due
<1>4. /\ st \in Divisions(Ids(cohort), m)
      /\ \A i \in 1 .. m : Got(st, cohort, i) + st.demand[i] = due[i]
  BY <1>1 DEF Placed
<1>5. /\ st.demand \in [1 .. m -> Int]
      /\ \A n \in cohort :
            /\ st.chunks[n.id] \in Seq(Chunks(m)) /\ DOMAIN st.chunks[n.id] = 1 .. Len(st.chunks[n.id])
            /\ Remaining(st, n) = n.amount - Total(Sizes(st.chunks[n.id]))
            /\ Total(Sizes(st.chunks[n.id])) \in Int
            /\ \A i \in 1 .. m : Total(SharesOf(st.chunks[n.id], i)) \in Int
  <2>1. IsCohort(cohort) /\ m \in Nat /\ st \in Divisions(Ids(cohort), m)
    BY <1>1, <1>2, <1>4
  <2> QED
    BY ONLY <2>1, DivisionTypes
<1>6. ASSUME NEW n \in cohort, NEW i \in DOMAIN chunks[n.id]
      PROVE  /\ chunks[n.id][i].target \in 1 .. m
             /\ \A k \in 1 .. m : Matches(Piece(n, i), targets[k]) <=> chunks[n.id][i].target = k
             /\ Piece(n, i).amount = chunks[n.id][i].amount /\ Piece(n, i).amount \in Int
             /\ Piece(n, i) \in next
  <2> DEFINE cut == chunks[n.id]
             t == cut[i].target
  <2>1. cut \in Seq(Chunks(m)) /\ i \in DOMAIN cut
    BY <1>1, <1>5
  <2>2. t \in 1 .. m
    <3>1. cut[i] \in Chunks(m)
      BY <2>1
    <3> QED
      BY <3>1 DEF Chunks
  <2>3. Piece(n, i).vote.pool = targets[t].pool /\ Piece(n, i).vote.fee = targets[t].fee
    BY DEF Piece
  <2> HIDE DEF cut, t
  <2>4. \A k \in 1 .. m : Matches(Piece(n, i), targets[k]) <=> t = k
    BY <1>3, <2>2, <2>3 DEF Matches, Apart
  <2>5. Piece(n, i).amount = chunks[n.id][i].amount /\ Piece(n, i).amount \in Int
    BY PiecesSound
  <2>6. Piece(n, i) \in next
    BY DEF PiecesOf
  <2> QED
    BY <2>2, <2>4, <2>5, <2>6 DEF t, cut
<1>7. StakeOf(next) = StakeOf(cohort)
  <2> DEFINE f == [x \in next |-> x.amount]
             stake == [n \in cohort |-> n.amount]
             total == [n \in cohort |-> Total([i \in DOMAIN chunks[n.id] |-> f[Piece(n, i)]])]
  <2>1. StakeOf(next) = SumOver(f, next) /\ StakeOf(cohort) = SumOver(stake, cohort)
    BY DEF StakeOf, Total, SumOver
  <2>2. \A n \in cohort : \A i \in DOMAIN chunks[n.id] :
           f[Piece(n, i)] = chunks[n.id][i].amount /\ f[Piece(n, i)] \in Int
    BY <1>6
  <2>3. ASSUME NEW n \in cohort PROVE stake[n] = total[n] /\ stake[n] \in Int
    <3>1. [i \in DOMAIN chunks[n.id] |-> f[Piece(n, i)]] = Sizes(st.chunks[n.id])
      <4> HIDE DEF f
      <4> QED
        BY <1>1, <2>2 DEF Sizes
    <3>2. Remaining(st, n) = 0
      BY <1>1 DEF Uncut
    <3>3. n.amount \in Int
      BY <1>2 DEF IsCohort
    <3>4. n.amount = Total(Sizes(st.chunks[n.id]))
      BY <1>5, <3>2, <3>3
    <3> QED
      BY <3>1, <3>3, <3>4
  <2>4. \A n \in cohort : total[n] = Total([i \in DOMAIN chunks[n.id] |-> f[Piece(n, i)]])
    OBVIOUS
  <2> HIDE DEF f, stake, total
  <2>5. SumOver(f, next) = SumOver(total, cohort)
    BY <2>2, <2>4, PiecesSum
  <2>6. SumOver(stake, cohort) = SumOver(total, cohort)
    BY <1>2, <2>3, SumSame
  <2> QED
    BY <2>1, <2>5, <2>6
<1>8. ASSUME NEW k \in 1 .. m PROVE Voting(next, targets[k]) = due[k]
  <2> DEFINE f == [x \in next |-> IF Matches(x, targets[k]) THEN x.amount ELSE 0]
             total == [n \in cohort |-> Total([i \in DOMAIN chunks[n.id] |-> f[Piece(n, i)]])]
             got == [n \in cohort |-> Total(SharesOf(st.chunks[n.id], k))]
  <2>1. Voting(next, targets[k]) = SumOver(f, next) /\ Got(st, cohort, k) = SumOver(got, cohort)
    BY DEF Voting, Got
  <2>2. ASSUME NEW n \in cohort, NEW i \in DOMAIN chunks[n.id]
        PROVE  /\ f[Piece(n, i)] = IF chunks[n.id][i].target = k THEN chunks[n.id][i].amount ELSE 0
               /\ f[Piece(n, i)] \in Int
    BY <1>6
  <2>3. ASSUME NEW n \in cohort PROVE got[n] = total[n] /\ got[n] \in Int
    <3>1. [i \in DOMAIN chunks[n.id] |-> f[Piece(n, i)]] = SharesOf(st.chunks[n.id], k)
      <4> HIDE DEF f
      <4> QED
        BY <1>1, <2>2 DEF SharesOf
    <3> QED
      BY <1>5, <3>1
  <2>4. \A n \in cohort : total[n] = Total([i \in DOMAIN chunks[n.id] |-> f[Piece(n, i)]])
    OBVIOUS
  <2> HIDE DEF f, got, total
  <2>5. SumOver(f, next) = SumOver(total, cohort)
    BY <2>2, <2>4, PiecesSum
  <2>6. SumOver(got, cohort) = SumOver(total, cohort) /\ SumOver(got, cohort) \in Int
    BY <1>2, <2>3, SumSame, SumType
  <2>7. st.demand[k] = 0
    BY <1>1, <1>5 DEF Unserved
  <2>8. Got(st, cohort, k) + st.demand[k] = due[k]
    BY <1>4
  <2> QED
    BY <2>1, <2>5, <2>6, <2>7, <2>8
<1>9. ASSUME NEW x \in next PROVE \E k \in DOMAIN targets : Matches(x, targets[k])
  <2>1. PICK n \in cohort : \E i \in DOMAIN chunks[n.id] : x = Piece(n, i)
    BY DEF PiecesOf
  <2>2. PICK i \in DOMAIN chunks[n.id] : x = Piece(n, i)
    BY <2>1
  <2>3. chunks[n.id][i].target \in DOMAIN targets /\ Matches(x, targets[chunks[n.id][i].target])
    BY <1>3, <1>6, <2>2
  <2> QED
    BY <2>3
<1> QED
  BY <1>3, <1>7, <1>8, <1>9 DEF Served, due

-------------------------------------------------------------------------------
(***************************************************************************)
(* The invariant is inductive                                              *)
(***************************************************************************)

\* Weights that sum to the whole are some.
LEMMA WeightedSome ==
    ASSUME Weighted(targets)
    PROVE  targets # <<>>
<1>1. SUFFICES ASSUME targets = <<>> PROVE FALSE
  OBVIOUS
<1> DEFINE f == [i \in DOMAIN targets |-> targets[i].weight]
<1>2. DOMAIN targets = {}
  BY <1>1
<1>3. Total(f) = SumOver(f, {})
  BY <1>2 DEF Total, SumOver
<1>4. Total(f) = BpsTotal
  BY DEF Weighted
<1> HIDE DEF f
<1> QED
  BY <1>3, <1>4, SumEmpty, BpsAssumption

\* It holds of what the cohort, the targets and the snapshot start as.
LEMMA AllocationInit == Init => AllocationInv
<1> SUFFICES ASSUME Init PROVE AllocationInv
  OBVIOUS
<1>1. chunks = Unallocated /\ settled = FALSE
  BY DEF Init
<1>2. ChunksSound
  BY <1>1 DEF ChunksSound
<1>3. CASE cohort \in Cohorts /\ targets \in TargetLists /\ plan = None
  <2>1. CohortSound
    BY <1>3, CohortsSound DEF CohortSound
  <2>2. TargetsSound
    BY <1>3, TargetListsSound DEF TargetsSound
  <2>3. PlanSound /\ BasisSound /\ SettledSound
    BY <1>1, <1>3 DEF PlanSound, BasisSound, SettledSound
  <2> QED
    BY <1>1, <1>2, <2>1, <2>2, <2>3 DEF AllocationInv
<1>4. CASE /\ cohort = {[id |-> 1, amount |-> MaxAmount, vote |-> Elsewhere]}
           /\ targets = <<>> /\ plan \in Snapshots /\ RowsSound(plan.rows)
  <2> DEFINE n == [id |-> 1, amount |-> MaxAmount, vote |-> Elsewhere]
  <2>1. cohort = {n} /\ n.id = 1 /\ n.amount = MaxAmount
    BY <1>4
  <2> HIDE DEF n
  <2>2. IsFiniteSet(cohort)
    BY <2>1, FS_Singleton
  <2>3. MaxAmount \in Nat \ {0} /\ 1 \in 1 .. MaxNfts
    BY BoundsAssumption
  <2>4. CohortSound
    BY <2>1, <2>2, <2>3 DEF CohortSound, IsCohort, Identified
  <2>5. TargetsSound
    BY <1>4 DEF TargetsSound
  <2>6. PlanSound /\ plan.basis = None
    BY <1>4, SnapshotsSound DEF PlanSound
  <2>7. BasisSound
    BY <1>1, <1>4, <2>6 DEF BasisSound
  <2>8. SettledSound
    BY <1>1, <1>4 DEF SettledSound
  <2> QED
    BY <1>1, <1>2, <2>4, <2>5, <2>6, <2>7, <2>8 DEF AllocationInv
<1> QED
  BY <1>3, <1>4 DEF Init

\* A basis is set, and nothing else of a plan changes.
LEMMA BasisSet ==
    ASSUME PlanSound, plan # None, NEW basis, plan' = [plan EXCEPT !.basis = basis]
    PROVE  /\ plan' = [rows |-> plan.rows, pools |-> plan.pools, prune |-> plan.prune, basis |-> basis]
           /\ plan'.rows = plan.rows /\ plan'.pools = plan.pools /\ plan'.prune = plan.prune
           /\ plan'.basis = basis
           /\ PlanSound'
<1>1. plan = [rows |-> plan.rows, pools |-> plan.pools, prune |-> plan.prune, basis |-> plan.basis]
  BY DEF PlanSound
<1>2. plan' = [rows |-> plan.rows, pools |-> plan.pools, prune |-> plan.prune, basis |-> basis]
  BY <1>1
<1>3. plan'.rows = plan.rows /\ plan'.pools = plan.pools /\ plan'.prune = plan.prune /\ plan'.basis = basis
  BY <1>2
<1>4. plan' = [rows |-> plan'.rows, pools |-> plan'.pools, prune |-> plan'.prune, basis |-> plan'.basis]
  BY <1>2, <1>3
<1>5. PlanSound'
  BY <1>3, <1>4 DEF PlanSound
<1> QED
  BY <1>2, <1>3, <1>5

\* Every step keeps it.
LEMMA AllocationStep ==
    ASSUME AllocationInv, [Next]_vars
    PROVE  AllocationInv'
<1>1. CASE Recommend
  <2>1. /\ plan # None /\ plan.basis = None /\ ~DuplicatePool(plan.rows, plan.pools)
        /\ targets' = ProviderTargets(plan.rows, plan.pools, plan.prune)
        /\ plan' = [plan EXCEPT !.basis = "provider"]
        /\ cohort' = cohort /\ chunks' = chunks /\ settled' = settled
    BY <1>1 DEF Recommend
  <2>2. chunks = Unallocated /\ PlanSound
    BY <2>1 DEF AllocationInv, BasisSound
  <2>3. /\ plan'.rows = plan.rows /\ plan'.pools = plan.pools /\ plan'.prune = plan.prune
        /\ plan'.basis = "provider" /\ PlanSound'
    BY <2>1, <2>2, BasisSet
  <2>4. Directory(plan.rows, plan.pools)
    BY <2>1, <2>2 DEF PlanSound, Directory
  <2>5. TargetsSound'
    <3> DEFINE t == targets'
    <3>1. SUFFICES ASSUME t # <<>> PROVE Weighted(t) /\ Apart(t)
      BY DEF TargetsSound
    <3>2. t = ProviderTargets(plan.rows, plan.pools, plan.prune)
      BY <2>1
    <3> HIDE DEF t
    <3>3. Weighted(t) /\ \A j, k \in DOMAIN t : t[j].pool = t[k].pool => j = k
      BY <2>4, <3>1, <3>2, RecommendedSound
    <3> QED
      BY <3>3 DEF Apart
  <2>6. BasisSound'
    BY <2>1, <2>3, BoundsAssumption DEF BasisSound
  <2>7. CohortSound' /\ ChunksSound' /\ settled' \in BOOLEAN
    BY <2>1, <2>2 DEF AllocationInv, CohortSound, ChunksSound
  <2>8. SettledSound'
    BY <2>1, <2>2, <2>3 DEF AllocationInv, SettledSound
  <2> QED
    BY <2>3, <2>5, <2>6, <2>7, <2>8 DEF AllocationInv
<1>2. CASE RecommendVoter
  <2>1. /\ plan # None /\ plan.basis = None /\ ~DuplicatePool(plan.rows, plan.pools)
        /\ OnVoter(targets', plan.rows, plan.pools, plan.prune)
        /\ plan' = [plan EXCEPT !.basis = "voter"]
        /\ cohort' = cohort /\ chunks' = chunks /\ settled' = settled
    BY <1>2 DEF RecommendVoter, OwnPools, OnVoter
  <2>2. chunks = Unallocated /\ PlanSound
    BY <2>1 DEF AllocationInv, BasisSound
  <2>3. /\ plan'.rows = plan.rows /\ plan'.pools = plan.pools /\ plan'.prune = plan.prune
        /\ plan'.basis = "voter" /\ PlanSound'
    BY <2>1, <2>2, BasisSet
  <2>4. Directory(plan.rows, plan.pools)
    BY <2>1, <2>2 DEF PlanSound, Directory
  <2>5. TargetsSound'
    <3> DEFINE t == targets'
    <3>1. SUFFICES ASSUME t # <<>> PROVE Weighted(t) /\ Apart(t)
      BY DEF TargetsSound
    <3>2. OnVoter(t, plan.rows, plan.pools, plan.prune)
      BY <2>1
    <3> HIDE DEF t
    <3>3. Weighted(t) /\ \A j, k \in DOMAIN t : t[j].pool = t[k].pool => j = k
      BY <2>4, <3>1, <3>2, RecommendedSound
    <3> QED
      BY <3>3 DEF Apart
  <2>6. BasisSound'
    BY <2>1, <2>3, BoundsAssumption DEF BasisSound
  <2>7. CohortSound' /\ ChunksSound' /\ settled' \in BOOLEAN
    BY <2>1, <2>2 DEF AllocationInv, CohortSound, ChunksSound
  <2>8. SettledSound'
    BY <2>1, <2>2, <2>3 DEF AllocationInv, SettledSound
  <2> QED
    BY <2>3, <2>5, <2>6, <2>7, <2>8 DEF AllocationInv
<1>3. CASE Allocate
  <2>1. /\ targets # <<>> /\ chunks' = AllocateCohort(cohort, targets) /\ chunks = Unallocated
        /\ cohort' = cohort /\ targets' = targets /\ settled' = settled /\ plan' = plan
    BY <1>3 DEF Allocate
  <2>2. Weighted(targets)
    BY <2>1 DEF AllocationInv, TargetsSound
  <2>3. ChunksSound'
    BY <2>1, <2>2 DEF ChunksSound
  <2>4. BasisSound'
    BY <2>1 DEF AllocationInv, BasisSound
  <2>5. CohortSound' /\ TargetsSound' /\ PlanSound' /\ SettledSound' /\ settled' \in BOOLEAN
    BY <2>1 DEF AllocationInv, CohortSound, TargetsSound, PlanSound, SettledSound
  <2> QED
    BY <2>3, <2>4, <2>5 DEF AllocationInv
<1>4. CASE Adopt
  <2>1. /\ chunks # Unallocated /\ ~settled /\ settled' = TRUE /\ chunks' = Unallocated
        /\ cohort' = UNION {PiecesOf(n) : n \in cohort} /\ targets' = targets /\ plan' = plan
    BY <1>4 DEF Adopt
  <2>2. CohortSound /\ ChunksSound /\ Weighted(targets) /\ (plan # None => plan.basis # None)
    BY <2>1 DEF AllocationInv, ChunksSound, BasisSound
  <2>3. CohortSound'
    BY <2>1, <2>2, AdoptSound DEF CohortSound
  <2>4. SettledSound'
    <3>1. targets # <<>>
      BY <2>2, WeightedSome
    <3>2. Apart(targets)
      BY <3>1 DEF AllocationInv, TargetsSound
    <3>3. Served(cohort', targets)
      BY <2>1, <2>2, <3>2, AdoptServes
    <3> QED
      BY <2>1, <2>2, <3>3 DEF AllocationInv, SettledSound
  <2>5. ChunksSound' /\ TargetsSound' /\ PlanSound' /\ BasisSound'
    BY <2>1 DEF AllocationInv, ChunksSound, TargetsSound, PlanSound, BasisSound
  <2> QED
    BY <2>1, <2>3, <2>4, <2>5 DEF AllocationInv
<1>5. CASE UNCHANGED vars
  BY <1>5 DEF vars, AllocationInv, CohortSound, TargetsSound, ChunksSound, PlanSound, BasisSound,
              SettledSound
<1> QED
  BY <1>1, <1>2, <1>3, <1>4, <1>5 DEF Next

\* The inductive invariant holds of every behaviour.
THEOREM AllocationInvariance == Spec => []AllocationInv
<1>1. Init => AllocationInv
  BY AllocationInit
<1>2. AllocationInv /\ [Next]_vars => AllocationInv'
  BY AllocationStep
<1> QED
  BY <1>1, <1>2, PTL DEF Spec

-------------------------------------------------------------------------------
(***************************************************************************)
(* The properties of the plan                                              *)
(***************************************************************************)

\* What the end of the passes means for the chunks.
LEMMA PlacedPlan ==
    ASSUME AllocationInv, chunks # Unallocated
    PROVE  EveryUnitPlaced /\ FewPieces
<1> DEFINE m == Len(targets)
<1>1. PICK st : /\ Placed(st, cohort, m, Demand)
                /\ Uncut(st, cohort) = {} /\ Unserved(st) = {} /\ chunks = st.chunks
                /\ Weighted(targets) /\ m \in Nat
  BY ChunksPlaced DEF AllocationInv, Demand
<1>2. IsCohort(cohort)
  BY DEF AllocationInv, CohortSound
<1>3. DOMAIN targets = 1 .. m
  BY <1>1 DEF Weighted
<1> HIDE DEF m
<1>4. /\ st \in Divisions(Ids(cohort), m)
      /\ \A i \in 1 .. m : st.demand[i] >= 0 /\ Got(st, cohort, i) + st.demand[i] = Demand[i]
      /\ \A n \in cohort : GoodCut(st.chunks[n.id])
      /\ Pieces(st, cohort) < Cardinality(cohort) + m
  BY <1>1 DEF Placed
<1>5. st.demand \in [1 .. m -> Int]
  BY <1>1, <1>2, <1>4, DivisionTypes
<1>6. ASSUME NEW n \in cohort
      PROVE  /\ Total([k \in DOMAIN chunks[n.id] |-> chunks[n.id][k].amount]) = n.amount
             /\ GoodCut(chunks[n.id])
             /\ \A i \in 1 .. m : Total(SharesOf(st.chunks[n.id], i)) \in Int
  <2>1. /\ Remaining(st, n) = n.amount - Total(Sizes(st.chunks[n.id]))
        /\ Total(Sizes(st.chunks[n.id])) \in Int
        /\ \A i \in 1 .. m : Total(SharesOf(st.chunks[n.id], i)) \in Int
    BY <1>1, <1>2, <1>4, DivisionTypes
  <2>2. Remaining(st, n) = 0
    BY <1>1 DEF Uncut
  <2>3. n.amount \in Int
    BY <1>2 DEF IsCohort
  <2>4. Total(Sizes(st.chunks[n.id])) = n.amount
    BY <2>1, <2>2, <2>3
  <2>5. Sizes(st.chunks[n.id]) = [k \in DOMAIN chunks[n.id] |-> chunks[n.id][k].amount]
    BY <1>1 DEF Sizes
  <2> QED
    BY <1>1, <1>4, <2>1, <2>4, <2>5
<1>7. ASSUME NEW i \in 1 .. m PROVE Received(i) = Demand[i]
  <2> DEFINE f == [n \in cohort |-> Total(SharesOf(st.chunks[n.id], i))]
  <2>1. Received(i) = Total(f)
    BY <1>1 DEF Received, SharesOf
  <2>2. Total(f) = SumOver(f, cohort) /\ Got(st, cohort, i) = SumOver(f, cohort)
    BY DEF Total, SumOver, Got
  <2>3. \A n \in cohort : f[n] \in Int
    BY <1>6
  <2>4. IsFiniteSet(cohort)
    BY <1>2, CohortFacts
  <2> HIDE DEF f
  <2>5. SumOver(f, cohort) \in Int
    BY <2>3, <2>4, SumType
  <2>6. st.demand[i] = 0
    BY <1>1, <1>5 DEF Unserved
  <2>7. Got(st, cohort, i) + st.demand[i] = Demand[i]
    BY <1>4
  <2>8. Got(st, cohort, i) = Demand[i]
    BY <2>2, <2>5, <2>6, <2>7
  <2> QED
    BY <2>1, <2>2, <2>8
<1>8. EveryUnitPlaced
  BY <1>3, <1>6, <1>7 DEF EveryUnitPlaced, GoodCut
<1>9. FewPieces
  <2> DEFINE f == [n \in cohort |-> Len(st.chunks[n.id])]
  <2>1. Total([n \in cohort |-> Len(chunks[n.id])]) = Total(f)
    BY <1>1
  <2>2. Total(f) = SumOver(f, cohort) /\ Pieces(st, cohort) = SumOver(f, cohort)
    BY DEF Total, SumOver, Pieces
  <2> QED
    BY <1>4, <2>1, <2>2 DEF FewPieces, m
<1> QED
  BY <1>8, <1>9

\* Theorem: however the cohort is cut and the targets weighted, each NFT is cut into
\* positive chunks for distinct targets that add up to it, and each target receives exactly
\* what apportionAmounts says it is due.
THEOREM EveryUnitPlacedHolds == Spec => []EveryUnitPlaced
<1>1. AllocationInv => EveryUnitPlaced
  BY PlacedPlan DEF EveryUnitPlaced, Allocated
<1> QED
  BY <1>1, AllocationInvariance, PTL

\* Theorem: a plan cuts little.  The NFTs after it are fewer than the NFTs before it and the
\* targets together, which is what keeps a large plan below the limit of calls.
THEOREM FewPiecesHolds == Spec => []FewPieces
<1>1. AllocationInv => FewPieces
  BY PlacedPlan DEF FewPieces, Allocated
<1> QED
  BY <1>1, AllocationInvariance, PTL

\* Theorem: what one has stays.  When the NFTs of a plan are allocated again to the same
\* targets, each stays whole and goes on voting for the target it votes for.
THEOREM SettledStaysHolds == Spec => []SettledStays
<1>1. ASSUME AllocationInv PROVE SettledStays
  <2>1. SUFFICES ASSUME chunks # Unallocated, settled, NEW n \in cohort
                 PROVE  Len(chunks[n.id]) = 1 /\ Matches(n, targets[chunks[n.id][1].target])
    BY DEF SettledStays, Allocated
  <2>2. /\ IsCohort(cohort) /\ Weighted(targets) /\ Served(cohort, targets)
        /\ chunks = AllocateCohort(cohort, targets)
    BY <1>1, <2>1 DEF AllocationInv, CohortSound, ChunksSound, SettledSound
  <2>3. Stays(chunks[n.id], n, targets)
    BY <2>2, AllocateCohortStays
  <2>4. PICK i \in DOMAIN targets : Matches(n, targets[i]) /\ chunks[n.id] = <<Chunk(i, n.amount)>>
    BY <2>3 DEF Stays
  <2>5. chunks[n.id][1] = Chunk(i, n.amount) /\ Len(chunks[n.id]) = 1
    BY <2>4
  <2> QED
    BY <2>4, <2>5 DEF Chunk
<1> QED
  BY <1>1, AllocationInvariance, PTL

\* Theorem: apportionAmounts is the largest remainder method: it divides the whole stake,
\* keeps each target within a unit of its exact share, and rounds up where most is cut off.
THEOREM ApportionedFairlyHolds == Spec => []ApportionedFairly
<1>1. ASSUME AllocationInv PROVE ApportionedFairly
  <2>1. SUFFICES ASSUME targets # <<>> PROVE ApportionedFairly
    BY DEF ApportionedFairly
  <2>2. IsCohort(cohort) /\ Weighted(targets)
    BY <1>1, <2>1 DEF AllocationInv, CohortSound, TargetsSound
  <2>3. DOMAIN targets = 1 .. Len(targets)
    BY <2>2 DEF Weighted
  <2> DEFINE stake == StakeOf(cohort)
             demand == ApportionAmounts(stake, targets)
             cut(i) == stake * targets[i].weight - demand[i] * BpsTotal
  <2>4. /\ Total(demand) = stake
        /\ \A i \in 1 .. Len(targets) : -BpsTotal < cut(i) /\ cut(i) < BpsTotal
        /\ \A i, k \in 1 .. Len(targets) : cut(i) > 0 /\ cut(k) < 0 =>
               (stake * targets[i].weight) % BpsTotal <= (stake * targets[k].weight) % BpsTotal
    BY <2>2, DemandFair
  <2> QED
    BY <2>3, <2>4 DEF ApportionedFairly, Demand
<1> QED
  BY <1>1, AllocationInvariance, PTL

-------------------------------------------------------------------------------
(***************************************************************************)
(* The properties of what is recommended                                   *)
(***************************************************************************)

\* What holds of a provider's recommendation besides.
LEMMA ProviderSound ==
    ASSUME AllocationInv, plan # None, plan.basis = "provider"
    PROVE  LET rows == plan.rows
               rowOf(t) == CHOOSE i \in DOMAIN rows : \E p \in plan.pools : p.pair = i /\ p.id = t.pool
               open == Available(rows, plan.pools, plan.prune)
           IN  /\ targets # <<>> => {rowOf(targets[k]) : k \in DOMAIN targets} = Best(rows, open)
               /\ \A k \in DOMAIN targets :
                     /\ rows[rowOf(targets[k])].weight <= targets[k].weight
                     /\ targets[k].weight <= rows[rowOf(targets[k])].cap
               /\ \A k \in DOMAIN targets : \A p, q \in {x \in plan.pools : x.initialized} :
                     /\ p # q /\ p.id = targets[k].pool /\ q.pair = p.pair /\ q.tick # FullRange
                     => p.tick = Preferred /\ q.tick # Preferred
               /\ targets = <<>> <=> CapsOf(rows, Best(rows, open)) < BpsTotal
<1> DEFINE rows == plan.rows
           pools == plan.pools
           c == Candidates(rows, pools, plan.prune)
           open == Available(rows, pools, plan.prune)
           rowOf(t) == CHOOSE i \in DOMAIN rows : \E p \in pools : p.pair = i /\ p.id = t.pool
<1>1. /\ Directory(rows, pools) /\ targets = ProviderTargets(rows, pools, plan.prune)
  <2>1. plan.basis # None /\ plan.basis # "voter"
    BY BoundsAssumption
  <2> QED
    BY <2>1 DEF AllocationInv, PlanSound, BasisSound, Directory
<1>2. IsRows(rows) /\ RowsSound(rows) /\ IsFiniteSet(pools) /\ ~DuplicatePool(rows, pools)
  BY <1>1 DEF Directory
<1>3. /\ targets = <<>> <=> CapsOf(rows, Best(rows, open)) < BpsTotal
      /\ targets # <<>> =>
           /\ DOMAIN targets = DOMAIN c
           /\ \A k \in DOMAIN c :
                /\ targets[k].pool = Resolve(pools, c[k]).id
                /\ rows[c[k]].weight <= targets[k].weight /\ targets[k].weight <= rows[c[k]].cap
  BY <1>1, <1>2, ProviderFacts
<1>4. Range(c) = Best(rows, open)
  BY <1>2, CandidatesFacts
<1>5. \A k \in DOMAIN c :
         /\ c[k] \in DOMAIN rows /\ Resolve(pools, c[k]) \in Matching(pools, c[k])
         /\ Resolve(pools, c[k]) # NoPool
         /\ \A p \in pools : p.id = Resolve(pools, c[k]).id => p.pair = c[k]
  BY <1>1, CandidatePools
<1> HIDE DEF rows, pools, c, open
<1>6. CASE targets = <<>>
  <2>1. \A k \in DOMAIN targets : FALSE
    BY <1>6
  <2> QED
    BY <1>3, <1>6, <2>1 DEF rows, pools, open
<1>7. CASE targets # <<>>
  <2>1. ASSUME NEW k \in DOMAIN targets
        PROVE  /\ k \in DOMAIN c /\ rowOf(targets[k]) = c[k]
               /\ targets[k].pool = Resolve(pools, c[k]).id
    <3>1. k \in DOMAIN c /\ targets[k].pool = Resolve(pools, c[k]).id
      BY <1>3, <1>7
    <3>2. \A i \in DOMAIN rows : (\E p \in pools : p.pair = i /\ p.id = targets[k].pool) => i = c[k]
      BY <1>5, <3>1
    <3>3. c[k] \in DOMAIN rows /\ \E p \in pools : p.pair = c[k] /\ p.id = targets[k].pool
      BY <1>5, <3>1 DEF Matching
    <3> QED
      BY <3>1, <3>2, <3>3
  <2> HIDE DEF rowOf
  <2>2. {rowOf(targets[k]) : k \in DOMAIN targets} = Best(rows, open)
    <3>1. {rowOf(targets[k]) : k \in DOMAIN targets} = {c[k] : k \in DOMAIN c}
      BY <1>3, <1>7, <2>1
    <3> QED
      BY <1>4, <3>1 DEF Range
  <2>3. \A k \in DOMAIN targets :
           /\ rows[rowOf(targets[k])].weight <= targets[k].weight
           /\ targets[k].weight <= rows[rowOf(targets[k])].cap
    BY <1>3, <1>7, <2>1
  <2>4. ASSUME NEW k \in DOMAIN targets, NEW p \in pools, NEW q \in pools, p.initialized, q.initialized,
               p # q, p.id = targets[k].pool, q.pair = p.pair, q.tick # FullRange
        PROVE  p.tick = Preferred /\ q.tick # Preferred
    <3> DEFINE r == Resolve(pools, c[k])
    <3>1. r \in Matching(pools, c[k]) /\ p.id = r.id /\ p.pair = c[k] /\ c[k] \in DOMAIN rows
      BY <1>5, <2>1, <2>4
    <3>2. p \in Matching(pools, c[k]) /\ q \in Matching(pools, c[k])
      BY <2>4, <3>1 DEF Matching
    <3>3. p = r
      BY <1>2, <3>1, <3>2 DEF DuplicatePool
    <3>4. r # NoPool
      BY <1>5, <2>1
    <3> QED
      BY <1>2, <2>4, <3>2, <3>3, <3>4, ResolveFacts
  <2> QED
    BY <1>3, <1>7, <2>2, <2>3, <2>4 DEF rows, pools, open, rowOf
<1> QED
  BY <1>6, <1>7

\* Theorem: a recommendation can be executed as it stands, for every snapshot and directory
\* of the runs, and however many targets a reallocation takes: no more targets than that, of
\* different pools, with positive weights that sum to the whole; the provider's are the best
\* of the rows available, none below its weight nor above its cap, each in the pool its pair
\* stands for, and there are none only if the caps cannot hold the whole.
THEOREM TargetsExecutableHolds == Spec => []TargetsExecutable
<1>1. ASSUME AllocationInv PROVE TargetsExecutable
  <2>1. SUFFICES ASSUME plan # None, plan.basis # None PROVE TargetsExecutable
    BY DEF TargetsExecutable
  <2>2. targets # <<>> =>
          /\ Len(targets) <= MaxExecutable
          /\ Total([k \in DOMAIN targets |-> targets[k].weight]) = BpsTotal
          /\ \A k \in DOMAIN targets : targets[k].weight > 0
          /\ \A j, k \in DOMAIN targets : targets[j].pool = targets[k].pool => j = k
    <3>1. Directory(plan.rows, plan.pools)
      BY <1>1, <2>1 DEF AllocationInv, PlanSound, BasisSound, Directory
    <3>2. \/ targets = ProviderTargets(plan.rows, plan.pools, plan.prune)
          \/ OnVoter(targets, plan.rows, plan.pools, plan.prune)
      BY <1>1, <2>1 DEF AllocationInv, BasisSound
    <3>3. ASSUME targets # <<>>
          PROVE  /\ Weighted(targets) /\ Len(targets) <= MaxExecutable
                 /\ \A k \in DOMAIN targets : targets[k].weight > 0
                 /\ \A j, k \in DOMAIN targets : targets[j].pool = targets[k].pool => j = k
      BY <3>1, <3>2, <3>3, RecommendedSound
    <3> QED
      BY <3>3 DEF Weighted
  <2>3. CASE plan.basis = "provider"
    <3> DEFINE rows == plan.rows
               rowOf(t) == CHOOSE i \in DOMAIN rows : \E p \in plan.pools : p.pair = i /\ p.id = t.pool
               open == Available(rows, plan.pools, plan.prune)
               best == {i \in open : Cardinality({k \in open : Prior(rows, k, i)}) < MaxExecutable}
    <3>1. /\ targets # <<>> => {rowOf(targets[k]) : k \in DOMAIN targets} = best
          /\ \A k \in DOMAIN targets :
                /\ rows[rowOf(targets[k])].weight <= targets[k].weight
                /\ targets[k].weight <= rows[rowOf(targets[k])].cap
          /\ \A k \in DOMAIN targets : \A p, q \in {x \in plan.pools : x.initialized} :
                /\ p # q /\ p.id = targets[k].pool /\ q.pair = p.pair /\ q.tick # FullRange
                => p.tick = Preferred /\ q.tick # Preferred
          /\ targets = <<>> <=> Total([i \in best |-> rows[i].cap]) < BpsTotal
      <4>1. best = Best(rows, open)
        BY DEF Best
      <4>2. Total([i \in best |-> rows[i].cap]) = CapsOf(rows, best)
        BY DEF Total, SumOver, CapsOf
      <4> QED
        BY <1>1, <2>1, <2>3, <4>1, <4>2, ProviderSound
    <3> QED
      BY <2>2, <3>1 DEF TargetsExecutable
  <2>4. CASE plan.basis # "provider"
    BY <2>2, <2>4 DEF TargetsExecutable
  <2> QED
    BY <2>3, <2>4
<1> QED
  BY <1>1, AllocationInvariance, PTL
===============================================================================
