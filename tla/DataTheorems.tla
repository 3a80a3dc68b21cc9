--------------------------- MODULE DataTheorems ---------------------------
(***************************************************************************)
(* Induction and recursive functions over finite data, in a form a proof   *)
(* can cite: predicates are sets and a recursive definition's step is a    *)
(* function, where the library's induction theorems take operators.        *)
(* Then what follows by them: the places of a finite order, folds over     *)
(* sets, sequences joined or flattened.                                    *)
(***************************************************************************)
EXTENDS FiniteSetTheorems, SequencesExt, Ordering, TLAPS

\* A set of naturals that holds 0 and the successor of each of its members is Nat.
LEMMA InductionOverNat ==
    ASSUME NEW P \in SUBSET Nat, 0 \in P, \A n \in P : n + 1 \in P
    PROVE  P = Nat
<1> DEFINE rest == Nat \ P
<1> SUFFICES ASSUME rest # {} PROVE FALSE
  OBVIOUS
<1>1. PICK x \in rest : \A y \in rest : ~ (<<y, x>> \in OpToRel(<, Nat))
  BY NatLessThanWellFounded, WFMin, rest \subseteq Nat
<1>2. x - 1 \in Nat /\ x - 1 \notin P
  OBVIOUS
<1>3. <<x - 1, x>> \in OpToRel(<, Nat)
  BY <1>2 DEF OpToRel
<1> QED
  BY <1>1, <1>2, <1>3

-------------------------------------------------------------------------------
\* pick takes an element of every nonempty subset of S.
Picks(pick, S) == \A s \in SUBSET S : s # {} => pick[s] \in s

\* g is what the recursion over the subsets of S yields.
SetRecursion(g, S, base, pick, step) ==
    /\ g[{}] = base
    /\ \A s \in SUBSET S : s # {} => g[s] = step[<<pick[s], g[s \ {pick[s]}]>>]

\* g is what the recursion over 0 .. n yields.
RangeRecursion(g, n, base, step) ==
    /\ g[0] = base
    /\ \A i \in 1 .. n : g[i] = step[<<g[i - 1], i>>]

\* A recursion over the subsets of a finite set that takes one element out at a
\* time, as the folds of the community modules do, has a solution.
LEMMA SetRecursionExists ==
    ASSUME NEW S, IsFiniteSet(S), NEW V, NEW base \in V,
           NEW pick, Picks(pick, S),
           NEW step, step \in [S \X V -> V]
    PROVE  \E g \in [SUBSET S -> V] :
               SetRecursion(g, S, base, pick, step)
<1> USE DEF Picks, SetRecursion
<1> DEFINE Level(n) == {s \in SUBSET S : Cardinality(s) <= n}
           Next(g, s) == IF s = {} THEN base ELSE step[<<pick[s], g[s \ {pick[s]}]>>]
           Solves(g, n) == g = [s \in Level(n) |-> Next(g, s)]
           Solvable == {n \in Nat : \E g \in [Level(n) -> V] : Solves(g, n)}
<1>0. \A s \in SUBSET S : IsFiniteSet(s) /\ Cardinality(s) \in Nat
  BY FS_Subset, FS_CardinalityType
<1>1. 0 \in Solvable
  <2>1. Level(0) = {{}}
    BY <1>0, FS_EmptySet
  <2> DEFINE g == [s \in {{}} |-> base]
  <2>2. g \in [Level(0) -> V] /\ Solves(g, 0)
    BY <2>1
  <2> QED
    BY <2>2
<1>2. ASSUME NEW n \in Solvable PROVE n + 1 \in Solvable
  <2>1. PICK g \in [Level(n) -> V] : Solves(g, n)
    OBVIOUS
  <2> DEFINE h == [s \in Level(n + 1) |-> Next(g, s)]
  <2>2. ASSUME NEW s \in Level(n + 1), s # {}
        PROVE  pick[s] \in S /\ s \ {pick[s]} \in Level(n)
    BY <1>0, <2>2, FS_RemoveElement
  <2>3. h \in [Level(n + 1) -> V]
    BY <2>2
  <2>4. \A s \in Level(n) : h[s] = g[s]
    <3>1. \A s \in Level(n) : s \in Level(n + 1)
      BY <1>0
    <3>2. \A s \in Level(n) : g[s] = Next(g, s)
      BY <2>1
    <3> QED
      BY <3>1, <3>2
  <2>5. \A s \in Level(n + 1) : h[s] = Next(g, s)
    OBVIOUS
  <2> HIDE DEF h, Level
  <2>6. \A s \in Level(n + 1) : h[s] = Next(h, s)
    BY <2>2, <2>4, <2>5
  <2>7. Solves(h, n + 1)
    BY <2>3, <2>6
  <2>8. \E f \in [Level(n + 1) -> V] : Solves(f, n + 1)
    BY ONLY <2>3, <2>7
  <2>9. n + 1 \in Nat
    OBVIOUS
  <2> QED
    BY ONLY <2>8, <2>9 DEF Solvable
<1>3. Solvable \in SUBSET Nat
  OBVIOUS
<1> HIDE DEF Solvable
<1>4. Cardinality(S) \in Solvable
  BY <1>0, <1>1, <1>2, <1>3, InductionOverNat
<1>5. Level(Cardinality(S)) = SUBSET S
  BY <1>0, FS_Subset
<1>6. PICK g \in [Level(Cardinality(S)) -> V] : Solves(g, Cardinality(S))
  BY <1>4 DEF Solvable
<1>7. \A s \in SUBSET S : g[s] = Next(g, s)
  BY <1>5, <1>6
<1> QED
  BY <1>5, <1>6, <1>7

\* What the empty set's value has, and each step keeps, every value has.
LEMMA SetRecursionType ==
    ASSUME NEW S, IsFiniteSet(S), NEW V, NEW g, g[{}] \in V,
           NEW pick, Picks(pick, S),
           \A s \in SUBSET S : s # {} /\ g[s \ {pick[s]}] \in V => g[s] \in V
    PROVE  \A s \in SUBSET S : g[s] \in V
<1> USE DEF Picks
<1> DEFINE Typed == {n \in Nat : \A s \in SUBSET S : Cardinality(s) <= n => g[s] \in V}
<1>0. \A s \in SUBSET S : IsFiniteSet(s) /\ Cardinality(s) \in Nat
  BY FS_Subset, FS_CardinalityType
<1>1. 0 \in Typed
  <2>1. ASSUME NEW s \in SUBSET S, Cardinality(s) <= 0 PROVE s = {}
    BY <1>0, <2>1, FS_EmptySet
  <2> QED
    BY <2>1
<1>2. ASSUME NEW n \in Typed PROVE n + 1 \in Typed
  <2>1. ASSUME NEW s \in SUBSET S, Cardinality(s) <= n + 1, s # {}
        PROVE  g[s] \in V
    <3>1. Cardinality(s \ {pick[s]}) <= n
      <4>1. Cardinality(s \ {pick[s]}) = Cardinality(s) - 1
        BY <1>0, <2>1, FS_RemoveElement
      <4> QED
        BY <1>0, <2>1, <4>1
    <3> QED
      BY <2>1, <3>1
  <2>2. \A s \in SUBSET S : Cardinality(s) <= n + 1 => g[s] \in V
    BY <2>1
  <2>3. n + 1 \in Nat
    OBVIOUS
  <2> QED
    BY ONLY <2>2, <2>3 DEF Typed
<1>3. Typed \in SUBSET Nat
  OBVIOUS
<1> HIDE DEF Typed
<1>4. Typed = Nat
  BY <1>1, <1>2, <1>3, InductionOverNat
<1> SUFFICES ASSUME NEW s \in SUBSET S PROVE g[s] \in V
  OBVIOUS
<1>5. Cardinality(s) \in Typed
  BY <1>0, <1>4
<1>6. Cardinality(s) <= Cardinality(s)
  BY <1>0
<1> QED
  BY <1>5, <1>6 DEF Typed

-------------------------------------------------------------------------------
\* A recursion over a range of naturals, each value from the one before, has a
\* solution.
LEMMA RangeRecursionExists ==
    ASSUME NEW n \in Nat, NEW V, NEW base \in V, NEW step, step \in [V \X (1 .. n) -> V]
    PROVE  \E g \in [0 .. n -> V] :
               RangeRecursion(g, n, base, step)
<1> USE DEF RangeRecursion
<1> DEFINE Next(g, i) == IF i = 0 THEN base ELSE step[<<g[i - 1], i>>]
           Solves(g, k) == g = [i \in 0 .. k |-> Next(g, i)]
           Solvable == {k \in Nat : k <= n => \E g \in [0 .. k -> V] : Solves(g, k)}
<1>1. 0 \in Solvable
  <2> DEFINE g == [i \in 0 .. 0 |-> base]
  <2>1. g \in [0 .. 0 -> V] /\ Solves(g, 0)
    OBVIOUS
  <2> QED
    BY <2>1
<1>2. ASSUME NEW k \in Solvable PROVE k + 1 \in Solvable
  <2> SUFFICES ASSUME k + 1 <= n PROVE \E g \in [0 .. k + 1 -> V] : Solves(g, k + 1)
    OBVIOUS
  <2>1. PICK g \in [0 .. k -> V] : Solves(g, k)
    OBVIOUS
  <2> DEFINE h == [i \in 0 .. k + 1 |-> Next(g, i)]
  <2>2. h \in [0 .. k + 1 -> V]
    OBVIOUS
  <2>3. \A i \in 0 .. k : h[i] = g[i]
    BY <2>1
  <2>4. \A i \in 0 .. k + 1 : h[i] = Next(g, i)
    OBVIOUS
  <2> HIDE DEF h
  <2>5. ASSUME NEW i \in 0 .. k + 1 PROVE h[i] = Next(h, i)
    <3>1. i # 0 => i - 1 \in 0 .. k
      OBVIOUS
    <3>2. i # 0 => h[i - 1] = g[i - 1]
      BY <2>3, <3>1
    <3>3. h[i] = Next(g, i)
      BY <2>4
    <3> QED
      BY ONLY <3>2, <3>3 DEF Next
  <2>6. Solves(h, k + 1)
    BY <2>2, <2>5
  <2> QED
    BY <2>2, <2>6
<1>3. Solvable \in SUBSET Nat
  OBVIOUS
<1> HIDE DEF Solvable
<1>4. n \in Solvable
  BY <1>1, <1>2, <1>3, InductionOverNat
<1>5. PICK g \in [0 .. n -> V] : Solves(g, n)
  BY <1>4 DEF Solvable
<1>6. \A i \in 0 .. n : g[i] = Next(g, i)
  BY <1>5
<1>7. g[0] = base
  BY <1>6, 0 \in 0 .. n
<1>8. ASSUME NEW i \in 1 .. n PROVE g[i] = step[<<g[i - 1], i>>]
  <2>1. i \in 0 .. n /\ i # 0
    OBVIOUS
  <2>2. g[i] = Next(g, i)
    BY <1>6, <2>1
  <2> QED
    BY ONLY <2>1, <2>2 DEF Next
<1> QED
  BY <1>7, <1>8

\* What the first value has, and each step keeps, every value has.
LEMMA RangeRecursionType ==
    ASSUME NEW n \in Nat, NEW V, NEW g, g[0] \in V,
           \A i \in 1 .. n : g[i - 1] \in V => g[i] \in V
    PROVE  \A i \in 0 .. n : g[i] \in V
<1> DEFINE Typed == {k \in Nat : k <= n => g[k] \in V}
<1>1. 0 \in Typed
  OBVIOUS
<1>2. ASSUME NEW k \in Typed PROVE k + 1 \in Typed
  <2>1. k + 1 <= n => g[(k + 1) - 1] \in V
    OBVIOUS
  <2>2. k + 1 <= n => g[k + 1] \in V
    BY <2>1
  <2> QED
    BY <2>2
<1>3. Typed \in SUBSET Nat
  OBVIOUS
<1> HIDE DEF Typed
<1>4. Typed = Nat
  BY <1>1, <1>2, <1>3, InductionOverNat
<1> SUFFICES ASSUME NEW i \in 0 .. n PROVE g[i] \in V
  OBVIOUS
<1>5. i \in Typed
  BY <1>4
<1> QED
  BY <1>5 DEF Typed

-------------------------------------------------------------------------------
\* R orders any two elements of S.
Orders(R, S) ==
    /\ \A x \in S : <<x, x>> \notin R
    /\ \A x, y, z \in S : <<x, y>> \in R /\ <<y, z>> \in R => <<x, z>> \in R
    /\ \A x, y \in S : x # y => <<x, y>> \in R \/ <<y, x>> \in R

\* The elements of S before x.
Below(x, R, S) == {y \in S : <<y, x>> \in R}

\* Each element of a finite ordered set has a place of its own, and each place an
\* element.
LEMMA Places ==
    ASSUME NEW S, IsFiniteSet(S), NEW R, Orders(R, S)
    PROVE  /\ \A x \in S : Cardinality(Below(x, R, S)) \in 0 .. Cardinality(S) - 1
           /\ \A x, y \in S : <<x, y>> \in R =>
                  Cardinality(Below(x, R, S)) < Cardinality(Below(y, R, S))
           /\ \A k \in 1 .. Cardinality(S) :
                  \E x \in S : Cardinality(Below(x, R, S)) = k - 1
<1> DEFINE n == Cardinality(S)
           place == [x \in S |-> Cardinality(Below(x, R, S))]
<1>0. n \in Nat
  BY FS_CardinalityType
<1>1. ASSUME NEW x \in S
      PROVE  /\ IsFiniteSet(Below(x, R, S)) /\ Cardinality(Below(x, R, S)) \in Nat
             /\ Below(x, R, S) \in SUBSET S /\ x \notin Below(x, R, S)
  <2>1. Below(x, R, S) \in SUBSET S /\ x \notin Below(x, R, S)
    BY DEF Below, Orders
  <2> QED
    BY <2>1, FS_Subset, FS_CardinalityType
<1>2. ASSUME NEW x \in S PROVE place[x] \in 0 .. n - 1
  <2>1. Cardinality(Below(x, R, S)) <= n /\ Cardinality(Below(x, R, S)) # n
    BY <1>1, FS_Subset
  <2> QED
    BY <1>0, <1>1, <2>1
<1>3. ASSUME NEW x \in S, NEW y \in S, <<x, y>> \in R PROVE place[x] < place[y]
  <2>1. Below(x, R, S) \in SUBSET Below(y, R, S) /\ x \in Below(y, R, S)
    BY <1>3 DEF Below, Orders
  <2>2. /\ Cardinality(Below(x, R, S)) <= Cardinality(Below(y, R, S))
        /\ Cardinality(Below(x, R, S)) # Cardinality(Below(y, R, S))
    BY <1>1, <2>1, FS_Subset
  <2> QED
    BY <1>1, <2>2
<1>4. place \in [S -> 0 .. n - 1]
  BY <1>2
<1>5. \A x, y \in S : place[x] = place[y] => x = y
  <2>1. \A x \in S : place[x] \in Int
    BY <1>2
  <2> HIDE DEF place
  <2> SUFFICES ASSUME NEW x \in S, NEW y \in S, place[x] = place[y], x # y PROVE FALSE
    OBVIOUS
  <2>2. <<x, y>> \in R \/ <<y, x>> \in R
    BY DEF Orders
  <2> QED
    BY <1>3, <2>1, <2>2
<1> HIDE DEF place
<1>6. place \in Injection(S, 0 .. n - 1)
  BY <1>4, <1>5 DEF Injection, IsInjective
<1>7. IsFiniteSet(0 .. n - 1) /\ Cardinality(0 .. n - 1) = n
  BY <1>0, FS_Interval
<1>8. place \in Surjection(S, 0 .. n - 1)
  BY <1>6, <1>7, FS_Injection
<1>9. \A i \in 0 .. n - 1 : \E x \in S : place[x] = i
  BY <1>8 DEF Surjection
<1>10. \A k \in 1 .. n : k - 1 \in 0 .. n - 1
  BY <1>0
<1>11. \A x \in S : place[x] = Cardinality(Below(x, R, S))
  BY DEF place
<1> QED
  BY <1>2, <1>3, <1>9, <1>10, <1>11

\* A sequence with an element of each place lists the set in its order.
LEMMA PlacesInOrder ==
    ASSUME NEW S, IsFiniteSet(S), NEW R, Orders(R, S), NEW s,
           s = [k \in 1 .. Cardinality(S) |-> s[k]],
           \A k \in 1 .. Cardinality(S) :
               s[k] \in S /\ Cardinality(Below(s[k], R, S)) = k - 1
    PROVE  /\ s \in Seq(S) /\ Len(s) = Cardinality(S) /\ Range(s) = S
           /\ \A i, k \in DOMAIN s : i < k => <<s[i], s[k]>> \in R
<1> DEFINE n == Cardinality(S)
<1>0. n \in Nat
  BY FS_CardinalityType
<1>1. s \in [1 .. n -> S]
  OBVIOUS
<1>2. s \in Seq(S) /\ Len(s) = n /\ DOMAIN s = 1 .. n
  BY <1>0, <1>1
<1>3. ASSUME NEW x \in S PROVE \E k \in DOMAIN s : s[k] = x
  <2> DEFINE k == Cardinality(Below(x, R, S)) + 1
  <2>1. k \in 1 .. n /\ k - 1 = Cardinality(Below(x, R, S))
    BY <1>0, Places
  <2>2. s[k] \in S /\ Cardinality(Below(s[k], R, S)) = Cardinality(Below(x, R, S))
    BY <2>1
  <2>3. s[k] = x
    <3>1. /\ <<s[k], x>> \in R => Cardinality(Below(s[k], R, S)) < Cardinality(Below(x, R, S))
          /\ <<x, s[k]>> \in R => Cardinality(Below(x, R, S)) < Cardinality(Below(s[k], R, S))
      BY <2>2, Places
    <3>2. Cardinality(Below(x, R, S)) \in Int
      BY Places
    <3>3. s[k] # x => <<s[k], x>> \in R \/ <<x, s[k]>> \in R
      BY <2>2 DEF Orders
    <3> QED
      BY <2>2, <3>1, <3>2, <3>3
  <2> QED
    BY <1>2, <2>1, <2>3
<1>4. Range(s) = S
  BY <1>1, <1>2, <1>3 DEF Range
<1>5. ASSUME NEW i \in 1 .. n, NEW k \in 1 .. n, i < k PROVE <<s[i], s[k]>> \in R
  <2>1. /\ s[i] \in S /\ Cardinality(Below(s[i], R, S)) = i - 1
        /\ s[k] \in S /\ Cardinality(Below(s[k], R, S)) = k - 1
    OBVIOUS
  <2>2. s[i] # s[k]
    BY <1>0, <1>5, <2>1
  <2>3. <<s[k], s[i]>> \in R => k - 1 < i - 1
    BY <2>1, Places
  <2> QED
    BY <1>0, <1>5, <2>1, <2>2, <2>3 DEF Orders
<1> QED
  BY <1>2, <1>4, <1>5

\* Numbers in ascending order.
LEMMA SortedNumbers ==
    ASSUME NEW S \in SUBSET Int, IsFiniteSet(S)
    PROVE  /\ Sorted(S, <) \in Seq(S) /\ Len(Sorted(S, <)) = Cardinality(S)
           /\ Range(Sorted(S, <)) = S
           /\ \A i, k \in DOMAIN Sorted(S, <) : i < k => Sorted(S, <)[i] < Sorted(S, <)[k]
<1> DEFINE R == {p \in S \X S : p[1] < p[2]}
           s == Sorted(S, <)
           at(k) == CHOOSE x \in S : Cardinality({y \in S : y < x}) = k - 1
<1>1. Orders(R, S)
  BY DEF Orders
<1>2. \A x \in S : Below(x, R, S) = {y \in S : y < x}
  BY DEF Below
<1>3. s = [k \in 1 .. Cardinality(S) |-> at(k)]
  BY DEF Sorted
<1> HIDE DEF R, s, at
<1>4. ASSUME NEW k \in 1 .. Cardinality(S)
      PROVE  s[k] \in S /\ Cardinality(Below(s[k], R, S)) = k - 1
  <2>1. \E x \in S : Cardinality({y \in S : y < x}) = k - 1
    <3>1. PICK x \in S : Cardinality(Below(x, R, S)) = k - 1
      BY <1>1, Places
    <3>2. Below(x, R, S) = {y \in S : y < x}
      BY <1>2
    <3> QED
      BY <3>1, <3>2
  <2>2. s[k] \in S /\ Cardinality({y \in S : y < s[k]}) = k - 1
    <3>1. at(k) \in S /\ Cardinality({y \in S : y < at(k)}) = k - 1
      BY <2>1 DEF at
    <3> QED
      BY <1>3, <3>1
  <2> QED
    BY <1>2, <2>2
<1>5. /\ s \in Seq(S) /\ Len(s) = Cardinality(S) /\ Range(s) = S
      /\ \A i, k \in DOMAIN s : i < k => <<s[i], s[k]>> \in R
  <2>1. s = [k \in 1 .. Cardinality(S) |-> s[k]]
    BY <1>3
  <2>2. \A k \in 1 .. Cardinality(S) : s[k] \in S /\ Cardinality(Below(s[k], R, S)) = k - 1
    BY <1>4
  <2> QED
    BY <1>1, <2>1, <2>2, PlacesInOrder
<1> QED
  BY <1>5 DEF R, s

\* A finite ordered set that is not empty has a least element.
LEMMA LeastExists ==
    ASSUME NEW S, IsFiniteSet(S), S # {}, NEW R, Orders(R, S)
    PROVE  \E x \in S : \A y \in S : y # x => <<x, y>> \in R
<1>1. Cardinality(S) \in Nat /\ Cardinality(S) # 0
  BY FS_CardinalityType, FS_EmptySet
<1>2. 1 \in 1 .. Cardinality(S) /\ 1 - 1 = 0
  BY <1>1
<1>3. PICK x \in S : Cardinality(Below(x, R, S)) = 1 - 1
  BY <1>2, Places
<1>4. IsFiniteSet(Below(x, R, S))
  <2>1. Below(x, R, S) \in SUBSET S
    BY DEF Below
  <2> QED
    BY <2>1, FS_Subset
<1>5. Below(x, R, S) = {}
  BY <1>2, <1>3, <1>4, FS_EmptySet
<1> QED
  BY <1>5 DEF Below, Orders

-------------------------------------------------------------------------------
\* The image of a finite set is finite.
LEMMA ImageFinite ==
    ASSUME NEW S, IsFiniteSet(S), NEW f
    PROVE  IsFiniteSet({f[x] : x \in S})
<1> DEFINE T == {f[x] : x \in S}
           g == [x \in S |-> f[x]]
<1>1. g \in Surjection(S, T)
  BY DEF Surjection
<1> QED
  BY <1>1, FS_Surjection

\* The sum of f over S.
SumOver(f, S) == MapThenSumSet(LAMBDA x : f[x], S)

\* What g makes of the subsets of S is the sums of f over them.
Sums(g, f, S) ==
    g = [s \in SUBSET S |->
            IF s = {} THEN 0
            ELSE f[CHOOSE x \in s : TRUE] + g[s \ {CHOOSE x \in s : TRUE}]]

\* Sums are defined.
LEMMA SumsExist ==
    ASSUME NEW S, IsFiniteSet(S), NEW f, \A x \in S : f[x] \in Int
    PROVE  \E g \in [SUBSET S -> Int] : Sums(g, f, S) /\ SumOver(f, S) = g[S]
<1> DEFINE pick == [s \in SUBSET S |-> CHOOSE x \in s : TRUE]
           step == [p \in S \X Int |-> f[p[1]] + p[2]]
           sum == CHOOSE g : Sums(g, f, S)
<1>1. SumOver(f, S) = sum[S]
  BY DEF SumOver, MapThenSumSet, MapThenFoldSet, Sums
<1>2. Picks(pick, S)
  BY DEF Picks
<1>3. step \in [S \X Int -> Int]
  OBVIOUS
<1>4. PICK g \in [SUBSET S -> Int] : SetRecursion(g, S, 0, pick, step)
  <2> HIDE DEF pick, step
  <2> QED
    BY <1>2, <1>3, SetRecursionExists, 0 \in Int
<1>5. ASSUME NEW s \in SUBSET S, s # {}
      PROVE  /\ pick[s] = CHOOSE x \in s : TRUE
             /\ pick[s] \in S /\ s \ {pick[s]} \in SUBSET S
  <2>1. pick[s] = CHOOSE x \in s : TRUE
    OBVIOUS
  <2> HIDE DEF pick
  <2> QED
    BY <1>2, <1>5, <2>1 DEF Picks
<1>6. Sums(g, f, S)
  <2>1. ASSUME NEW s \in SUBSET S, s # {}
        PROVE  g[s] = f[CHOOSE x \in s : TRUE] + g[s \ {CHOOSE x \in s : TRUE}]
    <3> HIDE DEF pick
    <3>1. g[s] = f[pick[s]] + g[s \ {pick[s]}]
      BY <1>4, <1>5, <2>1 DEF SetRecursion
    <3> QED
      BY ONLY <1>5, <2>1, <3>1
  <2>2. g[{}] = 0
    BY <1>4 DEF SetRecursion
  <2> QED
    BY ONLY <2>1, <2>2, <1>4, g \in [SUBSET S -> Int] DEF Sums
<1>7. Sums(sum, f, S)
  BY ONLY <1>6 DEF sum
<1> HIDE DEF sum, pick
<1>8. sum[{}] = 0
  BY <1>7 DEF Sums
<1>9. \A s \in SUBSET S : sum[s] \in Int
  <2>1. ASSUME NEW s \in SUBSET S, s # {}, sum[s \ {pick[s]}] \in Int PROVE sum[s] \in Int
    <3>1. sum[s] = f[CHOOSE x \in s : TRUE] + sum[s \ {CHOOSE x \in s : TRUE}]
      BY <1>7, <2>1 DEF Sums
    <3>2. sum[s] = f[pick[s]] + sum[s \ {pick[s]}] /\ f[pick[s]] \in Int
      BY <1>5, <2>1, <3>1
    <3> QED
      BY <2>1, <3>2
  <2> QED
    BY <1>2, <1>8, <2>1, SetRecursionType, 0 \in Int
<1>10. sum \in [SUBSET S -> Int]
  BY ONLY <1>7, <1>9 DEF Sums
<1> QED
  BY <1>1, <1>7, <1>10

\* A sum over a part of S is what the recursion over S makes of that part.
LEMMA SumsOfParts ==
    ASSUME NEW S, IsFiniteSet(S), NEW f, \A x \in S : f[x] \in Int,
           NEW g \in [SUBSET S -> Int], Sums(g, f, S), NEW s \in SUBSET S
    PROVE  SumOver(f, s) = g[s]
<1> DEFINE pick == [t \in SUBSET s |-> CHOOSE x \in t : TRUE]
<1>1. IsFiniteSet(s) /\ \A x \in s : f[x] \in Int
  BY FS_Subset
<1>2. PICK h \in [SUBSET s -> Int] : Sums(h, f, s) /\ SumOver(f, s) = h[s]
  BY <1>1, SumsExist
<1> DEFINE same == [t \in SUBSET s |-> h[t] = g[t]]
<1>3. Picks(pick, s)
  BY DEF Picks
<1>4. same[{}] \in {TRUE}
  BY <1>2 DEF Sums
<1>5. ASSUME NEW t \in SUBSET s, t # {}, same[t \ {pick[t]}] \in {TRUE}
      PROVE  same[t] \in {TRUE}
  <2>1. pick[t] = CHOOSE x \in t : TRUE
    OBVIOUS
  <2>2. t \ {pick[t]} \in SUBSET s
    OBVIOUS
  <2> HIDE DEF pick
  <2>3. h[t \ {pick[t]}] = g[t \ {pick[t]}]
    BY <1>5, <2>2
  <2>4. h[t] = f[CHOOSE x \in t : TRUE] + h[t \ {CHOOSE x \in t : TRUE}]
    BY <1>2, <1>5 DEF Sums
  <2>5. g[t] = f[CHOOSE x \in t : TRUE] + g[t \ {CHOOSE x \in t : TRUE}]
    <3>1. t \in SUBSET S
      OBVIOUS
    <3> QED
      BY <1>5, <3>1 DEF Sums
  <2>6. h[t] = g[t]
    BY ONLY <2>1, <2>3, <2>4, <2>5
  <2> QED
    BY <2>6
<1>6. \A t \in SUBSET s : same[t] \in {TRUE}
  <2> DEFINE V == {TRUE}
  <2>1. same[{}] \in V
    BY <1>4
  <2>2. \A t \in SUBSET s : t # {} /\ same[t \ {pick[t]}] \in V => same[t] \in V
    BY <1>5
  <2> HIDE DEF pick, same, V
  <2>3. \A t \in SUBSET s : same[t] \in V
    BY <1>1, <1>3, <2>1, <2>2, SetRecursionType
  <2> QED
    BY <2>3 DEF V
<1>7. h[s] = g[s]
  BY <1>6
<1> QED
  BY <1>2, <1>7

\* A sum of nothing is 0.
LEMMA SumEmpty ==
    ASSUME NEW f
    PROVE  SumOver(f, {}) = 0
<1>1. IsFiniteSet({}) /\ \A x \in {} : f[x] \in Int
  BY FS_EmptySet
<1>2. PICK g \in [SUBSET {} -> Int] : Sums(g, f, {}) /\ SumOver(f, {}) = g[{}]
  BY <1>1, SumsExist
<1> QED
  BY <1>2 DEF Sums

\* A sum is any of its summands and the sum of the others.
LEMMA SumSplit ==
    ASSUME NEW S, IsFiniteSet(S), NEW f, \A x \in S : f[x] \in Int, NEW y \in S
    PROVE  /\ SumOver(f, S) = f[y] + SumOver(f, S \ {y})
           /\ SumOver(f, S) \in Int /\ SumOver(f, S \ {y}) \in Int
<1>1. PICK g \in [SUBSET S -> Int] : Sums(g, f, S) /\ SumOver(f, S) = g[S]
  BY SumsExist
<1>2. \A s \in SUBSET S : IsFiniteSet(s) /\ Cardinality(s) \in Nat
  BY FS_Subset, FS_CardinalityType
<1> DEFINE Free(s) == \A x \in s : g[s] = f[x] + g[s \ {x}]
           Good == {n \in Nat : \A s \in SUBSET S : Cardinality(s) <= n => Free(s)}
<1>3. 0 \in Good
  <2>1. ASSUME NEW s \in SUBSET S, Cardinality(s) <= 0 PROVE s = {}
    BY <1>2, <2>1, FS_EmptySet
  <2> QED
    BY <2>1
<1>4. ASSUME NEW n \in Good PROVE n + 1 \in Good
  <2>1. ASSUME NEW s \in SUBSET S, Cardinality(s) <= n + 1, NEW x \in s
        PROVE  g[s] = f[x] + g[s \ {x}]
    <3> DEFINE p == CHOOSE z \in s : TRUE
    <3>1. p \in s /\ g[s] = f[p] + g[s \ {p}]
      BY <1>1, s # {} DEF Sums
    <3> HIDE DEF p
    <3>2. \A z \in s : s \ {z} \in SUBSET S /\ Cardinality(s \ {z}) <= n
      <4>1. \A z \in s : Cardinality(s \ {z}) = Cardinality(s) - 1
        BY <1>2, FS_RemoveElement
      <4> QED
        BY <1>2, <2>1, <4>1
    <3>3. CASE x = p
      BY <3>1, <3>3
    <3>4. CASE x # p
      <4>1. Free(s \ {p}) /\ Free(s \ {x})
        BY <3>1, <3>2
      <4>2. g[s \ {p}] = f[x] + g[(s \ {p}) \ {x}]
        BY <3>4, <4>1
      <4>3. g[s \ {x}] = f[p] + g[(s \ {x}) \ {p}]
        BY <3>1, <3>4, <4>1
      <4>4. (s \ {p}) \ {x} = (s \ {x}) \ {p} /\ (s \ {p}) \ {x} \in SUBSET S
        OBVIOUS
      <4>5. f[x] \in Int /\ f[p] \in Int /\ g[(s \ {p}) \ {x}] \in Int
        BY <3>1, <4>4
      <4>6. g[(s \ {x}) \ {p}] = g[(s \ {p}) \ {x}]
        BY <4>4
      <4>7. \A a, b, c \in Int : a + (b + c) = b + (a + c)
        OBVIOUS
      <4>8. f[p] + (f[x] + g[(s \ {p}) \ {x}]) = f[x] + (f[p] + g[(s \ {p}) \ {x}])
        BY <4>5, <4>7
      <4> QED
        BY ONLY <3>1, <4>2, <4>3, <4>6, <4>8
    <3> QED
      BY <3>3, <3>4
  <2>2. n + 1 \in Nat
    OBVIOUS
  <2> QED
    BY <2>1, <2>2
<1>5. Good \in SUBSET Nat
  OBVIOUS
<1> HIDE DEF Good
<1>6. Cardinality(S) \in Good
  BY <1>2, <1>3, <1>4, <1>5, InductionOverNat
<1>7. g[S] = f[y] + g[S \ {y}]
  <2>1. Cardinality(S) <= Cardinality(S)
    BY <1>2
  <2> QED
    BY <1>6, <2>1 DEF Good
<1>8. S \ {y} \in SUBSET S
  OBVIOUS
<1>9. SumOver(f, S \ {y}) = g[S \ {y}]
  BY <1>1, <1>8, SumsOfParts
<1>10. g[S \ {y}] \in Int /\ g[S] \in Int
  BY <1>1, <1>8
<1> QED
  BY ONLY <1>1, <1>7, <1>9, <1>10

\* A set of finite sets that holds the empty one, and with each set every larger one by an
\* element, holds all.
LEMMA InductionOverSets ==
    ASSUME NEW S, IsFiniteSet(S), NEW P, {} \in P,
           \A s \in SUBSET S : \A x \in S \ s : s \in P => s \cup {x} \in P
    PROVE  S \in P
<1> DEFINE pick == [s \in SUBSET S |-> CHOOSE x \in s : TRUE]
           holds == [s \in SUBSET S |-> s \in P]
<1>1. Picks(pick, S)
  BY DEF Picks
<1>2. holds[{}] \in {TRUE}
  OBVIOUS
<1>3. ASSUME NEW s \in SUBSET S, s # {}, holds[s \ {pick[s]}] \in {TRUE}
      PROVE  holds[s] \in {TRUE}
  <2>1. pick[s] \in s
    BY <1>3
  <2> HIDE DEF pick
  <2>2. s \ {pick[s]} \in SUBSET S /\ pick[s] \in S \ (s \ {pick[s]})
    BY <2>1
  <2>3. (s \ {pick[s]}) \cup {pick[s]} = s
    BY <2>1
  <2> QED
    BY <1>3, <2>2, <2>3
<1>4. \A s \in SUBSET S : holds[s] \in {TRUE}
  <2> DEFINE V == {TRUE}
  <2>1. holds[{}] \in V
    BY <1>2
  <2>2. \A s \in SUBSET S : s # {} /\ holds[s \ {pick[s]}] \in V => holds[s] \in V
    BY <1>3
  <2> HIDE DEF pick, holds, V
  <2>3. \A s \in SUBSET S : holds[s] \in V
    BY <1>1, <2>1, <2>2, SetRecursionType
  <2> QED
    BY <2>3 DEF V
<1> QED
  BY <1>4

\* A sum over one element more is larger by the summand.
LEMMA SumWith ==
    ASSUME NEW s, IsFiniteSet(s), NEW x, x \notin s, NEW f, \A y \in s \cup {x} : f[y] \in Int
    PROVE  SumOver(f, s \cup {x}) = f[x] + SumOver(f, s) /\ SumOver(f, s) \in Int
<1>1. IsFiniteSet(s \cup {x})
  BY FS_AddElement
<1>2. (s \cup {x}) \ {x} = s /\ x \in s \cup {x}
  OBVIOUS
<1> QED
  BY <1>1, <1>2, SumSplit

\* A sum of integers is an integer, of naturals a natural, and of positive numbers,
\* if there are any, positive.
LEMMA SumType ==
    ASSUME NEW S, IsFiniteSet(S), NEW f, \A x \in S : f[x] \in Int
    PROVE  /\ SumOver(f, S) \in Int
           /\ (\A x \in S : f[x] >= 0) => SumOver(f, S) >= 0
           /\ S # {} /\ (\A x \in S : f[x] > 0) => SumOver(f, S) > 0
<1>1. \A s \in SUBSET S : IsFiniteSet(s) /\ SumOver(f, s) \in Int
  <2>1. \A s \in SUBSET S : IsFiniteSet(s) /\ \A x \in s : f[x] \in Int
    BY FS_Subset
  <2>2. ASSUME NEW s \in SUBSET S PROVE SumOver(f, s) \in Int
    <3>1. PICK g \in [SUBSET s -> Int] : Sums(g, f, s) /\ SumOver(f, s) = g[s]
      BY <2>1, SumsExist
    <3> QED
      BY <3>1
  <2> QED
    BY <2>1, <2>2
<1>2. ASSUME \A x \in S : f[x] >= 0, NEW t \in SUBSET S PROVE SumOver(f, t) >= 0
  <2> DEFINE P == {s \in SUBSET S : SumOver(f, s) >= 0}
  <2>1. {} \in P
    BY SumEmpty
  <2>2. ASSUME NEW s \in SUBSET t, NEW x \in t \ s, s \in P PROVE s \cup {x} \in P
    <3>1. SumOver(f, s \cup {x}) = f[x] + SumOver(f, s)
      BY <1>1, SumWith
    <3> QED
      BY <1>1, <1>2, <2>2, <3>1
  <2> HIDE DEF P
  <2>3. t \in P
    BY <1>1, <2>1, <2>2, InductionOverSets
  <2> QED
    BY <2>3 DEF P
<1>3. ASSUME S # {}, \A x \in S : f[x] > 0 PROVE SumOver(f, S) > 0
  <2>1. PICK y \in S : TRUE
    BY <1>3
  <2>2. SumOver(f, S) = f[y] + SumOver(f, S \ {y})
    BY SumSplit
  <2>3. SumOver(f, S \ {y}) >= 0 /\ SumOver(f, S \ {y}) \in Int
    BY <1>1, <1>2, <1>3
  <2> QED
    BY <1>3, <2>2, <2>3
<1> QED
  BY <1>1, <1>2, <1>3

\* Sums of the same numbers are the same; smaller numbers have a smaller sum.
LEMMA SumOrder ==
    ASSUME NEW S, IsFiniteSet(S), NEW f, NEW g, \A x \in S : f[x] \in Int /\ g[x] \in Int,
           \A x \in S : f[x] <= g[x]
    PROVE  /\ SumOver(f, S) <= SumOver(g, S)
           /\ SumOver(f, S) = SumOver(g, S) => \A x \in S : f[x] = g[x]
<1>1. \A s \in SUBSET S : /\ IsFiniteSet(s) /\ SumOver(f, s) \in Int /\ SumOver(g, s) \in Int
  <2>1. \A s \in SUBSET S : IsFiniteSet(s)
    BY FS_Subset
  <2>2. \A s \in SUBSET S : SumOver(f, s) \in Int
    BY <2>1, SumType
  <2>3. \A s \in SUBSET S : SumOver(g, s) \in Int
    BY <2>1, SumType
  <2> QED
    BY <2>1, <2>2, <2>3
<1>2. ASSUME NEW t \in SUBSET S PROVE SumOver(f, t) <= SumOver(g, t)
  <2> DEFINE P == {s \in SUBSET S : SumOver(f, s) <= SumOver(g, s)}
  <2>1. {} \in P
    BY SumEmpty
  <2>2. ASSUME NEW s \in SUBSET t, NEW x \in t \ s, s \in P PROVE s \cup {x} \in P
    <3>1. SumOver(f, s \cup {x}) = f[x] + SumOver(f, s)
      BY <1>1, SumWith
    <3>2. SumOver(g, s \cup {x}) = g[x] + SumOver(g, s)
      BY <1>1, SumWith
    <3>3. f[x] <= g[x] /\ f[x] \in Int /\ g[x] \in Int
      OBVIOUS
    <3> QED
      BY <1>1, <2>2, <3>1, <3>2, <3>3
  <2> HIDE DEF P
  <2>3. t \in P
    BY <1>1, <2>1, <2>2, InductionOverSets
  <2> QED
    BY <2>3 DEF P
<1>3. ASSUME SumOver(f, S) = SumOver(g, S), NEW x \in S PROVE f[x] = g[x]
  <2>1. SumOver(f, S) = f[x] + SumOver(f, S \ {x})
    BY SumSplit
  <2>2. SumOver(g, S) = g[x] + SumOver(g, S \ {x})
    BY SumSplit
  <2>3. SumOver(f, S \ {x}) <= SumOver(g, S \ {x})
    BY <1>2
  <2>4. f[x] <= g[x] /\ f[x] \in Int /\ g[x] \in Int
    OBVIOUS
  <2>5. SumOver(f, S \ {x}) \in Int /\ SumOver(g, S \ {x}) \in Int
    BY <1>1
  <2>6. \A a, b, p, q \in Int : p + a = q + b /\ p <= q /\ a <= b => p = q
    OBVIOUS
  <2>7. f[x] + SumOver(f, S \ {x}) = g[x] + SumOver(g, S \ {x})
    BY ONLY <1>3, <2>1, <2>2
  <2> QED
    BY ONLY <2>3, <2>4, <2>5, <2>6, <2>7
<1> QED
  BY <1>2, <1>3

\* Functions that agree on a set have the same sum over it.
LEMMA SumSame ==
    ASSUME NEW S, IsFiniteSet(S), NEW f, NEW g, \A x \in S : f[x] \in Int /\ f[x] = g[x]
    PROVE  SumOver(f, S) = SumOver(g, S)
<1>1. SumOver(f, S) <= SumOver(g, S)
  BY SumOrder
<1>2. SumOver(g, S) <= SumOver(f, S)
  BY SumOrder
<1>3. SumOver(f, S) \in Int /\ SumOver(g, S) \in Int
  BY SumType
<1> QED
  BY <1>1, <1>2, <1>3

\* One summand changes.
LEMMA SumChanged ==
    ASSUME NEW S, IsFiniteSet(S), NEW f, NEW g, \A x \in S : f[x] \in Int /\ g[x] \in Int,
           NEW y \in S, \A x \in S \ {y} : f[x] = g[x]
    PROVE  SumOver(g, S) = SumOver(f, S) + (g[y] - f[y])
<1>1. SumOver(f, S) = f[y] + SumOver(f, S \ {y}) /\ SumOver(f, S \ {y}) \in Int
  BY SumSplit
<1>2. SumOver(g, S) = g[y] + SumOver(g, S \ {y})
  BY SumSplit
<1>3. SumOver(f, S \ {y}) = SumOver(g, S \ {y})
  <2>1. IsFiniteSet(S \ {y})
    BY FS_Subset
  <2> QED
    BY <2>1, SumSame
<1>4. f[y] \in Int /\ g[y] \in Int
  OBVIOUS
<1> QED
  BY ONLY <1>1, <1>2, <1>3, <1>4

\* Numbers added, one by one or as sums.
LEMMA SumPlus ==
    ASSUME NEW S, IsFiniteSet(S), NEW f, NEW g, NEW h,
           \A x \in S : f[x] \in Int /\ g[x] \in Int /\ h[x] = f[x] + g[x]
    PROVE  SumOver(h, S) = SumOver(f, S) + SumOver(g, S)
<1> DEFINE P == {s \in SUBSET S : SumOver(h, s) = SumOver(f, s) + SumOver(g, s)}
<1>1. {} \in P
  BY SumEmpty
<1>2. ASSUME NEW s \in SUBSET S, NEW x \in S \ s, s \in P PROVE s \cup {x} \in P
  <2>1. IsFiniteSet(s)
    BY FS_Subset
  <2>2. SumOver(f, s \cup {x}) = f[x] + SumOver(f, s) /\ SumOver(f, s) \in Int
    BY <2>1, SumWith
  <2>3. SumOver(g, s \cup {x}) = g[x] + SumOver(g, s) /\ SumOver(g, s) \in Int
    BY <2>1, SumWith
  <2>4. SumOver(h, s \cup {x}) = h[x] + SumOver(h, s)
    <3>1. \A z \in s \cup {x} : h[z] \in Int
      OBVIOUS
    <3> QED
      BY <2>1, <3>1, SumWith
  <2>5. f[x] \in Int /\ g[x] \in Int /\ h[x] = f[x] + g[x]
    OBVIOUS
  <2>6. SumOver(h, s) = SumOver(f, s) + SumOver(g, s)
    BY <1>2
  <2>7. SumOver(h, s \cup {x}) = SumOver(f, s \cup {x}) + SumOver(g, s \cup {x})
    BY ONLY <2>2, <2>3, <2>4, <2>5, <2>6
  <2> QED
    BY <2>7
<1> HIDE DEF P
<1>3. S \in P
  BY <1>1, <1>2, InductionOverSets
<1> QED
  BY <1>3 DEF P

\* Numbers multiplied, one by one or as a sum.
LEMMA SumTimes ==
    ASSUME NEW S, IsFiniteSet(S), NEW c \in Int, NEW f, NEW h,
           \A x \in S : f[x] \in Int /\ h[x] = c * f[x]
    PROVE  SumOver(h, S) = c * SumOver(f, S)
<1> DEFINE P == {s \in SUBSET S : SumOver(h, s) = c * SumOver(f, s)}
<1>0. \A a, b \in Int : c * (a + b) = c * a + c * b /\ c * a \in Int
  OBVIOUS
<1>1. {} \in P
  BY SumEmpty
<1>2. ASSUME NEW s \in SUBSET S, NEW x \in S \ s, s \in P PROVE s \cup {x} \in P
  <2>1. IsFiniteSet(s)
    BY FS_Subset
  <2>2. SumOver(f, s \cup {x}) = f[x] + SumOver(f, s) /\ SumOver(f, s) \in Int
    BY <2>1, SumWith
  <2>3. SumOver(h, s \cup {x}) = h[x] + SumOver(h, s)
    <3>1. \A z \in s \cup {x} : h[z] \in Int
      BY <1>0
    <3> QED
      BY <2>1, <3>1, SumWith
  <2>4. c * (f[x] + SumOver(f, s)) = c * f[x] + c * SumOver(f, s)
    BY <1>0, <2>2
  <2>5. SumOver(h, s) = c * SumOver(f, s)
    BY <1>2
  <2>6. SumOver(h, s \cup {x}) = c * SumOver(f, s \cup {x})
    BY <2>2, <2>3, <2>4, <2>5
  <2> QED
    BY <2>6
<1> HIDE DEF P
<1>3. S \in P
  BY <1>1, <1>2, InductionOverSets
<1> QED
  BY <1>3 DEF P

\* The elements of a part, counted.
LEMMA SumCounts ==
    ASSUME NEW S, IsFiniteSet(S), NEW T \in SUBSET S, NEW h,
           \A x \in S : h[x] = IF x \in T THEN 1 ELSE 0
    PROVE  SumOver(h, S) = Cardinality(T)
<1> DEFINE P == {s \in SUBSET S : SumOver(h, s) = Cardinality(s \cap T)}
<1>1. {} \in P
  <2>1. {} \cap T = {} /\ Cardinality({}) = 0
    BY FS_EmptySet
  <2> QED
    BY <2>1, SumEmpty
<1>2. ASSUME NEW s \in SUBSET S, NEW x \in S \ s, s \in P PROVE s \cup {x} \in P
  <2>1. IsFiniteSet(s) /\ IsFiniteSet(s \cap T) /\ Cardinality(s \cap T) \in Nat
    BY FS_Subset, FS_CardinalityType, s \cap T \in SUBSET S
  <2>2. SumOver(h, s \cup {x}) = h[x] + SumOver(h, s)
    <3>1. \A z \in s \cup {x} : h[z] \in Int
      OBVIOUS
    <3> QED
      BY <2>1, <3>1, SumWith
  <2>3. Cardinality((s \cup {x}) \cap T) = h[x] + Cardinality(s \cap T)
    <3>1. CASE x \in T
      <4>1. (s \cup {x}) \cap T = (s \cap T) \cup {x} /\ x \notin s \cap T
        BY <3>1
      <4>2. Cardinality((s \cap T) \cup {x}) = Cardinality(s \cap T) + 1
        BY <2>1, <4>1, FS_AddElement
      <4>3. h[x] = 1
        BY <3>1
      <4>4. Cardinality((s \cup {x}) \cap T) = Cardinality((s \cap T) \cup {x})
        BY ONLY <4>1
      <4>5. 1 + Cardinality(s \cap T) = Cardinality(s \cap T) + 1
        BY <2>1
      <4> QED
        BY ONLY <4>2, <4>3, <4>4, <4>5
    <3>2. CASE x \notin T
      <4>1. (s \cup {x}) \cap T = s \cap T
        BY <3>2
      <4>2. h[x] = 0
        BY <3>2
      <4>3. Cardinality((s \cup {x}) \cap T) = Cardinality(s \cap T)
        BY ONLY <4>1
      <4>4. 0 + Cardinality(s \cap T) = Cardinality(s \cap T)
        BY <2>1
      <4> QED
        BY ONLY <4>2, <4>3, <4>4
    <3> QED
      BY <3>1, <3>2
  <2> QED
    BY <1>2, <2>2, <2>3
<1> HIDE DEF P
<1>3. S \in P
  BY <1>1, <1>2, InductionOverSets
<1> QED
  BY <1>3, S \cap T = T DEF P

\* What is summed over a part may be summed over the whole, with naught elsewhere.
LEMMA SumWithin ==
    ASSUME NEW S, IsFiniteSet(S), NEW T \in SUBSET S, NEW f, \A x \in T : f[x] \in Int,
           NEW h, \A x \in S : h[x] = IF x \in T THEN f[x] ELSE 0
    PROVE  SumOver(h, S) = SumOver(f, T) /\ IsFiniteSet(T)
<1> DEFINE P == {s \in SUBSET S : SumOver(h, s) = SumOver(f, s \cap T)}
<1>1. {} \in P
  <2>1. {} \cap T = {}
    OBVIOUS
  <2> QED
    BY <2>1, SumEmpty
<1>2. ASSUME NEW s \in SUBSET S, NEW x \in S \ s, s \in P PROVE s \cup {x} \in P
  <2>1. IsFiniteSet(s) /\ IsFiniteSet(s \cap T)
    BY FS_Subset, s \cap T \in SUBSET S
  <2>2. SumOver(h, s \cup {x}) = h[x] + SumOver(h, s) /\ SumOver(h, s) \in Int
    <3>1. \A z \in s \cup {x} : h[z] \in Int
      OBVIOUS
    <3> QED
      BY <2>1, <3>1, SumWith
  <2>3. SumOver(f, (s \cup {x}) \cap T) = h[x] + SumOver(f, s \cap T)
    <3>1. CASE x \in T
      <4> DEFINE part == s \cap T
      <4>1. (s \cup {x}) \cap T = part \cup {x} /\ x \notin part /\ part \in SUBSET T
        BY <3>1
      <4>2. IsFiniteSet(part)
        BY <2>1
      <4> HIDE DEF part
      <4>3. \A z \in part \cup {x} : f[z] \in Int
        BY <3>1, <4>1
      <4>4. SumOver(f, part \cup {x}) = f[x] + SumOver(f, part)
        BY <4>1, <4>2, <4>3, SumWith
      <4>5. h[x] = f[x]
        BY <3>1
      <4>6. SumOver(f, (s \cup {x}) \cap T) = SumOver(f, part \cup {x})
        BY ONLY <4>1
      <4> QED
        BY ONLY <4>4, <4>5, <4>6 DEF part
    <3>2. CASE x \notin T
      <4>1. (s \cup {x}) \cap T = s \cap T
        BY <3>2
      <4>2. h[x] = 0
        BY <3>2
      <4>3. SumOver(f, (s \cup {x}) \cap T) = SumOver(f, s \cap T)
        BY ONLY <4>1
      <4>4. SumOver(f, s \cap T) \in Int
        BY <1>2, <2>2
      <4> QED
        BY ONLY <4>2, <4>3, <4>4
    <3> QED
      BY <3>1, <3>2
  <2> QED
    BY <1>2, <2>2, <2>3
<1> HIDE DEF P
<1>3. S \in P
  BY <1>1, <1>2, InductionOverSets
<1>4. S \cap T = T
  OBVIOUS
<1> QED
  BY <1>3, <1>4, FS_Subset DEF P

\* A sum of naughts is naught, and naturals that add up to naught are naught.
LEMMA SumZero ==
    ASSUME NEW S, IsFiniteSet(S), NEW f, \A x \in S : f[x] \in Int
    PROVE  /\ (\A x \in S : f[x] = 0) => SumOver(f, S) = 0
           /\ (\A x \in S : f[x] >= 0) /\ SumOver(f, S) = 0 => \A x \in S : f[x] = 0
<1> DEFINE z == [x \in S |-> 0]
<1>1. \A x \in S : z[x] = IF x \in {} THEN 1 ELSE 0
  OBVIOUS
<1>2. \A x \in S : z[x] = 0 /\ z[x] \in Int
  OBVIOUS
<1> HIDE DEF z
<1>3. SumOver(z, S) = 0
  <2>1. {} \in SUBSET S
    OBVIOUS
  <2>2. SumOver(z, S) = Cardinality({})
    BY <1>1, <2>1, SumCounts
  <2> QED
    BY <2>2, FS_EmptySet
<1>4. ASSUME \A x \in S : f[x] = 0 PROVE SumOver(f, S) = 0
  <2>1. \A x \in S : f[x] \in Int /\ f[x] = z[x]
    BY <1>2, <1>4
  <2>2. SumOver(f, S) = SumOver(z, S)
    BY <2>1, SumSame
  <2> QED
    BY <1>3, <2>2
<1>5. ASSUME \A x \in S : f[x] >= 0, SumOver(f, S) = 0 PROVE \A x \in S : f[x] = 0
  <2>1. \A x \in S : z[x] \in Int /\ f[x] \in Int /\ z[x] <= f[x]
    BY <1>2, <1>5
  <2>2. SumOver(z, S) = SumOver(f, S)
    BY <1>3, <1>5
  <2>3. \A x \in S : z[x] = f[x]
    BY <2>1, <2>2, SumOrder
  <2> QED
    BY <1>2, <2>3
<1> QED
  BY <1>4, <1>5

\* A sum does not depend on the names of its summands.
LEMMA SumRenamed ==
    ASSUME NEW S, IsFiniteSet(S), NEW T, NEW f, \A y \in T : f[y] \in Int,
           NEW name, \A x \in S : name[x] \in T, \A x, y \in S : name[x] = name[y] => x = y,
           \A y \in T : \E x \in S : name[x] = y,
           NEW g, \A x \in S : g[x] = f[name[x]]
    PROVE  IsFiniteSet(T) /\ SumOver(g, S) = SumOver(f, T)
<1> DEFINE image(s) == {name[x] : x \in s}
           P == {s \in SUBSET S : IsFiniteSet(image(s)) /\ SumOver(g, s) = SumOver(f, image(s))}
<1>1. {} \in P
  <2>1. image({}) = {}
    OBVIOUS
  <2>2. IsFiniteSet({})
    BY FS_EmptySet
  <2>3. SumOver(g, {}) = 0 /\ SumOver(f, {}) = 0
    BY SumEmpty
  <2> QED
    BY <2>1, <2>2, <2>3
<1>2. ASSUME NEW s \in SUBSET S, NEW x \in S \ s, s \in P PROVE s \cup {x} \in P
  <2>1. image(s \cup {x}) = image(s) \cup {name[x]}
    OBVIOUS
  <2>2. name[x] \notin image(s)
    OBVIOUS
  <2>3. \A y \in image(s) \cup {name[x]} : f[y] \in Int
    OBVIOUS
  <2>4. \A y \in s \cup {x} : g[y] \in Int
    OBVIOUS
  <2>5. IsFiniteSet(s) /\ IsFiniteSet(image(s)) /\ SumOver(g, s) = SumOver(f, image(s))
    BY <1>2, FS_Subset
  <2>6. g[x] = f[name[x]]
    OBVIOUS
  <2> DEFINE I == image(s)
             y == name[x]
  <2>7. y \notin I /\ IsFiniteSet(I) /\ \A j \in I \cup {y} : f[j] \in Int
    BY <2>2, <2>3, <2>5
  <2> HIDE DEF I, y
  <2>8. SumOver(f, I \cup {y}) = f[y] + SumOver(f, I)
    BY <2>7, SumWith
  <2>9. x \notin s
    OBVIOUS
  <2>10. SumOver(g, s \cup {x}) = g[x] + SumOver(g, s)
    BY ONLY <2>4, <2>5, <2>9, SumWith
  <2>11. IsFiniteSet(I \cup {y})
    BY <2>7, FS_AddElement
  <2>12. SumOver(g, s \cup {x}) = SumOver(f, I \cup {y})
    BY <2>5, <2>6, <2>8, <2>10 DEF I, y
  <2> QED
    BY <2>1, <2>11, <2>12 DEF I, y
<1>3. image(S) = T
  OBVIOUS
<1> HIDE DEF P
<1>4. S \in P
  <2>1. \A s \in SUBSET S : \A x \in S \ s : s \in P => s \cup {x} \in P
    BY <1>2
  <2> QED
    BY <1>1, <2>1, InductionOverSets
<1> QED
  BY <1>3, <1>4 DEF P

\* A sum over two sets without a common element.
LEMMA SumJoined ==
    ASSUME NEW A, IsFiniteSet(A), NEW B, IsFiniteSet(B), \A x \in A : x \notin B,
           NEW f, \A x \in A \cup B : f[x] \in Int
    PROVE  /\ IsFiniteSet(A \cup B) /\ SumOver(f, A) \in Int /\ SumOver(f, B) \in Int
           /\ SumOver(f, A \cup B) = SumOver(f, A) + SumOver(f, B)
<1> DEFINE S == A \cup B
           g == [x \in S |-> IF x \in A THEN f[x] ELSE 0]
           h == [x \in S |-> IF x \in B THEN f[x] ELSE 0]
<1>1. IsFiniteSet(S)
  BY FS_Union
<1>2. A \in SUBSET S /\ B \in SUBSET S /\ \A x \in S : f[x] \in Int
  OBVIOUS
<1>3. \A x \in S : g[x] = IF x \in A THEN f[x] ELSE 0
  OBVIOUS
<1>4. \A x \in S : h[x] = IF x \in B THEN f[x] ELSE 0
  OBVIOUS
<1>5. \A x \in S : g[x] \in Int /\ h[x] \in Int /\ f[x] = g[x] + h[x]
  <2> SUFFICES ASSUME NEW x \in S PROVE g[x] \in Int /\ h[x] \in Int /\ f[x] = g[x] + h[x]
    OBVIOUS
  <2> DEFINE n == f[x]
  <2>1. n \in Int
    OBVIOUS
  <2>2. \/ x \in A /\ g[x] = n /\ h[x] = 0
        \/ x \in B /\ g[x] = 0 /\ h[x] = n
    OBVIOUS
  <2> HIDE DEF g, h, n
  <2>3. g[x] \in Int /\ h[x] \in Int /\ n = g[x] + h[x]
    BY <2>1, <2>2
  <2> QED
    BY <2>3 DEF n
<1> HIDE DEF S, g, h
<1>6. SumOver(g, S) = SumOver(f, A)
  <2>1. \A x \in A : f[x] \in Int
    BY <1>2
  <2> QED
    BY <1>1, <1>2, <1>3, <2>1, SumWithin
<1>7. SumOver(h, S) = SumOver(f, B)
  <2>1. \A x \in B : f[x] \in Int
    BY <1>2
  <2> QED
    BY <1>1, <1>2, <1>4, <2>1, SumWithin
<1>8. SumOver(f, S) = SumOver(g, S) + SumOver(h, S)
  <2>1. \A x \in S : g[x] \in Int /\ h[x] \in Int /\ f[x] = g[x] + h[x]
    BY <1>5
  <2> QED
    BY <1>1, <2>1, SumPlus
<1>9. SumOver(f, A) \in Int /\ SumOver(f, B) \in Int
  BY <1>2, SumType
<1> QED
  BY <1>1, <1>6, <1>7, <1>8, <1>9 DEF S

\* A sum over sets without a common element, which are the values of F.
LEMMA SumUnion ==
    ASSUME NEW S, IsFiniteSet(S), NEW F, \A n \in S : IsFiniteSet(F[n]),
           \A n, k \in S : n # k => \A x \in F[n] : x \notin F[k],
           NEW f, \A n \in S : \A x \in F[n] : f[x] \in Int,
           NEW total, \A n \in S : total[n] = SumOver(f, F[n])
    PROVE  /\ IsFiniteSet(UNION {F[n] : n \in S})
           /\ \A n \in S : total[n] \in Int
           /\ SumOver(f, UNION {F[n] : n \in S}) = SumOver(total, S)
<1> DEFINE U(s) == UNION {F[n] : n \in s}
           P == {s \in SUBSET S : IsFiniteSet(U(s)) /\ SumOver(f, U(s)) = SumOver(total, s)}
<1>1. {} \in P
  <2>1. U({}) = {}
    OBVIOUS
  <2> HIDE DEF U
  <2>2. IsFiniteSet(U({})) /\ SumOver(f, U({})) = SumOver(total, {})
    BY <2>1, FS_EmptySet, SumEmpty
  <2> QED
    BY <2>2
<1>2. \A n \in S : total[n] \in Int
  <2> SUFFICES ASSUME NEW n \in S PROVE total[n] \in Int
    OBVIOUS
  <2> DEFINE T == F[n]
  <2>1. IsFiniteSet(T) /\ \A x \in T : f[x] \in Int
    OBVIOUS
  <2>2. total[n] = SumOver(f, T)
    OBVIOUS
  <2> HIDE DEF T
  <2> QED
    BY <2>1, <2>2, SumType
<1>3. ASSUME NEW s \in SUBSET S, NEW y \in S \ s, s \in P PROVE s \cup {y} \in P
  <2> DEFINE A == F[y]
             B == U(s)
  <2>1. IsFiniteSet(A) /\ IsFiniteSet(B) /\ SumOver(f, B) = SumOver(total, s)
    BY <1>3
  <2>2. \A x \in A : x \notin B
    OBVIOUS
  <2>3. \A x \in A \cup B : f[x] \in Int
    OBVIOUS
  <2>4. U(s \cup {y}) = A \cup B
    OBVIOUS
  <2>5. total[y] = SumOver(f, A)
    OBVIOUS
  <2> HIDE DEF A, B, U, P
  <2>6. IsFiniteSet(A \cup B) /\ SumOver(f, A \cup B) = SumOver(f, A) + SumOver(f, B)
    BY <2>1, <2>2, <2>3, SumJoined
  <2>7. SumOver(total, s \cup {y}) = total[y] + SumOver(total, s)
    <3>1. IsFiniteSet(s) /\ y \notin s /\ \A n \in s \cup {y} : total[n] \in Int
      BY <1>2, FS_Subset
    <3> QED
      BY <3>1, SumWith
  <2>8. s \cup {y} \in SUBSET S
    OBVIOUS
  <2>9. IsFiniteSet(U(s \cup {y})) /\ SumOver(f, U(s \cup {y})) = SumOver(total, s \cup {y})
    BY <2>1, <2>4, <2>5, <2>6, <2>7
  <2> QED
    BY <2>8, <2>9 DEF P
<1>4. S \in P
  <2>1. \A s \in SUBSET S : \A x \in S \ s : s \in P => s \cup {x} \in P
    BY <1>3
  <2> HIDE DEF P
  <2> QED
    BY <1>1, <2>1, InductionOverSets
<1> QED
  BY <1>2, <1>4

\* The least number of a finite set is one of it.
LEMMA MinMember ==
    ASSUME NEW S \in SUBSET Int, IsFiniteSet(S), S # {}
    PROVE  Min(S) \in S /\ \A x \in S : Min(S) <= x
<1> DEFINE R == {p \in S \X S : p[1] < p[2]}
<1>1. Orders(R, S)
  BY DEF Orders
<1>2. PICK x \in S : \A y \in S : y # x => <<x, y>> \in R
  <2> HIDE DEF R
  <2> QED
    BY <1>1, LeastExists
<1>3. ASSUME NEW y \in S PROVE x <= y
  <2>1. y # x => <<x, y>> \in R
    BY <1>2
  <2> QED
    BY <2>1
<1> QED
  BY <1>3 DEF Min

\* The beginning of a sequence.
LEMMA FirstOf ==
    ASSUME NEW S, NEW s \in Seq(S), NEW l \in Nat, l <= Len(s)
    PROVE  LET first == SubSeq(s, 1, l)
           IN  /\ first \in Seq(S) /\ Len(first) = l /\ DOMAIN first = 1 .. l
               /\ \A k \in 1 .. l : first[k] = s[k] /\ s[k] \in S
<1>1. \A k \in 1 .. l : s[k] \in S
  OBVIOUS
<1>2. SubSeq(s, 1, l) = [k \in 1 .. l |-> s[k]]
  OBVIOUS
<1>3. ASSUME NEW f, f = [k \in 1 .. l |-> s[k]]
      PROVE  f \in Seq(S) /\ Len(f) = l /\ DOMAIN f = 1 .. l /\ \A k \in 1 .. l : f[k] = s[k]
  BY <1>1, <1>3
<1> QED
  BY <1>1, <1>2, <1>3

\* The smaller of two numbers.
Lesser(a, b) == Min({a, b})

\* It is one of the two, and no more than either.
LEMMA LesserFacts ==
    ASSUME NEW a \in Int, NEW b \in Int
    PROVE  Lesser(a, b) \in {a, b} /\ Lesser(a, b) <= a /\ Lesser(a, b) <= b
<1> DEFINE both == {a, b}
<1>1. both \in SUBSET Int /\ both # {}
  OBVIOUS
<1>2. IsFiniteSet(both)
  <2>1. both = {a} \cup {b}
    OBVIOUS
  <2>2. IsFiniteSet({a} \cup {b})
    BY FS_Singleton, FS_AddElement
  <2> QED
    BY <2>1, <2>2
<1> HIDE DEF both
<1>3. Min(both) \in both /\ \A x \in both : Min(both) <= x
  BY <1>1, <1>2, MinMember
<1>4. Lesser(a, b) = Min(both)
  BY DEF both, Lesser
<1> QED
  BY <1>3, <1>4 DEF both

\* The elements of S that fewer than max come before, each once.
Leads(first, S, R, max) ==
    /\ first \in Seq(S) /\ Len(first) \in Nat /\ Len(first) <= max
    /\ DOMAIN first = 1 .. Len(first)
    /\ Range(first) = {x \in S : Cardinality(Below(x, R, S)) < max}
    /\ \A i, k \in DOMAIN first : first[i] = first[k] => i = k

\* The first l of an ordered sequence, of no more than max.
LEMMA Foremost ==
    ASSUME NEW S, IsFiniteSet(S), NEW R, Orders(R, S), NEW s,
           s \in Seq(S), Len(s) = Cardinality(S), Range(s) = S,
           \A k \in 1 .. Cardinality(S) : Cardinality(Below(s[k], R, S)) = k - 1,
           NEW max \in Nat, NEW l, l = Lesser(Len(s), max)
    PROVE  Leads(SubSeq(s, 1, l), S, R, max)
<1> DEFINE n == Cardinality(S)
           first == SubSeq(s, 1, l)
<1>0. n \in Nat
  BY FS_CardinalityType
<1>1. s \in Seq(S) /\ Len(s) = n /\ DOMAIN s = 1 .. n
  OBVIOUS
<1>2. l \in Nat /\ l <= n /\ l <= max /\ (l = n \/ l = max)
  BY <1>0, <1>1, LesserFacts
<1> HIDE DEF n
<1>3. first \in Seq(S) /\ Len(first) = l /\ DOMAIN first = 1 .. l /\ \A k \in 1 .. l : first[k] = s[k]
  <2> QED
    BY <1>0, <1>1, <1>2, FirstOf
<1> HIDE DEF first
<1>4. ASSUME NEW k \in 1 .. l PROVE k \in 1 .. n /\ s[k] \in S /\ Cardinality(Below(s[k], R, S)) = k - 1
  <2>1. k \in 1 .. n
    BY <1>0, <1>2
  <2> QED
    BY <2>1 DEF n
<1>5. ASSUME NEW x \in S
      PROVE  Cardinality(Below(x, R, S)) < max <=> \E k \in 1 .. l : first[k] = x
  <2>1. PICK k \in 1 .. n : s[k] = x
    <3>1. Range(s) = S
      OBVIOUS
    <3>2. \A y \in Range(s) : \E k \in DOMAIN s : s[k] = y
      BY DEF Range
    <3> QED
      BY <1>1, <3>1, <3>2
  <2>2. Cardinality(Below(x, R, S)) = k - 1
    BY <2>1 DEF n
  <2>3. ASSUME k - 1 < max PROVE \E j \in 1 .. l : first[j] = x
    <3>1. k \in 1 .. l
      BY <1>0, <1>2, <2>3
    <3> QED
      BY <1>3, <2>1, <3>1
  <2>4. ASSUME NEW j \in 1 .. l, first[j] = x PROVE k - 1 < max
    <3>1. Cardinality(Below(x, R, S)) = j - 1
      BY <1>3, <1>4, <2>4
    <3> QED
      BY <1>0, <1>2, <2>2, <3>1
  <2> QED
    BY <2>2, <2>3, <2>4
<1>6. Range(first) = {x \in S : Cardinality(Below(x, R, S)) < max}
  <2>1. Range(first) = {first[k] : k \in 1 .. l}
    BY <1>3 DEF Range
  <2>2. \A k \in 1 .. l : first[k] \in S
    BY <1>3, <1>4
  <2> QED
    BY <1>5, <2>1, <2>2
<1>7. ASSUME NEW i \in 1 .. l, NEW k \in 1 .. l, first[i] = first[k] PROVE i = k
  <2>1. i - 1 = k - 1
    <3>1. s[i] = s[k]
      BY <1>3, <1>7
    <3>2. Cardinality(Below(s[i], R, S)) = i - 1 /\ Cardinality(Below(s[k], R, S)) = k - 1
      BY <1>4
    <3> QED
      BY <3>1, <3>2
  <2> QED
    BY <2>1
<1> QED
  BY <1>2, <1>3, <1>6, <1>7 DEF first, Leads

-------------------------------------------------------------------------------
\* The places of a sequence.
LEMMA SeqDomain ==
    ASSUME NEW T, NEW s \in Seq(T)
    PROVE  /\ Len(s) \in Nat /\ DOMAIN s = 1 .. Len(s) /\ IsFiniteSet(DOMAIN s)
           /\ \A i \in 1 .. Len(s) : s[i] \in T
<1>1. Len(s) \in Nat /\ DOMAIN s = 1 .. Len(s) /\ \A i \in 1 .. Len(s) : s[i] \in T
  OBVIOUS
<1> QED
  BY <1>1, FS_Interval

\* Tuples put together.
LEMMA JoinedTuples ==
    ASSUME NEW a, NEW b, NEW c, NEW d
    PROVE  /\ <<>> \o <<a>> = <<a>> /\ <<a>> \o <<b>> = <<a, b>>
           /\ <<a, b>> \o <<c>> = <<a, b, c>> /\ <<a, b, c>> \o <<d>> = <<a, b, c, d>>
           /\ <<a, b>> \o <<>> = <<a, b>> /\ <<a, b, c>> \o <<>> = <<a, b, c>>
<1> DEFINE S == {a, b, c, d}
           two == <<a>> \o <<b>>
           three == <<a, b>> \o <<c>>
           four == <<a, b, c>> \o <<d>>
<1>1. <<>> \o <<a>> = <<a>>
  OBVIOUS
<1>2. two \in Seq(S) /\ Len(two) = 2 /\ two[1] = a /\ two[2] = b
  OBVIOUS
<1>3. three \in Seq(S) /\ Len(three) = 3 /\ three[1] = a /\ three[2] = b /\ three[3] = c
  OBVIOUS
<1>4. /\ four \in Seq(S) /\ Len(four) = 4
      /\ four[1] = a /\ four[2] = b /\ four[3] = c /\ four[4] = d
  OBVIOUS
<1>5. \A s \in Seq(S) : Len(s) = 2 => s = <<s[1], s[2]>>
  OBVIOUS
<1>6. \A s \in Seq(S) : Len(s) = 3 => s = <<s[1], s[2], s[3]>>
  OBVIOUS
<1>7. \A s \in Seq(S) : Len(s) = 4 => s = <<s[1], s[2], s[3], s[4]>>
  OBVIOUS
<1>11. <<a, b>> \o <<>> = <<a, b>> /\ <<a, b, c>> \o <<>> = <<a, b, c>>
  <2>1. <<a, b>> \in Seq(S) /\ <<a, b, c>> \in Seq(S)
    OBVIOUS
  <2>2. \A s \in Seq(S) : s \o <<>> = s
    OBVIOUS
  <2> HIDE DEF S
  <2> QED
    BY <2>1, <2>2
<1> HIDE DEF S, two, three, four
<1>8. two = <<a, b>>
  BY <1>2, <1>5
<1>9. three = <<a, b, c>>
  BY <1>3, <1>6
<1>10. four = <<a, b, c, d>>
  BY <1>4, <1>7
<1> QED
  BY <1>1, <1>8, <1>9, <1>10, <1>11 DEF two, three, four

\* g[i] is what the first i of seqs come to, one after another.
Joins(g, seqs) ==
    /\ g[0] = <<>>
    /\ \A i \in 1 .. Len(seqs) : g[i] = g[i - 1] \o seqs[i]

\* FlattenSeq is the last of the partial results.
LEMMA FlattenRecursion ==
    ASSUME NEW T, NEW seqs \in Seq(Seq(T))
    PROVE  \E g \in [0 .. Len(seqs) -> Seq(T)] :
               Joins(g, seqs) /\ FlattenSeq(seqs) = g[Len(seqs)]
<1> DEFINE n == Len(seqs)
           step == [p \in Seq(T) \X (1 .. n) |-> p[1] \o seqs[p[2]]]
           Solves(f) == f = [i \in 1 .. n |-> IF i = 1 THEN seqs[i] ELSE f[i - 1] \o seqs[i]]
           flatten == CHOOSE f : Solves(f)
<1>1. n \in Nat /\ \A i \in 1 .. n : seqs[i] \in Seq(T)
  OBVIOUS
<1>2. step \in [Seq(T) \X (1 .. n) -> Seq(T)]
  BY <1>1
<1>3. PICK g \in [0 .. n -> Seq(T)] : RangeRecursion(g, n, <<>>, step)
  <2> HIDE DEF n, step
  <2>1. <<>> \in Seq(T)
    OBVIOUS
  <2> QED
    BY <1>1, <1>2, <2>1, RangeRecursionExists
<1>4. ASSUME NEW i \in 1 .. n PROVE g[i] = g[i - 1] \o seqs[i]
  <2>1. g[i - 1] \in Seq(T)
    <3> HIDE DEF n
    <3>1. i - 1 \in 0 .. n
      BY <1>1
    <3> QED
      BY <3>1
  <2>2. g[i] = step[<<g[i - 1], i>>]
    BY <1>3 DEF RangeRecursion
  <2> QED
    BY <2>1, <2>2
<1> HIDE DEF step
<1>5. Joins(g, seqs)
  BY <1>3, <1>4 DEF Joins, RangeRecursion
<1>6. CASE n = 0
  BY <1>5, <1>6 DEF FlattenSeq, Joins
<1>7. CASE n # 0
  <2> DEFINE f == [i \in 1 .. n |-> g[i]]
  <2>1. ASSUME NEW i \in 1 .. n
        PROVE  f[i] = IF i = 1 THEN seqs[i] ELSE f[i - 1] \o seqs[i]
    <3>1. f[i] = g[i - 1] \o seqs[i]
      BY <1>4
    <3>2. CASE i = 1
      <4>1. f[i] = <<>> \o seqs[1] /\ seqs[1] \in Seq(T)
        <5>1. g[i - 1] = <<>>
          BY ONLY <1>5, <3>2 DEF Joins
        <5> QED
          BY <1>1, <3>1, <3>2, <5>1
      <4> QED
        BY ONLY <4>1, <3>2, <<>> \o seqs[1] = seqs[1]
    <3>3. CASE i # 1
      BY <3>1, <3>3, i - 1 \in 1 .. n
    <3> QED
      BY <3>2, <3>3
  <2>2. Solves(f)
    BY <2>1
  <2>3. Solves(flatten)
    BY ONLY <2>2 DEF flatten
  <2>4. \A i \in 0 .. n : i # 0 => flatten[i] = g[i]
    <3> HIDE DEF flatten, f, n
    <3> DEFINE Same == {i \in Nat : i \in 1 .. n => flatten[i] = g[i]}
    <3>1. 0 \in Same
      OBVIOUS
    <3>2. ASSUME NEW i \in Same PROVE i + 1 \in Same
      <4> SUFFICES ASSUME i + 1 \in 1 .. n PROVE flatten[i + 1] = g[i + 1]
        OBVIOUS
      <4>0. i \in Nat /\ (i + 1) - 1 = i
        OBVIOUS
      <4>1. g[i + 1] = g[i] \o seqs[i + 1] /\ seqs[i + 1] \in Seq(T)
        <5>1. g[i + 1] = g[(i + 1) - 1] \o seqs[i + 1]
          BY ONLY <1>4, i + 1 \in 1 .. n
        <5> QED
          BY ONLY <1>1, <4>0, <5>1, i + 1 \in 1 .. n
      <4>2. flatten[i + 1] = IF i + 1 = 1 THEN seqs[i + 1] ELSE flatten[i] \o seqs[i + 1]
        <5>1. flatten[i + 1] =
                IF i + 1 = 1 THEN seqs[i + 1] ELSE flatten[(i + 1) - 1] \o seqs[i + 1]
          BY ONLY <2>3, i + 1 \in 1 .. n
        <5> QED
          BY ONLY <4>0, <5>1
      <4>3. CASE i = 0
        <5>1. g[i] = <<>>
          BY ONLY <1>5, <4>3 DEF Joins
        <5>2. g[i + 1] = <<>> \o seqs[1]
          BY ONLY <4>1, <4>3, <5>1
        <5>3. seqs[1] \in Seq(T)
          BY ONLY <4>1, <4>3
        <5>4. <<>> \o seqs[1] = seqs[1]
          BY ONLY <5>3
        <5> QED
          BY ONLY <4>2, <4>3, <5>2, <5>4
      <4>4. CASE i # 0
        <5>1. flatten[i] = g[i] /\ i + 1 # 1
          BY <1>1, <4>4
        <5> QED
          BY ONLY <4>1, <4>2, <5>1
      <4> QED
        BY <4>3, <4>4
    <3>3. Same \in SUBSET Nat
      OBVIOUS
    <3> HIDE DEF Same
    <3>4. Same = Nat
      BY <3>1, <3>2, <3>3, InductionOverNat
    <3>5. n \in Nat
      BY ONLY <1>1
    <3>6. \A i \in 0 .. n : i # 0 => i \in Nat /\ i \in 1 .. n
      BY ONLY <3>5
    <3> QED
      BY ONLY <3>4, <3>6 DEF Same
  <2>5. FlattenSeq(seqs) = flatten[n]
    BY <1>7 DEF FlattenSeq
  <2> HIDE DEF flatten
  <2> QED
    BY <1>1, <1>5, <1>7, <2>4, <2>5
<1> QED
  BY <1>6, <1>7

\* What the result holds is what its parts hold.
LEMMA FlattenRange ==
    ASSUME NEW T, NEW seqs \in Seq(Seq(T))
    PROVE  /\ FlattenSeq(seqs) \in Seq(T)
           /\ \A i \in DOMAIN seqs : Range(seqs[i]) \subseteq Range(FlattenSeq(seqs))
           /\ \A x \in Range(FlattenSeq(seqs)) : \E i \in DOMAIN seqs : x \in Range(seqs[i])
<1> DEFINE n == Len(seqs)
<1>1. PICK g \in [0 .. n -> Seq(T)] : Joins(g, seqs) /\ FlattenSeq(seqs) = g[n]
  BY FlattenRecursion
<1>2. n \in Nat /\ DOMAIN seqs = 1 .. n /\ \A i \in 1 .. n : seqs[i] \in Seq(T)
  OBVIOUS
<1>0. n \in Nat
  OBVIOUS
<1> HIDE DEF n
<1>3. ASSUME NEW i \in 1 .. n
      PROVE  Range(g[i]) = Range(g[i - 1]) \cup Range(seqs[i])
  <2>1. g[i] = g[i - 1] \o seqs[i] /\ g[i - 1] \in Seq(T) /\ seqs[i] \in Seq(T)
    <3>1. g[i] = g[i - 1] \o seqs[i]
      BY <1>1 DEF Joins, n
    <3>2. i - 1 \in 0 .. n
      BY <1>2
    <3> QED
      BY <1>2, <3>1, <3>2
  <2>2. ASSUME NEW s \in Seq(T), NEW t \in Seq(T)
        PROVE  Range(s \o t) = Range(s) \cup Range(t)
    <3>1. ASSUME NEW j \in DOMAIN (s \o t) PROVE (s \o t)[j] \in Range(s) \cup Range(t)
      <4>1. CASE j <= Len(s)
        BY <3>1, <4>1 DEF Range
      <4>2. CASE j > Len(s)
        <5>1. j - Len(s) \in DOMAIN t /\ (s \o t)[j] = t[j - Len(s)]
          BY <3>1, <4>2
        <5> QED
          BY <5>1 DEF Range
      <4> QED
        BY <3>1, <4>1, <4>2
    <3>2. ASSUME NEW j \in DOMAIN s PROVE s[j] \in Range(s \o t)
      <4>1. j \in DOMAIN (s \o t) /\ (s \o t)[j] = s[j]
        OBVIOUS
      <4> QED
        BY <4>1 DEF Range
    <3>3. ASSUME NEW j \in DOMAIN t PROVE t[j] \in Range(s \o t)
      <4>1. Len(s) + j \in DOMAIN (s \o t) /\ (s \o t)[Len(s) + j] = t[j]
        OBVIOUS
      <4> QED
        BY <4>1 DEF Range
    <3> QED
      BY <3>1, <3>2, <3>3 DEF Range
  <2> HIDE DEF Joins
  <2> QED
    BY <2>1, <2>2
<1> DEFINE Parts(k) == UNION {Range(seqs[i]) : i \in 1 .. k}
           Exact == {k \in Nat : k <= n => Range(g[k]) = Parts(k)}
<1>4. 0 \in Exact
  <2>1. Range(g[0]) = {} /\ Parts(0) = {}
    BY <1>1, DOMAIN <<>> = {} DEF Joins, Range
  <2> QED
    BY <2>1
<1>5. ASSUME NEW k \in Exact PROVE k + 1 \in Exact
  <2> SUFFICES ASSUME k + 1 <= n PROVE Range(g[k + 1]) = Parts(k + 1)
    OBVIOUS
  <2>1. Range(g[k + 1]) = Parts(k) \cup Range(seqs[k + 1])
    <3>1. k \in Nat /\ k + 1 \in 1 .. n /\ k <= n /\ (k + 1) - 1 = k
      BY ONLY <1>0, k \in Nat, k + 1 <= n
    <3>2. Range(g[k + 1]) = Range(g[(k + 1) - 1]) \cup Range(seqs[k + 1])
      BY <1>3, <3>1
    <3>3. Range(g[k]) = Parts(k)
      BY <3>1
    <3> QED
      BY ONLY <3>1, <3>2, <3>3
  <2>2. 1 .. (k + 1) = (1 .. k) \cup {k + 1}
    OBVIOUS
  <2> QED
    BY <2>1, <2>2
<1>6. Exact \in SUBSET Nat
  OBVIOUS
<1> HIDE DEF Exact
<1>7. n \in Exact
  BY <1>2, <1>4, <1>5, <1>6, InductionOverNat
<1>8. Range(g[n]) = Parts(n)
  BY <1>2, <1>7 DEF Exact
<1> QED
  BY <1>1, <1>2, <1>8, n \in 0 .. n

\* A function on the first numbers is a sequence.
LEMMA FunctionSequence ==
    ASSUME NEW n \in Nat, NEW f, f = [k \in 1 .. n |-> f[k]]
    PROVE  f \in Seq(Range(f)) /\ Len(f) = n /\ DOMAIN f = 1 .. n
<1>1. DOMAIN f = 1 .. n
  OBVIOUS
<1>2. f \in [1 .. n -> Range(f)]
  BY <1>1 DEF Range
<1> HIDE DEF Range
<1> DEFINE T == Range(f)
<1>3. f \in [1 .. n -> T]
  BY <1>2
<1> HIDE DEF T
<1>4. f \in Seq(T) /\ Len(f) = n
  BY <1>3
<1> QED
  BY <1>1, <1>4 DEF T

\* A sequence ahead of another.
LEMMA JoinedDomain ==
    ASSUME NEW S, NEW T, NEW s \in Seq(S), NEW t \in Seq(T)
    PROVE  /\ DOMAIN (s \o t) = 1 .. (Len(s) + Len(t)) /\ Len(s) \in Nat /\ Len(t) \in Nat
           /\ DOMAIN (s \o t) \in SUBSET Int /\ IsFiniteSet(DOMAIN (s \o t))
           /\ \A k \in 1 .. Len(s) : (s \o t)[k] = s[k] /\ k \in DOMAIN s
           /\ \A k \in 1 .. Len(t) : (s \o t)[Len(s) + k] = t[k] /\ k \in DOMAIN t
<1> DEFINE U == S \cup T
<1>1. s \in Seq(U) /\ t \in Seq(U)
  OBVIOUS
<1> HIDE DEF U
<1>2. Len(s) \in Nat /\ Len(t) \in Nat /\ DOMAIN s = 1 .. Len(s) /\ DOMAIN t = 1 .. Len(t)
  BY <1>1
<1>3. s \o t \in Seq(U) /\ Len(s \o t) = Len(s) + Len(t)
  BY <1>1
<1>4. DOMAIN (s \o t) = 1 .. (Len(s) + Len(t))
  BY <1>3
<1>5. \A k \in 1 .. Len(s) : (s \o t)[k] = s[k] /\ k \in DOMAIN s
  BY <1>1, <1>2
<1>6. \A k \in 1 .. Len(t) : (s \o t)[Len(s) + k] = t[k] /\ k \in DOMAIN t
  BY <1>1, <1>2
<1> DEFINE n == Len(s) + Len(t)
<1>7. n \in Nat
  BY <1>2
<1>8. 1 .. n \in SUBSET Int /\ IsFiniteSet(1 .. n)
  <2> HIDE DEF n
  <2>1. 1 .. n \in SUBSET Int
    BY <1>7
  <2>2. IsFiniteSet(1 .. n)
    BY <1>7, FS_Interval
  <2> QED
    BY <2>1, <2>2
<1> QED
  BY <1>2, <1>4, <1>5, <1>6, <1>8

PairsOf(T) == {p \in Seq(T) : Len(p) = 2}

\* u is k pairs, and s and t are the first ones and the last.
PairedOff(u, s, t, k) ==
    /\ Len(u) = 2 * (k + 1)
    /\ \A j \in 1 .. 2 * k : u[j] = s[j]
    /\ u[2 * k + 1] = t[1] /\ u[2 * k + 2] = t[2]

\* A sequence of pairs, and one more.
LEMMA PairAfter ==
    ASSUME NEW T, NEW k \in Nat, NEW s \in Seq(T), Len(s) = 2 * k, NEW t \in PairsOf(T)
    PROVE  PairedOff(s \o t, s, t, k)
<1> DEFINE u == s \o t
<1>0. t \in Seq(T) /\ Len(t) \in Nat
  BY DEF PairsOf
<1>1. /\ \A j \in 1 .. Len(s) : u[j] = s[j]
      /\ \A j \in 1 .. Len(t) : u[Len(s) + j] = t[j]
  BY ONLY s \in Seq(T), <1>0, JoinedDomain
<1>2. Len(u) = Len(s) + Len(t)
  BY ONLY s \in Seq(T), <1>0
<1> HIDE DEF u
<1>3. Len(t) = 2 /\ 1 \in 1 .. Len(t) /\ 2 \in 1 .. Len(t)
  <2>1. Len(t) = 2
    BY DEF PairsOf
  <2>2. 1 \in 1 .. 2 /\ 2 \in 1 .. 2
    OBVIOUS
  <2> QED
    BY ONLY <2>1, <2>2
<1>4. PairedOff(u, s, t, k)
  BY <1>1, <1>2, <1>3 DEF PairedOff
<1> QED
  BY <1>4 DEF u

\* Pairs joined one after the other stay where they are counted to be.
LEMMA PairsJoined ==
    ASSUME NEW T, NEW seqs \in Seq(PairsOf(T))
    PROVE  LET joined == FlattenSeq(seqs)
           IN  /\ joined \in Seq(T) /\ Len(joined) = 2 * Len(seqs)
               /\ \A i \in DOMAIN seqs : joined[2 * i - 1] = seqs[i][1] /\ joined[2 * i] = seqs[i][2]
<1> DEFINE n == Len(seqs)
<1>1. n \in Nat /\ DOMAIN seqs = 1 .. n /\ \A i \in 1 .. n : seqs[i] \in PairsOf(T)
  BY SeqDomain
<1>2. seqs \in Seq(Seq(T))
  <2>1. PairsOf(T) \subseteq Seq(T)
    BY DEF PairsOf
  <2> QED
    BY <2>1
<1>3. PICK g \in [0 .. n -> Seq(T)] : Joins(g, seqs) /\ FlattenSeq(seqs) = g[n]
  BY <1>2, FlattenRecursion
<1> HIDE DEF n
<1> DEFINE Paired(m) == /\ Len(g[m]) = 2 * m
                        /\ \A i \in 1 .. m : g[m][2 * i - 1] = seqs[i][1] /\ g[m][2 * i] = seqs[i][2]
           paired == {m \in Nat : m <= n => Paired(m)}
<1>4. 0 \in paired
  <2>1. g[0] = <<>>
    BY <1>3 DEF Joins
  <2> QED
    BY <2>1
<1>5. ASSUME NEW k \in Nat, k + 1 <= n, Paired(k) PROVE Paired(k + 1)
  <2> DEFINE s == g[k]
             t == seqs[k + 1]
             u == g[k + 1]
  <2>1. k + 1 \in 1 .. n /\ k \in 0 .. n
    BY <1>1, <1>5
  <2>2. s \in Seq(T) /\ t \in PairsOf(T) /\ Len(s) = 2 * k
    BY <1>1, <1>3, <1>5, <2>1
  <2>3. u = s \o t
    <3>1. PICK i \in 1 .. n : i = k + 1 /\ i - 1 = k
      BY <2>1
    <3>2. g[i] = g[i - 1] \o seqs[i]
      BY ONLY <1>3, i \in 1 .. n DEF Joins, n
    <3> QED
      BY ONLY <3>1, <3>2
  <2>4. \A i \in 1 .. k : s[2 * i - 1] = seqs[i][1] /\ s[2 * i] = seqs[i][2]
    BY <1>5
  <2> HIDE DEF s, t, u, Paired
  <2>5. PairedOff(s \o t, s, t, k)
    BY ONLY k \in Nat, <2>2, PairAfter
  <2>6. PairedOff(u, s, t, k)
    BY ONLY <2>3, <2>5
  <2>7. ASSUME NEW i \in 1 .. (k + 1)
        PROVE  u[2 * i - 1] = seqs[i][1] /\ u[2 * i] = seqs[i][2]
    <3>1. CASE i = k + 1
      <4>1. 2 * i - 1 = 2 * k + 1 /\ 2 * i = 2 * k + 2
        BY <3>1
      <4>2. u[2 * k + 1] = seqs[i][1] /\ u[2 * k + 2] = seqs[i][2]
        BY <2>6, <3>1 DEF PairedOff, t
      <4> QED
        BY ONLY <4>1, <4>2
    <3>2. CASE i \in 1 .. k
      <4>1. 2 * i - 1 \in 1 .. 2 * k /\ 2 * i \in 1 .. 2 * k
        BY <3>2
      <4>2. u[2 * i - 1] = s[2 * i - 1] /\ u[2 * i] = s[2 * i]
        BY ONLY <2>6, <4>1 DEF PairedOff
      <4> QED
        BY ONLY <2>4, <3>2, <4>2
    <3>3. i = k + 1 \/ i \in 1 .. k
      OBVIOUS
    <3> QED
      BY <3>1, <3>2, <3>3
  <2>8. Len(u) = 2 * (k + 1)
    BY <2>6 DEF PairedOff
  <2> QED
    BY ONLY <2>7, <2>8 DEF Paired, u
<1>6. ASSUME NEW k \in paired PROVE k + 1 \in paired
  <2> HIDE DEF Paired
  <2>1. k + 1 <= n => k <= n
    BY <1>1
  <2> QED
    BY <1>5, <1>6, <2>1
<1>7. paired = Nat
  <2> HIDE DEF paired
  <2>1. paired \in SUBSET Nat
    BY DEF paired
  <2> QED
    BY <1>4, <1>6, <2>1, InductionOverNat
<1>8. Paired(n)
  <2> HIDE DEF Paired
  <2> QED
    BY ONLY <1>1, <1>7 DEF paired
<1>9. g[n] \in Seq(T)
  BY <1>1, <1>3
<1> QED
  BY <1>1, <1>3, <1>8, <1>9 DEF n

\* The sum of w over the elements of a sequence.
SeqSum(w, s) == SumOver([k \in DOMAIN s |-> w[s[k]]], DOMAIN s)

\* The elements of a sequence count each.
LEMMA JoinedSum ==
    ASSUME NEW T, NEW w, \A x \in T : w[x] \in Int, NEW s \in Seq(T), NEW t \in Seq(T)
    PROVE  /\ SeqSum(w, s \o t) = SeqSum(w, s) + SeqSum(w, t)
           /\ SeqSum(w, s) \in Int /\ SeqSum(w, t) \in Int
<1> DEFINE A == 1 .. Len(s)
           B == (Len(s) + 1) .. (Len(s) + Len(t))
           D == DOMAIN (s \o t)
           f == [k \in D |-> w[(s \o t)[k]]]
           fs == [k \in DOMAIN s |-> w[s[k]]]
           ft == [k \in DOMAIN t |-> w[t[k]]]
           shift == [k \in DOMAIN t |-> Len(s) + k]
<1>1. /\ Len(s) \in Nat /\ Len(t) \in Nat /\ DOMAIN s = A /\ DOMAIN t = 1 .. Len(t)
      /\ \A k \in DOMAIN s : s[k] \in T
      /\ \A k \in DOMAIN t : t[k] \in T
  BY SeqDomain
<1>2. /\ D = A \cup B /\ D = 1 .. (Len(s) + Len(t))
      /\ \A k \in A : (s \o t)[k] = s[k]
      /\ \A k \in DOMAIN t : Len(s) + k \in B /\ (s \o t)[Len(s) + k] = t[k]
  <2>1. /\ D = 1 .. (Len(s) + Len(t))
        /\ \A k \in 1 .. Len(s) : (s \o t)[k] = s[k]
        /\ \A k \in 1 .. Len(t) : (s \o t)[Len(s) + k] = t[k]
    BY JoinedDomain
  <2>2. 1 .. (Len(s) + Len(t)) = A \cup B
    BY <1>1
  <2>3. \A k \in 1 .. Len(t) : Len(s) + k \in B
    BY <1>1
  <2> QED
    BY <1>1, <2>1, <2>2, <2>3
<1>3. /\ \A k \in A : f[k] = fs[k] /\ fs[k] \in Int
      /\ \A k \in DOMAIN t : f[Len(s) + k] = ft[k] /\ ft[k] \in Int
  BY <1>1, <1>2
<1>4. \A k \in B : k - Len(s) \in DOMAIN t /\ Len(s) + (k - Len(s)) = k
  BY <1>1
<1>5. \A k \in A \cup B : f[k] \in Int
  BY <1>3, <1>4
<1>6. IsFiniteSet(A) /\ IsFiniteSet(B) /\ IsFiniteSet(DOMAIN t)
  BY <1>1, FS_Interval
<1>7. \A k \in A : k \notin B
  BY <1>1
<1> HIDE DEF f, fs, ft, D, A, B
<1>8. SumOver(f, D) = SumOver(f, A) + SumOver(f, B) /\ SumOver(f, A) \in Int /\ SumOver(f, B) \in Int
  BY <1>2, <1>5, <1>6, <1>7, SumJoined
<1>9. SumOver(fs, A) = SumOver(f, A)
  BY <1>3, <1>6, SumSame
<1>10. SumOver(ft, DOMAIN t) = SumOver(f, B)
  <2> DEFINE E == DOMAIN t
  <2>1. \A k \in E : shift[k] \in B /\ ft[k] = f[shift[k]]
    BY <1>2, <1>3
  <2>2. \A j, k \in E : shift[j] = shift[k] => j = k
    BY <1>1
  <2>3. \A k \in B : \E j \in E : shift[j] = k
    BY <1>4
  <2>4. \A k \in B : f[k] \in Int
    BY <1>5
  <2>5. IsFiniteSet(E)
    BY <1>6
  <2> HIDE DEF shift, E
  <2>6. SumOver(ft, E) = SumOver(f, B)
    BY <2>1, <2>2, <2>3, <2>4, <2>5, SumRenamed
  <2> QED
    BY <2>6 DEF E
<1> QED
  BY <1>1, <1>8, <1>9, <1>10 DEF SeqSum, f, fs, ft, D

\* The sum over a flattened sequence is that of the sums over its parts.
LEMMA FlattenSum ==
    ASSUME NEW T, NEW w, \A x \in T : w[x] \in Int, NEW seqs \in Seq(Seq(T)),
           NEW total, \A i \in DOMAIN seqs : total[i] = SeqSum(w, seqs[i])
    PROVE  /\ SeqSum(w, FlattenSeq(seqs)) = SumOver(total, DOMAIN seqs)
           /\ \A i \in DOMAIN seqs : total[i] \in Int
<1> DEFINE n == Len(seqs)
<1>1. n \in Nat /\ DOMAIN seqs = 1 .. n /\ \A i \in 1 .. n : seqs[i] \in Seq(T)
  OBVIOUS
<1> HIDE DEF n
<1>2. PICK g \in [0 .. n -> Seq(T)] : Joins(g, seqs) /\ FlattenSeq(seqs) = g[n]
  BY FlattenRecursion DEF n
<1>3. ASSUME NEW i \in 1 .. n
      PROVE  SeqSum(w, g[i]) = SeqSum(w, g[i - 1]) + total[i] /\ total[i] \in Int
  <2>1. g[i] = g[i - 1] \o seqs[i]
    BY <1>2 DEF Joins, n
  <2>2. i - 1 \in 0 .. n
    BY <1>1
  <2>3. g[i - 1] \in Seq(T) /\ seqs[i] \in Seq(T)
    BY <1>1, <2>2
  <2>4. total[i] = SeqSum(w, seqs[i])
    BY <1>1
  <2>5. ASSUME NEW s \in Seq(T), NEW t \in Seq(T)
        PROVE  SeqSum(w, s \o t) = SeqSum(w, s) + SeqSum(w, t) /\ SeqSum(w, t) \in Int
    BY JoinedSum
  <2> QED
    BY <2>1, <2>3, <2>4, <2>5
<1> DEFINE Exact == {k \in Nat : k <= n => SeqSum(w, g[k]) = SumOver(total, 1 .. k)}
<1>4. 0 \in Exact
  <2>1. g[0] = <<>>
    BY <1>2 DEF Joins
  <2>2. DOMAIN g[0] = {} /\ 1 .. 0 = {}
    BY <2>1
  <2>3. SeqSum(w, g[0]) = 0 /\ SumOver(total, 1 .. 0) = 0
    BY <2>2, SumEmpty DEF SeqSum
  <2> QED
    BY <2>3
<1>5. ASSUME NEW k \in Exact PROVE k + 1 \in Exact
  <2> SUFFICES ASSUME k + 1 <= n PROVE SeqSum(w, g[k + 1]) = SumOver(total, 1 .. (k + 1))
    OBVIOUS
  <2>1. k \in Nat /\ k <= n /\ k + 1 \in 1 .. n /\ (k + 1) - 1 = k
    BY <1>1
  <2>2. SeqSum(w, g[k]) = SumOver(total, 1 .. k)
    BY <2>1
  <2> HIDE DEF Exact
  <2>3. SeqSum(w, g[k + 1]) = SeqSum(w, g[k]) + total[k + 1] /\ total[k + 1] \in Int
    BY <1>3, <2>1
  <2>4. 1 .. (k + 1) = (1 .. k) \cup {k + 1} /\ k + 1 \notin 1 .. k /\ \A i \in 1 .. k : i \in 1 .. n
    <3>1. ASSUME NEW l \in Nat PROVE 1 .. (l + 1) = (1 .. l) \cup {l + 1} /\ l + 1 \notin 1 .. l
      OBVIOUS
    <3>2. ASSUME NEW i \in 1 .. k PROVE i \in 1 .. n
      BY <1>1, <2>1
    <3> QED
      BY <2>1, <3>1, <3>2
  <2>5. IsFiniteSet(1 .. k)
    BY <2>1, FS_Interval
  <2>6. \A i \in (1 .. k) \cup {k + 1} : total[i] \in Int
    BY <1>3, <2>1, <2>4
  <2>7. /\ SumOver(total, (1 .. k) \cup {k + 1}) = total[k + 1] + SumOver(total, 1 .. k)
        /\ SumOver(total, 1 .. k) \in Int
    BY <2>4, <2>5, <2>6, SumWith
  <2>8. SumOver(total, 1 .. (k + 1)) = SumOver(total, (1 .. k) \cup {k + 1})
    BY <2>4, Zenon
  <2> QED
    BY ONLY <2>2, <2>3, <2>7, <2>8
<1>6. Exact \in SUBSET Nat
  OBVIOUS
<1> HIDE DEF Exact
<1>7. n \in Exact
  BY <1>1, <1>4, <1>5, <1>6, InductionOverNat
<1>8. SeqSum(w, g[n]) = SumOver(total, 1 .. n)
  BY <1>1, <1>7 DEF Exact
<1> QED
  BY <1>1, <1>2, <1>3, <1>8

\* No two marked elements of a sequence have the same key.
OncePer(key, marked, s) ==
    \A j, k \in DOMAIN s : s[j] \in marked /\ s[k] \in marked /\ key[s[j]] = key[s[k]] => j = k

\* Nor do they in a flattened sequence, if the parts share no key.
LEMMA FlattenOnce ==
    ASSUME NEW T, NEW key, NEW marked, NEW seqs \in Seq(Seq(T)),
           \A i \in DOMAIN seqs : OncePer(key, marked, seqs[i]),
           \A i, j \in DOMAIN seqs : \A x \in Range(seqs[i]), y \in Range(seqs[j]) :
               x \in marked /\ y \in marked /\ key[x] = key[y] => i = j
    PROVE  OncePer(key, marked, FlattenSeq(seqs))
<1> DEFINE n == Len(seqs)
<1>1. n \in Nat /\ DOMAIN seqs = 1 .. n /\ \A i \in 1 .. n : seqs[i] \in Seq(T)
  OBVIOUS
<1> HIDE DEF n
<1>2. PICK g \in [0 .. n -> Seq(T)] : Joins(g, seqs) /\ FlattenSeq(seqs) = g[n]
  BY FlattenRecursion DEF n
<1> DEFINE Good(k) == /\ OncePer(key, marked, g[k])
                      /\ \A j \in DOMAIN g[k] : \E i \in 1 .. k : g[k][j] \in Range(seqs[i])
           Exact == {k \in Nat : k <= n => Good(k)}
<1>3. 0 \in Exact
  <2>1. g[0] = <<>>
    BY <1>2 DEF Joins
  <2>2. DOMAIN g[0] = {}
    BY <2>1
  <2> QED
    BY <2>2 DEF OncePer
<1>4. ASSUME NEW k \in Exact PROVE k + 1 \in Exact
  <2> SUFFICES ASSUME k + 1 <= n PROVE Good(k + 1)
    OBVIOUS
  <2> DEFINE s == g[k]
             t == seqs[k + 1]
             r == g[k + 1]
  <2>1. k \in Nat /\ k <= n /\ k + 1 \in 1 .. n /\ (k + 1) - 1 = k /\ k \in 0 .. n
    BY <1>1
  <2>2. Good(k)
    BY <2>1
  <2>3. r = s \o t /\ s \in Seq(T) /\ t \in Seq(T)
    <3>1. \A i \in 1 .. n : g[i] = g[i - 1] \o seqs[i]
      BY <1>2 DEF Joins, n
    <3> QED
      BY <1>1, <2>1, <3>1
  <2>4. OncePer(key, marked, t) /\ k + 1 \in DOMAIN seqs
    BY <1>1, <2>1
  <2>5. \A j \in DOMAIN s : \E i \in 1 .. k : s[j] \in Range(seqs[i])
    BY <2>2
  <2>6. OncePer(key, marked, s)
    BY <2>2
  <2> HIDE DEF Good, Exact, r, s, t
  <2>7. /\ DOMAIN r = 1 .. (Len(s) + Len(t)) /\ Len(s) \in Nat /\ Len(t) \in Nat
        /\ DOMAIN s = 1 .. Len(s) /\ DOMAIN t = 1 .. Len(t)
        /\ \A j \in 1 .. Len(s) : r[j] = s[j]
        /\ \A j \in 1 .. Len(t) : r[Len(s) + j] = t[j]
    BY <2>3, JoinedDomain, SeqDomain
  <2>8. ASSUME NEW j \in DOMAIN r
        PROVE  \/ j \in DOMAIN s /\ r[j] = s[j]
               \/ j - Len(s) \in DOMAIN t /\ r[j] = t[j - Len(s)] /\ j = Len(s) + (j - Len(s))
    <3>1. j \in 1 .. Len(s) \/ (j - Len(s) \in 1 .. Len(t) /\ j = Len(s) + (j - Len(s)))
      BY <2>7
    <3> QED
      BY <2>7, <3>1
  <2>9. ASSUME NEW j \in DOMAIN s, NEW l \in DOMAIN t, s[j] \in marked, t[l] \in marked
        PROVE  key[s[j]] # key[t[l]]
    <3>1. PICK i \in 1 .. k : s[j] \in Range(seqs[i])
      BY <2>5
    <3>2. t[l] \in Range(t)
      BY DEF Range
    <3>3. i \in 1 .. n /\ i # k + 1
      BY <1>1, <2>1
    <3> QED
      BY <1>1, <2>1, <2>9, <3>1, <3>2, <3>3 DEF t
  <2>10. OncePer(key, marked, r)
    <3> SUFFICES ASSUME NEW j \in DOMAIN r, NEW l \in DOMAIN r,
                        r[j] \in marked, r[l] \in marked, key[r[j]] = key[r[l]]
                 PROVE  j = l
      BY DEF OncePer
    <3>1. CASE j \in DOMAIN s /\ r[j] = s[j] /\ l \in DOMAIN s /\ r[l] = s[l]
      BY <2>6, <3>1 DEF OncePer
    <3>2. CASE /\ j - Len(s) \in DOMAIN t /\ r[j] = t[j - Len(s)] /\ j = Len(s) + (j - Len(s))
               /\ l - Len(s) \in DOMAIN t /\ r[l] = t[l - Len(s)] /\ l = Len(s) + (l - Len(s))
      <4>1. j - Len(s) = l - Len(s)
        BY <2>4, <3>2 DEF OncePer
      <4> QED
        BY <3>2, <4>1
    <3>3. CASE j \in DOMAIN s /\ r[j] = s[j] /\ l - Len(s) \in DOMAIN t /\ r[l] = t[l - Len(s)]
      BY <2>9, <3>3
    <3>4. CASE l \in DOMAIN s /\ r[l] = s[l] /\ j - Len(s) \in DOMAIN t /\ r[j] = t[j - Len(s)]
      BY <2>9, <3>4
    <3> QED
      BY <2>8, <3>1, <3>2, <3>3, <3>4
  <2>11. ASSUME NEW j \in DOMAIN r PROVE \E i \in 1 .. (k + 1) : r[j] \in Range(seqs[i])
    <3>1. CASE j \in DOMAIN s /\ r[j] = s[j]
      <4>1. PICK i \in 1 .. k : s[j] \in Range(seqs[i])
        BY <2>5, <3>1
      <4>2. i \in 1 .. (k + 1)
        BY <2>1
      <4> QED
        BY <3>1, <4>1, <4>2
    <3>2. CASE j - Len(s) \in DOMAIN t /\ r[j] = t[j - Len(s)]
      <4>1. r[j] \in Range(t) /\ k + 1 \in 1 .. (k + 1)
        BY <2>1, <3>2 DEF Range
      <4> QED
        BY <4>1 DEF t
    <3> QED
      BY <2>8, <3>1, <3>2
  <2> QED
    BY <2>10, <2>11 DEF Good, r
<1>5. Exact \in SUBSET Nat
  OBVIOUS
<1> HIDE DEF Exact
<1>6. n \in Exact
  BY <1>1, <1>3, <1>4, <1>5, InductionOverNat
<1>7. OncePer(key, marked, g[n])
  BY <1>1, <1>6 DEF Exact
<1> QED
  BY <1>2, <1>7

\* Two numbers told apart by quotient and remainder.
LEMMA NumbersApart ==
    ASSUME NEW M \in Nat, NEW i \in Nat \ {0}, NEW k \in Nat \ {0}, NEW a \in 1 .. M, NEW b \in 1 .. M
    PROVE  /\ (M + 1) * i + a \in Nat /\ (M + 1) * i + a > M
           /\ (M + 1) * i + a = (M + 1) * k + b => i = k /\ a = b
<1> DEFINE N == M + 1
<1>1. N \in Nat \ {0} /\ a \in Nat /\ b \in Nat /\ a < N /\ b < N /\ a > 0 /\ N > M
  OBVIOUS
<1> HIDE DEF N
<1>2. ASSUME NEW x \in Nat \ {0}, NEW y \in Nat \ {0}, x < y PROVE N * x + N <= N * y
  <2>1. x + 1 <= y
    BY <1>2
  <2>2. \A c \in Nat : N * (x + 1 + c) = N * x + N + N * c /\ N * c \in Nat
    BY <1>1
  <2>3. PICK c \in Nat : y = x + 1 + c
    <3>1. y = x + 1 + (y - x - 1) /\ y - x - 1 \in Nat
      BY <2>1
    <3> QED
      BY <3>1
  <2>4. N * y = N * x + N + N * c /\ N * c \in Nat
    BY <2>2, <2>3
  <2>5. N * x \in Nat
    BY <1>1
  <2> QED
    BY <1>1, <2>4, <2>5
<1>3. N * i \in Nat /\ N * k \in Nat /\ N * i >= N
  BY <1>1
<1>4. ASSUME N * i + a = N * k + b PROVE i = k /\ a = b
  <2>1. ~(i < k)
    <3>1. SUFFICES ASSUME N * i + N <= N * k PROVE FALSE
      BY <1>2
    <3> QED
      BY <1>1, <1>3, <1>4, <3>1
  <2>2. ~(k < i)
    <3>1. SUFFICES ASSUME N * k + N <= N * i PROVE FALSE
      BY <1>2
    <3> QED
      BY <1>1, <1>3, <1>4, <3>1
  <2>3. i = k
    BY <2>1, <2>2
  <2> QED
    BY <1>1, <1>3, <1>4, <2>3
<1> QED
  BY <1>1, <1>3, <1>4 DEF N

\* The only element of a set.
LEMMA OnlyElement ==
    ASSUME NEW S, IsFiniteSet(S), Cardinality(S) = 1, NEW x, x = CHOOSE y \in S : TRUE
    PROVE  x \in S /\ \A y \in S : y = x
<1>1. PICK z : S = {z}
  BY FS_Singleton
<1> QED
  BY <1>1
================================================================================
