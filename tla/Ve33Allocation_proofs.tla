------------------------- MODULE Ve33Allocation_proofs -------------------------
(***************************************************************************)
(* What the apportionment and the three greedy passes of Ve33Allocation do *)
(* for every cohort and every list of targets: the whole stake is placed,  *)
(* each target gets its fair share of it, and little is cut.               *)
(***************************************************************************)
EXTENDS Ve33Allocation, DataTheorems

-------------------------------------------------------------------------------
(***************************************************************************)
(* The order of ids                                                        *)
(***************************************************************************)

\* NFTs with ids of their own.
Identified(ns) ==
    /\ IsFiniteSet(ns)
    /\ \A n \in ns : n.id \in Nat
    /\ \A m, n \in ns : m.id = n.id => m = n

\* Sorted by id, each of them appears once.
LEMMA SortedById ==
    ASSUME NEW ns, Identified(ns)
    PROVE  /\ Sorted(ns, ById) \in Seq(ns) /\ Len(Sorted(ns, ById)) = Cardinality(ns)
           /\ Range(Sorted(ns, ById)) = ns
           /\ \A i, k \in DOMAIN Sorted(ns, ById) :
                 Sorted(ns, ById)[i] = Sorted(ns, ById)[k] => i = k
<1> DEFINE R == {p \in ns \X ns : p[1].id < p[2].id}
           s == Sorted(ns, ById)
           at(k) == CHOOSE x \in ns : Cardinality({y \in ns : y.id < x.id}) = k - 1
<1>0. IsFiniteSet(ns)
  BY DEF Identified
<1>1. Orders(R, ns)
  <2>1. \A x \in ns : x.id \in Int
    BY DEF Identified
  <2>2. \A x, y \in ns : <<x, y>> \in R <=> x.id < y.id
    OBVIOUS
  <2>3. \A x, y \in ns : x # y => x.id # y.id
    BY DEF Identified
  <2> HIDE DEF R
  <2> QED
    BY <2>1, <2>2, <2>3 DEF Orders
<1>2. \A x \in ns : Below(x, R, ns) = {y \in ns : y.id < x.id}
  BY DEF Below
<1>3. s = [k \in 1 .. Cardinality(ns) |-> at(k)]
  BY DEF Sorted, ById
<1> HIDE DEF R, s, at
<1>4. ASSUME NEW k \in 1 .. Cardinality(ns)
      PROVE  s[k] \in ns /\ Cardinality(Below(s[k], R, ns)) = k - 1
  <2>1. \E x \in ns : Cardinality({y \in ns : y.id < x.id}) = k - 1
    <3>1. PICK x \in ns : Cardinality(Below(x, R, ns)) = k - 1
      BY <1>0, <1>1, Places
    <3>2. Below(x, R, ns) = {y \in ns : y.id < x.id}
      BY <1>2
    <3> QED
      BY <3>1, <3>2
  <2>2. s[k] \in ns /\ Cardinality({y \in ns : y.id < s[k].id}) = k - 1
    <3>1. at(k) \in ns /\ Cardinality({y \in ns : y.id < at(k).id}) = k - 1
      BY <2>1 DEF at
    <3> QED
      BY <1>3, <3>1
  <2> QED
    BY <1>2, <2>2
<1>5. /\ s \in Seq(ns) /\ Len(s) = Cardinality(ns) /\ Range(s) = ns
      /\ \A i, k \in DOMAIN s : i < k => <<s[i], s[k]>> \in R
  <2>1. s = [k \in 1 .. Cardinality(ns) |-> s[k]]
    BY <1>3
  <2>2. \A k \in 1 .. Cardinality(ns) : s[k] \in ns /\ Cardinality(Below(s[k], R, ns)) = k - 1
    BY <1>4
  <2> QED
    BY <1>0, <1>1, <2>1, <2>2, PlacesInOrder
<1>6. ASSUME NEW i \in DOMAIN s, NEW k \in DOMAIN s, s[i] = s[k] PROVE i = k
  <2>1. DOMAIN s \in SUBSET Int /\ s[i] \in ns
    BY <1>5
  <2>2. <<s[i], s[i]>> \notin R
    BY <1>1, <2>1 DEF Orders
  <2>3. ~(i < k) /\ ~(k < i)
    BY <1>5, <1>6, <2>2
  <2> QED
    BY <2>1, <2>3
<1> QED
  BY <1>5, <1>6 DEF s

\* The larger stakes first, and of equal ones the smaller id.
LEMMA SortedDescending ==
    ASSUME NEW ns, Identified(ns), \A n \in ns : n.amount \in Int
    PROVE  /\ Sorted(ns, Descending) \in Seq(ns)
           /\ Len(Sorted(ns, Descending)) = Cardinality(ns)
           /\ Range(Sorted(ns, Descending)) = ns
           /\ \A i, k \in DOMAIN Sorted(ns, Descending) :
                 Sorted(ns, Descending)[i] = Sorted(ns, Descending)[k] => i = k
<1> DEFINE R == {p \in ns \X ns : Descending(p[1], p[2])}
           s == Sorted(ns, Descending)
           at(k) == CHOOSE x \in ns : Cardinality({y \in ns : Descending(y, x)}) = k - 1
<1>0. IsFiniteSet(ns)
  BY DEF Identified
<1>1. Orders(R, ns)
  <2>1. \A x \in ns : x.id \in Int /\ x.amount \in Int
    BY DEF Identified
  <2>2. \A x, y \in ns : <<x, y>> \in R <=> Descending(x, y)
    OBVIOUS
  <2>3. \A x, y \in ns : x # y => x.id # y.id
    BY DEF Identified
  <2> HIDE DEF R
  <2>4. ASSUME NEW x \in ns PROVE <<x, x>> \notin R
    BY <2>1, <2>2 DEF Descending
  <2>5. ASSUME NEW x \in ns, NEW y \in ns, NEW z \in ns, <<x, y>> \in R, <<y, z>> \in R
        PROVE  <<x, z>> \in R
    BY <2>1, <2>2, <2>5 DEF Descending
  <2>6. ASSUME NEW x \in ns, NEW y \in ns, x # y PROVE <<x, y>> \in R \/ <<y, x>> \in R
    BY <2>1, <2>2, <2>3, <2>6 DEF Descending
  <2> QED
    BY <2>4, <2>5, <2>6 DEF Orders
<1>2. \A x \in ns : Below(x, R, ns) = {y \in ns : Descending(y, x)}
  BY DEF Below
<1>3. s = [k \in 1 .. Cardinality(ns) |-> at(k)]
  BY DEF Sorted
<1> HIDE DEF R, s, at
<1>4. ASSUME NEW k \in 1 .. Cardinality(ns)
      PROVE  s[k] \in ns /\ Cardinality(Below(s[k], R, ns)) = k - 1
  <2>1. \E x \in ns : Cardinality({y \in ns : Descending(y, x)}) = k - 1
    <3>1. PICK x \in ns : Cardinality(Below(x, R, ns)) = k - 1
      BY <1>0, <1>1, Places
    <3>2. Below(x, R, ns) = {y \in ns : Descending(y, x)}
      BY <1>2
    <3> QED
      BY <3>1, <3>2
  <2>2. s[k] \in ns /\ Cardinality({y \in ns : Descending(y, s[k])}) = k - 1
    <3>1. at(k) \in ns /\ Cardinality({y \in ns : Descending(y, at(k))}) = k - 1
      BY <2>1 DEF at
    <3> QED
      BY <1>3, <3>1
  <2> QED
    BY <1>2, <2>2
<1>5. /\ s \in Seq(ns) /\ Len(s) = Cardinality(ns) /\ Range(s) = ns
      /\ \A i, k \in DOMAIN s : i < k => <<s[i], s[k]>> \in R
  <2>1. s = [k \in 1 .. Cardinality(ns) |-> s[k]]
    BY <1>3
  <2>2. \A k \in 1 .. Cardinality(ns) : s[k] \in ns /\ Cardinality(Below(s[k], R, ns)) = k - 1
    BY <1>4
  <2> QED
    BY <1>0, <1>1, <2>1, <2>2, PlacesInOrder
<1>6. ASSUME NEW i \in DOMAIN s, NEW k \in DOMAIN s, s[i] = s[k] PROVE i = k
  <2>1. DOMAIN s \in SUBSET Int /\ s[i] \in ns
    BY <1>5
  <2>2. <<s[i], s[i]>> \notin R
    BY <1>1, <2>1 DEF Orders
  <2>3. ~(i < k) /\ ~(k < i)
    BY <1>5, <1>6, <2>2
  <2> QED
    BY <2>1, <2>3
<1> QED
  BY <1>5, <1>6 DEF s

-------------------------------------------------------------------------------
(***************************************************************************)
(* Amounts                                                                 *)
(***************************************************************************)
LEMMA TotalType ==
    ASSUME NEW D, IsFiniteSet(D), NEW f \in [D -> Int]
    PROVE  /\ Total(f) \in Int
           /\ (\A x \in D : f[x] >= 0) => Total(f) >= 0
           /\ D # {} /\ (\A x \in D : f[x] > 0) => Total(f) > 0
<1>1. Total(f) = SumOver(f, D)
  BY DEF Total, SumOver
<1>2. \A x \in D : f[x] \in Int
  OBVIOUS
<1> QED
  BY <1>1, <1>2, SumType

\* Apportioning gives integers, and naturals of naturals.
LEMMA ApportionType ==
    ASSUME NEW total \in Int, NEW D, IsFiniteSet(D), NEW shares \in [D -> Int],
           NEW denominator \in Nat \ {0}
    PROVE  /\ Apportion(total, shares, denominator) \in [D -> Int]
           /\ total >= 0 /\ (\A x \in D : shares[x] >= 0) =>
                  \A x \in D : Apportion(total, shares, denominator)[x] >= 0
<1> DEFINE base == [i \in D |-> (total * shares[i]) \div denominator]
           rem == [i \in DOMAIN shares |-> (total * shares[i]) % denominator]
           left == total - Total(base)
           more(i) == IF Cardinality({k \in DOMAIN shares : InOrder(rem, k, i)}) < left THEN 1 ELSE 0
<1>1. Apportion(total, shares, denominator) = [i \in D |-> base[i] + more(i)]
  BY DEF Apportion
<1>2. \A i \in D : total * shares[i] \in Int
  OBVIOUS
<1>3. \A x \in Int : x \div denominator \in Int /\ (x >= 0 => x \div denominator >= 0)
  OBVIOUS
<1>4. base \in [D -> Int]
  BY <1>2, <1>3
<1>5. ASSUME total >= 0, \A x \in D : shares[x] >= 0 PROVE \A i \in D : base[i] >= 0
  <2>1. \A a, b \in Int : a >= 0 /\ b >= 0 => a * b >= 0
    OBVIOUS
  <2>2. \A i \in D : total * shares[i] >= 0
    BY <1>5, <2>1
  <2> QED
    BY <1>2, <1>3, <2>2
<1>6. \A i \in D : more(i) \in {0, 1}
  OBVIOUS
<1> HIDE DEF base, more
<1> QED
  BY <1>1, <1>4, <1>5, <1>6

-------------------------------------------------------------------------------
(***************************************************************************)
(* The three passes                                                        *)
(***************************************************************************)

\* What the passes work on: the demand of m targets, the chunks of some NFTs.
Divisions(ids, m) ==
    [demand : [1 .. m -> Int], chunks : [ids -> Seq([target : 1 .. m, amount : Int])]]

\* An index with the largest number.
LEMMA LargestExists ==
    ASSUME NEW S \in SUBSET Int, IsFiniteSet(S), S # {}, NEW f, \A i \in S : f[i] \in Int
    PROVE  \E i \in S : \A k \in S : f[i] > f[k] \/ (f[i] = f[k] /\ i <= k)
<1> DEFINE R == {p \in S \X S : f[p[1]] > f[p[2]] \/ (f[p[1]] = f[p[2]] /\ p[1] < p[2])}
<1>1. \A x, y \in S : <<x, y>> \in R <=> f[x] > f[y] \/ (f[x] = f[y] /\ x < y)
  OBVIOUS
<1> HIDE DEF R
<1>2. Orders(R, S)
  BY <1>1 DEF Orders
<1>3. PICK i \in S : \A k \in S : k # i => <<i, k>> \in R
  BY <1>2, LeastExists
<1>4. ASSUME NEW k \in S PROVE f[i] > f[k] \/ (f[i] = f[k] /\ i <= k)
  <2>1. k # i => <<i, k>> \in R
    BY <1>3
  <2> QED
    BY <1>1, <2>1
<1> QED
  BY <1>4

\* What Give makes is a division again.
LEMMA GiveType ==
    ASSUME NEW ids, NEW m \in Nat, NEW st \in Divisions(ids, m), NEW n, n.id \in ids,
           NEW i \in 1 .. m, NEW amount \in Int
    PROVE  Give(st, n, i, amount) \in Divisions(ids, m)
<1> DEFINE C == [target : 1 .. m, amount : Int]
           chunk == [target |-> i, amount |-> amount]
           demand == [st.demand EXCEPT ![i] = @ - amount]
           chunks == [st.chunks EXCEPT ![n.id] = Append(@, chunk)]
<1>1. st.demand \in [1 .. m -> Int] /\ st.chunks \in [ids -> Seq(C)]
  BY DEF Divisions
<1>2. demand \in [1 .. m -> Int]
  BY <1>1
<1>3. chunks \in [ids -> Seq(C)]
  <2>1. chunk \in C
    OBVIOUS
  <2> HIDE DEF C, chunk
  <2>2. Append(st.chunks[n.id], chunk) \in Seq(C)
    BY <1>1, <2>1
  <2> QED
    BY <1>1, <2>2
<1>4. Give(st, n, i, amount) = [demand |-> demand, chunks |-> chunks]
  BY DEF Give
<1> HIDE DEF demand, chunks
<1>5. [demand |-> demand, chunks |-> chunks] \in Divisions(ids, m)
  BY <1>2, <1>3 DEF Divisions
<1> QED
  BY <1>4, <1>5

\* What remains of an NFT is a number.
LEMMA RemainingType ==
    ASSUME NEW ids, NEW m \in Nat, NEW st \in Divisions(ids, m), NEW n, n.id \in ids,
           n.amount \in Int
    PROVE  Remaining(st, n) \in Int
<1> DEFINE C == [target : 1 .. m, amount : Int]
           chunks == st.chunks[n.id]
           amounts == [i \in DOMAIN chunks |-> chunks[i].amount]
<1>1. chunks \in Seq(C)
  BY DEF Divisions
<1>2. DOMAIN chunks = 1 .. Len(chunks) /\ Len(chunks) \in Nat
  <2> HIDE DEF C, chunks
  <2> QED
    BY <1>1, SeqDomain
<1>3. amounts \in [DOMAIN chunks -> Int]
  <2>1. \A i \in DOMAIN chunks : chunks[i] \in C
    <3> HIDE DEF C, chunks
    <3> QED
      BY <1>1, SeqDomain
  <2> HIDE DEF chunks
  <2> QED
    BY <2>1
<1>4. IsFiniteSet(DOMAIN chunks)
  <2>1. IsFiniteSet(1 .. Len(chunks))
    <3> HIDE DEF chunks
    <3> QED
      BY <1>2, FS_Interval
  <2> HIDE DEF chunks
  <2> QED
    BY <1>2, <2>1
<1> HIDE DEF chunks
<1>5. Total(amounts) \in Int
  BY <1>3, <1>4, TotalType
<1> QED
  BY <1>5 DEF Remaining, chunks

\* The targets that have room, as a finite set of numbers.
LEMMA IndicesFinite ==
    ASSUME NEW m \in Nat, NEW S \in SUBSET (1 .. m)
    PROVE  S \in SUBSET Int /\ IsFiniteSet(S)
<1>1. IsFiniteSet(1 .. m)
  BY FS_Interval
<1>2. S \in SUBSET Int
  OBVIOUS
<1> QED
  BY ONLY <1>1, <1>2, FS_Subset, S \in SUBSET (1 .. m)

\* The targets that demand more.
Unserved(st) == {i \in DOMAIN st.demand : st.demand[i] # 0}

\* First pass: nothing, or the whole NFT to a target that has room and it votes for.
LEMMA KeepWholeGives ==
    ASSUME NEW ids, NEW m \in Nat, NEW st \in Divisions(ids, m), NEW targets, NEW n
    PROVE  \/ KeepWhole(targets, st, n) = st
           \/ \E i \in Fitting(st, n) : /\ i \in 1 .. m /\ Matches(n, targets[i])
                                        /\ KeepWhole(targets, st, n) = Give(st, n, i, n.amount)
<1> DEFINE affinity == {i \in Fitting(st, n) : Matches(n, targets[i])}
<1>1. affinity \in SUBSET (1 .. m)
  BY DEF Fitting, Divisions
<1>2. affinity # {} => Min(affinity) \in affinity
  <2> HIDE DEF affinity
  <2> QED
    BY <1>1, IndicesFinite, MinMember
<1>3. KeepWhole(targets, st, n) =
          IF affinity = {} THEN st ELSE Give(st, n, Min(affinity), n.amount)
  BY DEF KeepWhole
<1>4. \A i \in affinity : i \in Fitting(st, n) /\ i \in 1 .. m /\ Matches(n, targets[i])
  BY <1>1
<1> HIDE DEF affinity
<1> QED
  BY <1>2, <1>3, <1>4

\* Second pass: nothing, or an NFT without a chunk to a target that has room.
LEMMA FitWholeGives ==
    ASSUME NEW ids, NEW m \in Nat, NEW st \in Divisions(ids, m), NEW n
    PROVE  \/ FitWhole(st, n) = st
           \/ /\ ~Assigned(st, n)
              /\ \E i \in Fitting(st, n) : i \in 1 .. m /\ FitWhole(st, n) = Give(st, n, i, n.amount)
<1> DEFINE better(i, k) == st.demand[i] < st.demand[k] \/ (st.demand[i] = st.demand[k] /\ i <= k)
           best == CHOOSE i \in Fitting(st, n) : \A k \in Fitting(st, n) : better(i, k)
<1>1. Fitting(st, n) \in SUBSET (1 .. m) /\ st.demand \in [1 .. m -> Int]
  BY DEF Fitting, Divisions
<1>2. CASE Fitting(st, n) # {}
  <2> DEFINE room == [i \in Fitting(st, n) |-> - st.demand[i]]
  <2>1. \A i \in Fitting(st, n) : i \in Int /\ st.demand[i] \in Int /\ room[i] = - st.demand[i]
    BY <1>1
  <2>2. PICK i \in Fitting(st, n) : \A k \in Fitting(st, n) :
            room[i] > room[k] \/ (room[i] = room[k] /\ i <= k)
    <3> HIDE DEF room
    <3>1. \A j \in Fitting(st, n) : room[j] \in Int
      BY <2>1
    <3> QED
      BY <1>1, <1>2, <3>1, IndicesFinite, LargestExists
  <2>3. \A k \in Fitting(st, n) : better(i, k)
    <3> HIDE DEF room
    <3> QED
      BY <2>1, <2>2
  <2> HIDE DEF better, room
  <2>4. best \in Fitting(st, n)
    BY <2>3
  <2>5. FitWhole(st, n) = IF Assigned(st, n) THEN st ELSE Give(st, n, best, n.amount)
    BY <1>2 DEF FitWhole, better
  <2> HIDE DEF best
  <2> QED
    BY <1>1, <2>4, <2>5
<1>3. CASE Fitting(st, n) = {}
  BY <1>3 DEF FitWhole
<1> QED
  BY <1>2, <1>3

\* Third pass, one turn: nothing if the NFT is used up or nothing is demanded, else all
\* that the NFT has left or all that a target still demands, whichever is less.
LEMMA CutGives ==
    ASSUME NEW ids, NEW m \in Nat, NEW st \in Divisions(ids, m), NEW targets, NEW n,
           n.id \in ids, n.amount \in Int
    PROVE  \/ /\ Cut(targets, st, n) = st
              /\ Remaining(st, n) = 0 \/ Unserved(st) = {}
           \/ /\ Remaining(st, n) # 0
              /\ \E i \in Unserved(st), amount \in Int :
                    /\ i \in 1 .. m /\ amount <= Remaining(st, n) /\ amount <= st.demand[i]
                    /\ amount = Remaining(st, n) \/ amount = st.demand[i]
                    /\ Cut(targets, st, n) = Give(st, n, i, amount)
<1> DEFINE open == {i \in DOMAIN st.demand : st.demand[i] # 0}
           affinity == {i \in open : Matches(n, targets[i])}
           larger(i, k) == st.demand[i] > st.demand[k] \/ (st.demand[i] = st.demand[k] /\ i <= k)
           largest == CHOOSE i \in open : \A k \in open : larger(i, k)
           target == IF affinity # {} THEN Min(affinity) ELSE largest
           amount == Min({Remaining(st, n), st.demand[target]})
<1>1. st.demand \in [1 .. m -> Int] /\ open \in SUBSET (1 .. m) /\ affinity \in SUBSET open
  BY DEF Divisions
<1>2. CASE open = {} \/ Remaining(st, n) = 0
  BY <1>2 DEF Cut, Unserved
<1>3. CASE open # {} /\ Remaining(st, n) # 0
  <2>1. affinity # {} => Min(affinity) \in affinity
    <3>1. affinity \in SUBSET (1 .. m)
      BY <1>1
    <3> HIDE DEF affinity
    <3> QED
      BY <3>1, IndicesFinite, MinMember
  <2>2. largest \in open
    <3>1. \A i \in open : st.demand[i] \in Int
      BY <1>1
    <3> HIDE DEF open
    <3>2. \E i \in open : \A k \in open : larger(i, k)
      BY <1>1, <1>3, <3>1, IndicesFinite, LargestExists
    <3> QED
      BY <1>1, <3>2
  <2>3. target \in open
    <3> HIDE DEF largest, affinity
    <3> QED
      BY <1>1, <2>1, <2>2
  <2>4. amount \in Int /\ amount <= Remaining(st, n) /\ amount <= st.demand[target]
        /\ (amount = Remaining(st, n) \/ amount = st.demand[target])
    <3> HIDE DEF target
    <3>1. Remaining(st, n) \in Int /\ st.demand[target] \in Int
      BY <1>1, <2>3, RemainingType
    <3>2. IsFiniteSet({Remaining(st, n), st.demand[target]})
      <4>1. \A a, b : {a, b} = {a} \cup {b}
        OBVIOUS
      <4>2. IsFiniteSet({Remaining(st, n)} \cup {st.demand[target]})
        BY FS_Singleton, FS_AddElement
      <4> QED
        BY <4>1, <4>2
    <3>3. /\ Min({Remaining(st, n), st.demand[target]}) \in {Remaining(st, n), st.demand[target]}
          /\ \A x \in {Remaining(st, n), st.demand[target]} :
                Min({Remaining(st, n), st.demand[target]}) <= x
      <4> DEFINE both == {Remaining(st, n), st.demand[target]}
      <4>1. both \in SUBSET Int /\ IsFiniteSet(both) /\ both # {}
        BY <3>1, <3>2
      <4> HIDE DEF both
      <4>2. Min(both) \in both /\ \A x \in both : Min(both) <= x
        BY <4>1, MinMember
      <4> QED
        BY <4>2 DEF both
    <3> QED
      BY <3>1, <3>3
  <2>5. Cut(targets, st, n) = Give(st, n, target, amount)
    BY <1>3 DEF Cut, larger
  <2>6. target \in Unserved(st) /\ target \in 1 .. m
    BY <1>1, <2>3 DEF Unserved
  <2> HIDE DEF target, amount
  <2> QED
    BY <1>3, <2>4, <2>5, <2>6
<1> QED
  BY <1>2, <1>3

\* No pass gives anything but chunks with a target and an integer amount.
LEMMA PassesType ==
    ASSUME NEW ids, NEW m \in Nat, NEW st \in Divisions(ids, m), NEW targets, NEW n,
           n.id \in ids, n.amount \in Int
    PROVE  /\ KeepWhole(targets, st, n) \in Divisions(ids, m)
           /\ FitWhole(st, n) \in Divisions(ids, m)
           /\ Cut(targets, st, n) \in Divisions(ids, m)
<1>1. \A i \in 1 .. m, amount \in Int : Give(st, n, i, amount) \in Divisions(ids, m)
  BY GiveType
<1>2. KeepWhole(targets, st, n) \in Divisions(ids, m)
  BY <1>1, KeepWholeGives
<1>3. FitWhole(st, n) \in Divisions(ids, m)
  BY <1>1, FitWholeGives
<1>4. Cut(targets, st, n) \in Divisions(ids, m)
  BY <1>1, CutGives
<1> QED
  BY <1>2, <1>3, <1>4

\* Third pass: as many turns as there are targets.
LEMMA SplitOverRun ==
    ASSUME NEW ids, NEW T, NEW targets \in Seq(T), NEW st \in Divisions(ids, Len(targets)),
           NEW n, n.id \in ids, n.amount \in Int
    PROVE  \E g \in [0 .. Len(targets) -> Divisions(ids, Len(targets))] :
              /\ g[0] = st /\ SplitOver(targets, st, n) = g[Len(targets)]
              /\ \A k \in 1 .. Len(targets) : g[k] = Cut(targets, g[k - 1], n)
<1> DEFINE m == Len(targets)
           V == Divisions(ids, m)
           step == [p \in V \X (1 .. m) |-> Cut(targets, p[1], n)]
           Solves(f) == f = [k \in 0 .. m |-> IF k = 0 THEN st ELSE Cut(targets, f[k - 1], n)]
           run == CHOOSE f : Solves(f)
<1>0. m \in Nat
  OBVIOUS
<1> HIDE DEF m
<1>1. \A d \in V : Cut(targets, d, n) \in V
  BY <1>0, PassesType
<1>2. st \in V
  BY DEF m
<1> HIDE DEF V
<1>3. step \in [V \X (1 .. m) -> V]
  BY <1>1
<1>4. PICK g \in [0 .. m -> V] : RangeRecursion(g, m, st, step)
  <2> HIDE DEF step
  <2> QED
    BY <1>0, <1>2, <1>3, RangeRecursionExists
<1>5. ASSUME NEW k \in 1 .. m PROVE g[k] = Cut(targets, g[k - 1], n)
  <2>1. k - 1 \in 0 .. m
    BY <1>0
  <2>2. g[k] = step[<<g[k - 1], k>>]
    BY <1>4 DEF RangeRecursion
  <2> QED
    BY <2>1, <2>2
<1>6. Solves(g)
  <2>1. g[0] = st
    BY <1>4 DEF RangeRecursion
  <2>2. ASSUME NEW k \in 0 .. m PROVE g[k] = IF k = 0 THEN st ELSE Cut(targets, g[k - 1], n)
    BY <1>0, <1>5, <2>1
  <2> QED
    BY <2>2
<1>7. Solves(run)
  BY ONLY <1>6 DEF run
<1> HIDE DEF run
<1>8. ASSUME NEW k \in 1 .. m, run[k - 1] \in V PROVE run[k] \in V
  <2>1. run[k] = Cut(targets, run[k - 1], n)
    BY <1>0, <1>7
  <2> QED
    BY <1>1, <1>8, <2>1
<1>9. run[0] \in V
  BY <1>0, <1>2, <1>7
<1>10. \A k \in 0 .. m : run[k] \in V
  <2>1. \A k \in 1 .. m : run[k - 1] \in V => run[k] \in V
    BY <1>8
  <2> QED
    BY <1>0, <1>9, <2>1, RangeRecursionType
<1>11. \A k \in 1 .. m : run[k] = Cut(targets, run[k - 1], n)
  BY <1>0, <1>7
<1>12. run[0] = st /\ run \in [0 .. m -> V]
  BY <1>0, <1>7, <1>10
<1>13. SplitOver(targets, st, n) = run[m]
  BY DEF SplitOver, run, m
<1> QED
  BY <1>11, <1>12, <1>13 DEF m, V

\* Cutting an NFT leaves a division.
LEMMA SplitOverType ==
    ASSUME NEW ids, NEW T, NEW targets \in Seq(T), NEW st \in Divisions(ids, Len(targets)),
           NEW n, n.id \in ids, n.amount \in Int
    PROVE  SplitOver(targets, st, n) \in Divisions(ids, Len(targets))
<1>1. Len(targets) \in 0 .. Len(targets)
  OBVIOUS
<1> QED
  BY <1>1, SplitOverRun

\* allocateCohort: what it starts from, and the state after each turn of its passes.
Start(cohort, targets) ==
    [demand |-> ApportionAmounts(StakeOf(cohort), targets),
     chunks |-> [id \in {n.id : n \in cohort} |-> <<>>]]

Runs(cohort, targets, kept, fitted, cut) ==
    LET order == Sorted(cohort, Descending)
        last == Len(order)
    IN  /\ kept[0] = Start(cohort, targets) /\ fitted[0] = kept[last] /\ cut[0] = fitted[last]
        /\ \A k \in 1 .. last :
              /\ kept[k] = KeepWhole(targets, kept[k - 1], order[last + 1 - k])
              /\ fitted[k] = FitWhole(fitted[k - 1], order[last + 1 - k])
              /\ cut[k] = SplitOver(targets, cut[k - 1], order[k])
        /\ AllocateCohort(cohort, targets) = cut[last].chunks

\* allocateCohort is the three passes, each a turn per NFT.
LEMMA AllocateCohortRuns ==
    ASSUME NEW cohort, Identified(cohort), \A n \in cohort : n.amount \in Int,
           NEW T, NEW targets \in Seq(T), \A i \in DOMAIN targets : targets[i].weight \in Int
    PROVE  LET run == [0 .. Len(Sorted(cohort, Descending))
                           -> Divisions({n.id : n \in cohort}, Len(targets))]
           IN  \E kept, fitted, cut \in run : Runs(cohort, targets, kept, fitted, cut)
<1> DEFINE ids == {n.id : n \in cohort}
           m == Len(targets)
           V == Divisions(ids, m)
           start == Start(cohort, targets)
           order == Sorted(cohort, Descending)
           last == Len(order)
           KeptRun(f) == f = [k \in 0 .. last |-> IF k = 0 THEN start ELSE KeepWhole(targets, f[k - 1], order[last + 1 - k])]
           kept == CHOOSE f : KeptRun(f)
           FittedRun(f) == f = [k \in 0 .. last |-> IF k = 0 THEN kept[last] ELSE FitWhole(f[k - 1], order[last + 1 - k])]
           fitted == CHOOSE f : FittedRun(f)
           CutRun(f) == f = [k \in 0 .. last |-> IF k = 0 THEN fitted[last] ELSE SplitOver(targets, f[k - 1], order[k])]
           cut == CHOOSE f : CutRun(f)
<1>1. AllocateCohort(cohort, targets) = cut[last].chunks
  BY DEF AllocateCohort, Start
<1>2. m \in Nat /\ DOMAIN targets = 1 .. m
  OBVIOUS
<1>3. last \in Nat /\ \A k \in 1 .. last : order[k].id \in ids /\ order[k].amount \in Int
  <2>1. order \in Seq(cohort)
    BY SortedDescending
  <2> HIDE DEF order
  <2>2. last \in Nat /\ \A k \in 1 .. last : order[k] \in cohort
    BY <2>1
  <2> QED
    BY <2>2
<1>4. start \in V
  <2>1. ApportionAmounts(StakeOf(cohort), targets) \in [1 .. m -> Int]
    <3> DEFINE amounts == [n \in cohort |-> n.amount]
               shares == [i \in DOMAIN targets |-> targets[i].weight]
    <3>1. amounts \in [cohort -> Int] /\ shares \in [1 .. m -> Int]
      BY <1>2
    <3>2. IsFiniteSet(cohort) /\ IsFiniteSet(1 .. m)
      BY <1>2, FS_Interval DEF Identified
    <3> HIDE DEF amounts, shares, m
    <3>3. Total(amounts) \in Int
      BY <3>1, <3>2, TotalType
    <3>4. Apportion(Total(amounts), shares, BpsTotal) \in [1 .. m -> Int]
      BY <3>1, <3>2, <3>3, BpsAssumption, ApportionType
    <3> QED
      BY <3>4 DEF ApportionAmounts, StakeOf, amounts, shares
  <2>2. [id \in ids |-> <<>>] \in [ids -> Seq([target : 1 .. m, amount : Int])]
    <3> DEFINE C == [target : 1 .. m, amount : Int]
    <3>1. <<>> \in Seq(C)
      OBVIOUS
    <3> HIDE DEF C
    <3> QED
      BY <3>1
  <2> QED
    BY <2>1, <2>2 DEF Divisions, Start
<1> HIDE DEF m, order, last, start, ids
<1>5. kept \in [0 .. last -> V] /\ KeptRun(kept)
  <2> DEFINE step == [p \in V \X (1 .. last) |-> KeepWhole(targets, p[1], order[last + 1 - p[2]])]
  <2>0. \A k \in 1 .. last : last + 1 - k \in 1 .. last
    BY <1>3
  <2>1. ASSUME NEW d \in V, NEW k \in 1 .. last PROVE KeepWhole(targets, d, order[last + 1 - k]) \in V
    BY <1>2, <1>3, <2>0, PassesType DEF m
  <2>2. start \in V
    BY <1>4, <1>3
  <2> HIDE DEF V
  <2>3. step \in [V \X (1 .. last) -> V]
    BY <2>1
  <2>4. PICK g \in [0 .. last -> V] : RangeRecursion(g, last, start, step)
    <3> HIDE DEF step
    <3> QED
      BY <1>3, <2>2, <2>3, RangeRecursionExists
  <2>5. ASSUME NEW k \in 1 .. last PROVE g[k] = KeepWhole(targets, g[k - 1], order[last + 1 - k])
    <3>1. k - 1 \in 0 .. last
      BY <1>3
    <3>2. g[k] = step[<<g[k - 1], k>>]
      BY <2>4 DEF RangeRecursion
    <3> QED
      BY <3>1, <3>2
  <2>6. KeptRun(g)
    <3>1. g[0] = start
      BY <2>4 DEF RangeRecursion
    <3>2. ASSUME NEW k \in 0 .. last
          PROVE  g[k] = IF k = 0 THEN start ELSE KeepWhole(targets, g[k - 1], order[last + 1 - k])
      BY <1>3, <2>5, <3>1
    <3> QED
      BY <3>2
  <2>7. KeptRun(kept)
    BY ONLY <2>6 DEF kept
  <2> HIDE DEF kept
  <2>8. kept[0] \in V
    BY <1>3, <2>2, <2>7
  <2>9. ASSUME NEW k \in 1 .. last, kept[k - 1] \in V PROVE kept[k] \in V
    <3>1. kept[k] = KeepWhole(targets, kept[k - 1], order[last + 1 - k])
      BY <1>3, <2>7
    <3> QED
      BY <2>1, <2>9, <3>1
  <2>10. \A k \in 0 .. last : kept[k] \in V
    <3>1. \A k \in 1 .. last : kept[k - 1] \in V => kept[k] \in V
      BY <2>9
    <3> QED
      BY <1>3, <2>8, <3>1, RangeRecursionType
  <2> QED
    BY <2>7, <2>10
<1>6. fitted \in [0 .. last -> V] /\ FittedRun(fitted)
  <2> DEFINE step == [p \in V \X (1 .. last) |-> FitWhole(p[1], order[last + 1 - p[2]])]
  <2>0. \A k \in 1 .. last : last + 1 - k \in 1 .. last
    BY <1>3
  <2>1. ASSUME NEW d \in V, NEW k \in 1 .. last PROVE FitWhole(d, order[last + 1 - k]) \in V
    BY <1>2, <1>3, <2>0, PassesType DEF m
  <2>2. kept[last] \in V
    <3> HIDE DEF V, kept
    <3> QED
      BY <1>3, <1>5, last \in 0 .. last
  <2> HIDE DEF V, kept
  <2>3. step \in [V \X (1 .. last) -> V]
    BY <2>1
  <2>4. PICK g \in [0 .. last -> V] : RangeRecursion(g, last, kept[last], step)
    <3> HIDE DEF step
    <3> QED
      BY <1>3, <2>2, <2>3, RangeRecursionExists
  <2>5. ASSUME NEW k \in 1 .. last PROVE g[k] = FitWhole(g[k - 1], order[last + 1 - k])
    <3>1. k - 1 \in 0 .. last
      BY <1>3
    <3>2. g[k] = step[<<g[k - 1], k>>]
      BY <2>4 DEF RangeRecursion
    <3> QED
      BY <3>1, <3>2
  <2>6. FittedRun(g)
    <3>1. g[0] = kept[last]
      BY <2>4 DEF RangeRecursion
    <3>2. ASSUME NEW k \in 0 .. last
          PROVE  g[k] = IF k = 0 THEN kept[last] ELSE FitWhole(g[k - 1], order[last + 1 - k])
      BY <1>3, <2>5, <3>1
    <3> QED
      BY <3>2
  <2>7. FittedRun(fitted)
    BY ONLY <2>6 DEF fitted
  <2> HIDE DEF fitted
  <2>8. fitted[0] \in V
    BY <1>3, <2>2, <2>7
  <2>9. ASSUME NEW k \in 1 .. last, fitted[k - 1] \in V PROVE fitted[k] \in V
    <3>1. fitted[k] = FitWhole(fitted[k - 1], order[last + 1 - k])
      BY <1>3, <2>7
    <3> QED
      BY <2>1, <2>9, <3>1
  <2>10. \A k \in 0 .. last : fitted[k] \in V
    <3>1. \A k \in 1 .. last : fitted[k - 1] \in V => fitted[k] \in V
      BY <2>9
    <3> QED
      BY <1>3, <2>8, <3>1, RangeRecursionType
  <2> QED
    BY <2>7, <2>10
<1>7. cut \in [0 .. last -> V] /\ CutRun(cut)
  <2> DEFINE step == [p \in V \X (1 .. last) |-> SplitOver(targets, p[1], order[p[2]])]
  <2>0. \A k \in 1 .. last : last + 1 - k \in 1 .. last
    BY <1>3
  <2>1. ASSUME NEW d \in V, NEW k \in 1 .. last PROVE SplitOver(targets, d, order[k]) \in V
    BY <1>2, <1>3, <2>0, SplitOverType DEF m
  <2>2. fitted[last] \in V
    <3> HIDE DEF V, fitted
    <3> QED
      BY <1>3, <1>6, last \in 0 .. last
  <2> HIDE DEF V, fitted
  <2>3. step \in [V \X (1 .. last) -> V]
    BY <2>1
  <2>4. PICK g \in [0 .. last -> V] : RangeRecursion(g, last, fitted[last], step)
    <3> HIDE DEF step
    <3> QED
      BY <1>3, <2>2, <2>3, RangeRecursionExists
  <2>5. ASSUME NEW k \in 1 .. last PROVE g[k] = SplitOver(targets, g[k - 1], order[k])
    <3>1. k - 1 \in 0 .. last
      BY <1>3
    <3>2. g[k] = step[<<g[k - 1], k>>]
      BY <2>4 DEF RangeRecursion
    <3> QED
      BY <3>1, <3>2
  <2>6. CutRun(g)
    <3>1. g[0] = fitted[last]
      BY <2>4 DEF RangeRecursion
    <3>2. ASSUME NEW k \in 0 .. last
          PROVE  g[k] = IF k = 0 THEN fitted[last] ELSE SplitOver(targets, g[k - 1], order[k])
      BY <1>3, <2>5, <3>1
    <3> QED
      BY <3>2
  <2>7. CutRun(cut)
    BY ONLY <2>6 DEF cut
  <2> HIDE DEF cut
  <2>8. cut[0] \in V
    BY <1>3, <2>2, <2>7
  <2>9. ASSUME NEW k \in 1 .. last, cut[k - 1] \in V PROVE cut[k] \in V
    <3>1. cut[k] = SplitOver(targets, cut[k - 1], order[k])
      BY <1>3, <2>7
    <3> QED
      BY <2>1, <2>9, <3>1
  <2>10. \A k \in 0 .. last : cut[k] \in V
    <3>1. \A k \in 1 .. last : cut[k - 1] \in V => cut[k] \in V
      BY <2>9
    <3> QED
      BY <1>3, <2>8, <3>1, RangeRecursionType
  <2> QED
    BY <2>7, <2>10
<1> HIDE DEF kept, fitted, cut, V
<1>8. /\ kept[0] = start /\ fitted[0] = kept[last] /\ cut[0] = fitted[last]
      /\ \A k \in 1 .. last :
            /\ kept[k] = KeepWhole(targets, kept[k - 1], order[last + 1 - k])
            /\ fitted[k] = FitWhole(fitted[k - 1], order[last + 1 - k])
            /\ cut[k] = SplitOver(targets, cut[k - 1], order[k])
  <2>1. 0 \in 0 .. last /\ \A k \in 1 .. last : k \in 0 .. last /\ k # 0
    BY <1>3
  <2> QED
    BY <1>5, <1>6, <1>7, <2>1
<1>9. Runs(cohort, targets, kept, fitted, cut)
  BY <1>1, <1>8 DEF Runs, start, last, order
<1> QED
  BY <1>5, <1>6, <1>7, <1>9 DEF last, order, V, ids, m

\* allocateCohort cuts every NFT of the cohort into a sequence of chunks.
LEMMA AllocateCohortType ==
    ASSUME NEW cohort, Identified(cohort), \A n \in cohort : n.amount \in Int,
           NEW T, NEW targets \in Seq(T), \A i \in DOMAIN targets : targets[i].weight \in Int
    PROVE  AllocateCohort(cohort, targets) \in
               [{n.id : n \in cohort} -> Seq([target : DOMAIN targets, amount : Int])]
<1> DEFINE ids == {n.id : n \in cohort}
           m == Len(targets)
           last == Len(Sorted(cohort, Descending))
           V == Divisions(ids, m)
<1>1. DOMAIN targets = 1 .. m
  OBVIOUS
<1>2. last \in 0 .. last
  BY SortedDescending, FS_CardinalityType DEF Identified
<1>3. PICK kept \in [0 .. last -> V], fitted \in [0 .. last -> V], cut \in [0 .. last -> V] :
          Runs(cohort, targets, kept, fitted, cut)
  BY AllocateCohortRuns
<1> HIDE DEF V, last
<1>4. cut[last] \in V /\ AllocateCohort(cohort, targets) = cut[last].chunks
  BY <1>2, <1>3 DEF Runs, last
<1> QED
  BY <1>1, <1>4 DEF Divisions, V

-------------------------------------------------------------------------------
\* The first places in the order of remainders.
First(S, rem, left) == {i \in S : Cardinality({k \in S : InOrder(rem, k, i)}) < left}

\* Of a finite set ranked by remainders, the first `left` places are taken by as many.
LEMMA RankCounts ==
    ASSUME NEW S \in SUBSET Int, IsFiniteSet(S), NEW rem, \A i \in S : rem[i] \in Int,
           NEW left \in Nat
    PROVE  LET first == First(S, rem, left)
           IN  /\ IsFiniteSet(first) /\ Cardinality(first) \in Nat /\ Cardinality(first) <= left
               /\ left <= Cardinality(S) => Cardinality(first) = left
               /\ left > 0 /\ S # {} => first # {}
               /\ \A i \in first, k \in S \ first : rem[k] <= rem[i]
<1> DEFINE R == {p \in S \X S : InOrder(rem, p[1], p[2])}
           place == [i \in S |-> Cardinality(Below(i, R, S))]
           first == {i \in S : Cardinality({k \in S : InOrder(rem, k, i)}) < left}
           n == Cardinality(S)
<1>0. n \in Nat
  BY FS_CardinalityType
<1>1. \A x, y \in S : <<x, y>> \in R <=> InOrder(rem, x, y)
  OBVIOUS
<1>2. \A i \in S : Below(i, R, S) = {k \in S : InOrder(rem, k, i)}
  BY DEF Below
<1> HIDE DEF R
<1>3. Orders(R, S)
  <2>1. \A x \in S : x \in Int /\ rem[x] \in Int
    OBVIOUS
  <2>2. \A x \in S : <<x, x>> \notin R
    BY <1>1, <2>1 DEF InOrder
  <2>3. \A x, y, z \in S : <<x, y>> \in R /\ <<y, z>> \in R => <<x, z>> \in R
    BY <1>1, <2>1 DEF InOrder
  <2>4. \A x, y \in S : x # y => <<x, y>> \in R \/ <<y, x>> \in R
    BY <1>1, <2>1 DEF InOrder
  <2> QED
    BY <2>2, <2>3, <2>4 DEF Orders
<1>4. first = {i \in S : place[i] < left}
  BY <1>2
<1>5. /\ \A x \in S : place[x] \in 0 .. n - 1
      /\ \A x, y \in S : <<x, y>> \in R => place[x] < place[y]
      /\ \A k \in 1 .. n : \E x \in S : place[x] = k - 1
  BY <1>3, Places
<1> HIDE DEF place, first, n
<1>6. ASSUME NEW x \in S, NEW y \in S, place[x] = place[y] PROVE x = y
  <2>1. x # y => <<x, y>> \in R \/ <<y, x>> \in R
    BY <1>3 DEF Orders
  <2> QED
    BY <1>0, <1>5, <1>6, <2>1
<1> DEFINE f == [i \in first |-> place[i]]
<1>7. IsFiniteSet(first) /\ Cardinality(first) \in Nat /\ first \in SUBSET S
  BY <1>4, FS_Subset, FS_CardinalityType
<1>8. IsFiniteSet(0 .. left - 1) /\ Cardinality(0 .. left - 1) = left
  BY FS_Interval
<1>9. f \in Injection(first, 0 .. left - 1)
  <2>1. \A i \in first : place[i] \in 0 .. left - 1
    BY <1>0, <1>4, <1>5
  <2>2. f \in [first -> 0 .. left - 1]
    BY <2>1
  <2>3. \A x, y \in first : f[x] = f[y] => x = y
    BY <1>6, <1>7
  <2> QED
    BY <2>2, <2>3 DEF Injection, IsInjective
<1>10. Cardinality(first) <= left
  <2> HIDE DEF f
  <2> QED
    BY <1>8, <1>9, FS_Injection
<1>11. ASSUME left <= n PROVE Cardinality(first) = left
  <2>1. ASSUME NEW k \in 0 .. left - 1 PROVE \E i \in first : f[i] = k
    <3>1. k + 1 \in 1 .. n /\ (k + 1) - 1 = k
      BY <1>0, <1>11
    <3>2. PICK i \in S : place[i] = (k + 1) - 1
      BY <1>5, <3>1
    <3> QED
      BY <1>4, <3>1, <3>2
  <2>2. f \in Surjection(first, 0 .. left - 1)
    BY <1>9, <2>1 DEF Surjection, Injection
  <2> HIDE DEF f
  <2> QED
    BY <1>7, <1>8, <1>9, <2>2, FS_Injection
<1>12. ASSUME left > 0, S # {} PROVE first # {}
  <2>1. n # 0
    BY <1>12, FS_EmptySet DEF n
  <2>2. 1 \in 1 .. n
    BY <1>0, <2>1
  <2>3. PICK i \in S : place[i] = 1 - 1
    BY <1>5, <2>2
  <2> QED
    BY <1>4, <1>12, <2>3
<1>13. ASSUME NEW i \in first, NEW k \in S \ first PROVE rem[k] <= rem[i]
  <2>1. i \in S /\ place[i] < left /\ ~ (place[k] < left)
    BY <1>4
  <2>2. <<k, i>> \notin R /\ i # k
    BY <1>0, <1>5, <2>1
  <2>3. InOrder(rem, i, k)
    BY <1>1, <1>3, <2>1, <2>2 DEF Orders
  <2>4. rem[i] \in Int /\ rem[k] \in Int
    BY <2>1
  <2> QED
    BY <2>3, <2>4 DEF InOrder
<1> QED
  BY <1>7, <1>10, <1>11, <1>12, <1>13 DEF first, n, First

\* Quotient and remainder.
LEMMA DivisionFacts ==
    ASSUME NEW a \in Int, NEW d \in Nat \ {0}
    PROVE  /\ a \div d \in Int /\ a % d \in Int /\ 0 <= a % d /\ a % d < d
           /\ a = d * (a \div d) + (a % d)
           /\ a >= 0 => a \div d >= 0
<1>1. a % d \in Int /\ 0 <= a % d /\ a % d < d
  OBVIOUS
<1>2. a \div d \in Int
  OBVIOUS
<1>3. a = d * (a \div d) + (a % d)
  OBVIOUS
<1>4. a >= 0 => a \div d >= 0
  OBVIOUS
<1> QED
  BY ONLY <1>1, <1>2, <1>3, <1>4

\* The largest remainder method divides the whole, each share within a unit of its exact
\* value, and rounds up where most would be cut off.
LEMMA ApportionFair ==
    ASSUME NEW D \in SUBSET Int, IsFiniteSet(D), NEW total \in Nat, NEW shares \in [D -> Nat],
           NEW den \in Nat \ {0}, Total(shares) = den
    PROVE  LET a == Apportion(total, shares, den)
               cut(i) == total * shares[i] - a[i] * den
           IN  /\ a \in [D -> Nat] /\ Total(a) = total
               /\ \A i \in D : -den < cut(i) /\ cut(i) < den
               /\ \A i, k \in D : cut(i) > 0 /\ cut(k) < 0 =>
                      (total * shares[i]) % den <= (total * shares[k]) % den
<1> DEFINE a == Apportion(total, shares, den)
           exact == [i \in D |-> total * shares[i]]
           base == [i \in D |-> (total * shares[i]) \div den]
           rem == [i \in D |-> (total * shares[i]) % den]
           whole == [i \in D |-> den * base[i]]
           left == total - Total(base)
           first == {i \in D : Cardinality({k \in D : InOrder(rem, k, i)}) < left}
           more == [i \in D |-> IF i \in first THEN 1 ELSE 0]
<1>1. a = [i \in D |-> base[i] + more[i]]
  BY DEF Apportion
<1>2. ASSUME NEW i \in D
      PROVE  /\ exact[i] \in Nat /\ base[i] \in Nat /\ rem[i] \in Nat /\ rem[i] < den
             /\ whole[i] \in Int /\ exact[i] = whole[i] + rem[i]
             /\ exact[i] = den * base[i] + rem[i]
  <2> DEFINE x == total * shares[i]
  <2>1. x \in Nat
    OBVIOUS
  <2>2. exact[i] = x /\ base[i] = x \div den /\ rem[i] = x % den /\ whole[i] = den * base[i]
    OBVIOUS
  <2> HIDE DEF x, exact, base, rem, whole
  <2>3. /\ x \div den \in Int /\ x % den \in Int /\ 0 <= x % den /\ x % den < den
        /\ x = den * (x \div den) + (x % den) /\ x \div den >= 0
    BY <2>1, DivisionFacts
  <2>4. den * base[i] \in Int
    BY <2>2, <2>3
  <2> QED
    BY <2>1, <2>2, <2>3, <2>4
<1>3. \A i \in D : exact[i] = total * shares[i] /\ whole[i] = den * base[i]
  OBVIOUS
<1>4. /\ Total(shares) = SumOver(shares, D) /\ Total(base) = SumOver(base, D)
      /\ a \in [D -> Int] => Total(a) = SumOver(a, D)
  BY DEF Total, SumOver
<1>5. left = total - SumOver(base, D)
  BY <1>4
<1>7. \A i \in D : rem[i] = (total * shares[i]) % den
  OBVIOUS
<1>8. first = {i \in D : Cardinality({k \in D : InOrder(rem, k, i)}) < left}
  OBVIOUS
<1> HIDE DEF a, exact, base, rem, whole, left, first
<1>9. SumOver(base, D) \in Int /\ SumOver(rem, D) \in Int /\ SumOver(rem, D) >= 0
  <2>1. \A i \in D : base[i] \in Int
    BY <1>2
  <2>2. \A i \in D : rem[i] \in Int /\ rem[i] >= 0
    BY <1>2
  <2> QED
    BY <2>1, <2>2, SumType
<1>10. SumOver(rem, D) = den * left
  <2>1. SumOver(exact, D) = total * den
    <3>1. \A i \in D : shares[i] \in Int /\ exact[i] = total * shares[i]
      BY <1>3
    <3>2. total \in Int
      OBVIOUS
    <3>3. SumOver(exact, D) = total * SumOver(shares, D)
      BY <3>1, <3>2, SumTimes
    <3> QED
      BY <1>4, <3>3
  <2>2. SumOver(whole, D) = den * SumOver(base, D)
    <3>1. \A i \in D : base[i] \in Int /\ whole[i] = den * base[i]
      BY <1>2, <1>3
    <3>2. den \in Int
      OBVIOUS
    <3> QED
      BY <3>1, <3>2, SumTimes
  <2>3. SumOver(exact, D) = SumOver(whole, D) + SumOver(rem, D)
    <3>1. \A i \in D : whole[i] \in Int /\ rem[i] \in Int /\ exact[i] = whole[i] + rem[i]
      BY <1>2
    <3> QED
      BY <3>1, SumPlus
  <2>4. \A b, r \in Int : total * den = den * b + r => r = den * (total - b)
    OBVIOUS
  <2> QED
    BY <1>5, <1>9, <2>1, <2>2, <2>3, <2>4
<1>11. left \in Nat
  <2>1. left \in Int
    BY <1>5, <1>9
  <2>2. \A l \in Int : den * l >= 0 => l >= 0
    OBVIOUS
  <2> QED
    BY <1>9, <1>10, <2>1, <2>2
\* The remainders of the elements of T add up to less than T has denominators.
<1>12. ASSUME NEW T \in SUBSET D, \A i \in D \ T : rem[i] = 0
       PROVE  Cardinality(T) \in Nat /\ left <= Cardinality(T)
  <2> DEFINE one == [i \in D |-> IF i \in T THEN 1 ELSE 0]
             room == [i \in D |-> den * one[i]]
  <2>1. \A i \in D : one[i] = (IF i \in T THEN 1 ELSE 0) /\ room[i] = den * one[i]
    OBVIOUS
  <2> HIDE DEF one, room
  <2>2. SumOver(one, D) = Cardinality(T)
    BY <2>1, SumCounts
  <2>3. \A i \in D : one[i] \in Int /\ room[i] \in Int /\ rem[i] \in Int /\ rem[i] <= room[i]
    BY <1>2, <1>12, <2>1
  <2>4. SumOver(room, D) = den * Cardinality(T)
    <3>1. \A i \in D : one[i] \in Int /\ room[i] = den * one[i]
      BY <2>1, <2>3
    <3>2. den \in Int
      OBVIOUS
    <3>3. SumOver(room, D) = den * SumOver(one, D)
      BY <3>1, <3>2, SumTimes
    <3> QED
      BY <2>2, <3>3
  <2>5. SumOver(rem, D) <= SumOver(room, D)
    BY <2>3, SumOrder
  <2>6. Cardinality(T) \in Nat
    BY FS_Subset, FS_CardinalityType
  <2>7. \A l, c \in Int : den * l <= den * c => l <= c
    OBVIOUS
  <2>8. den * left <= den * Cardinality(T)
    BY <1>10, <2>4, <2>5
  <2> QED
    BY <1>11, <2>6, <2>7, <2>8
<1>13. \A i \in D : rem[i] \in Int
  BY <1>2
<1>14. /\ IsFiniteSet(first) /\ Cardinality(first) = left
       /\ \A i \in first, k \in D \ first : rem[k] <= rem[i]
  <2>1. left <= Cardinality(D)
    <3>1. D \in SUBSET D /\ \A i \in D \ D : rem[i] = 0
      OBVIOUS
    <3> QED
      BY <1>12, <3>1
  <2>2. first = First(D, rem, left)
    BY <1>8 DEF First
  <2>3. LET ranked == First(D, rem, left)
        IN  /\ IsFiniteSet(ranked)
            /\ left <= Cardinality(D) => Cardinality(ranked) = left
            /\ \A i \in ranked, k \in D \ ranked : rem[k] <= rem[i]
    BY <1>11, <1>13, RankCounts
  <2> QED
    BY <2>1, <2>2, <2>3
<1>15. first \in SUBSET D
  BY <1>8
<1>16. ASSUME NEW i \in first PROVE rem[i] > 0
  <2> SUFFICES ASSUME rem[i] = 0 PROVE FALSE
    BY <1>2, <1>15
  <2>1. \A k \in D \ (first \ {i}) : rem[k] = 0
    BY <1>2, <1>14, <1>15
  <2>2. left <= Cardinality(first \ {i})
    BY <1>12, <1>15, <2>1
  <2>3. Cardinality(first \ {i}) = left - 1
    BY <1>14, FS_RemoveElement
  <2> QED
    BY <1>11, <2>2, <2>3
<1>17. ASSUME NEW i \in D
       PROVE  /\ a[i] \in Nat /\ more[i] \in {0, 1}
              /\ a[i] = base[i] + more[i]
              /\ total * shares[i] - a[i] * den = rem[i] - more[i] * den
              /\ more[i] = 1 <=> i \in first
  <2>1. a[i] = base[i] + more[i]
    BY <1>1
  <2>2. more[i] \in {0, 1} /\ (more[i] = 1 <=> i \in first)
    OBVIOUS
  <2>3. \A b, m, r \in Int : (den * b + r) - (b + m) * den = r - m * den
    OBVIOUS
  <2> HIDE DEF more
  <2>4. total * shares[i] = den * base[i] + rem[i]
    BY <1>2, <1>3
  <2> QED
    BY <1>2, <2>1, <2>2, <2>3, <2>4
<1>18. \A i \in D : more[i] = IF i \in first THEN 1 ELSE 0
  OBVIOUS
<1>19. a \in [D -> Nat]
  <2> HIDE DEF more
  <2> QED
    BY <1>1, <1>17
<1> HIDE DEF more
<1>20. Total(a) = total
  <2>1. SumOver(more, D) = left
    BY <1>14, <1>15, <1>18, SumCounts
  <2>2. SumOver(a, D) = SumOver(base, D) + SumOver(more, D)
    <3>1. \A i \in D : base[i] \in Int /\ more[i] \in Int /\ a[i] = base[i] + more[i]
      BY <1>2, <1>17
    <3> QED
      BY <3>1, SumPlus
  <2>3. Total(a) = SumOver(a, D)
    BY <1>4, <1>19
  <2> QED
    BY <1>5, <1>9, <2>1, <2>2, <2>3
<1>21. ASSUME NEW i \in D
       PROVE  /\ -den < total * shares[i] - a[i] * den /\ total * shares[i] - a[i] * den < den
              /\ total * shares[i] - a[i] * den > 0 => i \notin first
              /\ total * shares[i] - a[i] * den < 0 => i \in first
  <2>1. more[i] = 1 => rem[i] > 0
    BY <1>16, <1>17
  <2>2. rem[i] \in Nat /\ rem[i] < den
    BY <1>2
  <2> QED
    BY <1>17, <2>1, <2>2
<1>22. ASSUME NEW i \in D, NEW k \in D,
              total * shares[i] - a[i] * den > 0, total * shares[k] - a[k] * den < 0
       PROVE  (total * shares[i]) % den <= (total * shares[k]) % den
  BY <1>7, <1>14, <1>21, <1>22
<1> QED
  BY <1>19, <1>20, <1>21, <1>22 DEF a

-------------------------------------------------------------------------------
\* A sum over one place more.
LEMMA SumLonger ==
    ASSUME NEW n \in Nat, NEW f, NEW g, \A k \in 1 .. n : f[k] \in Int /\ g[k] = f[k],
           g[n + 1] \in Int
    PROVE  SumOver(g, 1 .. (n + 1)) = SumOver(f, 1 .. n) + g[n + 1] /\ SumOver(f, 1 .. n) \in Int
<1>1. 1 .. (n + 1) = (1 .. n) \cup {n + 1} /\ n + 1 \notin 1 .. n
  OBVIOUS
<1>2. IsFiniteSet(1 .. n)
  BY FS_Interval
<1>3. \A k \in (1 .. n) \cup {n + 1} : g[k] \in Int
  OBVIOUS
<1>4. SumOver(g, (1 .. n) \cup {n + 1}) = g[n + 1] + SumOver(g, 1 .. n)
  BY <1>1, <1>2, <1>3, SumWith
<1>5. SumOver(f, 1 .. n) = SumOver(g, 1 .. n)
  BY <1>2, SumSame
<1>6. SumOver(f, 1 .. n) \in Int
  BY <1>2, SumType
<1>7. SumOver(g, 1 .. (n + 1)) = g[n + 1] + SumOver(f, 1 .. n)
  BY ONLY <1>1, <1>4, <1>5
<1> QED
  BY <1>6, <1>7

-------------------------------------------------------------------------------
Chunk(i, amount) == [target |-> i, amount |-> amount]
Chunks(m) == [target : 1 .. m, amount : Int]

\* What an NFT is cut into: the sizes, and those for one target.
Sizes(cut) == [k \in DOMAIN cut |-> cut[k].amount]
SharesOf(cut, i) == [k \in DOMAIN cut |-> IF cut[k].target = i THEN cut[k].amount ELSE 0]

\* more is cut with one chunk after it.
Longer(more, cut, m, i, amount) ==
    /\ Total(Sizes(cut)) \in Int /\ Total(Sizes(more)) = Total(Sizes(cut)) + amount
    /\ \A j \in 1 .. m :
         /\ Total(SharesOf(cut, j)) \in Int
         /\ Total(SharesOf(more, j)) =
              Total(SharesOf(cut, j)) + (IF j = i THEN amount ELSE 0)
    /\ Len(more) = Len(cut) + 1 /\ more[Len(cut) + 1] = Chunk(i, amount)
    /\ \A k \in 1 .. Len(cut) : more[k] = cut[k]

\* One more chunk makes a cut longer in that way.
LEMMA CutAppend ==
    ASSUME NEW m \in Nat, NEW cut \in Seq(Chunks(m)),
           NEW i \in 1 .. m, NEW amount \in Int,
           NEW more, more = Append(cut, Chunk(i, amount))
    PROVE  Longer(more, cut, m, i, amount)
<1> DEFINE C == Chunks(m)
           c == Chunk(i, amount)
           n == Len(cut)
<1>1. c \in C /\ c.target = i /\ c.amount = amount
  BY DEF Chunks, Chunk
<1>2. \A e \in C : e.target \in 1 .. m /\ e.amount \in Int
  BY DEF Chunks
<1>3. cut \in Seq(C) /\ more = Append(cut, c)
  OBVIOUS
<1> HIDE DEF C, c
<1>4. /\ n \in Nat /\ DOMAIN cut = 1 .. n /\ DOMAIN more = 1 .. (n + 1) /\ Len(more) = n + 1
      /\ more[n + 1] = c /\ \A k \in 1 .. n : cut[k] \in C /\ more[k] = cut[k]
  BY <1>1, <1>3
<1> HIDE DEF n
<1>5. /\ \A k \in 1 .. n : cut[k].amount \in Int /\ more[k] = cut[k]
      /\ more[n + 1].amount = amount /\ more[n + 1].target = i
  BY <1>1, <1>2, <1>4
<1>6. /\ Total(Sizes(cut)) = SumOver(Sizes(cut), 1 .. n)
      /\ Total(Sizes(more)) = SumOver(Sizes(more), 1 .. (n + 1))
  BY <1>4 DEF Total, SumOver, Sizes
<1>7. Total(Sizes(more)) = Total(Sizes(cut)) + amount /\ Total(Sizes(cut)) \in Int
  <2>1. \A k \in 1 .. n : Sizes(cut)[k] \in Int /\ Sizes(more)[k] = Sizes(cut)[k]
    BY <1>4, <1>5 DEF Sizes
  <2>2. Sizes(more)[n + 1] = amount
    BY <1>4, <1>5 DEF Sizes
  <2> QED
    <3>1. Sizes(more)[n + 1] \in Int
      BY <2>2
    <3>2. /\ SumOver(Sizes(more), 1 .. (n + 1)) = SumOver(Sizes(cut), 1 .. n) + Sizes(more)[n + 1]
          /\ SumOver(Sizes(cut), 1 .. n) \in Int
      BY <1>4, <2>1, <3>1, SumLonger
    <3> QED
      BY <1>6, <2>2, <3>2
<1>8. ASSUME NEW j \in 1 .. m
      PROVE  /\ Total(SharesOf(cut, j)) \in Int
             /\ Total(SharesOf(more, j)) =
                  Total(SharesOf(cut, j)) + (IF j = i THEN amount ELSE 0)
  <2>1. \A k \in 1 .. n : SharesOf(cut, j)[k] \in Int /\ SharesOf(more, j)[k] = SharesOf(cut, j)[k]
    BY <1>4, <1>5 DEF SharesOf
  <2>2. SharesOf(more, j)[n + 1] = (IF j = i THEN amount ELSE 0)
    BY <1>4, <1>5 DEF SharesOf
  <2>3. /\ Total(SharesOf(cut, j)) = SumOver(SharesOf(cut, j), 1 .. n)
        /\ Total(SharesOf(more, j)) = SumOver(SharesOf(more, j), 1 .. (n + 1))
    BY <1>4 DEF Total, SumOver, SharesOf
  <2>4. SharesOf(more, j)[n + 1] \in Int
    BY <2>2
  <2>5. /\ SumOver(SharesOf(more, j), 1 .. (n + 1)) =
             SumOver(SharesOf(cut, j), 1 .. n) + SharesOf(more, j)[n + 1]
        /\ SumOver(SharesOf(cut, j), 1 .. n) \in Int
    BY <1>4, <2>1, <2>4, SumLonger
  <2> QED
    BY <2>2, <2>3, <2>5
<1> QED
  BY <1>4, <1>7, <1>8 DEF c, n, Longer

-------------------------------------------------------------------------------
\* NFTs with ids and stake.
IsCohort(cohort) == Identified(cohort) /\ \A n \in cohort : n.amount \in Nat \ {0}

Ids(cohort) == {n.id : n \in cohort}

\* What the cohort has put to target i, what of it is left, and in how many chunks it is.
Got(st, cohort, i) == SumOver([n \in cohort |-> Total(SharesOf(st.chunks[n.id], i))], cohort)
Left(st, cohort) == [n \in cohort |-> Remaining(st, n)]
Pieces(st, cohort) == SumOver([n \in cohort |-> Len(st.chunks[n.id])], cohort)

\* The NFTs that have more.
Uncut(st, cohort) == {n \in cohort : Remaining(st, n) # 0}

GoodCut(cut) ==
    /\ \A k \in DOMAIN cut : cut[k].amount > 0
    /\ \A j, k \in DOMAIN cut : cut[j].target = cut[k].target => j = k

\* Every unit is either with its NFT and demanded, or placed; and each chunk has
\* finished an NFT or a target, the last one both.
Placed(st, cohort, m, due) ==
    /\ st \in Divisions(Ids(cohort), m)
    /\ \A i \in 1 .. m : st.demand[i] >= 0 /\ Got(st, cohort, i) + st.demand[i] = due[i]
    /\ \A n \in cohort : GoodCut(st.chunks[n.id]) /\ Remaining(st, n) >= 0
    /\ SumOver(Left(st, cohort), cohort) = SumOver(st.demand, 1 .. m)
    /\ Pieces(st, cohort) + Cardinality(Unserved(st)) + Cardinality(Uncut(st, cohort))
         <= Cardinality(cohort) + m
    /\ Uncut(st, cohort) = {} => Pieces(st, cohort) < Cardinality(cohort) + m

\* A cohort is finite, with amounts that are positive and ids that tell its NFTs apart.
LEMMA CohortFacts ==
    ASSUME NEW cohort, IsCohort(cohort)
    PROVE  /\ IsFiniteSet(cohort) /\ Cardinality(cohort) \in Nat
           /\ \A n \in cohort : n.id \in Ids(cohort) /\ n.amount \in Nat \ {0}
           /\ \A n, k \in cohort : n.id = k.id => n = k
<1>1. IsFiniteSet(cohort) /\ \A n, k \in cohort : n.id = k.id => n = k
  BY DEF IsCohort, Identified
<1>2. Cardinality(cohort) \in Nat
  BY <1>1, FS_CardinalityType
<1>3. \A n \in cohort : n.id \in Ids(cohort) /\ n.amount \in Nat \ {0}
  BY DEF Ids, IsCohort
<1> QED
  BY <1>1, <1>2, <1>3

\* What the parts of a division are.
LEMMA DivisionTypes ==
    ASSUME NEW cohort, IsCohort(cohort), NEW m \in Nat, NEW st \in Divisions(Ids(cohort), m)
    PROVE  /\ st.demand \in [1 .. m -> Int]
           /\ \A n \in cohort :
                /\ st.chunks[n.id] \in Seq(Chunks(m))
                /\ Len(st.chunks[n.id]) \in Nat
                /\ DOMAIN st.chunks[n.id] = 1 .. Len(st.chunks[n.id])
                /\ Remaining(st, n) = n.amount - Total(Sizes(st.chunks[n.id]))
                /\ Remaining(st, n) \in Int /\ Total(Sizes(st.chunks[n.id])) \in Int
                /\ \A i \in 1 .. m : Total(SharesOf(st.chunks[n.id], i)) \in Int
<1> DEFINE C == Chunks(m)
<1>1. st.demand \in [1 .. m -> Int] /\ st.chunks \in [Ids(cohort) -> Seq(C)]
  BY DEF Divisions, Chunks
<1>3. ASSUME NEW n \in cohort
      PROVE  /\ n.id \in Ids(cohort) /\ n.amount \in Nat \ {0} /\ st.chunks[n.id] \in Seq(C)
             /\ Len(st.chunks[n.id]) \in Nat
             /\ DOMAIN st.chunks[n.id] = 1 .. Len(st.chunks[n.id])
             /\ Remaining(st, n) = n.amount - Total(Sizes(st.chunks[n.id]))
  <2>1. n.id \in Ids(cohort) /\ n.amount \in Nat \ {0}
    BY CohortFacts
  <2> HIDE DEF C
  <2>2. st.chunks[n.id] \in Seq(C)
    BY <1>1, <2>1
  <2>3. Len(st.chunks[n.id]) \in Nat /\ DOMAIN st.chunks[n.id] = 1 .. Len(st.chunks[n.id])
    BY <2>2
  <2> QED
    BY <2>1, <2>2, <2>3 DEF Remaining, Sizes
<1>4. ASSUME NEW n \in cohort
      PROVE  Total(Sizes(st.chunks[n.id])) \in Int
  <2> DEFINE cut == st.chunks[n.id]
  <2>1. cut \in Seq(C) /\ DOMAIN cut = 1 .. Len(cut) /\ Len(cut) \in Nat
    BY <1>3
  <2>2. \A k \in 1 .. Len(cut) : cut[k].amount \in Int
    <3>1. \A e \in C : e.amount \in Int
      BY DEF Chunks
    <3> HIDE DEF C, cut
    <3> QED
      BY <2>1, <3>1
  <2> HIDE DEF cut
  <2>3. Sizes(cut) \in [1 .. Len(cut) -> Int]
    BY <2>1, <2>2 DEF Sizes
  <2>4. IsFiniteSet(1 .. Len(cut))
    BY <2>1, FS_Interval
  <2>5. Total(Sizes(cut)) \in Int
    BY <2>3, <2>4, TotalType
  <2> QED
    BY <2>5 DEF cut
<1>5. ASSUME NEW n \in cohort, NEW i \in 1 .. m
      PROVE  Total(SharesOf(st.chunks[n.id], i)) \in Int
  <2> DEFINE cut == st.chunks[n.id]
  <2>1. cut \in Seq(C) /\ DOMAIN cut = 1 .. Len(cut) /\ Len(cut) \in Nat
    BY <1>3
  <2>2. \A k \in 1 .. Len(cut) : cut[k].amount \in Int
    <3>1. \A e \in C : e.amount \in Int
      BY DEF Chunks
    <3> HIDE DEF C, cut
    <3> QED
      BY <2>1, <3>1
  <2> HIDE DEF cut
  <2>3. SharesOf(cut, i) \in [1 .. Len(cut) -> Int]
    BY <2>1, <2>2 DEF SharesOf
  <2>4. IsFiniteSet(1 .. Len(cut))
    BY <2>1, FS_Interval
  <2>5. Total(SharesOf(cut, i)) \in Int
    BY <2>3, <2>4, TotalType
  <2> QED
    BY <2>5 DEF cut
<1>7. \A n \in cohort : Remaining(st, n) \in Int
  <2>1. \A n \in cohort : n.amount \in Int /\ Total(Sizes(st.chunks[n.id])) \in Int
    BY <1>3, <1>4
  <2> QED
    BY <1>3, <2>1
<1> QED
  BY <1>1, <1>3, <1>4, <1>5, <1>7

\* A chunk changes what is demanded of its target and the NFT it is cut from, nothing else.
LEMMA GiveEffect ==
    ASSUME NEW cohort, IsCohort(cohort), NEW m \in Nat, NEW st \in Divisions(Ids(cohort), m),
           NEW n \in cohort, NEW i \in 1 .. m, NEW amount \in Int
    PROVE  LET after == Give(st, n, i, amount)
               cut == st.chunks[n.id]
               longer == after.chunks[n.id]
           IN  /\ after \in Divisions(Ids(cohort), m) /\ Longer(longer, cut, m, i, amount)
               /\ after.demand[i] = st.demand[i] - amount
               /\ \A k \in (1 .. m) \ {i} : after.demand[k] = st.demand[k]
               /\ \A k \in cohort \ {n} : /\ after.chunks[k.id] = st.chunks[k.id]
                                          /\ Remaining(after, k) = Remaining(st, k)
               /\ Remaining(after, n) = Remaining(st, n) - amount
<1> DEFINE after == Give(st, n, i, amount)
           cut == st.chunks[n.id]
           longer == after.chunks[n.id]
           c == Chunk(i, amount)
<1>1. after \in Divisions(Ids(cohort), m)
  BY CohortFacts, GiveType
<1>2. st.demand \in [1 .. m -> Int] /\ st.chunks \in [Ids(cohort) -> Seq(Chunks(m))]
  BY DEF Divisions, Chunks
<1>3. /\ after.demand = [st.demand EXCEPT ![i] = @ - amount]
      /\ after.chunks = [st.chunks EXCEPT ![n.id] = Append(@, c)]
  BY DEF Give, Chunk
<1> HIDE DEF c, after
<1>4. after.demand[i] = st.demand[i] - amount /\ \A k \in (1 .. m) \ {i} : after.demand[k] = st.demand[k]
  BY <1>2, <1>3
<1>5. longer = Append(cut, c)
  BY <1>2, <1>3, CohortFacts
<1>6. \A k \in cohort \ {n} : after.chunks[k.id] = st.chunks[k.id]
  <2>1. \A k \in cohort \ {n} : k.id \in Ids(cohort) /\ k.id # n.id
    BY CohortFacts
  <2> QED
    BY <1>2, <1>3, <2>1
<1>7. ASSUME NEW k \in cohort \ {n} PROVE Remaining(after, k) = Remaining(st, k)
  <2>1. /\ Remaining(after, k) = k.amount - Total(Sizes(after.chunks[k.id]))
        /\ Remaining(st, k) = k.amount - Total(Sizes(st.chunks[k.id]))
    BY DEF Remaining, Sizes
  <2> QED
    BY <1>6, <2>1
<1>8. cut \in Seq(Chunks(m))
  BY DivisionTypes
<1> HIDE DEF cut, longer
<1>9. longer = Append(cut, Chunk(i, amount))
  BY <1>5 DEF c
<1>10. Longer(longer, cut, m, i, amount)
  BY <1>8, <1>9, CutAppend
<1>11. Remaining(after, n) = Remaining(st, n) - amount
  <2>1. Remaining(after, n) = n.amount - Total(Sizes(longer))
    BY DEF longer, Remaining, Sizes
  <2>2. Remaining(st, n) = n.amount - Total(Sizes(cut)) /\ n.amount \in Int
    BY CohortFacts DEF cut, Remaining, Sizes
  <2> QED
    BY <1>10, <2>1, <2>2 DEF Longer
<1> QED
  BY <1>1, <1>4, <1>6, <1>7, <1>10, <1>11 DEF cut, longer, after

\* Nothing is left to cut exactly when nothing is demanded.
LEMMA NothingLeft ==
    ASSUME NEW cohort, IsCohort(cohort), NEW m \in Nat, NEW st \in Divisions(Ids(cohort), m),
           \A i \in 1 .. m : st.demand[i] >= 0, \A n \in cohort : Remaining(st, n) >= 0,
           SumOver(Left(st, cohort), cohort) = SumOver(st.demand, 1 .. m)
    PROVE  Uncut(st, cohort) = {} <=> Unserved(st) = {}
<1> DEFINE left == Left(st, cohort)
           demand == st.demand
           D == 1 .. m
<1>1. IsFiniteSet(cohort) /\ IsFiniteSet(D)
  BY CohortFacts, FS_Interval
<1>2. \A n \in cohort : left[n] = Remaining(st, n) /\ left[n] \in Int /\ left[n] >= 0
  <2>1. \A n \in cohort : Remaining(st, n) \in Int
    BY DivisionTypes
  <2> QED
    BY <2>1 DEF Left
<1>3. demand \in [D -> Int] /\ DOMAIN demand = D /\ \A i \in D : demand[i] \in Int /\ demand[i] >= 0
  <2>1. demand \in [D -> Int]
    BY DivisionTypes
  <2> QED
    BY <2>1
<1>4. SumOver(left, cohort) = SumOver(demand, D)
  OBVIOUS
<1>5. Uncut(st, cohort) = {} <=> \A n \in cohort : left[n] = 0
  BY <1>2 DEF Uncut
<1>6. Unserved(st) = {} <=> \A i \in D : demand[i] = 0
  BY <1>3 DEF Unserved
<1> HIDE DEF left, demand, D
<1>7. /\ \A n \in cohort : left[n] \in Int
      /\ \A n \in cohort : left[n] >= 0
      /\ \A i \in D : demand[i] \in Int
      /\ \A i \in D : demand[i] >= 0
  BY <1>2, <1>3
<1>8. SumOver(left, cohort) = 0 <=> \A n \in cohort : left[n] = 0
  BY <1>1, <1>7, SumZero
<1>9. SumOver(demand, D) = 0 <=> \A i \in D : demand[i] = 0
  BY <1>1, <1>7, SumZero
<1> QED
  BY <1>4, <1>5, <1>6, <1>8, <1>9

\* A chunk that finishes its NFT or its target keeps everything placed.
LEMMA GiveKeeps ==
    ASSUME NEW cohort, IsCohort(cohort), NEW m \in Nat, NEW due, NEW st,
           Placed(st, cohort, m, due),
           NEW n \in cohort, NEW i \in 1 .. m, NEW amount \in Nat \ {0},
           amount <= Remaining(st, n), amount <= st.demand[i],
           amount = Remaining(st, n) \/ amount = st.demand[i],
           \A k \in DOMAIN st.chunks[n.id] : st.chunks[n.id][k].target # i
    PROVE  Placed(Give(st, n, i, amount), cohort, m, due)
<1> DEFINE after == Give(st, n, i, amount)
           cut == st.chunks[n.id]
           longer == after.chunks[n.id]
           rest(s) == SumOver(Left(s, cohort), cohort)
           N == Cardinality(cohort)
<1>0. /\ IsFiniteSet(cohort) /\ N \in Nat /\ \A k \in cohort : k.amount \in Nat \ {0}
      /\ st \in Divisions(Ids(cohort), m)
  BY CohortFacts DEF Placed
<1>1. /\ after \in Divisions(Ids(cohort), m) /\ Longer(longer, cut, m, i, amount)
      /\ after.demand[i] = st.demand[i] - amount
      /\ \A k \in (1 .. m) \ {i} : after.demand[k] = st.demand[k]
      /\ \A k \in cohort \ {n} : /\ after.chunks[k.id] = st.chunks[k.id]
                                 /\ Remaining(after, k) = Remaining(st, k)
      /\ Remaining(after, n) = Remaining(st, n) - amount
  <2>1. amount \in Int
    OBVIOUS
  <2> QED
    BY <1>0, <2>1, GiveEffect
<1> HIDE DEF after, cut, longer, N
<1>2. /\ st.demand \in [1 .. m -> Int] /\ after.demand \in [1 .. m -> Int]
      /\ DOMAIN st.demand = 1 .. m /\ DOMAIN after.demand = 1 .. m
  <2>1. st.demand \in [1 .. m -> Int]
    BY <1>0, DivisionTypes
  <2>2. after.demand \in [1 .. m -> Int]
    BY <1>1, DivisionTypes
  <2> QED
    BY <2>1, <2>2
<1>3. \A k \in cohort : Remaining(st, k) \in Int /\ Remaining(after, k) \in Int
  <2>1. \A k \in cohort : Remaining(st, k) \in Int
    BY <1>0, DivisionTypes
  <2>2. \A k \in cohort : Remaining(after, k) \in Int
    BY <1>1, DivisionTypes
  <2> QED
    BY <2>1, <2>2
<1>4. \A k \in cohort : \A j \in 1 .. m :
          Total(SharesOf(st.chunks[k.id], j)) \in Int /\ Total(SharesOf(after.chunks[k.id], j)) \in Int
  <2>1. \A k \in cohort : \A j \in 1 .. m : Total(SharesOf(st.chunks[k.id], j)) \in Int
    BY <1>0, DivisionTypes
  <2>2. \A k \in cohort : \A j \in 1 .. m : Total(SharesOf(after.chunks[k.id], j)) \in Int
    BY <1>1, DivisionTypes
  <2> QED
    BY <2>1, <2>2
<1>5. /\ cut = st.chunks[n.id] /\ longer = after.chunks[n.id]
      /\ Len(cut) \in Nat /\ DOMAIN cut = 1 .. Len(cut) /\ DOMAIN longer = 1 .. Len(longer)
  <2>1. Len(st.chunks[n.id]) \in Nat /\ DOMAIN st.chunks[n.id] = 1 .. Len(st.chunks[n.id])
    BY <1>0, DivisionTypes
  <2>2. DOMAIN after.chunks[n.id] = 1 .. Len(after.chunks[n.id])
    BY <1>1, DivisionTypes
  <2> QED
    BY <2>1, <2>2 DEF cut, longer
<1>6. /\ \A k \in 1 .. m : st.demand[k] >= 0
      /\ \A k \in cohort : GoodCut(st.chunks[k.id]) /\ Remaining(st, k) >= 0
      /\ rest(st) = SumOver(st.demand, 1 .. m)
  BY DEF Placed
<1>7. ASSUME NEW j \in 1 .. m
      PROVE  after.demand[j] >= 0 /\ Got(after, cohort, j) + after.demand[j] = due[j]
  <2>1. after.demand[j] >= 0
    BY <1>1, <1>2, <1>6
  <2> DEFINE f == [k \in cohort |-> Total(SharesOf(st.chunks[k.id], j))]
             g == [k \in cohort |-> Total(SharesOf(after.chunks[k.id], j))]
  <2>2. Got(st, cohort, j) = SumOver(f, cohort) /\ Got(after, cohort, j) = SumOver(g, cohort)
    BY DEF Got
  <2>3. \A k \in cohort : f[k] \in Int /\ g[k] \in Int
    BY <1>4
  <2>4. \A k \in cohort \ {n} : f[k] = g[k]
    BY <1>1
  <2>5. g[n] = f[n] + (IF j = i THEN amount ELSE 0)
    <3>1. f[n] = Total(SharesOf(cut, j)) /\ g[n] = Total(SharesOf(longer, j))
      BY <1>5
    <3> QED
      BY <1>1, <3>1 DEF Longer
  <2> HIDE DEF f, g
  <2>6. SumOver(g, cohort) = SumOver(f, cohort) + (g[n] - f[n])
    BY <1>0, <2>3, <2>4, SumChanged
  <2>7. Got(st, cohort, j) + st.demand[j] = due[j]
    BY DEF Placed
  <2>8. SumOver(f, cohort) \in Int
    BY <1>0, <2>3, SumType
  <2>9. after.demand[j] = st.demand[j] - (IF j = i THEN amount ELSE 0)
    BY <1>1, <1>2
  <2>10. st.demand[j] \in Int /\ f[n] \in Int /\ amount \in Int
    BY <1>2, <2>3
  <2>11. SumOver(g, cohort) + after.demand[j] = SumOver(f, cohort) + st.demand[j]
    BY ONLY <2>5, <2>6, <2>8, <2>9, <2>10
  <2> QED
    BY <2>1, <2>2, <2>7, <2>11
<1>8. ASSUME NEW k \in cohort PROVE GoodCut(after.chunks[k.id]) /\ Remaining(after, k) >= 0
  <2>1. CASE k # n
    BY <1>1, <1>6, <2>1
  <2>2. CASE k = n
    <3>1. Remaining(after, k) >= 0
      BY <1>1, <1>3, <1>6, <2>2
    <3>2. GoodCut(cut)
      BY <1>5, <1>6
    <3>3. /\ Len(longer) = Len(cut) + 1
          /\ longer[Len(longer)].target = i /\ longer[Len(longer)].amount = amount
          /\ \A h \in 1 .. Len(cut) : longer[h] = cut[h] /\ cut[h].target # i /\ cut[h].amount > 0
      <4>1. /\ longer[Len(cut) + 1] = Chunk(i, amount) /\ Len(longer) = Len(cut) + 1
            /\ \A h \in 1 .. Len(cut) : longer[h] = cut[h]
        BY <1>1 DEF Longer
      <4>2. Chunk(i, amount).target = i /\ Chunk(i, amount).amount = amount
        BY DEF Chunk
      <4>3. \A h \in 1 .. Len(cut) : cut[h].target # i /\ cut[h].amount > 0
        BY <1>5, <3>2 DEF GoodCut, cut
      <4> QED
        BY <4>1, <4>2, <4>3
    <3>4. \A h \in 1 .. Len(longer) : h \in 1 .. Len(cut) \/ h = Len(longer)
      BY <1>5, <3>3
    <3>5. \A h \in 1 .. Len(longer) : longer[h].amount > 0
      BY <3>3, <3>4
    <3>6. ASSUME NEW h \in 1 .. Len(longer), NEW j \in 1 .. Len(longer),
                 longer[h].target = longer[j].target
          PROVE  h = j
      <4>1. CASE h \in 1 .. Len(cut) /\ j \in 1 .. Len(cut)
        <5>1. cut[h].target = cut[j].target
          BY <3>3, <3>6, <4>1
        <5> QED
          BY <1>5, <3>2, <4>1, <5>1 DEF GoodCut
      <4>2. CASE h \in 1 .. Len(cut) /\ j = Len(longer)
        BY <3>3, <3>6, <4>2
      <4>3. CASE h = Len(longer) /\ j \in 1 .. Len(cut)
        BY <3>3, <3>6, <4>3
      <4>4. CASE h = Len(longer) /\ j = Len(longer)
        BY <4>4
      <4> QED
        BY <3>4, <4>1, <4>2, <4>3, <4>4
    <3> QED
      BY <1>5, <2>2, <3>1, <3>5, <3>6 DEF GoodCut
  <2> QED
    BY <2>1, <2>2
<1>9. rest(after) = SumOver(after.demand, 1 .. m)
  <2>1. rest(after) = rest(st) + (Remaining(after, n) - Remaining(st, n))
    <3> DEFINE f == Left(st, cohort)
               g == Left(after, cohort)
    <3>1. \A k \in cohort : f[k] = Remaining(st, k) /\ g[k] = Remaining(after, k)
      BY DEF Left
    <3> HIDE DEF f, g
    <3>2. \A k \in cohort : f[k] \in Int /\ g[k] \in Int
      BY <1>3, <3>1
    <3>3. \A k \in cohort \ {n} : f[k] = g[k]
      BY <1>1, <3>1
    <3>4. SumOver(g, cohort) = SumOver(f, cohort) + (g[n] - f[n])
      BY <1>0, <3>2, <3>3, SumChanged
    <3> QED
      BY <3>1, <3>4 DEF f, g
  <2>2. SumOver(after.demand, 1 .. m) = SumOver(st.demand, 1 .. m) + (after.demand[i] - st.demand[i])
    <3> DEFINE D == 1 .. m
               f == st.demand
               g == after.demand
    <3>1. \A k \in D : f[k] \in Int /\ g[k] \in Int
      BY <1>2
    <3>2. \A k \in D \ {i} : f[k] = g[k]
      BY <1>1
    <3>3. IsFiniteSet(D)
      BY FS_Interval
    <3>4. i \in D
      OBVIOUS
    <3> HIDE DEF D, f, g
    <3>5. ASSUME NEW y \in D, \A k \in D \ {y} : f[k] = g[k]
          PROVE  SumOver(g, D) = SumOver(f, D) + (g[y] - f[y])
      BY ONLY <3>1, <3>3, <3>5, SumChanged
    <3> QED
      BY <3>2, <3>4, <3>5 DEF D, f, g
  <2>3. Remaining(after, n) - Remaining(st, n) = after.demand[i] - st.demand[i]
    <3>1. Remaining(st, n) \in Int /\ st.demand[i] \in Int /\ amount \in Int
      BY <1>2, <1>3
    <3> QED
      BY <1>1, <3>1
  <2> QED
    BY <1>6, <2>1, <2>2, <2>3
<1> DEFINE u == Unserved(st)
           v == Uncut(st, cohort)
           u1 == Unserved(after)
           v1 == Uncut(after, cohort)
           P == Pieces(st, cohort)
           P1 == Pieces(after, cohort)
<1>10. P1 = P + 1 /\ P \in Int
  <2> DEFINE f == [k \in cohort |-> Len(st.chunks[k.id])]
             g == [k \in cohort |-> Len(after.chunks[k.id])]
  <2>1. P = SumOver(f, cohort) /\ P1 = SumOver(g, cohort)
    BY DEF Pieces
  <2>2. \A k \in cohort : Len(st.chunks[k.id]) \in Nat /\ Len(after.chunks[k.id]) \in Nat
    <3>1. \A k \in cohort : Len(st.chunks[k.id]) \in Nat
      BY <1>0, DivisionTypes
    <3>2. \A k \in cohort : Len(after.chunks[k.id]) \in Nat
      BY <1>1, DivisionTypes
    <3> QED
      BY <3>1, <3>2
  <2>3. \A k \in cohort : f[k] \in Int /\ g[k] \in Int
    BY <2>2
  <2>4. \A k \in cohort \ {n} : f[k] = g[k]
    BY <1>1
  <2>5. g[n] = f[n] + 1
    <3>1. f[n] = Len(cut) /\ g[n] = Len(longer)
      BY <1>5
    <3> QED
      BY <1>1, <3>1 DEF Longer
  <2> HIDE DEF f, g
  <2>6. SumOver(g, cohort) = SumOver(f, cohort) + (g[n] - f[n])
    BY <1>0, <2>3, <2>4, SumChanged
  <2>7. SumOver(f, cohort) \in Int /\ f[n] \in Int
    BY <1>0, <2>3, SumType
  <2> QED
    BY <2>1, <2>5, <2>6, <2>7
<1>11. /\ i \in u /\ n \in v /\ (u1 = u \/ u1 = u \ {i}) /\ (v1 = v \/ v1 = v \ {n})
       /\ (u1 = u \ {i} \/ v1 = v \ {n})
  <2>1. st.demand[i] \in Int /\ Remaining(st, n) \in Int
    BY <1>2, <1>3
  <2>2. st.demand[i] # 0 /\ Remaining(st, n) # 0
    BY <2>1
  <2>3. i \in u /\ n \in v
    BY <1>2, <2>2 DEF Unserved, Uncut
  <2>4. IF after.demand[i] = 0 THEN u1 = u \ {i} ELSE u1 = u
    <3>1. \A k \in 1 .. m : k \in u <=> st.demand[k] # 0
      BY <1>2 DEF Unserved
    <3>2. \A k \in 1 .. m : k \in u1 <=> after.demand[k] # 0
      BY <1>2 DEF Unserved
    <3>3. u \in SUBSET (1 .. m) /\ u1 \in SUBSET (1 .. m)
      BY <1>2 DEF Unserved
    <3> HIDE DEF u, u1
    <3>4. \A k \in 1 .. m : k # i => (k \in u1 <=> k \in u)
      BY <1>1, <3>1, <3>2
    <3>5. i \in u1 <=> after.demand[i] # 0
      BY <3>2
    <3>6. CASE after.demand[i] = 0
      <4>1. u1 = u \ {i}
        BY ONLY <3>3, <3>4, <3>5, <3>6
      <4> QED
        BY <3>6, <4>1
    <3>7. CASE after.demand[i] # 0
      <4>0. i \in u1 /\ i \in u
        BY <2>3, <3>5, <3>7
      <4>1. \A k \in 1 .. m : k \in u1 <=> k \in u
        BY <3>4, <4>0
      <4>2. u1 = u
        BY ONLY <3>3, <4>1
      <4> QED
        BY <3>7, <4>2
    <3> QED
      BY <3>6, <3>7
  <2>5. IF Remaining(after, n) = 0 THEN v1 = v \ {n} ELSE v1 = v
    <3>1. \A k \in cohort : k \in v <=> Remaining(st, k) # 0
      BY DEF Uncut
    <3>2. \A k \in cohort : k \in v1 <=> Remaining(after, k) # 0
      BY DEF Uncut
    <3>3. v \in SUBSET cohort /\ v1 \in SUBSET cohort
      BY DEF Uncut
    <3> HIDE DEF v, v1
    <3>4. \A k \in cohort : k # n => (k \in v1 <=> k \in v)
      BY <1>1, <3>1, <3>2
    <3>5. n \in v1 <=> Remaining(after, n) # 0
      BY <3>2
    <3> QED
      BY <2>3, <3>3, <3>4, <3>5
  <2>6. after.demand[i] = 0 \/ Remaining(after, n) = 0
    BY <1>1, <2>1
  <2> HIDE DEF u, u1, v, v1
  <2> QED
    BY <2>3, <2>4, <2>5, <2>6
<1>12. /\ IsFiniteSet(u) /\ IsFiniteSet(v) /\ Cardinality(u) \in Nat /\ Cardinality(v) \in Nat
       /\ Cardinality(u \ {i}) = Cardinality(u) - 1 /\ Cardinality(v \ {n}) = Cardinality(v) - 1
  <2>1. u \in SUBSET (1 .. m) /\ v \in SUBSET cohort
    BY <1>2 DEF Unserved, Uncut
  <2> HIDE DEF u, v
  <2>2. IsFiniteSet(u) /\ IsFiniteSet(v)
    <3>1. IsFiniteSet(1 .. m)
      BY FS_Interval
    <3>2. IsFiniteSet(u)
      BY <2>1, <3>1, FS_Subset
    <3>3. IsFiniteSet(v)
      BY <1>0, <2>1, FS_Subset
    <3> QED
      BY <3>2, <3>3
  <2>3. Cardinality(u) \in Nat /\ Cardinality(v) \in Nat
    BY <2>2, FS_CardinalityType
  <2>4. Cardinality(u \ {i}) = Cardinality(u) - 1 /\ Cardinality(v \ {n}) = Cardinality(v) - 1
    BY <1>11, <2>2, FS_RemoveElement
  <2> QED
    BY <2>2, <2>3, <2>4
<1>13. P + Cardinality(u) + Cardinality(v) <= N + m
  BY DEF Placed, N
<1>14. v1 = {} => u1 = {}
  <2>1. /\ \A k \in 1 .. m : after.demand[k] >= 0
        /\ \A k \in cohort : Remaining(after, k) >= 0
        /\ SumOver(Left(after, cohort), cohort) = SumOver(after.demand, 1 .. m)
    BY <1>7, <1>8, <1>9
  <2> QED
    BY <1>1, <2>1, NothingLeft
<1> HIDE DEF u, v, u1, v1, P, P1
<1>15. /\ P1 + Cardinality(u1) + Cardinality(v1) <= N + m
       /\ v1 = {} => P1 < N + m
  <2>0. /\ N \in Int /\ m \in Int /\ P \in Int /\ P1 = P + 1
        /\ Cardinality(u) \in Int /\ Cardinality(v) \in Int
    BY <1>0, <1>10, <1>12
  <2>1. CASE u1 = u \ {i} /\ v1 = v \ {n}
    <3>1. Cardinality(u1) = Cardinality(u) - 1 /\ Cardinality(v1) = Cardinality(v) - 1
      BY <1>12, <2>1
    <3>2. Cardinality(u1) \in Nat /\ Cardinality(v1) \in Nat
      <4>1. Cardinality(u) >= 1 /\ Cardinality(v) >= 1
        BY <1>11, <1>12, FS_EmptySet
      <4> QED
        BY <2>0, <3>1, <4>1
    <3> HIDE DEF rest
    <3> QED
      BY <2>0, <1>13, <3>1, <3>2
  <2>2. CASE u1 = u /\ v1 = v \ {n}
    <3>1. v1 # {}
      BY <1>11, <1>14, <2>2
    <3> QED
      BY <1>0, <1>10, <1>12, <1>13, <2>2, <3>1
  <2>3. CASE u1 = u \ {i} /\ v1 = v
    <3>1. v1 # {}
      BY <1>11, <2>3
    <3> QED
      BY <1>0, <1>10, <1>12, <1>13, <2>3, <3>1
  <2> QED
    BY <1>11, <2>1, <2>2, <2>3
<1> QED
  <2>1. after \in Divisions(Ids(cohort), m)
    BY <1>1
  <2>2. /\ Pieces(after, cohort) + Cardinality(Unserved(after)) + Cardinality(Uncut(after, cohort))
             <= Cardinality(cohort) + m
        /\ Uncut(after, cohort) = {} => Pieces(after, cohort) < Cardinality(cohort) + m
    BY <1>15 DEF u1, v1, P1, N
  <2>3. Placed(after, cohort, m, due)
    BY <1>7, <1>8, <1>9, <2>1, <2>2 DEF Placed
  <2> QED
    BY <2>3 DEF after

-------------------------------------------------------------------------------
(***************************************************************************)
(* The passes                                                              *)
(***************************************************************************)

\* An NFT that is uncut or used up: one the passes keep whole so far.
Whole(st, n) == st.chunks[n.id] = <<>> \/ Remaining(st, n) = 0

\* An NFT that is used up, or whose chunks have each exhausted their targets.
Spent(st, n) ==
    \/ Remaining(st, n) = 0
    \/ \A k \in DOMAIN st.chunks[n.id] : st.demand[st.chunks[n.id][k].target] = 0

\* Only n was cut between the two states.
OnlyCuts(after, st, cohort, n) == \A k \in cohort \ {n} : after.chunks[k.id] = st.chunks[k.id]

\* All of an NFT remains before it is first cut.
LEMMA UncutRemains ==
    ASSUME NEW st, NEW n, st.chunks[n.id] = <<>>, n.amount \in Nat
    PROVE  Remaining(st, n) = n.amount
<1> DEFINE sizes == [i \in DOMAIN st.chunks[n.id] |-> st.chunks[n.id][i].amount]
<1>1. DOMAIN sizes = {}
  OBVIOUS
<1>2. Total(sizes) = SumOver(sizes, {})
  BY <1>1 DEF Total, SumOver
<1>3. Total(sizes) = 0
  BY <1>2, SumEmpty
<1>4. Remaining(st, n) = n.amount - Total(sizes)
  BY DEF Remaining
<1> QED
  BY <1>3, <1>4

\* A whole NFT given to a target that has room for it.
LEMMA GiveWhole ==
    ASSUME NEW cohort, IsCohort(cohort), NEW m \in Nat, NEW due, NEW st,
           Placed(st, cohort, m, due), NEW n \in cohort, st.chunks[n.id] = <<>>,
           NEW i \in 1 .. m, st.demand[i] >= n.amount
    PROVE  LET after == Give(st, n, i, n.amount)
           IN  Placed(after, cohort, m, due) /\ OnlyCuts(after, st, cohort, n) /\ Whole(after, n)
<1> DEFINE after == Give(st, n, i, n.amount)
           amount == n.amount
<1>1. amount \in Nat \ {0} /\ st \in Divisions(Ids(cohort), m)
  BY CohortFacts DEF Placed
<1>2. Remaining(st, n) = amount
  BY <1>1, UncutRemains
<1>3. st.demand[i] \in Int /\ amount <= st.demand[i]
  <2>1. st.demand \in [1 .. m -> Int]
    BY <1>1, DivisionTypes
  <2> QED
    BY <1>1, <2>1
<1>4. \A k \in DOMAIN st.chunks[n.id] : st.chunks[n.id][k].target # i
  <2>1. DOMAIN st.chunks[n.id] = {}
    OBVIOUS
  <2> QED
    BY <2>1
<1> HIDE DEF amount
<1>5. Placed(Give(st, n, i, amount), cohort, m, due)
  <2>1. amount <= Remaining(st, n) /\ amount = Remaining(st, n)
    BY <1>1, <1>2
  <2> QED
    BY <1>1, <1>3, <1>4, <2>1, GiveKeeps
<1>6. /\ \A k \in cohort \ {n} : after.chunks[k.id] = st.chunks[k.id]
      /\ Remaining(after, n) = Remaining(st, n) - amount
  <2>1. amount \in Int
    BY <1>1
  <2>2. LET given == Give(st, n, i, amount)
        IN  /\ \A k \in cohort \ {n} : given.chunks[k.id] = st.chunks[k.id]
            /\ Remaining(given, n) = Remaining(st, n) - amount
    BY <1>1, <2>1, GiveEffect
  <2> QED
    BY <2>2 DEF amount
<1>7. Remaining(after, n) = 0
  BY <1>1, <1>2, <1>6
<1> QED
  BY <1>5, <1>6, <1>7 DEF amount, OnlyCuts, Whole

\* The first pass gives an NFT whole or leaves it as it is.
LEMMA KeepWholeKeeps ==
    ASSUME NEW cohort, IsCohort(cohort), NEW m \in Nat, NEW due, NEW st,
           Placed(st, cohort, m, due), NEW n \in cohort, st.chunks[n.id] = <<>>, NEW targets
    PROVE  LET after == KeepWhole(targets, st, n)
           IN  Placed(after, cohort, m, due) /\ OnlyCuts(after, st, cohort, n) /\ Whole(after, n)
<1>1. st \in Divisions(Ids(cohort), m)
  BY DEF Placed
<1>2. CASE KeepWhole(targets, st, n) = st
  BY <1>2 DEF OnlyCuts, Whole
<1>3. CASE KeepWhole(targets, st, n) # st
  <2>1. PICK i \in Fitting(st, n) : i \in 1 .. m /\ KeepWhole(targets, st, n) = Give(st, n, i, n.amount)
    BY <1>1, <1>3, KeepWholeGives
  <2>2. st.demand[i] >= n.amount
    BY DEF Fitting
  <2> QED
    BY <2>1, <2>2, GiveWhole
<1> QED
  BY <1>2, <1>3

\* So does the second.
LEMMA FitWholeKeeps ==
    ASSUME NEW cohort, IsCohort(cohort), NEW m \in Nat, NEW due, NEW st,
           Placed(st, cohort, m, due), NEW n \in cohort, Whole(st, n)
    PROVE  LET after == FitWhole(st, n)
           IN  Placed(after, cohort, m, due) /\ OnlyCuts(after, st, cohort, n) /\ Whole(after, n)
<1>1. st \in Divisions(Ids(cohort), m)
  BY DEF Placed
<1>2. CASE FitWhole(st, n) = st
  BY <1>2 DEF OnlyCuts
<1>3. CASE FitWhole(st, n) # st
  <2>1. PICK i \in Fitting(st, n) : i \in 1 .. m /\ FitWhole(st, n) = Give(st, n, i, n.amount)
    BY <1>1, <1>3, FitWholeGives
  <2>2. st.demand[i] >= n.amount
    BY DEF Fitting
  <2>3. st.chunks[n.id] = <<>>
    BY <1>1, <1>3, FitWholeGives DEF Assigned
  <2> QED
    BY <2>1, <2>2, <2>3, GiveWhole
<1> QED
  BY <1>2, <1>3

\* One turn of the third pass: the NFT is used up, or there is a target less to serve.
LEMMA CutKeeps ==
    ASSUME NEW cohort, IsCohort(cohort), NEW m \in Nat, NEW due, NEW st,
           Placed(st, cohort, m, due), NEW n \in cohort, Spent(st, n), NEW targets
    PROVE  LET after == Cut(targets, st, n)
           IN  /\ Placed(after, cohort, m, due) /\ OnlyCuts(after, st, cohort, n)
               /\ Spent(after, n)
               /\ \/ Remaining(after, n) = 0
                  \/ \E i \in Unserved(st) : Unserved(after) = Unserved(st) \ {i}
<1> DEFINE after == Cut(targets, st, n)
           cut == st.chunks[n.id]
           longer == after.chunks[n.id]
<1>1. /\ st \in Divisions(Ids(cohort), m) /\ n.id \in Ids(cohort) /\ n.amount \in Int
      /\ \A i \in 1 .. m : st.demand[i] >= 0
      /\ \A k \in cohort : Remaining(st, k) >= 0
  BY CohortFacts DEF Placed
<1>2. /\ st.demand \in [1 .. m -> Int] /\ DOMAIN st.demand = 1 .. m
      /\ Remaining(st, n) \in Int /\ Len(cut) \in Nat /\ DOMAIN cut = 1 .. Len(cut)
      /\ cut \in Seq(Chunks(m))
  <2>1. st.demand \in [1 .. m -> Int]
    BY <1>1, DivisionTypes
  <2>2. /\ Remaining(st, n) \in Int /\ Len(cut) \in Nat /\ DOMAIN cut = 1 .. Len(cut)
        /\ cut \in Seq(Chunks(m))
    BY <1>1, DivisionTypes
  <2> QED
    BY <2>1, <2>2
<1>3. CASE after = st /\ Remaining(st, n) = 0
  BY <1>3 DEF OnlyCuts
<1>4. CASE after = st /\ Unserved(st) = {}
  <2>1. Uncut(st, cohort) = {}
    BY <1>1, <1>4, NothingLeft DEF Placed
  <2>2. Remaining(st, n) = 0
    BY <2>1 DEF Uncut
  <2> QED
    BY <1>4, <2>2 DEF OnlyCuts
<1>5. CASE ~(after = st /\ (Remaining(st, n) = 0 \/ Unserved(st) = {}))
  <2>1. /\ Remaining(st, n) # 0
        /\ \E i \in Unserved(st), amount \in Int :
              /\ i \in 1 .. m /\ amount <= Remaining(st, n) /\ amount <= st.demand[i]
              /\ amount = Remaining(st, n) \/ amount = st.demand[i]
              /\ after = Give(st, n, i, amount)
    BY <1>1, <1>5, CutGives
  <2>2. PICK i \in Unserved(st), amount \in Int :
              /\ i \in 1 .. m /\ amount <= Remaining(st, n) /\ amount <= st.demand[i]
              /\ amount = Remaining(st, n) \/ amount = st.demand[i]
              /\ after = Give(st, n, i, amount)
    BY <2>1
  <2> HIDE DEF after
  <2>3. st.demand[i] # 0 /\ st.demand[i] \in Int
    BY <1>2, <2>2 DEF Unserved
  <2>4. amount \in Nat \ {0}
    BY <1>1, <1>2, <2>1, <2>2, <2>3
  <2>5. \A k \in DOMAIN cut : st.demand[cut[k].target] = 0 /\ cut[k].target # i
    BY <2>1, <2>3 DEF Spent
  <2>6. Placed(after, cohort, m, due)
    <3>1. /\ i \in 1 .. m /\ amount <= Remaining(st, n) /\ amount <= st.demand[i]
          /\ amount = Remaining(st, n) \/ amount = st.demand[i]
          /\ \A k \in DOMAIN st.chunks[n.id] : st.chunks[n.id][k].target # i
      BY <2>2, <2>5
    <3>2. Placed(Give(st, n, i, amount), cohort, m, due)
      BY <2>4, <3>1, GiveKeeps
    <3> QED
      BY <2>2, <3>2
  <2>7. /\ Longer(longer, cut, m, i, amount) /\ after \in Divisions(Ids(cohort), m)
        /\ after.demand[i] = st.demand[i] - amount
        /\ \A k \in (1 .. m) \ {i} : after.demand[k] = st.demand[k]
        /\ \A k \in cohort \ {n} : after.chunks[k.id] = st.chunks[k.id]
        /\ Remaining(after, n) = Remaining(st, n) - amount
    <3>1. i \in 1 .. m
      BY <2>2
    <3>2. LET given == Give(st, n, i, amount)
          IN  /\ Longer(given.chunks[n.id], st.chunks[n.id], m, i, amount)
              /\ given \in Divisions(Ids(cohort), m)
              /\ given.demand[i] = st.demand[i] - amount
              /\ \A k \in (1 .. m) \ {i} : given.demand[k] = st.demand[k]
              /\ \A k \in cohort \ {n} : given.chunks[k.id] = st.chunks[k.id]
              /\ Remaining(given, n) = Remaining(st, n) - amount
      BY <1>1, <3>1, GiveEffect
    <3> QED
      BY <2>2, <3>2
  <2>8. OnlyCuts(after, st, cohort, n)
    BY <2>7 DEF OnlyCuts
  <2>9. CASE amount = Remaining(st, n)
    <3>1. Remaining(after, n) = 0
      BY <1>2, <2>7, <2>9
    <3> QED
      BY <2>6, <2>8, <3>1 DEF Spent, after
  <2>10. CASE amount = st.demand[i]
    <3>1. after.demand[i] = 0
      BY <2>3, <2>7, <2>10
    <3>2. DOMAIN after.demand = 1 .. m
      <4>1. after.demand \in [1 .. m -> Int]
        BY <2>7, DivisionTypes
      <4> QED
        BY <4>1
    <3>3. Unserved(after) = Unserved(st) \ {i}
      <4>1. \A k \in 1 .. m : k \in Unserved(after) <=> after.demand[k] # 0
        BY <3>2 DEF Unserved
      <4>2. \A k \in 1 .. m : k \in Unserved(st) <=> st.demand[k] # 0
        BY <1>2 DEF Unserved
      <4>3. Unserved(st) \in SUBSET (1 .. m) /\ Unserved(after) \in SUBSET (1 .. m)
        BY <1>2, <3>2 DEF Unserved
      <4>4. \A k \in 1 .. m : k # i => (k \in Unserved(after) <=> k \in Unserved(st))
        BY <2>7, <4>1, <4>2
      <4>5. i \notin Unserved(after)
        BY <3>1 DEF Unserved
      <4>6. \A k \in 1 .. m : k \in Unserved(after) <=> k \in Unserved(st) \ {i}
        BY <4>4, <4>5
      <4> QED
        BY ONLY <4>3, <4>6
    <3>4. ASSUME NEW k \in DOMAIN longer PROVE after.demand[longer[k].target] = 0
      <4>1. DOMAIN longer = 1 .. Len(longer) /\ Len(longer) = Len(cut) + 1
        <5>1. DOMAIN longer = 1 .. Len(longer)
          BY <2>7, DivisionTypes
        <5> QED
          BY <2>7, <5>1 DEF Longer
      <4>2. longer[Len(cut) + 1].target = i
        <5>1. longer[Len(cut) + 1] = Chunk(i, amount) /\ Chunk(i, amount).target = i
          BY <2>7 DEF Longer, Chunk
        <5> QED
          BY <5>1
      <4>3. CASE k = Len(cut) + 1
        BY <3>1, <4>2, <4>3
      <4>4. CASE k \in 1 .. Len(cut)
        <5>1. longer[k] = cut[k]
          BY <2>7, <4>4 DEF Longer
        <5>2. st.demand[cut[k].target] = 0 /\ cut[k].target # i
          BY <1>2, <2>5, <4>4
        <5>3. cut[k].target \in 1 .. m
          <6>1. \A c \in Chunks(m) : c.target \in 1 .. m
            BY DEF Chunks
          <6> HIDE DEF cut
          <6> QED
            BY <1>2, <4>4, <6>1
        <5> QED
          BY <2>7, <5>1, <5>2, <5>3
      <4>5. k \in 1 .. Len(cut) \/ k = Len(cut) + 1
        <5>1. k \in 1 .. (Len(cut) + 1)
          BY <4>1
        <5> HIDE DEF cut, longer
        <5> QED
          BY <1>2, <5>1
      <4> QED
        BY <4>3, <4>4, <4>5
    <3>5. Spent(after, n)
      BY <3>4 DEF Spent
    <3> QED
      BY <2>2, <2>6, <2>8, <3>3, <3>5 DEF after
  <2> QED
    BY <2>2, <2>9, <2>10
<1> QED
  BY <1>3, <1>4, <1>5

\* The whole third pass for one NFT uses it up.
LEMMA SplitOverKeeps ==
    ASSUME NEW cohort, IsCohort(cohort), NEW T, NEW targets \in Seq(T), NEW due, NEW st,
           Placed(st, cohort, Len(targets), due), NEW n \in cohort, Whole(st, n)
    PROVE  LET after == SplitOver(targets, st, n)
           IN  /\ Placed(after, cohort, Len(targets), due) /\ OnlyCuts(after, st, cohort, n)
               /\ Remaining(after, n) = 0
<1> DEFINE m == Len(targets)
           Fewer(d, k) == Remaining(d, n) = 0 \/ Cardinality(Unserved(d)) <= m - k
           Good(d, k) == Placed(d, cohort, m, due) /\ OnlyCuts(d, st, cohort, n) /\ Spent(d, n) /\ Fewer(d, k)
<1>0. m \in Nat /\ st \in Divisions(Ids(cohort), m) /\ n.id \in Ids(cohort) /\ n.amount \in Int
  BY CohortFacts DEF Placed
<1>1. PICK g \in [0 .. m -> Divisions(Ids(cohort), m)] :
          /\ g[0] = st /\ SplitOver(targets, st, n) = g[m]
          /\ \A k \in 1 .. m : g[k] = Cut(targets, g[k - 1], n)
  BY <1>0, SplitOverRun
<1>2. ASSUME NEW d, Placed(d, cohort, m, due)
      PROVE  /\ IsFiniteSet(Unserved(d)) /\ Cardinality(Unserved(d)) \in Nat
             /\ Cardinality(Unserved(d)) <= m
  <2>1. d.demand \in [1 .. m -> Int]
    BY <1>0, <1>2, DivisionTypes DEF Placed
  <2>2. Unserved(d) \in SUBSET (1 .. m)
    BY <2>1 DEF Unserved
  <2>3. IsFiniteSet(1 .. m) /\ Cardinality(1 .. m) = m
    <3> HIDE DEF m
    <3>1. m \in Nat
      BY <1>0
    <3>2. Cardinality(1 .. m) = IF 1 > m THEN 0 ELSE (m - 1) + 1
      BY <3>1, FS_Interval
    <3> QED
      BY <3>1, <3>2, FS_Interval
  <2>4. IsFiniteSet(Unserved(d)) /\ Cardinality(Unserved(d)) <= Cardinality(1 .. m)
    BY <2>2, <2>3, FS_Subset
  <2> QED
    BY <2>3, <2>4, FS_CardinalityType
<1> HIDE DEF m
<1>3. Good(st, 0)
  <2>1. Spent(st, n)
    BY DEF Whole, Spent
  <2>2. Placed(st, cohort, m, due)
    BY DEF m
  <2>3. Fewer(st, 0)
    BY <1>0, <1>2, <2>2
  <2> QED
    BY <2>1, <2>2, <2>3 DEF OnlyCuts
<1>4. ASSUME NEW k \in 1 .. m, NEW d, Good(d, k - 1) PROVE Good(Cut(targets, d, n), k)
  <2> DEFINE e == Cut(targets, d, n)
  <2>1. /\ Placed(e, cohort, m, due) /\ OnlyCuts(e, d, cohort, n) /\ Spent(e, n)
        /\ Remaining(e, n) = 0 \/ \E i \in Unserved(d) : Unserved(e) = Unserved(d) \ {i}
    BY <1>0, <1>4, CutKeeps
  <2> HIDE DEF e
  <2>2. OnlyCuts(e, st, cohort, n)
    BY <1>4, <2>1 DEF OnlyCuts
  <2>3. Fewer(e, k)
    <3>1. CASE Remaining(e, n) # 0
      <4>1. PICK i \in Unserved(d) : Unserved(e) = Unserved(d) \ {i}
        BY <2>1, <3>1
      <4>2. IsFiniteSet(Unserved(d)) /\ Cardinality(Unserved(d)) \in Nat /\ Cardinality(Unserved(d)) <= m
        BY <1>2, <1>4
      <4>3. Cardinality(Unserved(e)) = Cardinality(Unserved(d)) - 1
        BY <4>1, <4>2, FS_RemoveElement
      <4>4. CASE Cardinality(Unserved(d)) <= m - (k - 1)
        BY <1>0, <4>2, <4>3, <4>4
      <4>5. CASE Remaining(d, n) = 0
        <5>1. e = d
          BY <1>0, <1>4, <4>5, CutGives DEF e, Placed
        <5> QED
          BY <3>1, <4>5, <5>1
      <4> QED
        BY <1>4, <4>4, <4>5
    <3> QED
      BY <3>1
  <2> QED
    BY <2>1, <2>2, <2>3 DEF e
<1>5. Good(g[m], m)
  <2> DEFINE h == [k \in 0 .. m |-> Good(g[k], k)]
             V == {TRUE}
  <2>1. h[0] \in V
    <3>1. Good(g[0], 0) /\ 0 \in 0 .. m
      BY <1>0, <1>1, <1>3
    <3> HIDE DEF Good
    <3> QED
      BY <3>1
  <2>2. ASSUME NEW k \in 1 .. m, h[k - 1] \in V PROVE h[k] \in V
    <3>1. k - 1 \in 0 .. m /\ k \in 0 .. m
      BY <1>0
    <3>2. Good(g[k - 1], k - 1)
      BY <2>2, <3>1
    <3>3. Good(Cut(targets, g[k - 1], n), k)
      BY <1>4, <3>2
    <3>4. Good(g[k], k)
      BY <1>1, <3>3
    <3> QED
      BY <3>1, <3>4
  <2> HIDE DEF h, V
  <2>3. \A k \in 0 .. m : h[k] \in V
    <3>1. \A k \in 1 .. m : h[k - 1] \in V => h[k] \in V
      BY <2>2
    <3> QED
      BY <1>0, <2>1, <3>1, RangeRecursionType
  <2>4. m \in 0 .. m
    BY <1>0
  <2> QED
    BY <2>3, <2>4 DEF h, V
<1>6. Remaining(g[m], n) = 0
  <2>1. CASE Cardinality(Unserved(g[m])) <= m - m
    <3>1. Cardinality(Unserved(g[m])) = 0 /\ IsFiniteSet(Unserved(g[m]))
      BY <1>0, <1>2, <1>5, <2>1
    <3>2. Unserved(g[m]) = {}
      BY <3>1, FS_EmptySet
    <3>3. Uncut(g[m], cohort) = {}
      BY <1>0, <1>5, <3>2, NothingLeft DEF Placed
    <3> QED
      BY <3>3 DEF Uncut
  <2> QED
    BY <1>5, <2>1
<1> QED
  BY <1>1, <1>5, <1>6 DEF m

-------------------------------------------------------------------------------
(***************************************************************************)
(* allocateCohort                                                          *)
(***************************************************************************)

\* A list of targets whose weights are naturals that sum to the whole.
Weighted(targets) ==
    /\ targets \in Seq(Range(targets))
    /\ \A i \in DOMAIN targets : targets[i].weight \in Nat
    /\ Total([i \in DOMAIN targets |-> targets[i].weight]) = BpsTotal

\* What apportionAmounts gives the targets of the stake of a cohort: all of it, each its
\* fair share, and the last unit where most was cut off.
THEOREM DemandFair ==
    ASSUME NEW cohort, IsCohort(cohort), NEW targets, Weighted(targets)
    PROVE  LET stake == StakeOf(cohort)
               demand == ApportionAmounts(stake, targets)
               cut(i) == stake * targets[i].weight - demand[i] * BpsTotal
           IN  /\ stake \in Nat /\ demand \in [1 .. Len(targets) -> Nat] /\ Total(demand) = stake
               /\ \A i \in 1 .. Len(targets) : -BpsTotal < cut(i) /\ cut(i) < BpsTotal
               /\ \A i, k \in 1 .. Len(targets) : cut(i) > 0 /\ cut(k) < 0 =>
                      (stake * targets[i].weight) % BpsTotal <= (stake * targets[k].weight) % BpsTotal
<1> DEFINE amounts == [n \in cohort |-> n.amount]
           shares == [i \in DOMAIN targets |-> targets[i].weight]
           stake == StakeOf(cohort)
           demand == ApportionAmounts(stake, targets)
           D == 1 .. Len(targets)
<1>1. DOMAIN targets = D /\ Len(targets) \in Nat
  BY DEF Weighted
<1>2. IsFiniteSet(cohort) /\ amounts \in [cohort -> Int] /\ \A n \in cohort : amounts[n] >= 0
  BY CohortFacts
<1>3. stake = Total(amounts)
  BY DEF StakeOf
<1>4. shares \in [D -> Nat] /\ Total(shares) = BpsTotal /\ \A i \in D : shares[i] = targets[i].weight
  BY <1>1 DEF Weighted
<1>5. demand = Apportion(stake, shares, BpsTotal)
  BY DEF ApportionAmounts
<1>6. D \in SUBSET Int /\ IsFiniteSet(D)
  BY <1>1, FS_Interval
<1> HIDE DEF amounts, shares, stake, demand, D
<1>7. stake \in Nat
  <2>1. Total(amounts) \in Int /\ Total(amounts) >= 0
    BY <1>2, TotalType
  <2> QED
    BY <1>3, <2>1
<1>8. LET a == Apportion(stake, shares, BpsTotal)
          cut(i) == stake * shares[i] - a[i] * BpsTotal
      IN  /\ a \in [D -> Nat] /\ Total(a) = stake
          /\ \A i \in D : -BpsTotal < cut(i) /\ cut(i) < BpsTotal
          /\ \A i, k \in D : cut(i) > 0 /\ cut(k) < 0 =>
                 (stake * shares[i]) % BpsTotal <= (stake * shares[k]) % BpsTotal
  BY <1>4, <1>6, <1>7, BpsAssumption, ApportionFair
<1>9. /\ demand \in [D -> Nat] /\ Total(demand) = stake
      /\ \A i \in D : /\ -BpsTotal < stake * targets[i].weight - demand[i] * BpsTotal
                      /\ stake * targets[i].weight - demand[i] * BpsTotal < BpsTotal
      /\ \A i, k \in D : /\ stake * targets[i].weight - demand[i] * BpsTotal > 0
                         /\ stake * targets[k].weight - demand[k] * BpsTotal < 0
             => (stake * targets[i].weight) % BpsTotal <= (stake * targets[k].weight) % BpsTotal
  BY <1>4, <1>5, <1>8
<1> QED
  BY <1>7, <1>9 DEF stake, demand, D

\* Before the first pass everything is demanded and nothing is cut.
LEMMA StartPlaced ==
    ASSUME NEW cohort, IsCohort(cohort), NEW targets, Weighted(targets)
    PROVE  /\ Placed(Start(cohort, targets), cohort, Len(targets),
                     ApportionAmounts(StakeOf(cohort), targets))
           /\ \A n \in cohort : Start(cohort, targets).chunks[n.id] = <<>>
<1> DEFINE m == Len(targets)
           st == Start(cohort, targets)
           due == ApportionAmounts(StakeOf(cohort), targets)
           C == Chunks(m)
           N == Cardinality(cohort)
<1>0. m \in Nat /\ DOMAIN targets = 1 .. m
  BY DEF Weighted
<1>1. due \in [1 .. m -> Nat] /\ Total(due) = StakeOf(cohort) /\ StakeOf(cohort) \in Nat
  BY DemandFair
<1>2. st.demand = due /\ st.chunks = [id \in Ids(cohort) |-> <<>>]
  BY DEF Start, Ids
<1>3. /\ IsFiniteSet(cohort) /\ N \in Nat
      /\ \A n \in cohort : n.id \in Ids(cohort) /\ n.amount \in Nat \ {0}
  BY CohortFacts
<1>4. \A n \in cohort : st.chunks[n.id] = <<>>
  BY <1>2, <1>3
<1>5. st \in Divisions(Ids(cohort), m)
  <2>1. <<>> \in Seq(C)
    OBVIOUS
  <2>2. st.demand \in [1 .. m -> Int]
    BY <1>1, <1>2
  <2>3. st.chunks \in [Ids(cohort) -> Seq(C)]
    <3> HIDE DEF C, st
    <3> QED
      BY <1>2, <2>1
  <2>4. st = [demand |-> due, chunks |-> [id \in Ids(cohort) |-> <<>>]]
    BY DEF Start, Ids
  <2> HIDE DEF due, m
  <2> QED
    BY <1>2, <2>2, <2>3, <2>4 DEF Divisions, Chunks, C
<1> HIDE DEF st, due, m
<1>6. \A n \in cohort : Remaining(st, n) = n.amount
  BY <1>3, <1>4, UncutRemains
<1>7. ASSUME NEW i \in 1 .. m PROVE st.demand[i] >= 0 /\ Got(st, cohort, i) + st.demand[i] = due[i]
  <2> DEFINE f == [n \in cohort |-> Total(SharesOf(st.chunks[n.id], i))]
  <2>1. \A n \in cohort : f[n] = 0
    <3>1. SharesOf(<<>>, i) = [k \in {} |-> 0]
      BY DEF SharesOf
    <3>2. Total([k \in {} |-> 0]) = SumOver([k \in {} |-> 0], {})
      BY DEF Total, SumOver
    <3>3. Total(SharesOf(<<>>, i)) = 0
      BY <3>1, <3>2, SumEmpty
    <3> QED
      BY <1>4, <3>3
  <2>2. Got(st, cohort, i) = SumOver(f, cohort)
    BY DEF Got
  <2> HIDE DEF f
  <2>3. \A n \in cohort : f[n] \in Int
    BY <2>1
  <2>4. SumOver(f, cohort) = 0
    BY <1>3, <2>1, <2>3, SumZero
  <2> QED
    BY <1>1, <1>2, <2>2, <2>4
<1>8. ASSUME NEW n \in cohort PROVE GoodCut(st.chunks[n.id]) /\ Remaining(st, n) >= 0
  <2>1. DOMAIN st.chunks[n.id] = {}
    BY <1>4
  <2>2. GoodCut(st.chunks[n.id])
    BY <2>1 DEF GoodCut
  <2> QED
    BY <1>3, <1>6, <2>2
<1>9. SumOver(Left(st, cohort), cohort) = SumOver(st.demand, 1 .. m)
  <2> DEFINE amounts == [n \in cohort |-> n.amount]
             left == Left(st, cohort)
  <2>1. \A n \in cohort : left[n] \in Int /\ left[n] = amounts[n]
    BY <1>3, <1>6 DEF Left
  <2>2. StakeOf(cohort) = SumOver(amounts, cohort)
    BY DEF StakeOf, Total, SumOver
  <2>3. Total(due) = SumOver(due, 1 .. m)
    BY <1>1 DEF Total, SumOver
  <2> HIDE DEF amounts, left
  <2>4. SumOver(left, cohort) = SumOver(amounts, cohort)
    BY <1>3, <2>1, SumSame
  <2> QED
    BY <1>1, <1>2, <2>2, <2>3, <2>4 DEF left
<1>10. Pieces(st, cohort) = 0
  <2> DEFINE f == [n \in cohort |-> Len(st.chunks[n.id])]
  <2>1. \A n \in cohort : f[n] = 0 /\ f[n] \in Int
    BY <1>4
  <2>2. Pieces(st, cohort) = SumOver(f, cohort)
    BY DEF Pieces
  <2> HIDE DEF f
  <2> QED
    BY <1>3, <2>1, <2>2, SumZero
<1>11. /\ Cardinality(Unserved(st)) \in Nat /\ Cardinality(Unserved(st)) <= m
       /\ Cardinality(Uncut(st, cohort)) \in Nat /\ Cardinality(Uncut(st, cohort)) <= N
  <2>1. Unserved(st) \in SUBSET (1 .. m) /\ Uncut(st, cohort) \in SUBSET cohort
    BY <1>1, <1>2 DEF Unserved, Uncut
  <2>2. IsFiniteSet(1 .. m) /\ Cardinality(1 .. m) = m
    <3>1. Cardinality(1 .. m) = IF 1 > m THEN 0 ELSE (m - 1) + 1
      BY <1>0, FS_Interval
    <3> QED
      BY <1>0, <3>1, FS_Interval
  <2>3. IsFiniteSet(Unserved(st)) /\ Cardinality(Unserved(st)) <= Cardinality(1 .. m)
    BY <2>1, <2>2, FS_Subset
  <2>4. IsFiniteSet(Uncut(st, cohort)) /\ Cardinality(Uncut(st, cohort)) <= N
    BY <1>3, <2>1, FS_Subset
  <2> QED
    BY <2>2, <2>3, <2>4, FS_CardinalityType
<1>12. m > 0
  <2> SUFFICES ASSUME m = 0 PROVE FALSE
    BY <1>0
  <2> DEFINE shares == [i \in DOMAIN targets |-> targets[i].weight]
  <2>1. DOMAIN targets = {}
    BY <1>0
  <2>2. Total(shares) = SumOver(shares, {})
    BY <2>1 DEF Total, SumOver
  <2>3. Total(shares) = BpsTotal
    BY DEF Weighted
  <2> HIDE DEF shares
  <2> QED
    BY <2>2, <2>3, SumEmpty, BpsAssumption
<1>13. /\ Pieces(st, cohort) + Cardinality(Unserved(st)) + Cardinality(Uncut(st, cohort)) <= N + m
       /\ Pieces(st, cohort) < N + m
  BY <1>0, <1>3, <1>10, <1>11, <1>12
<1> QED
  BY <1>4, <1>5, <1>7, <1>8, <1>9, <1>13 DEF Placed, st, due, m

\* What only cuts one NFT leaves the others as they are.
LEMMA OthersStay ==
    ASSUME NEW cohort, NEW st, NEW after, NEW n, OnlyCuts(after, st, cohort, n),
           NEW k \in cohort, k # n
    PROVE  /\ after.chunks[k.id] = st.chunks[k.id] /\ Remaining(after, k) = Remaining(st, k)
           /\ Whole(st, k) => Whole(after, k)
<1>1. after.chunks[k.id] = st.chunks[k.id]
  BY DEF OnlyCuts
<1>2. Remaining(after, k) = Remaining(st, k)
  BY <1>1 DEF Remaining
<1> QED
  BY <1>1, <1>2 DEF Whole

\* The order of the passes.
LEMMA PassOrder ==
    ASSUME NEW cohort, IsCohort(cohort)
    PROVE  LET order == Sorted(cohort, Descending)
               last == Len(order)
           IN  /\ last \in Nat /\ \A k \in 1 .. last : order[k] \in cohort
               /\ \A i, k \in 1 .. last : order[i] = order[k] => i = k
               /\ \A n \in cohort : \E k \in 1 .. last : order[k] = n
<1> DEFINE order == Sorted(cohort, Descending)
           last == Len(order)
<1>1. /\ order \in Seq(cohort) /\ Range(order) = cohort
      /\ \A i, k \in DOMAIN order : order[i] = order[k] => i = k
  BY SortedDescending DEF IsCohort
<1> HIDE DEF order
<1>2. last \in Nat /\ DOMAIN order = 1 .. last /\ \A k \in 1 .. last : order[k] \in cohort
  BY <1>1
<1> QED
  BY <1>1, <1>2 DEF order, Range

\* allocateCohort: after the three passes every NFT is used up, and so is every target, in
\* positive chunks for distinct targets, fewer than NFTs and targets (Placed).
THEOREM AllocateCohortPlaces ==
    ASSUME NEW cohort, IsCohort(cohort), NEW targets, Weighted(targets)
    PROVE  \E st : /\ Placed(st, cohort, Len(targets), ApportionAmounts(StakeOf(cohort), targets))
                   /\ Uncut(st, cohort) = {} /\ Unserved(st) = {}
                   /\ AllocateCohort(cohort, targets) = st.chunks
<1> DEFINE m == Len(targets)
           due == ApportionAmounts(StakeOf(cohort), targets)
           order == Sorted(cohort, Descending)
           last == Len(order)
           AllWhole(st) == \A n \in cohort : Whole(st, n)
           Waits(st, k) == \A j \in 1 .. last : j > k => st.chunks[order[last + 1 - j].id] = <<>>
           Done(st, k) == \A j \in 1 .. last : j <= k => Remaining(st, order[j]) = 0
<1>0. /\ targets \in Seq(Range(targets)) /\ \A i \in DOMAIN targets : targets[i].weight \in Int
      /\ Identified(cohort) /\ \A n \in cohort : n.amount \in Int
  BY DEF Weighted, IsCohort
<1>1. /\ last \in Nat /\ \A k \in 1 .. last : order[k] \in cohort
      /\ \A i, k \in 1 .. last : order[i] = order[k] => i = k
      /\ \A n \in cohort : \E k \in 1 .. last : order[k] = n
  BY PassOrder
<1>2. PICK kept, fitted, cut : Runs(cohort, targets, kept, fitted, cut)
  BY <1>0, AllocateCohortRuns
<1>3. /\ kept[0] = Start(cohort, targets) /\ fitted[0] = kept[last] /\ cut[0] = fitted[last]
      /\ \A k \in 1 .. last :
            /\ kept[k] = KeepWhole(targets, kept[k - 1], order[last + 1 - k])
            /\ fitted[k] = FitWhole(fitted[k - 1], order[last + 1 - k])
            /\ cut[k] = SplitOver(targets, cut[k - 1], order[k])
      /\ AllocateCohort(cohort, targets) = cut[last].chunks
  BY <1>2 DEF Runs
<1>4. m \in Nat
  BY <1>0
<1>5. /\ Placed(Start(cohort, targets), cohort, m, due)
      /\ \A n \in cohort : Start(cohort, targets).chunks[n.id] = <<>>
  BY StartPlaced
<1> HIDE DEF order, last, m, due
<1>6. 0 \in 0 .. last /\ last \in 0 .. last
      /\ \A k \in 1 .. last : k \in 0 .. last /\ k - 1 \in 0 .. last /\ last + 1 - k \in 1 .. last
  BY <1>1
<1> DEFINE KeptGood(k) == Placed(kept[k], cohort, m, due) /\ AllWhole(kept[k]) /\ Waits(kept[k], k)
           FittedGood(k) == Placed(fitted[k], cohort, m, due) /\ AllWhole(fitted[k])
           CutGood(k) == Placed(cut[k], cohort, m, due) /\ AllWhole(cut[k]) /\ Done(cut[k], k)
<1>7. KeptGood(0)
  <2>1. Placed(kept[0], cohort, m, due) /\ \A n \in cohort : kept[0].chunks[n.id] = <<>>
    BY <1>3, <1>5
  <2>2. AllWhole(kept[0])
    BY <2>1 DEF Whole
  <2>3. Waits(kept[0], 0)
    BY <1>1, <1>6, <2>1
  <2> QED
    BY <2>1, <2>2, <2>3
<1>8. ASSUME NEW k \in 1 .. last, KeptGood(k - 1) PROVE KeptGood(k)
  <2> DEFINE n == order[last + 1 - k]
             st == kept[k - 1]
             after == kept[k]
  <2>1. n \in cohort /\ after = KeepWhole(targets, st, n)
    BY <1>1, <1>3, <1>6
  <2>2. st.chunks[n.id] = <<>>
    <3>1. k > k - 1
      OBVIOUS
    <3> QED
      BY <1>8, <3>1
  <2> HIDE DEF n, st, after
  <2>3. Placed(st, cohort, m, due) /\ AllWhole(st) /\ Waits(st, k - 1)
    BY <1>8 DEF st
  <2>4. Placed(after, cohort, m, due) /\ OnlyCuts(after, st, cohort, n) /\ Whole(after, n)
    BY <1>4, <2>1, <2>2, <2>3, KeepWholeKeeps
  <2>5. ASSUME NEW x \in cohort PROVE Whole(after, x)
    BY <2>3, <2>4, OthersStay
  <2>6. ASSUME NEW j \in 1 .. last, j > k PROVE after.chunks[order[last + 1 - j].id] = <<>>
    <3>1. order[last + 1 - j] \in cohort
      BY <1>1, <1>6
    <3>2. order[last + 1 - j] # n
      <4>1. last + 1 - j # last + 1 - k
        BY <1>1, <2>6
      <4> QED
        BY <1>1, <1>6, <4>1 DEF n
    <3>3. st.chunks[order[last + 1 - j].id] = <<>>
      <4>1. j > k - 1
        BY <2>6
      <4> QED
        BY <2>3, <4>1
    <3> QED
      BY <2>4, <3>1, <3>2, <3>3, OthersStay
  <2> QED
    BY <2>4, <2>5, <2>6 DEF after
<1>9. KeptGood(last)
  <2> DEFINE h == [k \in 0 .. last |-> KeptGood(k)]
             V == {TRUE}
  <2>1. \A k \in 0 .. last : h[k] \in V <=> KeptGood(k)
    OBVIOUS
  <2> HIDE DEF h, V, KeptGood
  <2>2. \A k \in 1 .. last : h[k - 1] \in V => h[k] \in V
    BY <1>6, <1>8, <2>1
  <2>3. h[0] \in V
    BY <1>6, <1>7, <2>1
  <2>4. \A k \in 0 .. last : h[k] \in V
    BY <1>1, <2>2, <2>3, RangeRecursionType
  <2> QED
    BY <1>6, <2>1, <2>4
<1>10. FittedGood(0)
  BY <1>3, <1>9
<1>11. ASSUME NEW k \in 1 .. last, FittedGood(k - 1) PROVE FittedGood(k)
  <2> DEFINE n == order[last + 1 - k]
             st == fitted[k - 1]
             after == fitted[k]
  <2>1. n \in cohort /\ after = FitWhole(st, n)
    BY <1>1, <1>3, <1>6
  <2> HIDE DEF n, st, after
  <2>2. Placed(st, cohort, m, due) /\ AllWhole(st)
    BY <1>11 DEF st
  <2>3. Placed(after, cohort, m, due) /\ OnlyCuts(after, st, cohort, n) /\ Whole(after, n)
    BY <1>4, <2>1, <2>2, FitWholeKeeps
  <2>4. ASSUME NEW x \in cohort PROVE Whole(after, x)
    BY <2>2, <2>3, OthersStay
  <2> QED
    BY <2>3, <2>4 DEF after
<1>12. FittedGood(last)
  <2> DEFINE h == [k \in 0 .. last |-> FittedGood(k)]
             V == {TRUE}
  <2>1. \A k \in 0 .. last : h[k] \in V <=> FittedGood(k)
    OBVIOUS
  <2> HIDE DEF h, V, FittedGood
  <2>2. \A k \in 1 .. last : h[k - 1] \in V => h[k] \in V
    BY <1>6, <1>11, <2>1
  <2>3. h[0] \in V
    BY <1>6, <1>10, <2>1
  <2>4. \A k \in 0 .. last : h[k] \in V
    BY <1>1, <2>2, <2>3, RangeRecursionType
  <2> QED
    BY <1>6, <2>1, <2>4
<1>13. CutGood(0)
  BY <1>3, <1>12
<1>14. ASSUME NEW k \in 1 .. last, CutGood(k - 1) PROVE CutGood(k)
  <2> DEFINE n == order[k]
             st == cut[k - 1]
             after == cut[k]
  <2>1. n \in cohort /\ after = SplitOver(targets, st, n)
    BY <1>1, <1>3
  <2> HIDE DEF n, st, after
  <2>2. Placed(st, cohort, m, due) /\ AllWhole(st) /\ Done(st, k - 1)
    BY <1>14 DEF st
  <2>3. /\ Placed(after, cohort, m, due) /\ OnlyCuts(after, st, cohort, n)
        /\ Remaining(after, n) = 0
    BY <1>0, <2>1, <2>2, SplitOverKeeps DEF m
  <2>4. ASSUME NEW x \in cohort PROVE Whole(after, x)
    BY <2>2, <2>3, OthersStay DEF Whole
  <2>5. ASSUME NEW j \in 1 .. last, j <= k PROVE Remaining(after, order[j]) = 0
    <3>1. CASE order[j] = n
      BY <2>3, <3>1
    <3>2. CASE order[j] # n
      <4>1. j <= k - 1
        BY <2>5, <3>2 DEF n
      <4>2. order[j] \in cohort /\ Remaining(st, order[j]) = 0
        BY <1>1, <2>2, <4>1
      <4> QED
        BY <2>3, <3>2, <4>2, OthersStay
    <3> QED
      BY <3>1, <3>2
  <2> QED
    BY <2>3, <2>4, <2>5 DEF after
<1>15. CutGood(last)
  <2> DEFINE h == [k \in 0 .. last |-> CutGood(k)]
             V == {TRUE}
  <2>1. \A k \in 0 .. last : h[k] \in V <=> CutGood(k)
    OBVIOUS
  <2> HIDE DEF h, V, CutGood
  <2>2. \A k \in 1 .. last : h[k - 1] \in V => h[k] \in V
    BY <1>6, <1>14, <2>1
  <2>3. h[0] \in V
    BY <1>6, <1>13, <2>1
  <2>4. \A k \in 0 .. last : h[k] \in V
    BY <1>1, <2>2, <2>3, RangeRecursionType
  <2> QED
    BY <1>6, <2>1, <2>4
<1>16. Uncut(cut[last], cohort) = {}
  <2>1. \A n \in cohort : Remaining(cut[last], n) = 0
    BY <1>1, <1>15
  <2> QED
    BY <2>1 DEF Uncut
<1>17. Unserved(cut[last]) = {}
  BY <1>4, <1>15, <1>16, NothingLeft DEF Placed
<1> QED
  BY <1>3, <1>15, <1>16, <1>17 DEF m, due

-------------------------------------------------------------------------------
(***************************************************************************)
(* A cohort that is allocated again                                        *)
(***************************************************************************)

\* The stake of the NFTs that vote for a target.
Voting(cohort, target) ==
    SumOver([n \in cohort |-> IF Matches(n, target) THEN n.amount ELSE 0], cohort)

\* Targets of which an NFT matches no two.
Apart(targets) ==
    \A i, k \in DOMAIN targets :
        targets[i].pool = targets[k].pool /\ targets[i].fee = targets[k].fee => i = k

\* A cohort that votes as told: every NFT for a target, and each target has what it is due.
Served(cohort, targets) ==
    /\ \A n \in cohort : \E i \in DOMAIN targets : Matches(n, targets[i])
    /\ \A i \in DOMAIN targets :
          Voting(cohort, targets[i]) = ApportionAmounts(StakeOf(cohort), targets)[i]

\* An NFT in one chunk, for the target it votes for.
Stays(cut, n, targets) ==
    \E i \in DOMAIN targets : Matches(n, targets[i]) /\ cut = <<Chunk(i, n.amount)>>

\* What such a chunk adds up to.
LEMMA OneChunk ==
    ASSUME NEW m \in Nat, NEW i \in 1 .. m, NEW amount \in Int, NEW cut, cut = <<Chunk(i, amount)>>
    PROVE  /\ Total(Sizes(cut)) = amount
           /\ \A j \in 1 .. m : Total(SharesOf(cut, j)) = IF j = i THEN amount ELSE 0
<1> DEFINE none == <<>>
<1>1. none \in Seq(Chunks(m)) /\ cut = Append(none, Chunk(i, amount))
  OBVIOUS
<1>2. Longer(cut, none, m, i, amount)
  <2> HIDE DEF none
  <2> QED
    BY <1>1, CutAppend
<1>3. Total(Sizes(none)) = 0 /\ \A j \in 1 .. m : Total(SharesOf(none, j)) = 0
  <2>1. DOMAIN none = {}
    OBVIOUS
  <2> HIDE DEF none
  <2>2. /\ Total(Sizes(none)) = SumOver(Sizes(none), {})
        /\ \A j \in 1 .. m : Total(SharesOf(none, j)) = SumOver(SharesOf(none, j), {})
    BY <2>1 DEF Total, SumOver, Sizes, SharesOf
  <2> QED
    BY <2>2, SumEmpty
<1> HIDE DEF none
<1>4. Total(Sizes(cut)) = amount
  BY <1>2, <1>3 DEF Longer
<1>5. ASSUME NEW j \in 1 .. m PROVE Total(SharesOf(cut, j)) = IF j = i THEN amount ELSE 0
  <2>1. Total(SharesOf(cut, j)) = 0 + (IF j = i THEN amount ELSE 0)
    BY <1>2, <1>3 DEF Longer
  <2> QED
    BY <2>1
<1> QED
  BY <1>4, <1>5

\* An NFT that stays has nothing left to place.
LEMMA StaysWhole ==
    ASSUME NEW targets, NEW m \in Nat, DOMAIN targets = 1 .. m, NEW n, n.amount \in Int, NEW st,
           Stays(st.chunks[n.id], n, targets)
    PROVE  Remaining(st, n) = 0 /\ Assigned(st, n)
<1>1. PICK i \in 1 .. m : st.chunks[n.id] = <<Chunk(i, n.amount)>>
  BY DEF Stays
<1> DEFINE cut == st.chunks[n.id]
<1>2. Total(Sizes(cut)) = n.amount
  BY <1>1, OneChunk
<1>3. Remaining(st, n) = n.amount - Total(Sizes(cut))
  BY DEF Remaining, Sizes
<1>4. cut # <<>>
  BY <1>1
<1> QED
  BY <1>2, <1>3, <1>4 DEF Assigned

\* While an NFT waits for the first pass, the target it votes for has room for it.
LEMMA RoomToStay ==
    ASSUME NEW cohort, IsCohort(cohort), NEW targets, NEW m \in Nat, DOMAIN targets = 1 .. m,
           Served(cohort, targets), NEW st,
           Placed(st, cohort, m, ApportionAmounts(StakeOf(cohort), targets)),
           \A k \in cohort : st.chunks[k.id] = <<>> \/ Stays(st.chunks[k.id], k, targets),
           NEW n \in cohort, st.chunks[n.id] = <<>>, NEW i \in 1 .. m, Matches(n, targets[i])
    PROVE  st.demand[i] >= n.amount
<1> DEFINE due == ApportionAmounts(StakeOf(cohort), targets)
           f == [k \in cohort |-> IF Matches(k, targets[i]) THEN k.amount ELSE 0]
           g == [k \in cohort |-> Total(SharesOf(st.chunks[k.id], i))]
           h == [k \in cohort |-> IF k \in {n} THEN n.amount ELSE 0]
           gh == [k \in cohort |-> g[k] + h[k]]
           amount == [k \in {n} |-> n.amount]
<1>1. IsFiniteSet(cohort) /\ \A k \in cohort : k.amount \in Nat
  BY CohortFacts
<1>2. SumOver(f, cohort) = due[i]
  BY DEF Served, Voting
<1>3. Got(st, cohort, i) = SumOver(g, cohort) /\ st \in Divisions(Ids(cohort), m)
      /\ Got(st, cohort, i) + st.demand[i] = due[i]
  BY DEF Got, Placed
<1>4. st.demand[i] \in Int
  BY <1>3, DivisionTypes
<1>5. ASSUME NEW k \in cohort
      PROVE  f[k] \in Int /\ g[k] \in Int /\ h[k] \in Int /\ g[k] + h[k] <= f[k]
  <2> DEFINE cut == st.chunks[k.id]
  <2>1. /\ f[k] = IF Matches(k, targets[i]) THEN k.amount ELSE 0
        /\ h[k] = IF k = n THEN k.amount ELSE 0
        /\ g[k] = Total(SharesOf(cut, i)) /\ k.amount \in Nat
    BY <1>1
  <2>2. CASE cut = <<>>
    <3>1. DOMAIN cut = {}
      BY <2>2
    <3>2. Total(SharesOf(cut, i)) = SumOver(SharesOf(cut, i), {})
      BY <3>1 DEF Total, SumOver, SharesOf
    <3>3. g[k] = 0
      BY <2>1, <3>2, SumEmpty
    <3> HIDE DEF f, g, h, cut
    <3>4. CASE k = n
      <4>1. f[k] = k.amount /\ h[k] = k.amount
        BY <2>1, <3>4
      <4> QED
        BY <2>1, <3>3, <4>1
    <3>5. CASE k # n
      <4>1. h[k] = 0 /\ (f[k] = k.amount \/ f[k] = 0)
        BY <2>1, <3>5
      <4> QED
        BY <2>1, <3>3, <4>1
    <3> QED
      BY <3>4, <3>5
  <2>3. CASE cut # <<>>
    <3>1. k # n /\ Stays(cut, k, targets)
      BY <2>3
    <3>2. PICK j \in 1 .. m : Matches(k, targets[j]) /\ cut = <<Chunk(j, k.amount)>>
      BY <3>1 DEF Stays
    <3>3. Total(SharesOf(cut, i)) = IF i = j THEN k.amount ELSE 0
      BY <2>1, <3>2, OneChunk
    <3> HIDE DEF f, g, h, cut
    <3>4. CASE i = j
      <4>1. h[k] = 0 /\ f[k] = k.amount /\ g[k] = k.amount
        BY <2>1, <3>1, <3>2, <3>3, <3>4
      <4> QED
        BY <2>1, <4>1
    <3>5. CASE i # j
      <4>1. h[k] = 0 /\ g[k] = 0 /\ (f[k] = k.amount \/ f[k] = 0)
        BY <2>1, <3>1, <3>3, <3>5
      <4> QED
        BY <2>1, <4>1
    <3> QED
      BY <3>4, <3>5
  <2> QED
    BY <2>2, <2>3
<1>6. SumOver(h, cohort) = n.amount
  <2>1. {n} \in SUBSET cohort /\ \A x \in {n} : amount[x] \in Int
    BY <1>1
  <2>2. \A x \in cohort : h[x] = IF x \in {n} THEN amount[x] ELSE 0
    OBVIOUS
  <2>3. {n} = {} \cup {n} /\ n \notin {} /\ \A y \in {} \cup {n} : amount[y] \in Int
    BY <1>1
  <2>4. amount[n] = n.amount /\ n.amount \in Int
    BY <1>1
  <2> HIDE DEF h, amount
  <2>5. SumOver(h, cohort) = SumOver(amount, {n})
    BY <1>1, <2>1, <2>2, SumWithin
  <2>6. SumOver(amount, {} \cup {n}) = amount[n] + SumOver(amount, {})
    BY <2>3, FS_EmptySet, SumWith
  <2> QED
    BY <2>3, <2>4, <2>5, <2>6, SumEmpty
<1>7. \A k \in cohort : /\ f[k] \in Int /\ g[k] \in Int /\ h[k] \in Int /\ gh[k] \in Int
                        /\ gh[k] = g[k] + h[k] /\ gh[k] <= f[k]
  BY <1>5
<1> HIDE DEF f, g, h, gh, due, amount
<1>8. SumOver(gh, cohort) = SumOver(g, cohort) + SumOver(h, cohort)
  BY <1>1, <1>7, SumPlus
<1>9. SumOver(gh, cohort) <= SumOver(f, cohort) /\ SumOver(g, cohort) \in Int
  BY <1>1, <1>7, SumOrder, SumType
<1>10. n.amount \in Int
  BY <1>1
<1> QED
  BY <1>2, <1>3, <1>4, <1>6, <1>8, <1>9, <1>10

\* The first pass leaves an NFT whole where it votes.
LEMMA KeepWholeStays ==
    ASSUME NEW cohort, IsCohort(cohort), NEW targets, NEW m \in Nat, DOMAIN targets = 1 .. m,
           Served(cohort, targets), NEW st,
           Placed(st, cohort, m, ApportionAmounts(StakeOf(cohort), targets)),
           \A k \in cohort : st.chunks[k.id] = <<>> \/ Stays(st.chunks[k.id], k, targets),
           NEW n \in cohort, st.chunks[n.id] = <<>>
    PROVE  Stays(KeepWhole(targets, st, n).chunks[n.id], n, targets)
<1> DEFINE affinity == {i \in Fitting(st, n) : Matches(n, targets[i])}
           first == Min(affinity)
<1>1. st \in Divisions(Ids(cohort), m)
  BY DEF Placed
<1>2. DOMAIN st.demand = 1 .. m /\ n.id \in DOMAIN st.chunks
  <2>1. st.demand \in [1 .. m -> Int] /\ st.chunks \in [Ids(cohort) -> Seq([target : 1 .. m, amount : Int])]
    BY <1>1 DEF Divisions
  <2> QED
    BY <2>1 DEF Ids
<1>3. PICK i \in 1 .. m : Matches(n, targets[i])
  BY DEF Served
<1>4. st.demand[i] >= n.amount
  BY <1>3, RoomToStay
<1>5. affinity \in SUBSET (1 .. m) /\ i \in affinity
  BY <1>2, <1>3, <1>4 DEF Fitting
<1>6. first \in affinity
  <2>1. IsFiniteSet(affinity)
    BY <1>5, IndicesFinite
  <2>2. affinity \in SUBSET Int /\ affinity # {}
    BY <1>5
  <2> HIDE DEF affinity
  <2> QED
    BY <2>1, <2>2, MinMember
<1>7. KeepWhole(targets, st, n) = Give(st, n, first, n.amount)
  BY <1>5 DEF KeepWhole
<1>8. first \in 1 .. m /\ Matches(n, targets[first])
  BY <1>5, <1>6
<1> HIDE DEF first
<1>9. Give(st, n, first, n.amount).chunks[n.id] = <<Chunk(first, n.amount)>>
  <2>1. Give(st, n, first, n.amount).chunks =
            [st.chunks EXCEPT ![n.id] = Append(st.chunks[n.id], Chunk(first, n.amount))]
    BY DEF Give, Chunk
  <2>2. Give(st, n, first, n.amount).chunks[n.id] = Append(st.chunks[n.id], Chunk(first, n.amount))
    BY <1>2, <2>1
  <2> QED
    BY <2>2
<1> QED
  BY <1>7, <1>8, <1>9 DEF Stays

\* The other passes leave it there.
LEMMA PassesStay ==
    ASSUME NEW cohort, IsCohort(cohort), NEW targets, Weighted(targets), NEW st,
           st \in Divisions(Ids(cohort), Len(targets)), NEW n \in cohort,
           Stays(st.chunks[n.id], n, targets)
    PROVE  FitWhole(st, n) = st /\ SplitOver(targets, st, n) = st
<1> DEFINE m == Len(targets)
<1>1. targets \in Seq(Range(targets)) /\ m \in Nat /\ DOMAIN targets = 1 .. m
  BY DEF Weighted
<1>2. n.amount \in Int /\ n.id \in Ids(cohort)
  BY CohortFacts
<1>3. Remaining(st, n) = 0 /\ Assigned(st, n)
  BY <1>1, <1>2, StaysWhole
<1>4. FitWhole(st, n) = st
  BY <1>3 DEF FitWhole
<1>5. Cut(targets, st, n) = st
  BY <1>3 DEF Cut
<1>6. PICK g : /\ g[0] = st /\ SplitOver(targets, st, n) = g[Len(targets)]
               /\ \A k \in 1 .. Len(targets) : g[k] = Cut(targets, g[k - 1], n)
  BY <1>1, <1>2, SplitOverRun
<1>7. g[m] = st
  <2> DEFINE V == {st}
  <2>1. \A x : x \in V <=> x = st
    OBVIOUS
  <2> HIDE DEF V, m
  <2>2. g[0] \in V
    BY <1>6, <2>1
  <2>3. \A k \in 1 .. m : g[k - 1] \in V => g[k] \in V
    BY <1>5, <1>6, <2>1 DEF m
  <2>4. \A k \in 0 .. m : g[k] \in V
    BY <1>1, <2>2, <2>3, RangeRecursionType
  <2>5. m \in 0 .. m
    BY <1>1
  <2> QED
    BY <2>1, <2>4, <2>5
<1> QED
  BY <1>4, <1>6, <1>7

\* allocateCohort: a cohort that already gives its targets what they are due stays as it is,
\* though the first pass goes by size and another NFT of the target may have come before.
THEOREM AllocateCohortStays ==
    ASSUME NEW cohort, IsCohort(cohort), NEW targets, Weighted(targets), Served(cohort, targets)
    PROVE  \A n \in cohort : Stays(AllocateCohort(cohort, targets)[n.id], n, targets)
<1> DEFINE m == Len(targets)
           due == ApportionAmounts(StakeOf(cohort), targets)
           order == Sorted(cohort, Descending)
           last == Len(order)
           StayOrWait(st) == \A n \in cohort :
               st.chunks[n.id] = <<>> \/ Stays(st.chunks[n.id], n, targets)
           Waits(st, k) == \A j \in 1 .. last : j > k => st.chunks[order[last + 1 - j].id] = <<>>
           Done(st, k) == \A j \in 1 .. last :
               j <= k => Stays(st.chunks[order[last + 1 - j].id], order[last + 1 - j], targets)
<1>0. /\ targets \in Seq(Range(targets)) /\ \A i \in DOMAIN targets : targets[i].weight \in Int
      /\ Identified(cohort) /\ \A n \in cohort : n.amount \in Int
  BY DEF Weighted, IsCohort
<1>1. /\ last \in Nat /\ \A k \in 1 .. last : order[k] \in cohort
      /\ \A i, k \in 1 .. last : order[i] = order[k] => i = k
      /\ \A n \in cohort : \E k \in 1 .. last : order[k] = n
  BY PassOrder
<1>2. PICK kept, fitted, cut : Runs(cohort, targets, kept, fitted, cut)
  BY <1>0, AllocateCohortRuns
<1>3. /\ kept[0] = Start(cohort, targets) /\ fitted[0] = kept[last] /\ cut[0] = fitted[last]
      /\ \A k \in 1 .. last :
            /\ kept[k] = KeepWhole(targets, kept[k - 1], order[last + 1 - k])
            /\ fitted[k] = FitWhole(fitted[k - 1], order[last + 1 - k])
            /\ cut[k] = SplitOver(targets, cut[k - 1], order[k])
      /\ AllocateCohort(cohort, targets) = cut[last].chunks
  BY <1>2 DEF Runs
<1>4. m \in Nat /\ DOMAIN targets = 1 .. m
  BY <1>0
<1>5. /\ Placed(Start(cohort, targets), cohort, m, due)
      /\ \A n \in cohort : Start(cohort, targets).chunks[n.id] = <<>>
  BY StartPlaced
<1> HIDE DEF order, last, m, due
<1>6. 0 \in 0 .. last /\ last \in 0 .. last
      /\ \A k \in 1 .. last : k \in 0 .. last /\ k - 1 \in 0 .. last /\ last + 1 - k \in 1 .. last
  BY <1>1
<1> DEFINE Good(k) == /\ Placed(kept[k], cohort, m, due) /\ StayOrWait(kept[k])
                      /\ Waits(kept[k], k) /\ Done(kept[k], k)
<1>7. Good(0)
  <2>1. Placed(kept[0], cohort, m, due) /\ \A n \in cohort : kept[0].chunks[n.id] = <<>>
    BY <1>3, <1>5
  <2>2. Waits(kept[0], 0)
    BY <1>1, <1>6, <2>1
  <2>3. \A j \in 1 .. last : ~(j <= 0)
    BY <1>1
  <2> QED
    BY <2>1, <2>2, <2>3
<1>8. ASSUME NEW k \in 1 .. last, Good(k - 1) PROVE Good(k)
  <2> DEFINE n == order[last + 1 - k]
             st == kept[k - 1]
             after == kept[k]
  <2>1. n \in cohort /\ after = KeepWhole(targets, st, n)
    BY <1>1, <1>3, <1>6
  <2>2. st.chunks[n.id] = <<>>
    <3>1. k > k - 1
      OBVIOUS
    <3> QED
      BY <1>8, <3>1
  <2> HIDE DEF n, st, after
  <2>3. Placed(st, cohort, m, due) /\ StayOrWait(st) /\ Waits(st, k - 1) /\ Done(st, k - 1)
    BY <1>8 DEF st
  <2>4. Placed(after, cohort, m, due) /\ OnlyCuts(after, st, cohort, n)
    BY <1>4, <2>1, <2>2, <2>3, KeepWholeKeeps
  <2>5. Stays(after.chunks[n.id], n, targets)
    BY <1>4, <2>1, <2>2, <2>3, KeepWholeStays DEF due
  <2>6. \A x \in cohort : x # n => after.chunks[x.id] = st.chunks[x.id]
    BY <2>4 DEF OnlyCuts
  <2>7. StayOrWait(after)
    BY <2>3, <2>5, <2>6
  <2>8. ASSUME NEW j \in 1 .. last, j > k PROVE after.chunks[order[last + 1 - j].id] = <<>>
    <3>1. order[last + 1 - j] \in cohort
      BY <1>1, <1>6
    <3>2. order[last + 1 - j] # n
      <4>1. last + 1 - j # last + 1 - k
        BY <1>1, <2>8
      <4> QED
        BY <1>1, <1>6, <4>1 DEF n
    <3>3. st.chunks[order[last + 1 - j].id] = <<>>
      <4>1. j > k - 1
        BY <2>8
      <4> QED
        BY <2>3, <4>1
    <3> QED
      BY <2>6, <3>1, <3>2, <3>3
  <2>9. ASSUME NEW j \in 1 .. last, j <= k
        PROVE  Stays(after.chunks[order[last + 1 - j].id], order[last + 1 - j], targets)
    <3>1. CASE j = k
      BY <2>5, <3>1 DEF n
    <3>2. CASE j # k
      <4>1. j <= k - 1
        BY <2>9, <3>2
      <4>2. Stays(st.chunks[order[last + 1 - j].id], order[last + 1 - j], targets)
        BY <2>3, <4>1
      <4>3. order[last + 1 - j] \in cohort
        BY <1>1, <1>6
      <4> QED
        BY <2>5, <2>6, <4>2, <4>3
    <3> QED
      BY <3>1, <3>2
  <2> QED
    BY <2>4, <2>7, <2>8, <2>9 DEF after
<1>9. Good(last)
  <2> DEFINE h == [k \in 0 .. last |-> Good(k)]
             V == {TRUE}
  <2>1. \A k \in 0 .. last : h[k] \in V <=> Good(k)
    OBVIOUS
  <2> HIDE DEF h, V, Good
  <2>2. \A k \in 1 .. last : h[k - 1] \in V => h[k] \in V
    BY <1>6, <1>8, <2>1
  <2>3. h[0] \in V
    BY <1>6, <1>7, <2>1
  <2>4. \A k \in 0 .. last : h[k] \in V
    BY <1>1, <2>2, <2>3, RangeRecursionType
  <2> QED
    BY <1>6, <2>1, <2>4
<1> DEFINE end == kept[last]
<1>10. end \in Divisions(Ids(cohort), m)
  BY <1>9 DEF Placed
<1>11. ASSUME NEW n \in cohort PROVE Stays(end.chunks[n.id], n, targets)
  <2>1. PICK k \in 1 .. last : order[k] = n
    BY <1>1
  <2> DEFINE j == last + 1 - k
  <2>2. j \in 1 .. last /\ j <= last /\ last + 1 - j = k
    BY <1>1
  <2> HIDE DEF j
  <2>3. Stays(end.chunks[order[last + 1 - j].id], order[last + 1 - j], targets)
    BY <1>9, <2>2
  <2> QED
    BY <2>1, <2>2, <2>3
<1>12. \A n \in cohort : FitWhole(end, n) = end /\ SplitOver(targets, end, n) = end
  <2> HIDE DEF end
  <2> QED
    BY <1>10, <1>11, PassesStay DEF m
<1>13. fitted[last] = end
  <2> DEFINE V == {end}
  <2>1. \A x : x \in V <=> x = end
    OBVIOUS
  <2>2. fitted[0] = end
    BY <1>3
  <2>3. \A k \in 1 .. last : fitted[k - 1] = end => fitted[k] = end
    BY <1>1, <1>3, <1>6, <1>12
  <2> HIDE DEF V, end
  <2>4. fitted[0] \in V /\ \A k \in 1 .. last : fitted[k - 1] \in V => fitted[k] \in V
    BY <2>1, <2>2, <2>3
  <2>5. \A k \in 0 .. last : fitted[k] \in V
    BY <1>1, <2>4, RangeRecursionType
  <2> QED
    BY <1>6, <2>1, <2>5
<1>14. cut[last] = end
  <2> DEFINE V == {end}
  <2>1. \A x : x \in V <=> x = end
    OBVIOUS
  <2>2. cut[0] = end
    BY <1>3, <1>13
  <2>3. \A k \in 1 .. last : cut[k - 1] = end => cut[k] = end
    BY <1>1, <1>3, <1>12
  <2> HIDE DEF V, end
  <2>4. cut[0] \in V /\ \A k \in 1 .. last : cut[k - 1] \in V => cut[k] \in V
    BY <2>1, <2>2, <2>3
  <2>5. \A k \in 0 .. last : cut[k] \in V
    BY <1>1, <2>4, RangeRecursionType
  <2> QED
    BY <1>6, <2>1, <2>5
<1> QED
  BY <1>3, <1>11, <1>14
===============================================================================
