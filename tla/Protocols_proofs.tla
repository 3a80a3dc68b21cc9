---------------------------- MODULE Protocols_proofs ----------------------------
(***************************************************************************)
(* What holds of the protocol tools, whatever the constants are.           *)
(***************************************************************************)
EXTENDS Protocols, DataTheorems, TLAPS

Lookups ==
    [status : {"idle", "paging", "found", "not_found", "too_many", "failed"},
     page : Nat, there : BOOLEAN, shrunk : BOOLEAN]

Listings ==
    [status : {"idle", "listing", "failed", "complete"}, cursor : Nat,
     seen : Seq(PoolIds), known : SUBSET PoolIds]

\* What the pools of a listing are.
Ascends(s) == \A i, k \in DOMAIN s : i < k => s[i] < s[k]

IndexTypes ==
    /\ rows \in Seq({Wanted, Other})
    /\ pools \in SUBSET PoolIds /\ cached \in SUBSET pools
    /\ lookup \in Lookups /\ listing \in Listings /\ changes \in Nat
    /\ lookup.status = "paging" => lookup.page # 0

\* A position that was there when the lookup began is on a page not yet read.
Ahead == \E i \in DOMAIN rows : i > (lookup.page - 1) * PageSize /\ rows[i] = Wanted

LookupInv ==
    /\ lookup.status = "paging" /\ lookup.there /\ ~lookup.shrunk => Ahead
    /\ P!MissNeedsRemoval

\* The pools up to the cursor that were known have been seen; none behind it is to come.
ListingInv ==
    /\ listing.known \subseteq cached
    /\ Ascends(listing.seen)
    /\ \A i \in DOMAIN listing.seen :
          listing.seen[i] <= listing.cursor /\ listing.seen[i] \notin Drifted
    /\ \A id \in listing.known : id <= listing.cursor => id \in ToSet(listing.seen)
    /\ listing.status = "complete" => \A id \in listing.known : id <= listing.cursor

IndexInv == P!ReadingAssumption /\ IndexTypes /\ LookupInv /\ ListingInv

-------------------------------------------------------------------------------
(***************************************************************************)
(* The lookup                                                              *)
(***************************************************************************)

\* The number of pages of n rows reaches to the last row.
LEMMA PagesReach ==
    ASSUME NEW size \in Nat \ {0}, NEW n \in Nat, NEW page \in Nat, NEW i \in 1 .. n,
           i > page * size
    PROVE  page + 1 <= (n + size - 1) \div size
<1> DEFINE last == (n + size - 1) \div size
           rest == (n + size - 1) % size
<1>1. last \in Int /\ rest \in Int /\ 0 <= rest /\ rest < size /\ n + size - 1 = size * last + rest
  OBVIOUS
<1> HIDE DEF last, rest
<1>2. SUFFICES ASSUME last <= page PROVE FALSE
  BY <1>1 DEF last
<1>3. size * last <= size * page /\ size * page = page * size
  BY <1>1, <1>2
<1>4. page * size \in Int /\ size * last \in Int
  BY <1>1
<1> QED
  BY <1>1, <1>3, <1>4

\* A row of a page's numbers is on it.
LEMMA OnPage ==
    ASSUME P!ReadingAssumption, IndexTypes, NEW k \in Nat \ {0}, NEW i \in DOMAIN rows,
           i > (k - 1) * PageSize, i <= k * PageSize
    PROVE  rows[i] \in P!Page(k)
<1> DEFINE a == (k - 1) * PageSize
           b == Min({k * PageSize, Len(rows)})
           s == SubSeq(rows, a + 1, b)
<1>1. PageSize \in Nat /\ Len(rows) \in Nat /\ rows \in Seq({Wanted, Other})
  BY DEF P!ReadingAssumption, IndexTypes
<1>2. a \in Nat /\ k * PageSize \in Nat
  BY <1>1
<1>3. b \in {k * PageSize, Len(rows)} /\ b <= Len(rows)
  <2>1. b = Lesser(k * PageSize, Len(rows))
    BY DEF Lesser
  <2> HIDE DEF b
  <2> QED
    BY <1>1, <1>2, <2>1, LesserFacts
<1> HIDE DEF b
<1>4. i \in Nat /\ a < i /\ i <= b /\ b \in Int
  BY <1>1, <1>2, <1>3
<1> HIDE DEF a
<1>5. s = [j \in 1 .. b - a |-> rows[j + a]]
  BY <1>1, <1>2, <1>3, <1>4
<1>6. i - a \in 1 .. b - a /\ i - a + a = i
  BY <1>2, <1>3, <1>4
<1>7. i - a \in DOMAIN s /\ s[i - a] = rows[i]
  BY <1>5, <1>6
<1>8. P!Page(k) = ToSet(s)
  BY DEF P!Page, P!ToSet, P!Min, ToSet, Min, a, b
<1> QED
  BY <1>7, <1>8 DEF ToSet

\* A page keeps ahead what it does not hold, and reaches it: what a turn of
\* findIndexedPosition rests on.
LEMMA NotYet ==
    ASSUME P!ReadingAssumption, IndexTypes, Ahead, lookup.page # 0, Wanted \notin P!Page(lookup.page)
    PROVE  /\ \E i \in DOMAIN rows : i > lookup.page * PageSize /\ rows[i] = Wanted
           /\ lookup.page + 1 <= P!TotalPages
<1>1. PICK i \in DOMAIN rows : i > (lookup.page - 1) * PageSize /\ rows[i] = Wanted
  BY DEF Ahead
<1>2. PageSize \in Nat \ {0} /\ lookup.page \in Nat \ {0} /\ Len(rows) \in Nat /\ i \in 1 .. Len(rows)
  BY DEF P!ReadingAssumption, IndexTypes, Lookups
<1>3. lookup.page * PageSize \in Nat
  BY <1>2
<1>4. i > lookup.page * PageSize
  BY <1>1, <1>2, <1>3, OnPage
<1>5. lookup.page + 1 <= P!TotalPages
  BY <1>2, <1>4, PagesReach DEF P!TotalPages
<1> QED
  BY <1>1, <1>4, <1>5

\* Inserting a row moves none of the others down.
LEMMA Inserted ==
    ASSUME NEW T, NEW s \in Seq(T), NEW i \in 1 .. Len(s) + 1, NEW e \in T
    PROVE  LET t == InsertAt(s, i, e)
           IN  /\ t \in Seq(T) /\ DOMAIN t = 1 .. Len(s) + 1
               /\ \A k \in 1 .. Len(s) : t[k] = s[k] \/ t[k + 1] = s[k]
<1> DEFINE a == SubSeq(s, 1, i - 1)
           b == SubSeq(s, i, Len(s))
           t == InsertAt(s, i, e)
<1>1. Len(s) \in Nat /\ i \in Nat /\ \A k \in 1 .. Len(s) : s[k] \in T
  OBVIOUS
<1>2. a = [k \in 1 .. i - 1 |-> s[k]] /\ b = [k \in 1 .. Len(s) - i + 1 |-> s[k + i - 1]]
  BY <1>1
<1>3. /\ a \in Seq(T) /\ Len(a) = i - 1
      /\ b \in Seq(T) /\ Len(b) = Len(s) - i + 1
  <2>1. \A k \in 1 .. i - 1 : s[k] \in T
    BY <1>1
  <2>2. \A k \in 1 .. Len(s) - i + 1 : s[k + i - 1] \in T
    BY <1>1
  <2>3. a \in [1 .. i - 1 -> T] /\ b \in [1 .. Len(s) - i + 1 -> T]
    BY <1>2, <2>1, <2>2
  <2>4. i - 1 \in Nat /\ Len(s) - i + 1 \in Nat
    BY <1>1
  <2> HIDE DEF a, b
  <2> QED
    BY <2>3, <2>4
<1>4. t = (a \o <<e>>) \o b
  BY DEF InsertAt
<1> DEFINE c == a \o <<e>>
<1>5. c \in Seq(T) /\ Len(c) = i /\ \A k \in 1 .. i - 1 : c[k] = a[k]
  <2> HIDE DEF a, b
  <2> QED
    BY <1>1, <1>3
<1>6. /\ t \in Seq(T) /\ Len(t) = Len(s) + 1
      /\ \A k \in 1 .. i : t[k] = c[k]
      /\ \A k \in 1 .. Len(s) - i + 1 : t[i + k] = b[k]
  <2> HIDE DEF a, b, c, t
  <2>1. t = c \o b
    BY <1>4 DEF c
  <2> QED
    BY <1>1, <1>3, <1>5, <2>1
<1>7. ASSUME NEW k \in 1 .. Len(s) PROVE t[k] = s[k] \/ t[k + 1] = s[k]
  <2> HIDE DEF t, c
  <2>1. CASE k < i
    <3>1. k \in 1 .. i - 1 /\ k \in 1 .. i
      BY <1>1, <2>1
    <3>2. t[k] = a[k]
      BY <1>5, <1>6, <3>1
    <3> QED
      BY <1>2, <3>1, <3>2
  <2>2. CASE k >= i
    <3>1. k - i + 1 \in 1 .. Len(s) - i + 1 /\ i + (k - i + 1) = k + 1 /\ k - i + 1 + i - 1 = k
      BY <1>1, <2>2
    <3>2. t[i + (k - i + 1)] = b[k - i + 1]
      BY <1>6, <3>1
    <3> QED
      BY <1>2, <3>1, <3>2
  <2> QED
    BY <1>1, <2>1, <2>2
<1>8. t \in Seq(T) /\ DOMAIN t = 1 .. Len(s) + 1
  <2> HIDE DEF t, c
  <2> QED
    BY <1>6
<1> QED
  BY <1>7, <1>8

\* Removing one leaves a sequence.
LEMMA Removed ==
    ASSUME NEW T, NEW s \in Seq(T), NEW i \in 1 .. Len(s)
    PROVE  RemoveAt(s, i) \in Seq(T)
<1> DEFINE a == SubSeq(s, 1, i - 1)
           b == SubSeq(s, i + 1, Len(s))
<1>1. Len(s) \in Nat /\ i \in Nat /\ \A k \in 1 .. Len(s) : s[k] \in T
  OBVIOUS
<1>2. a = [k \in 1 .. i - 1 |-> s[k]] /\ b = [k \in 1 .. Len(s) - i |-> s[k + i]]
  BY <1>1
<1>3. a \in Seq(T) /\ b \in Seq(T)
  <2>1. \A k \in 1 .. i - 1 : s[k] \in T
    BY <1>1
  <2>2. \A k \in 1 .. Len(s) - i : s[k + i] \in T
    BY <1>1
  <2>3. a \in [1 .. i - 1 -> T] /\ b \in [1 .. Len(s) - i -> T]
    BY <1>2, <2>1, <2>2
  <2>4. i - 1 \in Nat /\ Len(s) - i \in Nat
    BY <1>1
  <2> HIDE DEF a, b
  <2> QED
    BY <2>3, <2>4
<1> HIDE DEF a, b
<1>4. a \o b \in Seq(T)
  BY <1>3
<1> QED
  BY <1>4 DEF RemoveAt, a, b

\* StartLookup begins with all rows ahead.
LEMMA StartKeeps ==
    ASSUME P!ReadingAssumption, IndexTypes, P!StartLookup
    PROVE  IndexTypes' /\ LookupInv'
<1>1. /\ rows' = rows /\ lookup' = [status |-> "paging", page |-> 1,
                                    there |-> Wanted \in ToSet(rows), shrunk |-> FALSE]
      /\ UNCHANGED <<rows, pools, cached, listing, changes>>
  BY DEF P!StartLookup, P!ToSet, ToSet
<1>2. IndexTypes'
  BY <1>1 DEF IndexTypes, Lookups
<1>3. lookup'.there => Ahead'
  <2> SUFFICES ASSUME Wanted \in ToSet(rows) PROVE Ahead'
    BY <1>1
  <2>1. PICK i \in DOMAIN rows : rows[i] = Wanted
    BY DEF ToSet
  <2>2. i > (1 - 1) * PageSize
    <3>1. rows \in Seq({Wanted, Other}) /\ PageSize \in Nat
      BY DEF IndexTypes, P!ReadingAssumption
    <3>2. i \in Nat /\ i > 0
      BY <3>1
    <3>3. (1 - 1) * PageSize = 0
      BY <3>1
    <3> QED
      BY <3>2, <3>3
  <2> QED
    BY <1>1, <2>1, <2>2 DEF Ahead
<1> QED
  BY <1>1, <1>2, <1>3 DEF LookupInv, P!MissNeedsRemoval

\* A turn of the loop moves on only past a page without the position, and ends only
\* where no row is left.
LEMMA FetchKeeps ==
    ASSUME P!ReadingAssumption, IndexTypes, LookupInv, P!FetchPage
    PROVE  IndexTypes' /\ LookupInv'
<1>0. /\ lookup \in Lookups /\ lookup.status = "paging" /\ lookup.page \in Nat \ {0}
      /\ UNCHANGED <<rows, pools, cached, listing, changes>>
  BY DEF IndexTypes, P!FetchPage, Lookups
<1>1. ASSUME NEW st \in {"found", "not_found", "too_many"}, P!LookupEnds(st)
      PROVE  /\ IndexTypes'
             /\ lookup'.status = st /\ lookup'.there = lookup.there /\ lookup'.shrunk = lookup.shrunk
  <2>1. lookup' = [lookup EXCEPT !.status = st]
    BY <1>1 DEF P!LookupEnds
  <2>2. lookup' \in Lookups /\ lookup'.status = st /\ lookup'.there = lookup.there
        /\ lookup'.shrunk = lookup.shrunk
    BY <1>0, <2>1 DEF Lookups
  <2> QED
    BY <1>0, <2>2 DEF IndexTypes
<1>2. lookup.there /\ ~lookup.shrunk => Ahead
  BY <1>0 DEF LookupInv
<1>3. CASE Wanted \in P!Page(lookup.page)
  <2>1. P!LookupEnds("found")
    BY <1>3 DEF P!FetchPage
  <2> QED
    BY <1>1, <2>1 DEF LookupInv, P!MissNeedsRemoval
<1>4. CASE Wanted \notin P!Page(lookup.page) /\ lookup.page + 1 > P!TotalPages
  <2>1. P!LookupEnds("not_found")
    BY <1>4 DEF P!FetchPage
  <2>2. ~Ahead
    <3>1. P!TotalPages \in Int
      BY DEF P!TotalPages, IndexTypes, P!ReadingAssumption
    <3> QED
      BY <1>0, <1>4, <3>1, NotYet
  <2> QED
    BY <1>1, <1>2, <2>1, <2>2 DEF LookupInv, P!MissNeedsRemoval
<1>5. CASE P!LookupEnds("too_many")
  BY <1>1, <1>5 DEF LookupInv, P!MissNeedsRemoval
<1>6. CASE Wanted \notin P!Page(lookup.page) /\ lookup' = [lookup EXCEPT !.page = @ + 1]
  <2>1. /\ lookup' \in Lookups /\ lookup'.status = "paging" /\ lookup'.page = lookup.page + 1
        /\ lookup'.there = lookup.there /\ lookup'.shrunk = lookup.shrunk
    BY <1>0, <1>6 DEF Lookups
  <2>2. IndexTypes'
    BY <1>0, <2>1 DEF IndexTypes
  <2>3. Ahead => Ahead'
    <3> SUFFICES ASSUME Ahead PROVE Ahead'
      OBVIOUS
    <3>1. PICK i \in DOMAIN rows : i > lookup.page * PageSize /\ rows[i] = Wanted
      BY <1>0, <1>6, NotYet
    <3>2. lookup'.page - 1 = lookup.page
      BY <1>0, <2>1
    <3> QED
      BY <1>0, <3>1, <3>2 DEF Ahead
  <2> QED
    BY <1>2, <2>1, <2>2, <2>3 DEF LookupInv, P!MissNeedsRemoval
<1> QED
  BY <1>3, <1>4, <1>5, <1>6 DEF P!FetchPage

\* Acquire moves the position to a later place, if at all.
LEMMA AcquireKeeps ==
    ASSUME P!ReadingAssumption, IndexTypes, LookupInv, P!Acquire
    PROVE  IndexTypes' /\ LookupInv'
<1>1. PICK row \in {Wanted, Other}, i \in 1 .. (Len(rows) + 1) : rows' = InsertAt(rows, i, row)
  BY DEF P!Acquire, P!InsertAt, InsertAt
<1>2. rows \in Seq({Wanted, Other}) /\ Len(rows) \in Nat /\ DOMAIN rows = 1 .. Len(rows)
  BY DEF IndexTypes
<1>3. /\ rows' \in Seq({Wanted, Other}) /\ DOMAIN rows' = 1 .. Len(rows) + 1
      /\ \A k \in 1 .. Len(rows) : rows'[k] = rows[k] \/ rows'[k + 1] = rows[k]
  <2> DEFINE T == {Wanted, Other}
             t == InsertAt(rows, i, row)
  <2>1. rows \in Seq(T) /\ i \in 1 .. Len(rows) + 1 /\ row \in T
    BY <1>2
  <2> HIDE DEF T
  <2>2. /\ t \in Seq(T) /\ DOMAIN t = 1 .. Len(rows) + 1
        /\ \A k \in 1 .. Len(rows) : t[k] = rows[k] \/ t[k + 1] = rows[k]
    BY <2>1, Inserted
  <2> QED
    BY <1>1, <2>2 DEF T
<1>4. /\ UNCHANGED <<pools, cached, lookup, listing>> /\ changes' = changes + 1
      /\ lookup.status = "paging" /\ changes \in Nat /\ lookup.page \in Nat
  BY DEF P!Acquire, P!Change, IndexTypes, Lookups
<1>5. IndexTypes'
  BY <1>3, <1>4 DEF IndexTypes
<1>6. Ahead => Ahead'
  <2> SUFFICES ASSUME Ahead PROVE Ahead'
    OBVIOUS
  <2>1. PICK k \in 1 .. Len(rows) : k > (lookup.page - 1) * PageSize /\ rows[k] = Wanted
    BY <1>2 DEF Ahead
  <2>2. (lookup.page - 1) * PageSize \in Int
    BY <1>4 DEF P!ReadingAssumption
  <2>3. k \in DOMAIN rows' /\ k + 1 \in DOMAIN rows' /\ k + 1 > (lookup.page - 1) * PageSize
    BY <1>2, <1>3, <2>1, <2>2
  <2>4. rows'[k] = Wanted \/ rows'[k + 1] = Wanted
    BY <1>3, <2>1
  <2> QED
    BY <1>4, <2>1, <2>3, <2>4 DEF Ahead
<1> QED
  BY <1>4, <1>5, <1>6 DEF LookupInv, P!MissNeedsRemoval

\* Part makes no promise about what is left.
LEMMA PartKeeps ==
    ASSUME IndexTypes, P!Part
    PROVE  IndexTypes' /\ LookupInv'
<1>1. PICK i \in DOMAIN rows : rows' = RemoveAt(rows, i)
  BY DEF P!Part, P!RemoveAt, RemoveAt
<1>2. rows' \in Seq({Wanted, Other})
  <2> DEFINE T == {Wanted, Other}
  <2>1. rows \in Seq(T) /\ i \in 1 .. Len(rows)
    BY DEF IndexTypes
  <2> HIDE DEF T
  <2>2. RemoveAt(rows, i) \in Seq(T)
    BY <2>1, Removed
  <2> QED
    BY <1>1, <2>2 DEF T
<1>3. /\ lookup' \in Lookups /\ lookup'.status = lookup.status /\ lookup'.page = lookup.page
      /\ lookup'.shrunk = TRUE
  BY DEF P!Part, IndexTypes, Lookups
<1>4. UNCHANGED <<pools, cached, listing>> /\ changes' \in Nat
  BY DEF P!Part, P!Change, IndexTypes
<1> QED
  BY <1>2, <1>3, <1>4 DEF IndexTypes, LookupInv, P!MissNeedsRemoval

\* A page that fails ends the lookup, which then misses nothing.
LEMMA FetchFailsKeeps ==
    ASSUME IndexTypes, P!FetchPageFails
    PROVE  IndexTypes' /\ LookupInv'
<1>1. /\ lookup' \in Lookups /\ lookup'.status = "failed"
      /\ UNCHANGED <<rows, pools, cached, listing, changes>>
  BY DEF P!FetchPageFails, P!LookupEnds, IndexTypes, Lookups
<1> QED
  BY <1>1 DEF IndexTypes, LookupInv, P!MissNeedsRemoval

\* The steps of the listing and the pools do not concern the lookup.
LEMMA LookupStays ==
    ASSUME LookupInv, UNCHANGED <<rows, lookup>>
    PROVE  LookupInv'
BY DEF LookupInv, P!MissNeedsRemoval, Ahead

-------------------------------------------------------------------------------
(***************************************************************************)
(* The listing                                                             *)
(***************************************************************************)

\* Where the next page begins.
NextCursor(page, cursor) == IF page = <<>> THEN cursor ELSE Last(page)

\* A page has the ids above the cursor up to the next one, in order.
LEMMA AfterFacts ==
    ASSUME P!ReadingAssumption, NEW ids \in SUBSET PoolIds, NEW cursor \in Nat
    PROVE  LET page == P!After(ids, cursor)
               next == NextCursor(page, cursor)
           IN  /\ page \in Seq(PoolIds) /\ Ascends(page)
               /\ next \in Nat /\ cursor <= next
               /\ \A i \in DOMAIN page : cursor < page[i] /\ page[i] <= next
               /\ \A id \in ids : cursor < id /\ id <= next => id \in ToSet(page)
<1> DEFINE above == {id \in ids : id > cursor}
           s == Sorted(above, <)
           l == Min({PageSize, Len(s)})
           page == P!After(ids, cursor)
           next == NextCursor(page, cursor)
<1>1. IsFiniteSet(above) /\ above \in SUBSET Int /\ above \in SUBSET PoolIds /\ above \in SUBSET Nat
  <2>1. PoolIds \in SUBSET Nat /\ IsFiniteSet(PoolIds)
    BY DEF P!ReadingAssumption, P!IsFiniteSet, IsFiniteSet
  <2>2. above \in SUBSET PoolIds
    OBVIOUS
  <2> HIDE DEF above
  <2>3. IsFiniteSet(above)
    BY <2>1, <2>2, FS_Subset
  <2> QED
    BY <2>1, <2>2, <2>3
<1> HIDE DEF above
<1>2. /\ s \in Seq(above) /\ Range(s) = above
      /\ \A i, k \in DOMAIN s : i < k => s[i] < s[k]
  BY <1>1, SortedNumbers
<1> HIDE DEF s
<1>3. Len(s) \in Nat /\ DOMAIN s = 1 .. Len(s) /\ \A k \in 1 .. Len(s) : s[k] \in above
  BY <1>2
<1>4. l \in {PageSize, Len(s)} /\ l <= Len(s) /\ l \in Nat
  <2>1. l = Lesser(PageSize, Len(s))
    BY DEF Lesser
  <2>2. PageSize \in Nat
    BY DEF P!ReadingAssumption
  <2> HIDE DEF l
  <2> QED
    BY <1>3, <2>1, <2>2, LesserFacts
<1>5. page = SubSeq(s, 1, l)
  BY DEF P!After, P!Sorted, P!Min, P!Cardinality, Sorted, Min, Cardinality, above, s
<1> HIDE DEF l
<1>6. /\ page \in Seq(above) /\ Len(page) = l /\ DOMAIN page = 1 .. l
      /\ \A k \in 1 .. l : page[k] = s[k]
  BY <1>2, <1>4, <1>5, FirstOf
<1> HIDE DEF page
<1>7. \A i \in 1 .. l : i \in 1 .. Len(s)
  <2>1. l \in Nat /\ Len(s) \in Nat /\ l <= Len(s)
    BY <1>3, <1>4
  <2> QED
    BY <2>1
<1>8. \A i \in 1 .. l : page[i] \in above /\ page[i] \in Nat /\ page[i] \in PoolIds /\ cursor < page[i]
  <2> SUFFICES ASSUME NEW i \in 1 .. l
               PROVE  page[i] \in above /\ page[i] \in Nat /\ page[i] \in PoolIds /\ cursor < page[i]
    OBVIOUS
  <2>1. page[i] \in above
    BY <1>3, <1>6, <1>7
  <2> QED
    BY <1>1, <2>1 DEF above
<1>9. page \in Seq(PoolIds)
  <2>1. page \in [1 .. l -> PoolIds]
    <3>1. page = [i \in DOMAIN page |-> page[i]]
      BY <1>6
    <3> QED
      BY <1>6, <1>8, <3>1
  <2> QED
    BY <1>4, <2>1
<1>10. Ascends(page)
  <2> SUFFICES ASSUME NEW i \in 1 .. l, NEW k \in 1 .. l, i < k PROVE page[i] < page[k]
    BY <1>6 DEF Ascends
  <2>1. i \in DOMAIN s /\ k \in DOMAIN s
    BY <1>3, <1>7
  <2>2. s[i] < s[k]
    BY <1>2, <2>1
  <2> QED
    BY <1>6, <2>2
<1>11. CASE l = 0
  <2>1. page = <<>> /\ next = cursor
    BY <1>6, <1>11 DEF NextCursor
  <2>2. Len(s) = 0
    BY <1>4, <1>11 DEF P!ReadingAssumption
  <2>3. above = {}
    BY <1>2, <1>3, <2>2 DEF Range
  <2>4. \A id \in ids : ~(cursor < id)
    BY <2>3 DEF above, P!ReadingAssumption
  <2>5. DOMAIN page = {}
    BY <1>6, <1>11
  <2> HIDE DEF next
  <2> QED
    BY <1>9, <1>10, <2>1, <2>4, <2>5 DEF page, next
<1>12. CASE l # 0
  <2>1. l \in 1 .. l /\ page # <<>> /\ next = page[l]
    BY <1>4, <1>6, <1>12 DEF NextCursor, Last
  <2>2. next \in Nat /\ cursor < next
    BY <1>8, <2>1
  <2> HIDE DEF next
  <2>3. \A i \in 1 .. l : page[i] <= next
    <3> SUFFICES ASSUME NEW i \in 1 .. l PROVE page[i] <= next
      OBVIOUS
    <3>1. i < l => page[i] < page[l]
      BY <1>6, <1>10, <2>1 DEF Ascends
    <3>2. i < l \/ i = l
      BY <1>4
    <3>3. page[i] \in Nat
      BY <1>8
    <3> QED
      BY <2>1, <2>2, <3>1, <3>2, <3>3
  <2>4. ASSUME NEW id \in ids, cursor < id, id <= next PROVE id \in ToSet(page)
    <3>1. id \in above /\ id \in Nat
      BY <2>4 DEF above, P!ReadingAssumption
    <3>2. PICK k \in DOMAIN s : s[k] = id
      BY <1>2, <3>1 DEF Range
    <3>3. l \in DOMAIN s /\ next = s[l]
      BY <1>3, <1>6, <1>7, <2>1
    <3>4. ~(l < k)
      <4>1. l < k => s[l] < s[k]
        BY <1>2, <3>3
      <4> QED
        BY <2>2, <2>4, <3>1, <3>2, <3>3, <4>1
    <3>5. k \in 1 .. l
      <4>1. k \in 1 .. Len(s)
        BY <1>3
      <4> QED
        BY <1>4, <3>4, <4>1
    <3>6. k \in DOMAIN page /\ page[k] = id
      BY <1>6, <3>2, <3>5
    <3> QED
      BY <3>6 DEF ToSet
  <2>5. cursor <= next
    BY <2>2
  <2> QED
    BY <1>6, <1>8, <1>9, <1>10, <2>2, <2>3, <2>4, <2>5 DEF page, next
<1> QED
  BY <1>4, <1>11, <1>12

\* A page of the pools, or of the cache, adds the known ones up to its end.
LEMMA PageKeeps ==
    ASSUME P!ReadingAssumption, IndexTypes, ListingInv, listing.status = "listing",
           NEW ids, ids \in {pools, cached}, P!ListPageOf(ids)
    PROVE  /\ listing' \in Listings
           /\ (cached' = cached) => ListingInv'
<1> DEFINE page == P!After(ids, listing.cursor)
           next == NextCursor(page, listing.cursor)
           more == \E id \in ids : id > next
           seen == listing.seen
           joined == seen \o page
<1>1. /\ listing \in Listings /\ seen \in Seq(PoolIds) /\ listing.cursor \in Nat
      /\ ids \in SUBSET PoolIds /\ listing.known \in SUBSET ids
  BY DEF IndexTypes, Listings, ListingInv
<1>2. /\ page \in Seq(PoolIds) /\ Ascends(page)
      /\ next \in Nat /\ listing.cursor <= next
      /\ \A i \in DOMAIN page : listing.cursor < page[i] /\ page[i] <= next
      /\ \A id \in ids : listing.cursor < id /\ id <= next => id \in ToSet(page)
  BY <1>1, AfterFacts
<1>3. listing' = IF ~P!Sound(page) THEN [listing EXCEPT !.status = "failed"]
                 ELSE [listing EXCEPT !.seen = joined, !.cursor = next,
                           !.status = IF more THEN "listing" ELSE "complete"]
  BY DEF P!ListPageOf, P!Last, Last, NextCursor
<1> HIDE DEF page, next, more
<1>4. CASE ~P!Sound(page)
  <2>1. /\ listing' \in Listings /\ listing'.status = "failed" /\ listing'.known = listing.known
        /\ listing'.seen = seen /\ listing'.cursor = listing.cursor
    BY <1>1, <1>3, <1>4 DEF Listings
  <2> QED
    BY <2>1 DEF ListingInv, Ascends
<1>5. CASE P!Sound(page)
  <2>1. joined \in Seq(PoolIds)
    BY <1>1, <1>2
  <2>2. /\ listing' \in Listings /\ listing'.known = listing.known
        /\ listing'.seen = joined /\ listing'.cursor = next
        /\ listing'.status = IF more THEN "listing" ELSE "complete"
    <3> HIDE DEF joined
    <3> QED
      BY <1>1, <1>2, <1>3, <1>5, <2>1 DEF Listings
  <2> DEFINE m == Len(seen)
             n == Len(page)
  <2>3. /\ m \in Nat /\ n \in Nat /\ DOMAIN seen = 1 .. m /\ DOMAIN page = 1 .. n
        /\ DOMAIN joined = 1 .. m + n
        /\ \A i \in 1 .. m + n : \/ i \in 1 .. m /\ joined[i] = seen[i]
                                 \/ i - m \in 1 .. n /\ joined[i] = page[i - m]
        /\ \A i \in 1 .. m : i \in 1 .. m + n /\ joined[i] = seen[i]
        /\ \A i \in 1 .. n : m + i \in 1 .. m + n /\ joined[m + i] = page[i]
    BY <1>1, <1>2
  <2>4. /\ \A i \in 1 .. m : seen[i] \in Nat
        /\ \A i \in 1 .. n : page[i] \in Nat
    <3>1. PoolIds \in SUBSET Nat
      BY DEF P!ReadingAssumption
    <3>2. /\ \A i \in 1 .. m : seen[i] \in PoolIds
          /\ \A i \in 1 .. n : page[i] \in PoolIds
      BY <1>1, <1>2
    <3> QED
      BY <3>1, <3>2
  <2>5. /\ \A i \in 1 .. m : seen[i] <= listing.cursor /\ seen[i] \notin Drifted
        /\ \A i \in 1 .. n : page[i] \notin Drifted
    BY <1>5, <2>3 DEF ListingInv, P!Sound, P!Derives
  <2> HIDE DEF m, n, joined
  <2>6. Ascends(joined)
    <3> SUFFICES ASSUME NEW i \in 1 .. m + n, NEW k \in 1 .. m + n, i < k PROVE joined[i] < joined[k]
      BY <2>3 DEF Ascends
    <3>1. CASE i \in 1 .. m /\ joined[i] = seen[i] /\ k \in 1 .. m /\ joined[k] = seen[k]
      BY <2>3, <3>1 DEF ListingInv, Ascends
    <3>2. CASE i \in 1 .. m /\ joined[i] = seen[i] /\ k - m \in 1 .. n /\ joined[k] = page[k - m]
      <4>1. joined[i] <= listing.cursor /\ joined[i] \in Nat
        BY <2>4, <2>5, <3>2
      <4>2. listing.cursor < joined[k] /\ joined[k] \in Nat
        BY <1>2, <2>3, <2>4, <3>2
      <4> QED
        BY <1>1, <4>1, <4>2
    <3>3. CASE i - m \in 1 .. n /\ joined[i] = page[i - m] /\ k - m \in 1 .. n /\ joined[k] = page[k - m]
      <4>1. i - m < k - m
        BY <2>3
      <4>2. i - m \in DOMAIN page /\ k - m \in DOMAIN page
        BY <2>3, <3>3
      <4>3. page[i - m] < page[k - m]
        BY <1>2, <4>1, <4>2 DEF Ascends
      <4> QED
        BY <3>3, <4>3
    <3>4. ~(i - m \in 1 .. n /\ k \in 1 .. m)
      BY <2>3
    <3> QED
      BY <2>3, <3>1, <3>2, <3>3, <3>4
  <2>7. \A i \in 1 .. m + n : joined[i] <= next /\ joined[i] \notin Drifted
    <3> SUFFICES ASSUME NEW i \in 1 .. m + n PROVE joined[i] <= next /\ joined[i] \notin Drifted
      OBVIOUS
    <3>1. CASE i \in 1 .. m /\ joined[i] = seen[i]
      <4>1. joined[i] <= listing.cursor /\ joined[i] \in Nat /\ joined[i] \notin Drifted
        BY <2>4, <2>5, <3>1
      <4> QED
        BY <1>1, <1>2, <4>1
    <3>2. CASE i - m \in 1 .. n /\ joined[i] = page[i - m]
      BY <1>2, <2>3, <2>5, <3>2
    <3> QED
      BY <2>3, <3>1, <3>2
  <2>8. ASSUME NEW id \in listing.known, id <= next PROVE id \in ToSet(joined)
    <3>1. id \in Nat /\ id \in ids
      BY <1>1 DEF P!ReadingAssumption
    <3>2. CASE id <= listing.cursor
      <4>1. PICK i \in 1 .. m : seen[i] = id
        BY <2>3, <3>2 DEF ListingInv, ToSet
      <4> QED
        BY <2>3, <4>1 DEF ToSet
    <3>3. CASE listing.cursor < id
      <4>1. PICK i \in 1 .. n : page[i] = id
        BY <1>2, <2>3, <2>8, <3>1, <3>3 DEF ToSet
      <4> QED
        BY <2>3, <4>1 DEF ToSet
    <3> QED
      BY <1>1, <3>1, <3>2, <3>3
  <2>9. ~more => \A id \in listing.known : id <= next
    <3> SUFFICES ASSUME ~more, NEW id \in listing.known PROVE id <= next
      OBVIOUS
    <3>1. id \in Nat /\ id \in ids /\ ~(id > next)
      BY <1>1 DEF P!ReadingAssumption, more
    <3> QED
      BY <1>2, <3>1
  <2>10. ASSUME cached' = cached PROVE ListingInv'
    <3>1. listing.known \subseteq cached
      BY DEF ListingInv
    <3> QED
      BY <2>2, <2>3, <2>6, <2>7, <2>8, <2>9, <2>10, <3>1 DEF ListingInv
  <2> QED
    BY <2>2, <2>10
<1> QED
  BY <1>4, <1>5

\* The steps of the lookup and its rows do not concern the listing.
LEMMA ListingStays ==
    ASSUME ListingInv, UNCHANGED <<cached, listing>>
    PROVE  ListingInv'
BY DEF ListingInv, Ascends

\* StartListing has seen nothing, and every pool lies ahead of its cursor.
LEMMA StartListingKeeps ==
    ASSUME P!ReadingAssumption, IndexTypes, P!StartListing
    PROVE  IndexTypes' /\ ListingInv'
<1>1. /\ UNCHANGED <<rows, pools, cached, lookup, changes>>
      /\ listing' = [status |-> "listing", cursor |-> 0, seen |-> <<>>, known |-> cached]
  BY DEF P!StartListing, P!NoListing
<1>2. cached \in SUBSET PoolIds /\ PoolIds \in SUBSET (Nat \ {0})
  BY DEF IndexTypes, P!ReadingAssumption
<1>3. <<>> \in Seq(PoolIds) /\ DOMAIN <<>> = {}
  OBVIOUS
<1>4. listing' \in Listings
  BY <1>1, <1>2, <1>3 DEF Listings
<1>5. \A id \in cached : ~(id <= 0)
  BY <1>2
<1> QED
  BY <1>1, <1>3, <1>4, <1>5 DEF IndexTypes, ListingInv, Ascends

\* New pools, and a cache filled again, hide none of those known.
LEMMA PoolsKeep ==
    ASSUME IndexTypes, ListingInv, P!InitializePool \/ P!Revalidate
    PROVE  IndexTypes' /\ ListingInv'
<1>1. UNCHANGED <<rows, lookup, listing>> /\ changes' \in Nat
  BY DEF P!InitializePool, P!Revalidate, P!Change, IndexTypes
<1>2. pools' \in SUBSET PoolIds /\ cached' \in SUBSET pools' /\ cached \subseteq cached'
  BY DEF P!InitializePool, P!Revalidate, IndexTypes
<1> QED
  BY <1>1, <1>2 DEF IndexTypes, ListingInv, Ascends

-------------------------------------------------------------------------------
\* Nothing has been looked for or listed.
LEMMA IndexStarts ==
    ASSUME P!ReadingAssumption, P!Init
    PROVE  IndexInv
<1>1. rows \in Seq({Wanted, Other})
  BY DEF P!Init
<1>2. <<>> \in Seq(PoolIds) /\ DOMAIN <<>> = {}
  OBVIOUS
<1>3. lookup \in Lookups /\ lookup.status = "idle"
  BY DEF P!Init, P!NoLookup, Lookups
<1>4. /\ listing \in Listings /\ listing.status = "idle" /\ listing.known = {}
      /\ listing.seen = <<>>
  BY <1>2 DEF P!Init, P!NoListing, Listings
<1>5. pools \in SUBSET PoolIds /\ cached \in SUBSET pools /\ changes \in Nat
  BY DEF P!Init
<1> QED
  BY <1>1, <1>2, <1>3, <1>4, <1>5
  DEF IndexInv, IndexTypes, LookupInv, P!MissNeedsRemoval, ListingInv, Ascends

\* Every step keeps it.
LEMMA IndexKeeps ==
    ASSUME IndexInv, [P!Next]_(P!vars)
    PROVE  IndexInv'
<1>0. P!ReadingAssumption /\ IndexTypes /\ LookupInv /\ ListingInv
  BY DEF IndexInv
<1> SUFFICES IndexTypes' /\ LookupInv' /\ ListingInv'
  BY <1>0 DEF IndexInv, P!ReadingAssumption
<1>1. CASE P!StartLookup
  <2>1. UNCHANGED <<cached, listing>>
    BY <1>1 DEF P!StartLookup
  <2> QED
    BY <1>0, <1>1, <2>1, StartKeeps, ListingStays
<1>2. CASE P!FetchPage
  <2>1. UNCHANGED <<cached, listing>>
    BY <1>2 DEF P!FetchPage
  <2> QED
    BY <1>0, <1>2, <2>1, FetchKeeps, ListingStays
<1>3. CASE P!FetchPageFails
  <2>1. UNCHANGED <<cached, listing>>
    BY <1>3 DEF P!FetchPageFails
  <2> QED
    BY <1>0, <1>3, <2>1, FetchFailsKeeps, ListingStays
<1>4. CASE P!StartListing
  <2>1. UNCHANGED <<rows, lookup>>
    BY <1>4 DEF P!StartListing
  <2> QED
    BY <1>0, <1>4, <2>1, StartListingKeeps, LookupStays
<1>5. CASE P!ListPage
  <2>1. UNCHANGED <<rows, pools, cached, lookup, changes>> /\ listing.status = "listing"
    BY <1>5 DEF P!ListPage
  <2>2. listing' \in Listings /\ ListingInv'
    BY <1>0, <1>5, <2>1, PageKeeps DEF P!ListPage
  <2> QED
    BY <1>0, <2>1, <2>2, LookupStays DEF IndexTypes
<1>6. CASE P!Acquire
  <2>1. UNCHANGED <<cached, listing>>
    BY <1>6 DEF P!Acquire
  <2> QED
    BY <1>0, <1>6, <2>1, AcquireKeeps, ListingStays
<1>7. CASE P!Part
  <2>1. UNCHANGED <<cached, listing>>
    BY <1>7 DEF P!Part
  <2> QED
    BY <1>0, <1>7, <2>1, PartKeeps, ListingStays
<1>8. CASE P!InitializePool \/ P!Revalidate
  <2>1. UNCHANGED <<rows, lookup>>
    BY <1>8 DEF P!InitializePool, P!Revalidate
  <2> QED
    BY <1>0, <1>8, <2>1, PoolsKeep, LookupStays
<1>9. CASE UNCHANGED P!vars
  BY <1>0, <1>9 DEF P!vars, IndexTypes, LookupInv, P!MissNeedsRemoval, Ahead, ListingInv, Ascends
<1> QED
  BY <1>1, <1>2, <1>3, <1>4, <1>5, <1>6, <1>7, <1>8, <1>9 DEF P!Next

-------------------------------------------------------------------------------
(*****************************************************************************)
(* Savings: the ledger, and what a batch makes of it                         *)
(*****************************************************************************)

SavingsTokens == {"asset", "share", "steth", "wsteth"}
SavingsSpenders == {"aave", "vault", "queue", "wsteth"}
SavingsPurse == [asset : Nat, share : Nat, steth : Nat, wsteth : Nat]
SavingsPurses == [S!Holders -> SavingsPurse]
SavingsGrants == [SavingsSpenders -> Nat]
SavingsAmounts == [S!Holders -> Nat]
SavingsRequest == [amount : Nat, owner : S!Holders \cup {None}]
SavingsQueue == Seq(SavingsRequest)

\* What no call of the wallet changes.
SavingsKept(v, l) ==
    /\ v.now = l.now /\ v.price = l.price /\ v.collateral = l.collateral
    /\ v.delegators = l.delegators /\ v.finalized = l.finalized

\* A ledger with one of its parts replaced.
SavingsGranting(l, spender, n) == [l EXCEPT !.allowance[spender] = n]
SavingsBooking(l, who, token, n) == [l EXCEPT !.bal[who][token] = n]
SavingsWithBal(l, x) == [l EXCEPT !.bal = x]
SavingsWithAllowance(l, x) == [l EXCEPT !.allowance = x]
SavingsWithSupplied(l, x) == [l EXCEPT !.supplied = x]
SavingsWithDebt(l, x) == [l EXCEPT !.debt = x]
SavingsWithQueue(l, x) == [l EXCEPT !.queue = x]

\* The parts of a ledger.
LEMMA SavingsParts ==
    ASSUME NEW l \in S!Ledger
    PROVE  /\ l.bal \in SavingsPurses /\ l.allowance \in SavingsGrants
           /\ l.supplied \in SavingsAmounts /\ l.debt \in SavingsAmounts
           /\ l.queue \in SavingsQueue /\ l.finalized \in Nat /\ l.now \in Nat
           /\ l.price \in Nat /\ l.price # 0
BY DEF S!Ledger, SavingsPurses, SavingsPurse, SavingsGrants, SavingsSpenders, SavingsAmounts, SavingsQueue, SavingsRequest

\* Each part of a ledger may be replaced.
LEMMA SavingsSetBal ==
    ASSUME NEW l \in S!Ledger, NEW x \in SavingsPurses, NEW v, v = SavingsWithBal(l, x)
    PROVE  /\ v \in S!Ledger /\ SavingsKept(v, l) /\ v.bal = x /\ v.allowance = l.allowance
           /\ v.supplied = l.supplied /\ v.debt = l.debt /\ v.queue = l.queue
BY DEF SavingsWithBal, S!Ledger, SavingsKept, SavingsPurses, SavingsPurse

\* Its allowances.
LEMMA SavingsSetAllowance ==
    ASSUME NEW l \in S!Ledger, NEW x \in SavingsGrants, NEW v, v = SavingsWithAllowance(l, x)
    PROVE  /\ v \in S!Ledger /\ SavingsKept(v, l) /\ v.bal = l.bal /\ v.allowance = x
           /\ v.supplied = l.supplied /\ v.debt = l.debt /\ v.queue = l.queue
BY DEF SavingsWithAllowance, S!Ledger, SavingsKept, SavingsGrants, SavingsSpenders

\* What is supplied.
LEMMA SavingsSetSupplied ==
    ASSUME NEW l \in S!Ledger, NEW x \in SavingsAmounts, NEW v, v = SavingsWithSupplied(l, x)
    PROVE  /\ v \in S!Ledger /\ SavingsKept(v, l) /\ v.bal = l.bal /\ v.allowance = l.allowance
           /\ v.supplied = x /\ v.debt = l.debt /\ v.queue = l.queue
BY DEF SavingsWithSupplied, S!Ledger, SavingsKept, SavingsAmounts

\* What is owed.
LEMMA SavingsSetDebt ==
    ASSUME NEW l \in S!Ledger, NEW x \in SavingsAmounts, NEW v, v = SavingsWithDebt(l, x)
    PROVE  /\ v \in S!Ledger /\ SavingsKept(v, l) /\ v.bal = l.bal /\ v.allowance = l.allowance
           /\ v.supplied = l.supplied /\ v.debt = x /\ v.queue = l.queue
BY DEF SavingsWithDebt, S!Ledger, SavingsKept, SavingsAmounts

\* The queue.
LEMMA SavingsSetQueue ==
    ASSUME NEW l \in S!Ledger, NEW x \in SavingsQueue, NEW v, v = SavingsWithQueue(l, x)
    PROVE  /\ v \in S!Ledger /\ SavingsKept(v, l) /\ v.bal = l.bal /\ v.allowance = l.allowance
           /\ v.supplied = l.supplied /\ v.debt = l.debt /\ v.queue = x
BY DEF SavingsWithQueue, S!Ledger, SavingsKept, SavingsQueue, SavingsRequest

\* One balance changes.
LEMMA SavingsPursePart ==
    ASSUME NEW b \in SavingsPurses, NEW who \in S!Holders, NEW token \in SavingsTokens, NEW n \in Nat,
           NEW c, c = [b EXCEPT ![who] = [b[who] EXCEPT ![token] = n]]
    PROVE  /\ c \in SavingsPurses /\ c[who][token] = n
           /\ \A h \in S!Holders, t \in SavingsTokens : h # who \/ t # token => c[h][t] = b[h][t]
<1>1. b[who] \in SavingsPurse
  BY DEF SavingsPurses
<1> DEFINE p == [b[who] EXCEPT ![token] = n]
<1>2. p \in SavingsPurse /\ p[token] = n /\ \A t \in SavingsTokens : t # token => p[t] = b[who][t]
  BY <1>1 DEF SavingsPurse, SavingsTokens
<1> HIDE DEF p
<1>3. c = [b EXCEPT ![who] = p]
  BY DEF p
<1>4. c \in SavingsPurses /\ c[who] = p /\ \A h \in S!Holders : h # who => c[h] = b[h]
  BY <1>2, <1>3 DEF SavingsPurses
<1> QED
  BY <1>2, <1>4

\* A balance is a number.
LEMMA SavingsBalance ==
    ASSUME NEW l \in S!Ledger, NEW who \in S!Holders, NEW token \in SavingsTokens
    PROVE  l.bal[who][token] \in Nat
BY DEF S!Ledger, SavingsTokens

\* One balance of the ledger l is n in u, and the others are as they were.
SavingsBalIs(u, l, who, token, n) ==
    /\ u.bal[who][token] = n
    /\ \A h \in S!Holders, t \in SavingsTokens : h # who \/ t # token => u.bal[h][t] = l.bal[h][t]

\* What is supplied, owed and queued is as it was.
SavingsSame(u, l) == u.supplied = l.supplied /\ u.debt = l.debt /\ u.queue = l.queue

\* No allowance but one has changed.
SavingsGrantOf(u, l, spender) == \A s \in SavingsSpenders : s # spender => u.allowance[s] = l.allowance[s]

\* An approval.
LEMMA SavingsApproved ==
    ASSUME NEW l \in S!Ledger, NEW spender \in SavingsSpenders, NEW n \in Nat,
           NEW v, v = SavingsGranting(l, spender, n)
    PROVE  /\ v \in S!Ledger /\ SavingsKept(v, l) /\ SavingsSame(v, l) /\ v.bal = l.bal
           /\ SavingsGrantOf(v, l, spender) /\ v.allowance[spender] = n
<1> DEFINE x == [l.allowance EXCEPT ![spender] = n]
<1>1. l.allowance \in SavingsGrants
  BY SavingsParts
<1>2. x \in SavingsGrants /\ x[spender] = n /\ \A s \in SavingsSpenders : s # spender => x[s] = l.allowance[s]
  BY <1>1 DEF SavingsGrants
<1>3. v = SavingsWithAllowance(l, x)
  BY DEF SavingsWithAllowance, SavingsGranting
<1> HIDE DEF x
<1>4. /\ v \in S!Ledger /\ SavingsKept(v, l) /\ v.bal = l.bal /\ v.allowance = x
      /\ v.supplied = l.supplied /\ v.debt = l.debt /\ v.queue = l.queue
  BY <1>2, <1>3, SavingsSetAllowance
<1> QED
  BY <1>2, <1>4 DEF SavingsSame, SavingsGrantOf

\* A balance that changes.
LEMMA SavingsBooked ==
    ASSUME NEW l \in S!Ledger, NEW who \in S!Holders, NEW token \in SavingsTokens, NEW n \in Nat,
           NEW v, v = SavingsBooking(l, who, token, n)
    PROVE  /\ v \in S!Ledger /\ SavingsKept(v, l) /\ SavingsSame(v, l) /\ v.allowance = l.allowance
           /\ SavingsBalIs(v, l, who, token, n)
<1> DEFINE x == [l.bal EXCEPT ![who] = [l.bal[who] EXCEPT ![token] = n]]
<1>1. l.bal \in SavingsPurses
  BY SavingsParts
<1>2. /\ x \in SavingsPurses /\ x[who][token] = n
      /\ \A h \in S!Holders, t \in SavingsTokens : h # who \/ t # token => x[h][t] = l.bal[h][t]
  BY <1>1, SavingsPursePart
<1>3. v = SavingsWithBal(l, x)
  BY DEF SavingsWithBal, SavingsBooking
<1> HIDE DEF x
<1>4. /\ v \in S!Ledger /\ SavingsKept(v, l) /\ v.bal = x /\ v.allowance = l.allowance
      /\ v.supplied = l.supplied /\ v.debt = l.debt /\ v.queue = l.queue
  BY <1>2, <1>3, SavingsSetBal
<1> QED
  BY <1>2, <1>4 DEF SavingsSame, SavingsBalIs

\* What someone is paid.
LEMMA SavingsPaid ==
    ASSUME NEW l \in S!Ledger, NEW who \in S!Holders, NEW token \in SavingsTokens, NEW amount \in Nat,
           NEW v, v = S!Paid(l, who, token, amount)
    PROVE  /\ v \in S!Ledger /\ SavingsKept(v, l) /\ SavingsSame(v, l) /\ v.allowance = l.allowance
           /\ SavingsBalIs(v, l, who, token, l.bal[who][token] + amount)
<1> DEFINE n == l.bal[who][token] + amount
<1>1. n \in Nat
  BY SavingsBalance
<1>2. v = SavingsBooking(l, who, token, n)
  BY DEF S!Paid, SavingsBooking
<1> HIDE DEF n
<1>3. /\ v \in S!Ledger /\ SavingsKept(v, l) /\ SavingsSame(v, l) /\ v.allowance = l.allowance
      /\ SavingsBalIs(v, l, who, token, n)
  BY <1>1, <1>2, SavingsBooked
<1> QED
  BY <1>3 DEF n

\* What a spender takes of the sender's is within what it was granted.
LEMMA SavingsPulled ==
    ASSUME NEW l \in S!Ledger, NEW spender \in SavingsSpenders, NEW token \in SavingsTokens,
           NEW amount \in Nat, Reverted \notin S!Ledger, NEW u, u = S!Pulled(l, spender, token, amount)
    PROVE  /\ u = Reverted <=> l.bal["sender"][token] < amount \/ l.allowance[spender] < amount
           /\ u # Reverted =>
                 /\ u \in S!Ledger /\ SavingsKept(u, l) /\ SavingsSame(u, l) /\ SavingsGrantOf(u, l, spender)
                 /\ SavingsBalIs(u, l, "sender", token, l.bal["sender"][token] - amount)
<1> DEFINE b == l.bal["sender"][token]
           n == b - amount
           k == l.allowance[spender] - amount
           v == SavingsBooking(l, "sender", token, n)
           z == SavingsGranting(v, spender, k)
<1>1. b \in Nat /\ l.allowance[spender] \in Nat /\ "sender" \in S!Holders
  BY SavingsBalance, SavingsParts DEF S!Holders, S!Saver, SavingsGrants
<1>2. u = IF b < amount \/ l.allowance[spender] < amount THEN Reverted ELSE z
  <2>1. u = IF b < amount \/ l.allowance[spender] < amount THEN Reverted
            ELSE [l EXCEPT !.bal["sender"][token] = @ - amount, !.allowance[spender] = @ - amount]
    BY DEF S!Pulled, S!Saver
  <2> QED
    BY <2>1 DEF SavingsBooking, SavingsGranting
<1>3. CASE b < amount \/ l.allowance[spender] < amount
  BY <1>2, <1>3
<1>4. CASE ~(b < amount \/ l.allowance[spender] < amount)
  <2>1. n \in Nat /\ k \in Nat /\ u = z
    BY <1>1, <1>2, <1>4
  <2>2. n = l.bal["sender"][token] - amount
    OBVIOUS
  <2> HIDE DEF n, k
  <2>3. /\ v \in S!Ledger /\ SavingsKept(v, l) /\ SavingsSame(v, l) /\ v.allowance = l.allowance
        /\ SavingsBalIs(v, l, "sender", token, n)
    BY <1>1, <2>1, SavingsBooked
  <2> HIDE DEF v
  <2>4. /\ z \in S!Ledger /\ SavingsKept(z, v) /\ SavingsSame(z, v) /\ z.bal = v.bal
        /\ SavingsGrantOf(z, v, spender)
    BY <2>1, <2>3, SavingsApproved
  <2> HIDE DEF z
  <2>5. /\ SavingsKept(z, l) /\ SavingsSame(z, l) /\ SavingsGrantOf(z, l, spender)
        /\ SavingsBalIs(z, l, "sender", token, n)
    BY <2>3, <2>4 DEF SavingsKept, SavingsSame, SavingsGrantOf, SavingsBalIs
  <2>6. u # Reverted
    BY <2>1, <2>4
  <2> QED
    BY <1>4, <2>1, <2>2, <2>4, <2>5, <2>6
<1> QED
  BY <1>3, <1>4
SavingsBatch(l, calls) == S!Batch(S!Apply, l, calls)

SavingsRuns(g, l, calls) ==
    /\ Len(calls) \in Nat /\ g[0] = l
    /\ \A k \in 1 .. Len(calls) :
          g[k] = IF g[k - 1] = Reverted THEN Reverted ELSE S!Apply(g[k - 1], calls[k])

\* The ledgers that the calls of a batch make one after the other decide it.
LEMMA SavingsCourse ==
    ASSUME NEW l, NEW calls, NEW g, SavingsRuns(g, l, calls)
    PROVE  SavingsBatch(l, calls) = g[Len(calls)]
<1> DEFINE n == Len(calls)
           then(s, k) == IF s = Reverted THEN Reverted ELSE S!Apply(s, calls[k])
           Solves(f) == f = [k \in 0 .. n |-> IF k = 0 THEN l ELSE then(f[k - 1], k)]
           run == CHOOSE f : Solves(f)
           same == {k \in Nat : k <= n => run[k] = g[k]}
<1>0. n \in Nat /\ g[0] = l /\ \A k \in 1 .. n : g[k] = then(g[k - 1], k)
  BY DEF SavingsRuns
<1>1. Solves([k \in 0 .. n |-> g[k]])
  <2> DEFINE h == [k \in 0 .. n |-> g[k]]
  <2> HIDE DEF then, n
  <2>2. ASSUME NEW k \in 0 .. n PROVE h[k] = IF k = 0 THEN l ELSE then(h[k - 1], k)
    <3>1. k # 0 => k \in 1 .. n /\ k - 1 \in 0 .. n
      BY <1>0
    <3> QED
      BY <1>0, <3>1
  <2> QED
    BY <2>2
<1> HIDE DEF n, then
<1>2. Solves(run)
  BY ONLY <1>1 DEF run
<1>3. SavingsBatch(l, calls) = run[n]
  BY DEF SavingsBatch, S!Batch, run, n, then
<1> HIDE DEF run
<1>4. n \in Nat /\ run[0] = l /\ \A k \in 1 .. n : run[k] = then(run[k - 1], k)
  BY <1>0, <1>2
<1>5. 0 \in same
  BY <1>0, <1>4
<1>6. ASSUME NEW k \in same PROVE k + 1 \in same
  <2> SUFFICES ASSUME k + 1 <= n PROVE run[k + 1] = g[k + 1]
    BY <1>6
  <2>1. k + 1 \in 1 .. n /\ run[k] = g[k] /\ k + 1 - 1 = k
    BY <1>4, <1>6
  <2>2. run[k + 1] = then(run[k], k + 1) /\ g[k + 1] = then(g[k], k + 1)
    BY <1>0, <1>4, <2>1
  <2> QED
    BY <2>1, <2>2
<1>7. same = Nat
  <2> HIDE DEF same
  <2>1. same \in SUBSET Nat
    BY DEF same
  <2> QED
    BY <1>5, <1>6, <2>1, InductionOverNat
<1> QED
  BY <1>3, <1>4, <1>7 DEF n

\* A batch of one call.
LEMMA SavingsOne ==
    ASSUME NEW l, NEW a, l # Reverted
    PROVE  SavingsBatch(l, <<a>>) = S!Apply(l, a)
<1> DEFINE g == [k \in 0 .. 1 |-> IF k = 0 THEN l ELSE S!Apply(l, a)]
           s == <<a>>
<1>1. Len(s) = 1 /\ s[1] = a /\ g[0] = l /\ g[1] = S!Apply(l, a)
  OBVIOUS
<1> HIDE DEF g, s
<1>2. SavingsRuns(g, l, s)
  BY <1>1 DEF SavingsRuns
<1> QED
  BY <1>1, <1>2, SavingsCourse DEF s

\* A batch of three.
LEMMA SavingsThree ==
    ASSUME NEW l, NEW a, NEW b, NEW c, l # Reverted, S!Apply(l, a) # Reverted
    PROVE  SavingsBatch(l, <<a, b, c>>) =
             LET m == S!Apply(S!Apply(l, a), b) IN IF m = Reverted THEN Reverted ELSE S!Apply(m, c)
<1> DEFINE x == S!Apply(l, a)
           y == S!Apply(x, b)
           z == IF y = Reverted THEN Reverted ELSE S!Apply(y, c)
           g == [k \in 0 .. 3 |-> IF k = 0 THEN l ELSE IF k = 1 THEN x ELSE IF k = 2 THEN y ELSE z]
           s == <<a, b, c>>
<1>1. Len(s) = 3 /\ s[1] = a /\ s[2] = b /\ s[3] = c
  OBVIOUS
<1>3. g[0] = l /\ g[1] = x /\ g[2] = y /\ g[3] = z
  OBVIOUS
<1> HIDE DEF g, s
<1>2. SavingsRuns(g, l, s)
  <2>1. \A k \in 1 .. 3 : k = 1 \/ k = 2 \/ k = 3
    OBVIOUS
  <2> QED
    BY <1>1, <1>3, <2>1 DEF SavingsRuns
<1>4. SavingsBatch(l, s) = z
  BY <1>1, <1>2, <1>3, SavingsCourse
<1> QED
  BY <1>4 DEF s

\* What comes of the plan in hand.
LEMMA SavingsOutcome == S!Outcome = SavingsBatch(chain, plan.calls)
BY DEF S!Outcome, SavingsBatch

\* What becomes of a batch: it reverts, or leaves a ledger at rest.
SavingsSafe(l) == l = Reverted \/ (l \in S!Ledger /\ S!Resting(l))

\* The plan in hand does what it says now, and leaves a ledger at rest.
SavingsDone == SavingsSafe(S!Outcome) /\ S!SavingsDeliver

\* Another debt.
SavingsOwing(l, who, n) == [l EXCEPT !.debt[who] = n]
SavingsSupplying(l, who, n) == [l EXCEPT !.supplied[who] = n]

\* What someone owes changes.
LEMMA SavingsOwed ==
    ASSUME NEW l \in S!Ledger, NEW who \in S!Holders, NEW n \in Nat,
           NEW v, v = SavingsOwing(l, who, n)
    PROVE  /\ v \in S!Ledger /\ SavingsKept(v, l) /\ v.bal = l.bal /\ v.allowance = l.allowance
           /\ v.supplied = l.supplied /\ v.queue = l.queue /\ v.debt[who] = n
<1> DEFINE x == [l.debt EXCEPT ![who] = n]
<1>1. x \in SavingsAmounts /\ x[who] = n
  BY SavingsParts DEF SavingsAmounts
<1>2. v = SavingsWithDebt(l, x)
  BY DEF SavingsWithDebt, SavingsOwing
<1> HIDE DEF x
<1>3. /\ v \in S!Ledger /\ SavingsKept(v, l) /\ v.bal = l.bal /\ v.allowance = l.allowance
      /\ v.supplied = l.supplied /\ v.debt = x /\ v.queue = l.queue
  BY <1>1, <1>2, SavingsSetDebt
<1> QED
  BY <1>1, <1>3

\* What someone has supplied changes.
LEMMA SavingsSupplied ==
    ASSUME NEW l \in S!Ledger, NEW who \in S!Holders, NEW n \in Nat,
           NEW v, v = SavingsSupplying(l, who, n)
    PROVE  /\ v \in S!Ledger /\ SavingsKept(v, l) /\ v.bal = l.bal /\ v.allowance = l.allowance
           /\ v.debt = l.debt /\ v.queue = l.queue /\ v.supplied[who] = n
<1> DEFINE x == [l.supplied EXCEPT ![who] = n]
<1>1. x \in SavingsAmounts /\ x[who] = n
  BY SavingsParts DEF SavingsAmounts
<1>2. v = SavingsWithSupplied(l, x)
  BY DEF SavingsWithSupplied, SavingsSupplying
<1> HIDE DEF x
<1>3. /\ v \in S!Ledger /\ SavingsKept(v, l) /\ v.bal = l.bal /\ v.allowance = l.allowance
      /\ v.supplied = x /\ v.debt = l.debt /\ v.queue = l.queue
  BY <1>1, <1>2, SavingsSetSupplied
<1> QED
  BY <1>1, <1>3

\* What a batch may not change of a ledger, but for the allowance it takes back.
SavingsLater(u, l, spender) ==
    /\ u.now = l.now /\ u.finalized = l.finalized /\ Len(u.queue) >= Len(l.queue)
    /\ SavingsGrantOf(u, l, spender)

\* Taking back what is left puts a ledger to rest.
LEMMA SavingsCleaned ==
    ASSUME NEW l \in S!Ledger, S!Resting(l), NEW u \in S!Ledger, NEW spender \in SavingsSpenders,
           SavingsLater(u, l, spender)
    PROVE  SavingsSafe(SavingsGranting(u, spender, 0))
<1> DEFINE v == SavingsGranting(u, spender, 0)
<1>0. 0 \in Nat
  OBVIOUS
<1>1. /\ v \in S!Ledger /\ SavingsKept(v, u) /\ SavingsSame(v, u)
      /\ SavingsGrantOf(v, u, spender) /\ v.allowance[spender] = 0
  BY <1>0, SavingsApproved
<1> HIDE DEF v
<1>2. DOMAIN l.allowance = SavingsSpenders /\ DOMAIN v.allowance = SavingsSpenders
  BY <1>1, SavingsParts DEF SavingsGrants
<1>3. Len(l.queue) \in Nat /\ Len(u.queue) \in Nat /\ l.finalized \in Nat
  BY SavingsParts DEF SavingsQueue
<1>4. \A s \in SavingsSpenders : v.allowance[s] = 0
  BY <1>1, <1>2 DEF SavingsLater, SavingsGrantOf, S!Resting
<1>5. S!Resting(v)
  BY <1>1, <1>2, <1>3, <1>4 DEF S!Resting, SavingsLater, SavingsKept, SavingsSame
<1> QED
  BY <1>1, <1>5 DEF SavingsSafe, v

\* A plan that approves, acts and takes back reverts with the act, or leaves what the
\* act left, at rest.
LEMMA SavingsFundedPlan ==
    ASSUME chain \in S!Ledger, S!Resting(chain), Reverted \notin S!Ledger,
           NEW spender \in SavingsSpenders, NEW amount \in Nat, NEW call,
           plan.calls = S!Funded(spender, amount, call),
           NEW u, u = S!Apply(SavingsGranting(chain, spender, amount), call),
           u # Reverted => u \in S!Ledger /\ SavingsLater(u, chain, spender)
    PROVE  /\ SavingsSafe(S!Outcome)
           /\ S!Outcome = Reverted <=> u = Reverted
           /\ u # Reverted => S!Outcome.bal = u.bal /\ SavingsSame(S!Outcome, u)
<1> DEFINE m == SavingsGranting(chain, spender, amount)
           a == [op |-> "approve", spender |-> spender, amount |-> amount]
           c == [op |-> "approve", spender |-> spender, amount |-> 0]
           end == SavingsGranting(u, spender, 0)
<1>1. m \in S!Ledger /\ chain # Reverted /\ m # Reverted /\ u = S!Apply(m, call)
  BY SavingsApproved
<1>2. S!Apply(chain, a) = m
  BY DEF S!Apply, SavingsGranting
<1>3. S!Apply(u, c) = end
  BY DEF S!Apply, SavingsGranting
<1>4. S!Funded(spender, amount, call) = <<a, call, c>>
  BY DEF S!Funded
<1> HIDE DEF a, c, m, end
<1>5. SavingsBatch(chain, <<a, call, c>>) = LET x == S!Apply(S!Apply(chain, a), call) IN IF x = Reverted THEN Reverted ELSE S!Apply(x, c)
  BY <1>1, <1>2, SavingsThree
<1>6. S!Outcome = IF u = Reverted THEN Reverted ELSE end
  BY <1>1, <1>2, <1>3, <1>4, <1>5, SavingsOutcome
<1>7. CASE u = Reverted
  BY <1>6, <1>7 DEF SavingsSafe
<1>8. CASE u # Reverted
  <2>0. 0 \in Nat
    OBVIOUS
  <2>1. SavingsSafe(end)
    BY <1>8, SavingsCleaned DEF end
  <2>2. end \in S!Ledger /\ SavingsSame(end, u) /\ end.bal = u.bal
    BY <1>8, <2>0, SavingsApproved DEF end
  <2> QED
    BY <1>6, <1>8, <2>1, <2>2
<1> QED
  BY <1>7, <1>8

\* A plan of one call has the outcome of that call.
LEMMA SavingsCallPlan ==
    ASSUME chain \in S!Ledger, S!Resting(chain), Reverted \notin S!Ledger,
           NEW call, plan.calls = <<call>>, NEW u, u = S!Apply(chain, call),
           u # Reverted =>
               /\ u \in S!Ledger /\ u.now = chain.now /\ u.finalized = chain.finalized
               /\ Len(u.queue) >= Len(chain.queue) /\ u.allowance = chain.allowance
    PROVE  S!Outcome = u /\ SavingsSafe(S!Outcome)
<1>1. S!Outcome = u
  BY SavingsOne, SavingsOutcome
<1>2. Len(chain.queue) \in Nat /\ chain.finalized \in Nat /\ (u # Reverted => Len(u.queue) \in Nat)
  BY SavingsParts DEF SavingsQueue
<1>3. u # Reverted => S!Resting(u)
  BY <1>2 DEF S!Resting
<1> QED
  BY <1>1, <1>3 DEF SavingsSafe

-------------------------------------------------------------------------------
(*****************************************************************************)
(* Savings: the plans                                                        *)
(*****************************************************************************)

\* What a spender that was granted an amount takes of it.
LEMMA SavingsTaken ==
    ASSUME NEW l \in S!Ledger, Reverted \notin S!Ledger, NEW spender \in SavingsSpenders,
           NEW token \in SavingsTokens, NEW amount \in Nat, NEW taken \in Nat, taken <= amount,
           NEW w, w = S!Pulled(SavingsGranting(l, spender, amount), spender, token, taken)
    PROVE  /\ w = Reverted <=> ~(l.bal["sender"][token] >= taken)
           /\ w # Reverted =>
                 /\ w \in S!Ledger /\ SavingsKept(w, l) /\ SavingsSame(w, l) /\ SavingsGrantOf(w, l, spender)
                 /\ SavingsBalIs(w, l, "sender", token, l.bal["sender"][token] - taken)
<1> DEFINE m == SavingsGranting(l, spender, amount)
<1>1. /\ m \in S!Ledger /\ SavingsKept(m, l) /\ SavingsSame(m, l) /\ m.bal = l.bal
      /\ SavingsGrantOf(m, l, spender) /\ m.allowance[spender] = amount
  BY SavingsApproved
<1>2. w = S!Pulled(m, spender, token, taken)
  OBVIOUS
<1> HIDE DEF m
<1>3. /\ w = Reverted <=> m.bal["sender"][token] < taken \/ m.allowance[spender] < taken
      /\ w # Reverted =>
            /\ w \in S!Ledger /\ SavingsKept(w, m) /\ SavingsSame(w, m) /\ SavingsGrantOf(w, m, spender)
            /\ SavingsBalIs(w, m, "sender", token, m.bal["sender"][token] - taken)
  BY <1>1, <1>2, SavingsPulled
<1>4. l.bal["sender"][token] \in Nat
  BY SavingsBalance DEF S!Holders, S!Saver
<1>5. w = Reverted <=> ~(l.bal["sender"][token] >= taken)
  BY <1>1, <1>3, <1>4
<1>6. w # Reverted =>
            /\ SavingsKept(w, l) /\ SavingsSame(w, l) /\ SavingsGrantOf(w, l, spender)
            /\ SavingsBalIs(w, l, "sender", token, l.bal["sender"][token] - taken)
  BY <1>1, <1>3 DEF SavingsKept, SavingsSame, SavingsGrantOf, SavingsBalIs
<1> QED
  BY <1>3, <1>5, <1>6

\* A step of the wallet that leaves the queue alone and clears one allowance.
LEMMA SavingsStays ==
    ASSUME NEW l \in S!Ledger, NEW u, NEW spender, SavingsKept(u, l), u.queue = l.queue,
           SavingsGrantOf(u, l, spender)
    PROVE  SavingsLater(u, l, spender)
<1>1. Len(l.queue) \in Nat
  BY SavingsParts DEF SavingsQueue
<1> QED
  BY <1>1 DEF SavingsLater, SavingsKept

\* What a supply says.
LEMMA SupplySays ==
    ASSUME plan.kind = "supply",
           chain.bal["sender"]["asset"] >= plan.promise.amount => S!Outcome # Reverted,
           S!Outcome # Reverted =>
              S!Outcome.supplied[plan.promise.who] = chain.supplied[plan.promise.who] + plan.promise.amount
    PROVE  S!SavingsDeliver
BY DEF S!SavingsDeliver, S!Saver

\* What a repayment says.
LEMMA RepaySays ==
    ASSUME plan.kind = "repay", NEW p, p = plan.promise, NEW owed, owed = S!Least(p.amount, chain.debt[p.who]),
           owed > 0 /\ p.source = "underlying" /\ chain.bal["sender"]["asset"] >= owed => S!Outcome # Reverted,
           S!Outcome # Reverted =>
              /\ S!Outcome.debt[p.who] = chain.debt[p.who] - owed
              /\ S!Gain("sender", "asset") = (IF p.source = "underlying" THEN -owed ELSE 0)
    PROVE  S!SavingsDeliver
BY DEF S!SavingsDeliver, S!Saver

\* What a withdrawal from the pool says.
LEMMA WithdrawSupplySays ==
    ASSUME plan.kind = "withdraw_supply", NEW p, p = plan.promise,
           /\ chain.debt["sender"] = 0 /\ chain.supplied["sender"] > 0
           /\ p.amount \in {MaxUint, chain.supplied["sender"]}
           => S!Outcome # Reverted,
           S!Outcome # Reverted =>
              S!Gain(p.who, "asset") = chain.supplied["sender"] - S!Outcome.supplied["sender"],
           S!Outcome # Reverted /\ p.amount = MaxUint => S!Outcome.supplied["sender"] = 0
    PROVE  S!SavingsDeliver
BY DEF S!SavingsDeliver, S!Saver

\* What a bounded deposit says.
LEMMA DepositSays ==
    ASSUME plan.kind = "deposit", NEW p, p = plan.promise,
           S!Outcome # Reverted => chain.price <= p.maxPrice /\ chain.now <= p.deadline,
           /\ chain.price <= p.maxPrice /\ chain.now <= p.deadline
           /\ chain.bal["sender"]["asset"] >= p.amount
           => S!Outcome # Reverted,
           S!Outcome # Reverted => S!Gain("sender", "share") >= p.amount \div p.maxPrice
    PROVE  S!SavingsDeliver
BY DEF S!SavingsDeliver, S!Saver

\* What a loan says.
LEMMA BorrowSays ==
    ASSUME plan.kind = "borrow", NEW p, p = plan.promise,
           S!Outcome # Reverted =>
              /\ S!Outcome.debt[p.who] = chain.debt[p.who] + p.amount
              /\ S!Gain("sender", "asset") = p.amount
    PROVE  S!SavingsDeliver
BY DEF S!SavingsDeliver, S!Saver

\* What an exit from a vault says.
LEMMA ExitSays ==
    ASSUME NEW p, p = plan.promise,
           \/ plan.kind = "withdraw" /\ (S!Outcome # Reverted => S!Gain(p.recipient, "asset") = p.amount)
           \/ /\ plan.kind = "redeem"
              /\ p.owner = "sender" => (S!Outcome # Reverted <=> chain.bal["sender"]["share"] >= p.amount)
              /\ S!Outcome # Reverted => S!Gain(p.owner, "share") = -p.amount
    PROVE  S!SavingsDeliver
<1>1. CASE plan.kind = "withdraw" /\ (S!Outcome # Reverted => S!Gain(p.recipient, "asset") = p.amount)
  BY <1>1 DEF S!SavingsDeliver, S!Saver
<1>2. CASE /\ plan.kind = "redeem"
           /\ p.owner = "sender" => (S!Outcome # Reverted <=> chain.bal["sender"]["share"] >= p.amount)
           /\ S!Outcome # Reverted => S!Gain(p.owner, "share") = -p.amount
  BY <1>2 DEF S!SavingsDeliver, S!Saver
<1> QED
  BY <1>1, <1>2

\* What wrapping says.
LEMMA WrapSays ==
    ASSUME plan.kind = "wrap", NEW p, p = plan.promise,
           S!Outcome # Reverted <=> chain.bal["sender"]["steth"] >= p.amount,
           S!Outcome # Reverted => S!Gain("sender", "wsteth") = p.amount
    PROVE  S!SavingsDeliver
BY DEF S!SavingsDeliver, S!Saver

\* What the plans of withdrawal requests and claims say.
LEMMA QueueSays ==
    ASSUME NEW p, p = plan.promise,
           \/ /\ plan.kind = "requests"
              /\ S!Outcome # Reverted <=> chain.bal["sender"]["steth"] >= S!SumOf(p.amounts)
              /\ S!Outcome # Reverted => Len(S!Outcome.queue) = Len(chain.queue) + Len(p.amounts)
           \/ /\ plan.kind = "queue_claim"
              /\ S!Outcome # Reverted <=> p.id <= chain.finalized /\ chain.queue[p.id].owner = "sender"
    PROVE  S!SavingsDeliver
<1>1. CASE /\ plan.kind = "requests"
           /\ S!Outcome # Reverted <=> chain.bal["sender"]["steth"] >= S!SumOf(p.amounts)
           /\ S!Outcome # Reverted => Len(S!Outcome.queue) = Len(chain.queue) + Len(p.amounts)
  BY <1>1 DEF S!SavingsDeliver, S!Saver
<1>2. CASE /\ plan.kind = "queue_claim"
           /\ S!Outcome # Reverted <=> p.id <= chain.finalized /\ chain.queue[p.id].owner = "sender"
  BY <1>2 DEF S!SavingsDeliver, S!Saver
<1> QED
  BY <1>1, <1>2

\* Of the other plans nothing is said.
LEMMA OthersSay ==
    ASSUME plan.kind \in {"none", "sky_deposit", "collateral", "emode", "stake", "unwrap"}
    PROVE  S!SavingsDeliver
BY DEF S!SavingsDeliver

\* prepareAaveV3Supply.
LEMMA SupplyDelivers ==
    ASSUME chain \in S!Ledger, S!Resting(chain), Reverted \notin S!Ledger,
           NEW amount \in Nat, NEW who \in S!Holders,
           plan = S!PlanSupply(amount, who), plan # Refused
    PROVE  SavingsDone
<1> DEFINE call == S!AaveCall("supply", amount, who)
           m == SavingsGranting(chain, "aave", amount)
           w == S!Pulled(m, "aave", "asset", amount)
           n == w.supplied[who] + amount
           u == S!Apply(m, call)
<1>1. /\ plan.kind = "supply" /\ plan.calls = S!Funded("aave", amount, call)
      /\ plan.promise.amount = amount /\ plan.promise.who = who
  BY DEF S!PlanSupply, S!PlanOf
<1>2. u = IF w = Reverted THEN Reverted ELSE SavingsSupplying(w, who, n)
  BY DEF S!Apply, S!Lent, S!AaveCall, SavingsSupplying
<1>3. /\ w = Reverted <=> ~(chain.bal["sender"]["asset"] >= amount)
      /\ w # Reverted =>
            w \in S!Ledger /\ SavingsKept(w, chain) /\ SavingsSame(w, chain) /\ SavingsGrantOf(w, chain, "aave")
  BY SavingsTaken DEF SavingsSpenders, SavingsTokens
<1>4. u = S!Apply(m, call)
  OBVIOUS
<1> HIDE DEF call, w, u
<1>5. ASSUME w # Reverted
      PROVE  /\ u \in S!Ledger /\ SavingsLater(u, chain, "aave")
             /\ u.supplied[who] = chain.supplied[who] + amount
  <2>1. w.supplied = chain.supplied /\ n \in Nat
    BY <1>3, <1>5, SavingsParts DEF SavingsSame, SavingsAmounts
  <2>2. n = chain.supplied[who] + amount
    BY <2>1
  <2> HIDE DEF n
  <2>3. u = SavingsSupplying(w, who, n)
    BY <1>2, <1>5
  <2>4. /\ u \in S!Ledger /\ SavingsKept(u, w) /\ u.allowance = w.allowance
        /\ u.queue = w.queue /\ u.supplied[who] = n
    BY <1>3, <1>5, <2>1, <2>3, SavingsSupplied
  <2>5. SavingsKept(u, chain) /\ u.queue = chain.queue /\ SavingsGrantOf(u, chain, "aave")
    BY <1>3, <1>5, <2>4 DEF SavingsKept, SavingsSame, SavingsGrantOf
  <2> QED
    BY <2>2, <2>4, <2>5, SavingsStays
<1>6. u = Reverted <=> w = Reverted
  BY <1>2, <1>5
<1>7. /\ SavingsSafe(S!Outcome)
      /\ S!Outcome = Reverted <=> u = Reverted
      /\ u # Reverted => SavingsSame(S!Outcome, u)
  BY <1>1, <1>4, <1>5, <1>6, SavingsFundedPlan DEF SavingsSpenders
<1>8. S!SavingsDeliver
  BY <1>1, <1>3, <1>5, <1>6, <1>7, SupplySays DEF SavingsSame
<1> QED
  BY <1>7, <1>8 DEF SavingsDone

\* prepareAaveV3Repay, from the wallet.
LEMMA RepayDelivers ==
    ASSUME chain \in S!Ledger, S!Resting(chain), Reverted \notin S!Ledger,
           NEW amount \in Nat, NEW who \in S!Holders,
           plan = S!PlanRepay(amount, who, "underlying"), plan # Refused
    PROVE  SavingsDone
<1> DEFINE call == S!AaveCall("repay", amount, who)
           owed == S!Least(amount, chain.debt[who])
           m == SavingsGranting(chain, "aave", amount)
           w == S!Pulled(m, "aave", "asset", owed)
           n == w.debt[who] - owed
           u == S!Apply(m, call)
<1>1. /\ plan.kind = "repay" /\ plan.calls = S!Funded("aave", amount, call)
      /\ plan.promise.amount = amount /\ plan.promise.who = who /\ plan.promise.source = "underlying"
  BY DEF S!PlanRepay, S!PlanOf
<1>2. SavingsSame(m, chain)
  BY SavingsApproved DEF SavingsSpenders
<1>3. u = IF owed = 0 \/ w = Reverted THEN Reverted ELSE SavingsOwing(w, who, n)
  <2>1. m.debt = chain.debt
    BY <1>2 DEF SavingsSame
  <2> HIDE DEF m
  <2> QED
    BY <2>1 DEF S!Apply, S!Lent, S!AaveCall, SavingsOwing
<1>4. owed \in Nat /\ owed <= amount /\ owed <= chain.debt[who] /\ chain.debt[who] \in Nat
  BY SavingsParts DEF SavingsAmounts, S!Least
<1>5. owed = S!Least(amount, chain.debt[who])
  OBVIOUS
<1> HIDE DEF owed
<1>6. /\ w = Reverted <=> ~(chain.bal["sender"]["asset"] >= owed)
      /\ w # Reverted =>
            /\ w \in S!Ledger /\ SavingsKept(w, chain) /\ SavingsSame(w, chain) /\ SavingsGrantOf(w, chain, "aave")
            /\ SavingsBalIs(w, chain, "sender", "asset", chain.bal["sender"]["asset"] - owed)
  BY <1>4, SavingsTaken DEF SavingsSpenders, SavingsTokens
<1>7. u = S!Apply(m, call)
  OBVIOUS
<1> HIDE DEF call, w, u
<1>8. ASSUME owed # 0, w # Reverted
      PROVE  /\ u \in S!Ledger /\ SavingsLater(u, chain, "aave")
             /\ u.debt[who] = chain.debt[who] - owed /\ u.bal = w.bal
  <2>1. w.debt = chain.debt /\ n \in Nat
    BY <1>4, <1>6, <1>8 DEF SavingsSame
  <2>2. n = chain.debt[who] - owed
    BY <2>1
  <2> HIDE DEF n
  <2>3. u = SavingsOwing(w, who, n)
    BY <1>3, <1>8
  <2>4. /\ u \in S!Ledger /\ SavingsKept(u, w) /\ u.bal = w.bal /\ u.allowance = w.allowance
        /\ u.queue = w.queue /\ u.debt[who] = n
    BY <1>6, <1>8, <2>1, <2>3, SavingsOwed
  <2>5. SavingsKept(u, chain) /\ u.queue = chain.queue /\ SavingsGrantOf(u, chain, "aave")
    BY <1>6, <1>8, <2>4 DEF SavingsKept, SavingsSame, SavingsGrantOf
  <2> QED
    BY <2>2, <2>4, <2>5, SavingsStays
<1>9. u = Reverted <=> owed = 0 \/ w = Reverted
  BY <1>3, <1>8
<1>10. /\ SavingsSafe(S!Outcome)
       /\ S!Outcome = Reverted <=> u = Reverted
       /\ u # Reverted => S!Outcome.bal = u.bal /\ SavingsSame(S!Outcome, u)
  BY <1>1, <1>7, <1>8, <1>9, SavingsFundedPlan DEF SavingsSpenders
<1>11. ASSUME u # Reverted PROVE S!Gain("sender", "asset") = -owed
  <2>1. chain.bal["sender"]["asset"] \in Nat
    BY SavingsBalance DEF S!Holders, S!Saver, SavingsTokens
  <2>2. S!Outcome.bal["sender"]["asset"] = chain.bal["sender"]["asset"] - owed
    BY <1>6, <1>8, <1>9, <1>10, <1>11 DEF SavingsBalIs
  <2> QED
    BY <1>4, <2>1, <2>2 DEF S!Gain
<1>12. u # Reverted => S!Outcome.debt[who] = chain.debt[who] - owed
  BY <1>8, <1>9, <1>10 DEF SavingsSame
<1>13. owed > 0 /\ chain.bal["sender"]["asset"] >= owed => S!Outcome # Reverted
  BY <1>4, <1>6, <1>9, <1>10
<1>14. S!SavingsDeliver
  BY <1>1, <1>5, <1>10, <1>11, <1>12, <1>13, RepaySays
<1> QED
  BY <1>10, <1>14 DEF SavingsDone

\* prepareAaveV3Repay, from the sender's own supply.
LEMMA RepayWithATokensDelivers ==
    ASSUME chain \in S!Ledger, S!Resting(chain), Reverted \notin S!Ledger,
           NEW amount \in Nat, NEW who \in S!Holders,
           plan = S!PlanRepay(amount, who, "a_token"), plan # Refused
    PROVE  SavingsDone
<1> DEFINE call == S!AaveCall("repayWithATokens", amount, "sender")
           owed == S!Least(amount, chain.debt["sender"])
           n == chain.debt["sender"] - owed
           k == chain.supplied["sender"] - owed
           w == SavingsOwing(chain, "sender", n)
           u == S!Apply(chain, call)
<1>1. /\ plan.kind = "repay" /\ plan.calls = <<call>> /\ who = "sender"
      /\ plan.promise.amount = amount /\ plan.promise.who = "sender" /\ plan.promise.source = "a_token"
  BY DEF S!PlanRepay, S!PlanOf, S!Saver
<1>2. u = IF owed = 0 \/ owed > chain.supplied["sender"] THEN Reverted
          ELSE SavingsSupplying(w, "sender", k)
  BY DEF S!Apply, S!Lent, S!AaveCall, S!Saver, SavingsOwing, SavingsSupplying
<1>3. /\ owed \in Nat /\ owed <= chain.debt["sender"] /\ chain.debt["sender"] \in Nat
      /\ chain.supplied["sender"] \in Nat /\ "sender" \in S!Holders
  BY SavingsParts DEF SavingsAmounts, S!Least, S!Holders, S!Saver
<1>4. owed = S!Least(amount, chain.debt["sender"]) /\ n = chain.debt["sender"] - owed /\ u = S!Apply(chain, call)
  OBVIOUS
<1>5. n \in Nat
  BY <1>3
<1>6. /\ w \in S!Ledger /\ SavingsKept(w, chain) /\ w.bal = chain.bal /\ w.allowance = chain.allowance
      /\ w.queue = chain.queue /\ w.debt["sender"] = n
  <2>1. "sender" \in S!Holders /\ n \in Nat /\ chain \in S!Ledger
    BY <1>3, <1>5
  <2> HIDE DEF n
  <2>2. w = SavingsOwing(chain, "sender", n)
    OBVIOUS
  <2> HIDE DEF w
  <2> QED
    BY ONLY <2>1, <2>2, SavingsOwed
<1> HIDE DEF call, owed, n, w, u
<1>7. ASSUME u # Reverted
      PROVE  /\ u \in S!Ledger /\ u.now = chain.now /\ u.finalized = chain.finalized
             /\ u.queue = chain.queue /\ u.debt["sender"] = n
             /\ u.bal = chain.bal /\ u.allowance = chain.allowance
  <2>1. k \in Nat /\ u = SavingsSupplying(w, "sender", k)
    BY <1>2, <1>3, <1>7
  <2> HIDE DEF k
  <2>3. w \in S!Ledger /\ "sender" \in S!Holders
    BY <1>3, <1>6
  <2>2. /\ u \in S!Ledger /\ SavingsKept(u, w) /\ u.bal = w.bal /\ u.allowance = w.allowance
        /\ u.debt = w.debt /\ u.queue = w.queue
    BY ONLY <2>1, <2>3, SavingsSupplied
  <2> QED
    BY <1>6, <2>2 DEF SavingsKept
<1>8. Len(chain.queue) \in Nat
  BY SavingsParts DEF SavingsQueue
<1>9. S!Outcome = u /\ SavingsSafe(S!Outcome)
  BY <1>1, <1>4, <1>7, <1>8, SavingsCallPlan
<1>10. u # Reverted => S!Gain("sender", "asset") = 0
  <2>1. chain.bal["sender"]["asset"] \in Nat
    BY SavingsBalance DEF S!Holders, S!Saver, SavingsTokens
  <2> QED
    BY <1>7, <1>9, <2>1 DEF S!Gain
<1>11. S!SavingsDeliver
  BY <1>1, <1>4, <1>7, <1>9, <1>10, RepaySays
<1> QED
  BY <1>9, <1>11 DEF SavingsDone

\* prepareAaveV3Withdraw.
LEMMA WithdrawSupplyDelivers ==
    ASSUME chain \in S!Ledger, S!Resting(chain), Reverted \notin S!Ledger,
           NEW amount \in Nat, NEW who \in S!Holders,
           plan = S!PlanPool("withdraw_supply", amount, who), plan # Refused
    PROVE  SavingsDone
<1> DEFINE call == S!AaveCall("withdraw_supply", amount, who)
           there == IF amount = MaxUint THEN chain.supplied["sender"] ELSE amount
           rest == chain.supplied["sender"] - there
           w == S!Paid(chain, who, "asset", there)
           u == S!Apply(chain, call)
<1>1. /\ plan.kind = "withdraw_supply" /\ plan.calls = <<call>>
      /\ plan.promise.amount = amount /\ plan.promise.who = who
  BY DEF S!PlanPool, S!PlanOf
<1>2. u = IF there = 0 \/ rest < 0 \/ ~S!Healthy(chain, rest, chain.debt["sender"]) THEN Reverted
          ELSE SavingsSupplying(w, "sender", rest)
  BY DEF S!Apply, S!Lent, S!AaveCall, S!Saver, SavingsSupplying
<1>3. /\ there \in Nat /\ rest \in Int /\ chain.supplied["sender"] \in Nat /\ chain.debt["sender"] \in Nat
      /\ "sender" \in S!Holders
  BY SavingsParts DEF SavingsAmounts, S!Holders, S!Saver
<1>4. there = (IF amount = MaxUint THEN chain.supplied["sender"] ELSE amount) /\ rest = chain.supplied["sender"] - there
      /\ u = S!Apply(chain, call)
  OBVIOUS
<1> HIDE DEF rest, there
<1>5. /\ w \in S!Ledger /\ SavingsKept(w, chain) /\ SavingsSame(w, chain) /\ w.allowance = chain.allowance
      /\ SavingsBalIs(w, chain, who, "asset", chain.bal[who]["asset"] + there)
  BY <1>3, SavingsPaid DEF SavingsTokens
<1> HIDE DEF call, w, u
<1>6. ASSUME rest \in Nat, u = SavingsSupplying(w, "sender", rest)
      PROVE  /\ u \in S!Ledger /\ u.now = chain.now /\ u.finalized = chain.finalized
             /\ u.queue = chain.queue /\ u.supplied["sender"] = rest
             /\ u.bal = w.bal /\ u.allowance = chain.allowance
  <2>1. /\ u \in S!Ledger /\ SavingsKept(u, w) /\ u.bal = w.bal /\ u.allowance = w.allowance
        /\ u.queue = w.queue /\ u.supplied["sender"] = rest
    <3>1. w \in S!Ledger /\ "sender" \in S!Holders
      BY <1>3, <1>5
    <3> QED
      BY ONLY <1>6, <3>1, SavingsSupplied
  <2> QED
    BY <1>5, <2>1 DEF SavingsKept, SavingsSame
<1>7. u # Reverted => rest \in Nat /\ u = SavingsSupplying(w, "sender", rest)
  BY <1>2, <1>3
<1>8. /\ chain.debt["sender"] = 0 /\ chain.supplied["sender"] > 0 /\ amount \in {MaxUint, chain.supplied["sender"]}
      => u # Reverted
  <2> SUFFICES ASSUME chain.debt["sender"] = 0, chain.supplied["sender"] > 0,
                      amount \in {MaxUint, chain.supplied["sender"]}
               PROVE  u # Reverted
    OBVIOUS
  <2>1. there = chain.supplied["sender"] /\ rest = 0
    BY <1>3, <1>4
  <2>2. u = SavingsSupplying(w, "sender", rest)
    BY <1>2, <1>3, <2>1 DEF S!Healthy
  <2> QED
    BY <1>6, <2>1, <2>2
<1>9. Len(chain.queue) \in Nat
  BY SavingsParts DEF SavingsQueue
<1>10. S!Outcome = u /\ SavingsSafe(S!Outcome)
  BY <1>1, <1>4, <1>6, <1>7, <1>9, SavingsCallPlan
<1>11. u # Reverted => S!Gain(who, "asset") = chain.supplied["sender"] - u.supplied["sender"]
  <2>1. chain.bal[who]["asset"] \in Nat
    BY SavingsBalance DEF SavingsTokens
  <2> SUFFICES ASSUME u # Reverted
               PROVE  S!Gain(who, "asset") = chain.supplied["sender"] - u.supplied["sender"]
    OBVIOUS
  <2>2. u.supplied["sender"] = rest /\ u.bal = w.bal
    BY <1>6, <1>7
  <2>3. u.bal[who]["asset"] = chain.bal[who]["asset"] + there
    BY <1>5, <2>2 DEF SavingsBalIs
  <2>4. S!Gain(who, "asset") = there
    BY <1>3, <1>10, <2>1, <2>3 DEF S!Gain
  <2> QED
    BY <1>3, <1>4, <2>2, <2>4
<1>12. u # Reverted /\ amount = MaxUint => u.supplied["sender"] = 0
  BY <1>3, <1>4, <1>6, <1>7
<1>13. S!SavingsDeliver
  BY <1>1, <1>8, <1>10, <1>11, <1>12, WithdrawSupplySays
<1> QED
  BY <1>10, <1>13 DEF SavingsDone

\* prepareAaveV3Borrow.
LEMMA BorrowDelivers ==
    ASSUME chain \in S!Ledger, S!Resting(chain), Reverted \notin S!Ledger,
           NEW amount \in Nat, NEW who \in S!Holders,
           plan = S!PlanPool("borrow", amount, who), plan # Refused
    PROVE  SavingsDone
<1> DEFINE call == S!AaveCall("borrow", amount, who)
           w == S!Paid(chain, "sender", "asset", amount)
           n == w.debt[who] + amount
           u == S!Apply(chain, call)
<1>1. /\ plan.kind = "borrow" /\ plan.calls = <<call>>
      /\ plan.promise.amount = amount /\ plan.promise.who = who
  BY DEF S!PlanPool, S!PlanOf
<1>2. u # Reverted => u = SavingsOwing(w, who, n)
  BY DEF S!Apply, S!Lent, S!AaveCall, S!Saver, SavingsOwing
<1>3. "sender" \in S!Holders /\ chain.debt[who] \in Nat /\ chain.bal["sender"]["asset"] \in Nat
  BY SavingsParts, SavingsBalance DEF SavingsAmounts, S!Holders, S!Saver, SavingsTokens
<1>4. /\ w \in S!Ledger /\ SavingsKept(w, chain) /\ SavingsSame(w, chain) /\ w.allowance = chain.allowance
      /\ SavingsBalIs(w, chain, "sender", "asset", chain.bal["sender"]["asset"] + amount)
  BY <1>3, SavingsPaid DEF SavingsTokens
<1>5. u = S!Apply(chain, call)
  OBVIOUS
<1>6. n = chain.debt[who] + amount /\ n \in Nat
  BY <1>3, <1>4 DEF SavingsSame
<1> HIDE DEF call, w, u, n
<1>7. ASSUME u # Reverted
      PROVE  /\ u \in S!Ledger /\ u.now = chain.now /\ u.finalized = chain.finalized
             /\ u.queue = chain.queue /\ u.debt[who] = n /\ u.bal = w.bal /\ u.allowance = chain.allowance
  <2>1. /\ u \in S!Ledger /\ SavingsKept(u, w) /\ u.bal = w.bal /\ u.allowance = w.allowance
        /\ u.queue = w.queue /\ u.debt[who] = n
    BY <1>2, <1>4, <1>6, <1>7, SavingsOwed
  <2> QED
    BY <1>4, <2>1 DEF SavingsKept, SavingsSame
<1>8. Len(chain.queue) \in Nat
  BY SavingsParts DEF SavingsQueue
<1>9. S!Outcome = u /\ SavingsSafe(S!Outcome)
  BY <1>1, <1>5, <1>7, <1>8, SavingsCallPlan
<1>10. u # Reverted => S!Gain("sender", "asset") = amount
  BY <1>3, <1>4, <1>7, <1>9 DEF S!Gain, SavingsBalIs
<1>11. S!SavingsDeliver
  BY <1>1, <1>6, <1>7, <1>9, <1>10, BorrowSays
<1> QED
  BY <1>9, <1>11 DEF SavingsDone

\* prepareAaveV3Collateral and prepareAaveV3EMode, of which nothing is promised.
LEMMA ModeDelivers ==
    ASSUME chain \in S!Ledger, S!Resting(chain), Reverted \notin S!Ledger,
           \/ \E use \in BOOLEAN : plan = S!PlanCollateral(use)
           \/ \E category \in Int : plan = S!PlanEMode(category) /\ plan # Refused
    PROVE  SavingsDone
<1>1. Len(chain.queue) \in Nat
  BY SavingsParts DEF SavingsQueue
<1>2. CASE \E use \in BOOLEAN : plan = S!PlanCollateral(use)
  <2>1. PICK use \in BOOLEAN : plan = S!PlanCollateral(use)
    BY <1>2
  <2> DEFINE call == [op |-> "setCollateral", use |-> use]
             u == S!Apply(chain, call)
  <2>2. plan.kind = "collateral" /\ plan.calls = <<call>>
    BY <2>1 DEF S!PlanCollateral, S!PlanOf
  <2>3. u # Reverted => u = [chain EXCEPT !.collateral = use]
    BY DEF S!Apply
  <2>4. u # Reverted =>
            /\ u \in S!Ledger /\ u.now = chain.now /\ u.finalized = chain.finalized
            /\ u.queue = chain.queue /\ u.allowance = chain.allowance
    BY <2>3 DEF S!Ledger
  <2> HIDE DEF u, call
  <2>5. SavingsSafe(S!Outcome)
    BY <1>1, <2>2, <2>4, SavingsCallPlan DEF u
  <2> QED
    BY <2>2, <2>5, OthersSay DEF SavingsDone
<1>3. CASE \E category \in Int : plan = S!PlanEMode(category) /\ plan # Refused
  <2>1. PICK category \in Int : plan = S!PlanEMode(category) /\ plan # Refused
    BY <1>3
  <2> DEFINE call == [op |-> "setEMode", category |-> category]
             u == S!Apply(chain, call)
  <2>2. plan.kind = "emode" /\ plan.calls = <<call>>
    BY <2>1 DEF S!PlanEMode, S!PlanOf
  <2>3. u = chain
    BY DEF S!Apply
  <2> HIDE DEF u, call
  <2>5. SavingsSafe(S!Outcome)
    BY <1>1, <2>2, <2>3, SavingsCallPlan DEF u
  <2> QED
    BY <2>2, <2>5, OthersSay DEF SavingsDone
<1> QED
  BY <1>2, <1>3

\* What division by a whole number is.
LEMMA QuotientIs ==
    ASSUME NEW n \in Nat, NEW d \in Nat \ {0}
    PROVE  /\ n \div d \in Nat /\ d * (n \div d) \in Int
           /\ d * (n \div d) <= n /\ n < d * (n \div d) + d
<1> DEFINE x == n \div d
           r == n % d
<1>1. x \in Int /\ r \in Int /\ 0 <= r /\ r < d /\ n = d * x + r
  OBVIOUS
<1>2. x >= 0
  OBVIOUS
<1> HIDE DEF x, r
<1>3. d * x \in Int
  BY <1>1
<1>4. x \in Nat /\ d * x \in Int /\ d * x <= n /\ n < d * x + d
  BY <1>1, <1>2, <1>3
<1> QED
  BY <1>4 DEF x

\* What is shared among more is less for each.
LEMMA QuotientFalls ==
    ASSUME NEW n \in Nat, NEW d \in Nat \ {0}, NEW e \in Nat \ {0}, d <= e
    PROVE  n \div e <= n \div d
<1> DEFINE x == n \div e
           y == n \div d
<1>1. /\ x \in Nat /\ y \in Nat
      /\ e * x \in Int /\ e * x <= n
      /\ d * y \in Int /\ n < d * y + d
  BY QuotientIs
<1> HIDE DEF x, y
<1>3. SUFFICES ASSUME y + 1 <= x PROVE FALSE
  BY <1>1 DEF x, y
<1>4. d * (y + 1) = d * y + d /\ d * x \in Int
  BY <1>1
<1>5. d * (y + 1) <= d * x
  BY <1>1, <1>3
<1>6. d * x <= e * x
  BY <1>1
<1> QED
  BY <1>1, <1>4, <1>5, <1>6

\* What a vault mints for the sender of a deposit, or for another.
LEMMA SavingsMinted ==
    ASSUME NEW l \in S!Ledger, NEW w \in S!Ledger, NEW who \in S!Holders, NEW n \in Nat, NEW k \in Nat,
           SavingsKept(w, l), SavingsSame(w, l), SavingsGrantOf(w, l, "vault"),
           SavingsBalIs(w, l, "sender", "asset", k), NEW u, u = S!Paid(w, who, "share", n)
    PROVE  /\ u \in S!Ledger /\ SavingsLater(u, l, "vault")
           /\ u.bal[who]["share"] = l.bal[who]["share"] + n
<1>1. /\ u \in S!Ledger /\ SavingsKept(u, w) /\ SavingsSame(u, w) /\ u.allowance = w.allowance
      /\ SavingsBalIs(u, w, who, "share", w.bal[who]["share"] + n)
  <2>1. w \in S!Ledger /\ who \in S!Holders /\ n \in Nat /\ "share" \in SavingsTokens
    BY DEF SavingsTokens
  <2>2. u = S!Paid(w, who, "share", n)
    OBVIOUS
  <2> QED
    BY ONLY <2>1, <2>2, SavingsPaid
<1>2. SavingsKept(u, l) /\ u.queue = l.queue /\ SavingsGrantOf(u, l, "vault")
  BY <1>1 DEF SavingsKept, SavingsSame, SavingsGrantOf
<1>3. w.bal[who]["share"] = l.bal[who]["share"]
  BY DEF SavingsBalIs, SavingsTokens
<1>4. u.bal[who]["share"] = l.bal[who]["share"] + n
  BY <1>1, <1>3 DEF SavingsBalIs
<1> QED
  BY <1>1, <1>2, <1>4, SavingsStays

\* prepareMorphoVaultDeposit, executed within its bounds or not at all.
LEMMA MorphoDepositDelivers ==
    ASSUME chain \in S!Ledger, S!Resting(chain), Reverted \notin S!Ledger,
           NEW amount \in Nat, NEW who \in S!Holders, NEW maxPrice \in Nat, NEW now \in Nat,
           NEW asked \in Nat \cup {None},
           plan = S!PlanMorphoDeposit(amount, maxPrice, asked, who, now), plan # Refused
    PROVE  SavingsDone
<1> DEFINE deadline == S!DepositDeadline(asked, now)
           call == S!DepositCall(amount, maxPrice, deadline, "sender")
           m == SavingsGranting(chain, "vault", amount)
           w == S!Pulled(m, "vault", "asset", amount)
           minted == amount \div chain.price
           b == chain.bal["sender"]["asset"]
           u == S!Apply(m, call)
<1>1. /\ plan.kind = "deposit" /\ plan.calls = S!Funded("vault", amount, call)
      /\ plan.promise.amount = amount /\ plan.promise.maxPrice = maxPrice
      /\ plan.promise.deadline = deadline /\ maxPrice # 0
  BY DEF S!PlanMorphoDeposit, S!PlanOf, S!Saver
<1>2. m.price = chain.price /\ m.now = chain.now
  BY SavingsApproved DEF SavingsSpenders, SavingsKept
<1>3. u = IF chain.price > maxPrice \/ chain.now > deadline \/ w = Reverted THEN Reverted
          ELSE S!Paid(w, "sender", "share", minted)
  <2> HIDE DEF m
  <2> QED
    BY <1>2 DEF S!Apply, S!Vaulted, S!DepositCall
<1>4. /\ chain.price \in Nat \ {0} /\ chain.now \in Nat /\ deadline \in Nat /\ "sender" \in S!Holders
      /\ b \in Nat /\ chain.bal["sender"]["share"] \in Nat
  BY SavingsParts, SavingsBalance DEF S!DepositDeadline, S!Holders, S!Saver, SavingsTokens
<1>5. /\ minted \in Nat
      /\ chain.price <= maxPrice => minted >= amount \div maxPrice
  <2>1. minted \in Nat /\ amount \div maxPrice \in Nat
    BY <1>1, <1>4, QuotientIs
  <2>2. ASSUME chain.price <= maxPrice PROVE amount \div maxPrice <= minted
    <3>1. maxPrice \in Nat \ {0}
      BY <1>1
    <3> QED
      BY <1>4, <2>2, <3>1, QuotientFalls
  <2> HIDE DEF minted
  <2> QED
    BY <2>1, <2>2
<1>6. /\ w = Reverted <=> ~(b >= amount)
      /\ w # Reverted =>
            /\ w \in S!Ledger /\ SavingsKept(w, chain) /\ SavingsSame(w, chain)
            /\ SavingsGrantOf(w, chain, "vault") /\ SavingsBalIs(w, chain, "sender", "asset", b - amount)
  BY SavingsTaken DEF SavingsSpenders, SavingsTokens
<1>7. u = S!Apply(m, call)
  OBVIOUS
<1> HIDE DEF minted, deadline, call, w, u, b
<1>8. ASSUME w # Reverted, u = S!Paid(w, "sender", "share", minted)
      PROVE  /\ u \in S!Ledger /\ SavingsLater(u, chain, "vault")
             /\ u.bal["sender"]["share"] = chain.bal["sender"]["share"] + minted
  <2>1. b - amount \in Nat
    BY <1>4, <1>6, <1>8
  <2>2. w \in S!Ledger /\ "sender" \in S!Holders /\ chain \in S!Ledger
    BY <1>4, <1>6, <1>8
  <2>3. /\ SavingsKept(w, chain) /\ SavingsSame(w, chain)
        /\ SavingsGrantOf(w, chain, "vault") /\ SavingsBalIs(w, chain, "sender", "asset", b - amount)
    BY <1>6, <1>8
  <2> QED
    BY ONLY <1>5, <1>8, <2>1, <2>2, <2>3, SavingsMinted
<1>9. chain.price <= maxPrice /\ chain.now <= deadline /\ w # Reverted => u # Reverted
  BY <1>3, <1>4, <1>8
<1>10. u # Reverted =>
          /\ w # Reverted /\ u = S!Paid(w, "sender", "share", minted)
          /\ chain.price <= maxPrice /\ chain.now <= deadline
  BY <1>3, <1>4
<1>11. /\ SavingsSafe(S!Outcome)
       /\ S!Outcome = Reverted <=> u = Reverted
       /\ u # Reverted => S!Outcome.bal = u.bal
  BY <1>1, <1>7, <1>8, <1>10, SavingsFundedPlan DEF SavingsSpenders
<1>12. u # Reverted => S!Gain("sender", "share") >= amount \div maxPrice
  <2> SUFFICES ASSUME u # Reverted PROVE S!Gain("sender", "share") >= amount \div maxPrice
    OBVIOUS
  <2>1. S!Outcome.bal["sender"]["share"] = chain.bal["sender"]["share"] + minted
    BY <1>8, <1>10, <1>11
  <2>2. S!Gain("sender", "share") = minted
    BY <1>4, <1>5, <2>1 DEF S!Gain
  <2> QED
    BY <1>5, <1>10, <2>2
<1>13. b = chain.bal["sender"]["asset"]
  BY DEF b
<1>14. S!SavingsDeliver
  BY <1>1, <1>6, <1>9, <1>10, <1>11, <1>12, <1>13, DepositSays
<1> QED
  BY <1>11, <1>14 DEF SavingsDone

\* prepareSkySavingsDeposit, of which nothing is promised.
LEMMA SkyDepositDelivers ==
    ASSUME chain \in S!Ledger, S!Resting(chain), Reverted \notin S!Ledger,
           NEW amount \in Nat, NEW receiver \in S!Holders,
           plan = S!PlanSkyDeposit(amount, receiver), plan # Refused
    PROVE  SavingsDone
<1> DEFINE call == S!DepositCall(amount, MaxUint, EndOf["savings"], receiver)
           m == SavingsGranting(chain, "vault", amount)
           w == S!Pulled(m, "vault", "asset", amount)
           minted == amount \div chain.price
           b == chain.bal["sender"]["asset"]
           u == S!Apply(m, call)
<1>1. plan.kind = "sky_deposit" /\ plan.calls = S!Funded("vault", amount, call)
  BY DEF S!PlanSkyDeposit, S!PlanOf
<1>2. m.price = chain.price
  BY SavingsApproved DEF SavingsSpenders, SavingsKept
<1>3. u # Reverted => w # Reverted /\ u = S!Paid(w, receiver, "share", minted)
  <2> HIDE DEF m
  <2> QED
    BY <1>2 DEF S!Apply, S!Vaulted, S!DepositCall
<1>4. chain.price \in Nat \ {0} /\ b \in Nat
  BY SavingsParts, SavingsBalance DEF S!Holders, S!Saver, SavingsTokens
<1>5. minted \in Nat
  BY <1>4, QuotientIs
<1>6. /\ w = Reverted <=> ~(b >= amount)
      /\ w # Reverted =>
            /\ w \in S!Ledger /\ SavingsKept(w, chain) /\ SavingsSame(w, chain)
            /\ SavingsGrantOf(w, chain, "vault") /\ SavingsBalIs(w, chain, "sender", "asset", b - amount)
  BY SavingsTaken DEF SavingsSpenders, SavingsTokens
<1>7. u = S!Apply(m, call)
  OBVIOUS
<1> HIDE DEF minted, call, w, u, b
<1>8. ASSUME u # Reverted PROVE u \in S!Ledger /\ SavingsLater(u, chain, "vault")
  <2>1. b - amount \in Nat /\ u = S!Paid(w, receiver, "share", minted)
    BY <1>3, <1>4, <1>6, <1>8
  <2>2. w \in S!Ledger /\ receiver \in S!Holders /\ chain \in S!Ledger
    BY <1>3, <1>6, <1>8
  <2>3. /\ SavingsKept(w, chain) /\ SavingsSame(w, chain)
        /\ SavingsGrantOf(w, chain, "vault") /\ SavingsBalIs(w, chain, "sender", "asset", b - amount)
    BY <1>3, <1>6, <1>8
  <2> QED
    BY ONLY <1>5, <2>1, <2>2, <2>3, SavingsMinted
<1>9. SavingsSafe(S!Outcome)
  BY <1>1, <1>7, <1>8, SavingsFundedPlan DEF SavingsSpenders
<1> QED
  BY <1>1, <1>9, OthersSay DEF SavingsDone

\* What a vault burns for a withdrawal is a whole number of shares.
LEMMA CeilDivNat ==
    ASSUME NEW n \in Nat, NEW d \in Nat \ {0}
    PROVE  S!CeilDiv(n, d) \in Nat
<1> DEFINE x == n + d - 1
<1>1. x \in Nat
  OBVIOUS
<1>2. S!CeilDiv(n, d) = x \div d
  BY DEF S!CeilDiv
<1> HIDE DEF x
<1> QED
  BY <1>1, <1>2, QuotientIs

\* A balance less by what is taken of it.
LEMMA SavingsDrawn ==
    ASSUME NEW l \in S!Ledger, NEW who \in S!Holders, NEW token \in SavingsTokens, NEW n \in Nat,
           n <= l.bal[who][token], NEW w, w = SavingsBooking(l, who, token, l.bal[who][token] - n)
    PROVE  /\ w \in S!Ledger /\ SavingsKept(w, l) /\ SavingsSame(w, l) /\ w.allowance = l.allowance
           /\ SavingsBalIs(w, l, who, token, l.bal[who][token] - n)
<1> DEFINE k == l.bal[who][token] - n
<1>1. k \in Nat
  BY SavingsBalance
<1>2. w = SavingsBooking(l, who, token, k)
  OBVIOUS
<1> HIDE DEF k
<1> QED
  <2>1. l \in S!Ledger /\ who \in S!Holders /\ token \in SavingsTokens
    OBVIOUS
  <2>2. /\ w \in S!Ledger /\ SavingsKept(w, l) /\ SavingsSame(w, l) /\ w.allowance = l.allowance
        /\ SavingsBalIs(w, l, who, token, k)
    BY ONLY <1>1, <1>2, <2>1, SavingsBooked
  <2> QED
    BY <2>2 DEF k

\* Out of one balance and into another.
LEMMA SavingsSwapped ==
    ASSUME NEW l \in S!Ledger, NEW who \in S!Holders, NEW token \in SavingsTokens, NEW n \in Nat,
           n <= l.bal[who][token], NEW w, w = SavingsBooking(l, who, token, l.bal[who][token] - n),
           NEW to \in S!Holders, NEW paid \in SavingsTokens, paid # token, NEW k \in Nat,
           NEW u, u = S!Paid(w, to, paid, k)
    PROVE  /\ u \in S!Ledger /\ u.now = l.now /\ u.finalized = l.finalized
           /\ u.queue = l.queue /\ u.allowance = l.allowance
           /\ u.bal[who][token] = l.bal[who][token] - n
           /\ u.bal[to][paid] = l.bal[to][paid] + k
<1>1. /\ w \in S!Ledger /\ SavingsKept(w, l) /\ SavingsSame(w, l) /\ w.allowance = l.allowance
      /\ SavingsBalIs(w, l, who, token, l.bal[who][token] - n)
  BY SavingsDrawn
<1>2. /\ w \in S!Ledger /\ to \in S!Holders /\ paid \in SavingsTokens /\ k \in Nat
      /\ u = S!Paid(w, to, paid, k)
  BY <1>1
<1>3. /\ u \in S!Ledger /\ SavingsKept(u, w) /\ SavingsSame(u, w) /\ u.allowance = w.allowance
      /\ SavingsBalIs(u, w, to, paid, w.bal[to][paid] + k)
  BY ONLY <1>2, SavingsPaid
<1>4. w.bal[to][paid] = l.bal[to][paid]
  BY <1>1 DEF SavingsBalIs
<1>5. u.bal[who][token] = w.bal[who][token] /\ w.bal[who][token] = l.bal[who][token] - n
  BY <1>1, <1>3 DEF SavingsBalIs
<1>6. u.bal[to][paid] = l.bal[to][paid] + k
  BY <1>3, <1>4 DEF SavingsBalIs
<1> QED
  BY <1>1, <1>3, <1>5, <1>6 DEF SavingsKept, SavingsSame

\* Withdrawals and redemptions of the vaults of morpho.ts and sky.ts.
LEMMA VaultExitDelivers ==
    ASSUME chain \in S!Ledger, S!Resting(chain), Reverted \notin S!Ledger,
           NEW kind \in {"withdraw", "redeem"}, NEW amount \in Nat,
           NEW who \in S!Holders, NEW owner \in S!Holders,
           plan = S!PlanVaultExit(kind, amount, who, owner), plan # Refused
    PROVE  SavingsDone
<1> DEFINE call == [op |-> kind, amount |-> amount, recipient |-> who, owner |-> owner]
           burnt == IF kind = "redeem" THEN amount ELSE S!CeilDiv(amount, chain.price)
           pay == IF kind = "redeem" THEN amount * chain.price ELSE amount
           shares == chain.bal[owner]["share"]
           w == SavingsBooking(chain, owner, "share", shares - burnt)
           u == S!Apply(chain, call)
<1>1. /\ plan.kind = kind /\ plan.calls = <<call>>
      /\ plan.promise.amount = amount /\ plan.promise.recipient = who /\ plan.promise.owner = owner
  BY DEF S!PlanVaultExit, S!PlanOf
<1>2. u = IF (owner # "sender" /\ owner \notin chain.delegators) \/ burnt > shares
          THEN Reverted ELSE S!Paid(w, who, "asset", pay)
  BY DEF S!Apply, S!Vaulted, S!Saver, SavingsBooking
<1>3. /\ burnt \in Nat /\ pay \in Nat /\ shares \in Nat /\ chain.bal[who]["asset"] \in Nat
      /\ kind = "redeem" => burnt = amount
      /\ kind = "withdraw" => pay = amount
  <2>1. chain.price \in Nat \ {0} /\ shares \in Nat /\ chain.bal[who]["asset"] \in Nat
    BY SavingsParts, SavingsBalance DEF SavingsTokens
  <2>2. burnt \in Nat
    BY <2>1, CeilDivNat
  <2>3. pay \in Nat
    BY <2>1
  <2> QED
    BY <2>1, <2>2, <2>3
<1>4. u = S!Apply(chain, call) /\ shares = chain.bal[owner]["share"]
      /\ w = SavingsBooking(chain, owner, "share", chain.bal[owner]["share"] - burnt)
  OBVIOUS
<1> HIDE DEF burnt, pay, w, u, call
<1>5. ASSUME burnt <= shares, u = S!Paid(w, who, "asset", pay)
      PROVE  /\ u \in S!Ledger /\ u.now = chain.now /\ u.finalized = chain.finalized
             /\ u.queue = chain.queue /\ u.allowance = chain.allowance
             /\ u.bal[owner]["share"] = chain.bal[owner]["share"] - burnt
             /\ u.bal[who]["asset"] = chain.bal[who]["asset"] + pay
  <2>1. /\ chain \in S!Ledger /\ owner \in S!Holders /\ who \in S!Holders /\ burnt \in Nat /\ pay \in Nat
        /\ "share" \in SavingsTokens /\ "asset" \in SavingsTokens /\ "asset" # "share"
        /\ burnt <= chain.bal[owner]["share"]
    BY <1>3, <1>5 DEF SavingsTokens
  <2> QED
    BY ONLY <1>4, <1>5, <2>1, SavingsSwapped
<1> HIDE DEF shares
<1>6. u # Reverted <=> (owner = "sender" \/ owner \in chain.delegators) /\ burnt <= shares
  BY <1>2, <1>3, <1>5
<1>7. u # Reverted => burnt <= shares /\ u = S!Paid(w, who, "asset", pay)
  BY <1>2, <1>6
<1>8. Len(chain.queue) \in Nat
  BY SavingsParts DEF SavingsQueue
<1>9. S!Outcome = u /\ SavingsSafe(S!Outcome)
  BY <1>1, <1>4, <1>5, <1>7, <1>8, SavingsCallPlan
<1>10. u # Reverted => S!Gain(who, "asset") = pay /\ S!Gain(owner, "share") = -burnt
  BY <1>3, <1>4, <1>5, <1>7, <1>9 DEF S!Gain
<1>11. CASE kind = "withdraw"
  <2>1. S!SavingsDeliver
    BY <1>1, <1>3, <1>9, <1>10, <1>11, ExitSays
  <2> QED
    BY <1>9, <2>1 DEF SavingsDone
<1>12. CASE kind = "redeem"
  <2>1. owner = "sender" => (S!Outcome # Reverted <=> chain.bal["sender"]["share"] >= amount)
    BY <1>3, <1>4, <1>6, <1>9, <1>12
  <2>2. S!Outcome # Reverted => S!Gain(owner, "share") = -amount
    BY <1>3, <1>9, <1>10, <1>12
  <2>3. S!SavingsDeliver
    BY <1>1, <1>12, <2>1, <2>2, ExitSays
  <2> QED
    BY <1>9, <2>3 DEF SavingsDone
<1> QED
  BY <1>11, <1>12

\* prepareLidoStake and prepareLidoUnwrap, of which nothing is promised.
LEMMA ExchangeDelivers ==
    ASSUME chain \in S!Ledger, S!Resting(chain), Reverted \notin S!Ledger,
           NEW kind \in {"stake", "unwrap"}, NEW amount \in Nat,
           plan = S!PlanExchange(kind, amount), plan # Refused
    PROVE  SavingsDone
<1> DEFINE call == [op |-> kind, amount |-> amount]
           from == IF kind = "stake" THEN "asset" ELSE "wsteth"
           w == SavingsBooking(chain, "sender", from, chain.bal["sender"][from] - amount)
           u == S!Apply(chain, call)
<1>1. plan.kind = kind /\ plan.calls = <<call>>
  BY DEF S!PlanExchange, S!PlanOf
<1>2. u = IF chain.bal["sender"][from] < amount THEN Reverted ELSE S!Paid(w, "sender", "steth", amount)
  BY DEF S!Apply, S!Exchanged, S!Saver, SavingsBooking
<1>3. /\ from \in SavingsTokens /\ "sender" \in S!Holders /\ "steth" \in SavingsTokens /\ from # "steth"
      /\ amount \in Nat /\ chain \in S!Ledger
  BY DEF SavingsTokens, S!Holders, S!Saver
<1>4. u = S!Apply(chain, call) /\ w = SavingsBooking(chain, "sender", from, chain.bal["sender"][from] - amount)
  OBVIOUS
<1> HIDE DEF from, w, u, call
<1>5. chain.bal["sender"][from] \in Nat
  BY ONLY <1>3, SavingsBalance
<1>6. ASSUME u # Reverted
      PROVE  /\ u \in S!Ledger /\ u.now = chain.now /\ u.finalized = chain.finalized
             /\ u.queue = chain.queue /\ u.allowance = chain.allowance
  <2>1. u = S!Paid(w, "sender", "steth", amount) /\ amount <= chain.bal["sender"][from]
    BY <1>2, <1>5, <1>6
  <2> QED
    BY ONLY <1>3, <1>4, <2>1, SavingsSwapped
<1>7. Len(chain.queue) \in Nat
  BY SavingsParts DEF SavingsQueue
<1>8. SavingsSafe(S!Outcome)
  BY <1>1, <1>4, <1>6, <1>7, SavingsCallPlan
<1> QED
  BY <1>1, <1>8, OthersSay DEF SavingsDone

\* prepareLidoWrap.
LEMMA WrapDelivers ==
    ASSUME chain \in S!Ledger, S!Resting(chain), Reverted \notin S!Ledger,
           NEW amount \in Nat, plan = S!PlanWrap(amount), plan # Refused
    PROVE  SavingsDone
<1> DEFINE call == [op |-> "wrap", amount |-> amount]
           m == SavingsGranting(chain, "wsteth", amount)
           w == S!Pulled(m, "wsteth", "steth", amount)
           b == chain.bal["sender"]["steth"]
           u == S!Apply(m, call)
<1>1. /\ plan.kind = "wrap" /\ plan.calls = S!Funded("wsteth", amount, call)
      /\ plan.promise.amount = amount
  BY DEF S!PlanWrap, S!PlanOf
<1>2. u = IF w = Reverted THEN Reverted ELSE S!Paid(w, "sender", "wsteth", amount)
  BY DEF S!Apply, S!Saver
<1>3. /\ w = Reverted <=> ~(b >= amount)
      /\ w # Reverted =>
            /\ w \in S!Ledger /\ SavingsKept(w, chain) /\ SavingsSame(w, chain)
            /\ SavingsGrantOf(w, chain, "wsteth") /\ SavingsBalIs(w, chain, "sender", "steth", b - amount)
  BY SavingsTaken DEF SavingsSpenders, SavingsTokens
<1>4. u = S!Apply(m, call) /\ b = chain.bal["sender"]["steth"]
  OBVIOUS
<1> HIDE DEF call, w, u, b
<1>5. ASSUME w # Reverted
      PROVE  /\ u \in S!Ledger /\ SavingsLater(u, chain, "wsteth")
             /\ u.bal["sender"]["wsteth"] = chain.bal["sender"]["wsteth"] + amount
  <2>1. /\ w \in S!Ledger /\ "sender" \in S!Holders /\ "wsteth" \in SavingsTokens /\ amount \in Nat
        /\ u = S!Paid(w, "sender", "wsteth", amount)
    BY <1>2, <1>3, <1>5 DEF S!Holders, S!Saver, SavingsTokens
  <2>2. /\ u \in S!Ledger /\ SavingsKept(u, w) /\ SavingsSame(u, w) /\ u.allowance = w.allowance
        /\ SavingsBalIs(u, w, "sender", "wsteth", w.bal["sender"]["wsteth"] + amount)
    BY ONLY <2>1, SavingsPaid
  <2>3. SavingsKept(u, chain) /\ u.queue = chain.queue /\ SavingsGrantOf(u, chain, "wsteth")
    BY <1>3, <1>5, <2>2 DEF SavingsKept, SavingsSame, SavingsGrantOf
  <2>4. w.bal["sender"]["wsteth"] = chain.bal["sender"]["wsteth"]
    BY <1>3, <1>5, <2>1 DEF SavingsBalIs, SavingsTokens
  <2>5. u.bal["sender"]["wsteth"] = chain.bal["sender"]["wsteth"] + amount
    BY <2>2, <2>4 DEF SavingsBalIs
  <2> QED
    BY <2>2, <2>3, <2>5, SavingsStays
<1>6. u = Reverted <=> w = Reverted
  BY <1>2, <1>5
<1>7. /\ SavingsSafe(S!Outcome)
      /\ S!Outcome = Reverted <=> u = Reverted
      /\ u # Reverted => S!Outcome.bal = u.bal
  BY <1>1, <1>4, <1>5, <1>6, SavingsFundedPlan DEF SavingsSpenders
<1>8. u # Reverted => S!Gain("sender", "wsteth") = amount
  <2>1. chain.bal["sender"]["wsteth"] \in Nat
    BY SavingsBalance DEF S!Holders, S!Saver, SavingsTokens
  <2> QED
    BY <1>5, <1>6, <1>7, <2>1 DEF S!Gain
<1>9. S!SavingsDeliver
  BY <1>1, <1>3, <1>4, <1>6, <1>7, <1>8, WrapSays
<1> QED
  BY <1>7, <1>9 DEF SavingsDone

\* What is asked for in all is a number.
LEMMA SavingsSum ==
    ASSUME NEW amounts \in Seq(Nat)
    PROVE  S!SumOf(amounts) \in Nat
<1>1. S!SumOf(amounts) = SumOver(amounts, DOMAIN amounts)
  BY DEF S!SumOf, SumOver, S!MapThenSumSet, MapThenSumSet, S!MapThenFoldSet, MapThenFoldSet
<1>2. DOMAIN amounts = 1 .. Len(amounts) /\ Len(amounts) \in Nat /\ \A i \in DOMAIN amounts : amounts[i] \in Nat
  OBVIOUS
<1>3. IsFiniteSet(DOMAIN amounts)
  BY <1>2, FS_Interval
<1>4. SumOver(amounts, DOMAIN amounts) \in Int /\ SumOver(amounts, DOMAIN amounts) >= 0
  BY <1>2, <1>3, SumType
<1> QED
  BY <1>1, <1>4

\* A queue that grows.
LEMMA QueueJoined ==
    ASSUME NEW T, NEW s \in Seq(T), NEW t \in Seq(T)
    PROVE  /\ s \o t \in Seq(T) /\ Len(s \o t) = Len(s) + Len(t)
           /\ Len(s) \in Nat /\ Len(t) \in Nat
OBVIOUS

\* An element of a sequence that is replaced.
LEMMA QueueReplaced ==
    ASSUME NEW T, NEW s \in Seq(T), NEW i \in 1 .. Len(s), NEW e \in T
    PROVE  s[i] \in T /\ [s EXCEPT ![i] = e] \in Seq(T) /\ Len([s EXCEPT ![i] = e]) = Len(s)
OBVIOUS

\* One element for each of a sequence.
LEMMA QueueMapped ==
    ASSUME NEW T, NEW n \in Nat, NEW f, DOMAIN f = 1 .. n, f = [i \in 1 .. n |-> f[i]],
           \A i \in 1 .. n : f[i] \in T
    PROVE  f \in Seq(T) /\ Len(f) = n
OBVIOUS

\* prepareLidoWithdrawalRequest.
LEMMA RequestsDeliver ==
    ASSUME chain \in S!Ledger, S!Resting(chain), Reverted \notin S!Ledger,
           NEW amounts \in Seq(Nat), NEW owner \in S!Holders,
           plan = S!PlanRequests(amounts, owner), plan # Refused
    PROVE  SavingsDone
<1> DEFINE sum == S!SumOf(amounts)
           call == [op |-> "requestWithdrawals", amounts |-> amounts, owner |-> owner]
           m == SavingsGranting(chain, "queue", sum)
           w == S!Pulled(m, "queue", "steth", sum)
           added == [i \in DOMAIN amounts |-> [amount |-> amounts[i], owner |-> owner]]
           b == chain.bal["sender"]["steth"]
           u == S!Apply(m, call)
<1>1. /\ plan.kind = "requests" /\ plan.calls = S!Funded("queue", sum, call)
      /\ plan.promise.amounts = amounts /\ plan.promise.owner = owner
  BY DEF S!PlanRequests, S!PlanOf
<1>2. u = IF w = Reverted THEN Reverted ELSE SavingsWithQueue(w, w.queue \o added)
  BY DEF S!Apply, S!Queued, SavingsWithQueue
<1>3. sum \in Nat
  BY SavingsSum
<1>4. u = S!Apply(m, call) /\ b = chain.bal["sender"]["steth"] /\ sum = S!SumOf(amounts)
  OBVIOUS
<1> HIDE DEF sum
<1>5. /\ w = Reverted <=> ~(b >= sum)
      /\ w # Reverted =>
            /\ w \in S!Ledger /\ SavingsKept(w, chain) /\ SavingsSame(w, chain) /\ SavingsGrantOf(w, chain, "queue")
  BY <1>3, SavingsTaken DEF SavingsSpenders, SavingsTokens
<1>6. added \in SavingsQueue /\ Len(added) = Len(amounts)
  <2>1. Len(amounts) \in Nat /\ DOMAIN amounts = 1 .. Len(amounts)
    OBVIOUS
  <2>2. /\ DOMAIN added = 1 .. Len(amounts) /\ added = [i \in 1 .. Len(amounts) |-> added[i]]
        /\ \A i \in 1 .. Len(amounts) : added[i] \in SavingsRequest
    BY <2>1 DEF SavingsRequest
  <2> HIDE DEF added
  <2> QED
    BY ONLY <2>1, <2>2, QueueMapped DEF SavingsQueue
<1> HIDE DEF call, w, u, b, added
<1>7. ASSUME w # Reverted
      PROVE  /\ u \in S!Ledger /\ SavingsLater(u, chain, "queue")
             /\ Len(u.queue) = Len(chain.queue) + Len(amounts)
  <2> DEFINE q == w.queue \o added
  <2>1. w \in S!Ledger /\ w.queue = chain.queue /\ w.queue \in SavingsQueue
    BY <1>5, <1>7, SavingsParts DEF SavingsSame
  <2>2. q \in SavingsQueue /\ Len(q) = Len(chain.queue) + Len(amounts)
        /\ Len(chain.queue) \in Nat /\ Len(amounts) \in Nat
    BY <1>6, <2>1, QueueJoined DEF SavingsQueue
  <2> HIDE DEF q
  <2>3. u = SavingsWithQueue(w, q)
    BY <1>2, <1>7 DEF q
  <2>4. /\ u \in S!Ledger /\ SavingsKept(u, w) /\ u.allowance = w.allowance /\ u.queue = q
    BY ONLY <2>1, <2>2, <2>3, SavingsSetQueue
  <2>5. SavingsLater(u, chain, "queue")
    BY <1>5, <1>7, <2>2, <2>4 DEF SavingsKept, SavingsGrantOf, SavingsLater
  <2> QED
    BY <2>2, <2>4, <2>5
<1>8. u = Reverted <=> w = Reverted
  BY <1>2, <1>7
<1>9. /\ SavingsSafe(S!Outcome)
      /\ S!Outcome = Reverted <=> u = Reverted
      /\ u # Reverted => SavingsSame(S!Outcome, u)
  BY <1>1, <1>3, <1>4, <1>7, <1>8, SavingsFundedPlan DEF SavingsSpenders
<1>10. S!SavingsDeliver
  BY <1>1, <1>4, <1>5, <1>7, <1>8, <1>9, QueueSays DEF SavingsSame
<1> QED
  BY <1>9, <1>10 DEF SavingsDone

\* prepareLidoWithdrawalClaim.
LEMMA QueueClaimDelivers ==
    ASSUME chain \in S!Ledger, S!Resting(chain), Reverted \notin S!Ledger,
           NEW id \in Nat, plan = S!PlanQueueClaim(id), plan # Refused
    PROVE  SavingsDone
<1> DEFINE call == [op |-> "claimWithdrawal", id |-> id]
           request == chain.queue[id]
           q == [chain.queue EXCEPT ![id] = [request EXCEPT !.owner = None]]
           w == SavingsWithQueue(chain, q)
           u == S!Apply(chain, call)
<1>1. plan.kind = "queue_claim" /\ plan.calls = <<call>> /\ plan.promise.id = id /\ id # 0
  BY DEF S!PlanQueueClaim, S!PlanOf
<1>2. u = IF id > chain.finalized \/ request.owner # "sender" THEN Reverted
          ELSE S!Paid(w, "sender", "asset", request.amount)
  BY DEF S!Apply, S!Queued, S!Saver, SavingsWithQueue
<1>3. /\ chain.finalized \in Nat /\ chain.queue \in SavingsQueue /\ Len(chain.queue) \in Nat
      /\ chain.finalized <= Len(chain.queue)
  <2>1. chain.finalized \in Nat /\ chain.queue \in SavingsQueue
    BY SavingsParts
  <2>2. Len(chain.queue) \in Nat
    BY <2>1 DEF SavingsQueue
  <2>3. chain.finalized <= Len(chain.queue)
    BY DEF S!Resting
  <2> QED
    BY <2>1, <2>2, <2>3
<1>4. u = S!Apply(chain, call) /\ request = chain.queue[id]
  OBVIOUS
<1> HIDE DEF call, w, u, q
<1>5. ASSUME id <= chain.finalized, u = S!Paid(w, "sender", "asset", request.amount)
      PROVE  /\ u \in S!Ledger /\ u.now = chain.now /\ u.finalized = chain.finalized
             /\ Len(u.queue) = Len(chain.queue) /\ u.allowance = chain.allowance
  <2>1. id \in 1 .. Len(chain.queue)
    BY <1>1, <1>3, <1>5
  <2>2. request \in SavingsRequest
    BY <1>3, <2>1, QueueReplaced DEF SavingsQueue
  <2> HIDE DEF request
  <2>3. request.amount \in Nat /\ [request EXCEPT !.owner = None] \in SavingsRequest
    BY <2>2 DEF SavingsRequest
  <2>4. q \in SavingsQueue /\ Len(q) = Len(chain.queue)
    BY <1>3, <2>1, <2>3, QueueReplaced DEF q, SavingsQueue
  <2>5. /\ w \in S!Ledger /\ SavingsKept(w, chain) /\ w.allowance = chain.allowance /\ w.queue = q
    BY <2>4, SavingsSetQueue DEF w
  <2>6. w \in S!Ledger /\ "sender" \in S!Holders /\ "asset" \in SavingsTokens
    BY <2>5 DEF S!Holders, S!Saver, SavingsTokens
  <2>7. /\ u \in S!Ledger /\ SavingsKept(u, w) /\ SavingsSame(u, w) /\ u.allowance = w.allowance
    BY ONLY <1>5, <2>3, <2>6, SavingsPaid
  <2> QED
    BY <2>4, <2>5, <2>7 DEF SavingsKept, SavingsSame
<1>6. u # Reverted <=> id <= chain.finalized /\ request.owner = "sender"
  BY <1>2, <1>3, <1>5
<1>7. u # Reverted =>
          /\ u \in S!Ledger /\ u.now = chain.now /\ u.finalized = chain.finalized
          /\ Len(u.queue) >= Len(chain.queue) /\ u.allowance = chain.allowance
  BY <1>2, <1>3, <1>5, <1>6
<1>8. S!Outcome = u /\ SavingsSafe(S!Outcome)
  BY <1>1, <1>4, <1>7, SavingsCallPlan
<1>9. S!SavingsDeliver
  BY <1>1, <1>4, <1>6, <1>8, QueueSays
<1> QED
  BY <1>8, <1>9 DEF SavingsDone

-------------------------------------------------------------------------------
(*****************************************************************************)
(* Savings: the session                                                      *)
(*****************************************************************************)

\* The plans of aave.ts that a client may hold.
SavingsPoolPlan ==
    \/ \E amount \in Nat, who \in S!Holders :
          \/ plan = S!PlanSupply(amount, who)
          \/ plan = S!PlanRepay(amount, who, "underlying") \/ plan = S!PlanRepay(amount, who, "a_token")
          \/ plan = S!PlanPool("withdraw_supply", amount, who) \/ plan = S!PlanPool("borrow", amount, who)
    \/ \E use \in BOOLEAN : plan = S!PlanCollateral(use)
    \/ \E category \in Int : plan = S!PlanEMode(category)

\* Those of morpho.ts and sky.ts.
SavingsVaultPlan ==
    \/ \E amount \in Nat, who \in S!Holders, maxPrice \in Nat, now \in Nat, asked \in Nat \cup {None} :
          plan = S!PlanMorphoDeposit(amount, maxPrice, asked, who, now)
    \/ \E amount \in Nat, who \in S!Holders : plan = S!PlanSkyDeposit(amount, who)
    \/ \E kind \in {"withdraw", "redeem"}, amount \in Nat, who \in S!Holders, owner \in S!Holders :
          plan = S!PlanVaultExit(kind, amount, who, owner)

\* Those of lido.ts.
SavingsQueuePlan ==
    \/ \E kind \in {"stake", "unwrap"}, amount \in Nat : plan = S!PlanExchange(kind, amount)
    \/ \E amount \in Nat : plan = S!PlanWrap(amount) \/ plan = S!PlanQueueClaim(amount)
    \/ \E amounts \in Seq(Nat), owner \in S!Holders : plan = S!PlanRequests(amounts, owner)

SavingsPlan == plan # Refused /\ (SavingsPoolPlan \/ SavingsVaultPlan \/ SavingsQueuePlan)

\* The ledger is at rest, and the plan in hand is one that a tool prepared.
SavingsInv ==
    /\ chain \in S!Ledger /\ S!Resting(chain)
    /\ plan = S!NoPlan \/ SavingsPlan

\* Whatever plan is in hand does what it says.
LEMMA SavingsPlanDone ==
    ASSUME chain \in S!Ledger, S!Resting(chain), Reverted \notin S!Ledger, SavingsPlan
    PROVE  SavingsDone
<1>1. CASE SavingsPoolPlan
  <2>1. ASSUME NEW amount \in Nat, NEW who \in S!Holders, plan = S!PlanSupply(amount, who)
        PROVE  SavingsDone
    BY <2>1, SupplyDelivers DEF SavingsPlan
  <2>2. ASSUME NEW amount \in Nat, NEW who \in S!Holders, plan = S!PlanRepay(amount, who, "underlying")
        PROVE  SavingsDone
    BY <2>2, RepayDelivers DEF SavingsPlan
  <2>3. ASSUME NEW amount \in Nat, NEW who \in S!Holders, plan = S!PlanRepay(amount, who, "a_token")
        PROVE  SavingsDone
    BY <2>3, RepayWithATokensDelivers DEF SavingsPlan
  <2>4. ASSUME NEW amount \in Nat, NEW who \in S!Holders, plan = S!PlanPool("withdraw_supply", amount, who)
        PROVE  SavingsDone
    BY <2>4, WithdrawSupplyDelivers DEF SavingsPlan
  <2>5. ASSUME NEW amount \in Nat, NEW who \in S!Holders, plan = S!PlanPool("borrow", amount, who)
        PROVE  SavingsDone
    BY <2>5, BorrowDelivers DEF SavingsPlan
  <2>6. ASSUME NEW use \in BOOLEAN, plan = S!PlanCollateral(use) PROVE SavingsDone
    BY <2>6, ModeDelivers
  <2>7. ASSUME NEW category \in Int, plan = S!PlanEMode(category) PROVE SavingsDone
    BY <2>7, ModeDelivers DEF SavingsPlan
  <2> QED
    BY <1>1, <2>1, <2>2, <2>3, <2>4, <2>5, <2>6, <2>7 DEF SavingsPoolPlan
<1>2. CASE SavingsVaultPlan
  <2>1. ASSUME NEW amount \in Nat, NEW who \in S!Holders, NEW maxPrice \in Nat, NEW now \in Nat,
               NEW asked \in Nat \cup {None}, plan = S!PlanMorphoDeposit(amount, maxPrice, asked, who, now)
        PROVE  SavingsDone
    BY <2>1, MorphoDepositDelivers DEF SavingsPlan
  <2>2. ASSUME NEW amount \in Nat, NEW who \in S!Holders, plan = S!PlanSkyDeposit(amount, who)
        PROVE  SavingsDone
    BY <2>2, SkyDepositDelivers DEF SavingsPlan
  <2>3. ASSUME NEW kind \in {"withdraw", "redeem"}, NEW amount \in Nat, NEW who \in S!Holders,
               NEW owner \in S!Holders, plan = S!PlanVaultExit(kind, amount, who, owner)
        PROVE  SavingsDone
    BY <2>3, VaultExitDelivers DEF SavingsPlan
  <2> QED
    BY <1>2, <2>1, <2>2, <2>3 DEF SavingsVaultPlan
<1>3. CASE SavingsQueuePlan
  <2>1. ASSUME NEW kind \in {"stake", "unwrap"}, NEW amount \in Nat, plan = S!PlanExchange(kind, amount)
        PROVE  SavingsDone
    BY <2>1, ExchangeDelivers DEF SavingsPlan
  <2>2. ASSUME NEW amount \in Nat, plan = S!PlanWrap(amount) PROVE SavingsDone
    BY <2>2, WrapDelivers DEF SavingsPlan
  <2>3. ASSUME NEW amount \in Nat, plan = S!PlanQueueClaim(amount) PROVE SavingsDone
    BY <2>3, QueueClaimDelivers DEF SavingsPlan
  <2>4. ASSUME NEW amounts \in Seq(Nat), NEW owner \in S!Holders, plan = S!PlanRequests(amounts, owner)
        PROVE  SavingsDone
    BY <2>4, RequestsDeliver DEF SavingsPlan
  <2> QED
    BY <1>3, <2>1, <2>2, <2>3, <2>4 DEF SavingsQueuePlan
<1> QED
  BY <1>1, <1>2, <1>3 DEF SavingsPlan

\* A plan that is prepared leaves the ledger alone.
LEMMA SavingsPrepared ==
    ASSUME NEW p, S!Prepared(p)
    PROVE  plan' = p /\ plan' # Refused /\ chain' = chain
BY DEF S!Prepared

\* The amounts that may be asked for are numbers.
LEMMA SavingsAsked ==
    ASSUME S!SavingsAssumption
    PROVE  /\ \A amount \in Amounts \cup {MaxUint} : amount \in Nat
           /\ \A amount \in Amounts : amount \in Nat
           /\ \A asked \in 0 .. EndOf["savings"] \cup {None} : asked \in Nat \cup {None}
           /\ \A n \in Nat : \A amounts \in [1 .. n -> Amounts] : amounts \in Seq(Nat)
<1>1. Amounts \subseteq Nat /\ MaxUint \in Nat /\ EndOf["savings"] \in Nat
  BY DEF S!SavingsAssumption
<1>2. ASSUME NEW n \in Nat, NEW amounts \in [1 .. n -> Amounts] PROVE amounts \in Seq(Nat)
  <2>1. /\ DOMAIN amounts = 1 .. n /\ amounts = [i \in 1 .. n |-> amounts[i]]
        /\ \A i \in 1 .. n : amounts[i] \in Nat
    BY <1>1
  <2> QED
    BY ONLY <2>1, QueueMapped
<1> QED
  BY <1>1, <1>2

\* Each tool prepares a plan of its own.
LEMMA SavingsPrepares ==
    ASSUME S!SavingsAssumption, SavingsInv,
           \/ S!PrepareAave \/ S!PrepareAaveMode \/ S!PrepareMorpho \/ S!PrepareSky
           \/ S!PrepareVaultExit \/ S!PrepareLido
    PROVE  SavingsInv'
<1> USE SavingsAsked, SavingsPrepared
<1> SUFFICES chain' = chain /\ plan' # Refused /\ (SavingsPoolPlan' \/ SavingsVaultPlan' \/ SavingsQueuePlan')
  BY DEF SavingsInv, SavingsPlan, S!Ledger, S!Resting
<1>1. CASE S!PrepareAave
  <2>1. PICK amount \in Amounts \cup {MaxUint}, who \in S!Holders, source \in {"underlying", "a_token"} :
          \/ S!Prepared(S!PlanSupply(amount, who))
          \/ \E kind \in {"withdraw_supply", "borrow"} : S!Prepared(S!PlanPool(kind, amount, who))
          \/ S!Prepared(S!PlanRepay(amount, who, source))
    BY <1>1 DEF S!PrepareAave
  <2>2. amount \in Nat
    OBVIOUS
  <2> QED
    BY <2>1, <2>2 DEF SavingsPoolPlan
<1>2. CASE S!PrepareAaveMode
  <2>1. CASE \E use \in BOOLEAN : S!Prepared(S!PlanCollateral(use))
    BY <2>1 DEF SavingsPoolPlan
  <2>2. CASE \E category \in {0, 256} : S!Prepared(S!PlanEMode(category))
    BY <2>2 DEF SavingsPoolPlan
  <2> QED
    BY <1>2, <2>1, <2>2 DEF S!PrepareAaveMode
<1>3. CASE S!PrepareMorpho
  <2>1. PICK amount \in Amounts, who \in S!Holders, maxPrice \in 0 .. 2, asked \in 0 .. EndOf["savings"] \cup {None} :
          S!Prepared(S!PlanMorphoDeposit(amount, maxPrice, asked, who, chain.now))
    BY <1>3 DEF S!PrepareMorpho
  <2>2. amount \in Nat /\ maxPrice \in Nat /\ asked \in Nat \cup {None} /\ chain.now \in Nat
    BY SavingsParts DEF SavingsInv
  <2> QED
    BY <2>1, <2>2 DEF SavingsVaultPlan
<1>4. CASE S!PrepareSky
  BY <1>4 DEF S!PrepareSky, SavingsVaultPlan
<1>5. CASE S!PrepareVaultExit
  BY <1>5 DEF S!PrepareVaultExit, SavingsVaultPlan
<1>6. CASE S!PrepareLido
  <2>1. CASE \E amount \in Amounts :
                \/ \E kind \in {"stake", "unwrap"} : S!Prepared(S!PlanExchange(kind, amount))
                \/ S!Prepared(S!PlanWrap(amount))
                \/ S!Prepared(S!PlanQueueClaim(amount))
    BY <2>1 DEF SavingsQueuePlan
  <2>2. CASE \E n \in 0 .. 2 : \E amounts \in [1 .. n -> Amounts], owner \in S!Holders :
                S!Prepared(S!PlanRequests(amounts, owner))
    <3>1. PICK n \in 0 .. 2 : \E amounts \in [1 .. n -> Amounts], owner \in S!Holders :
                S!Prepared(S!PlanRequests(amounts, owner))
      BY <2>2
    <3>2. PICK amounts \in [1 .. n -> Amounts], owner \in S!Holders : S!Prepared(S!PlanRequests(amounts, owner))
      BY <3>1
    <3>3. amounts \in Seq(Nat)
      OBVIOUS
    <3> QED
      BY <3>2, <3>3 DEF SavingsQueuePlan
  <2> QED
    BY <1>6, <2>1, <2>2 DEF S!PrepareLido
<1> QED
  BY <1>1, <1>2, <1>3, <1>4, <1>5, <1>6

\* A price that moves.
LEMMA SavingsPriced ==
    ASSUME NEW l \in S!Ledger, S!Resting(l), NEW p \in Nat \ {0}, NEW v, v = [l EXCEPT !.price = p]
    PROVE  v \in S!Ledger /\ S!Resting(v)
<1>1. v \in S!Ledger
  BY DEF S!Ledger
<1>2. v.now = l.now /\ v.finalized = l.finalized /\ v.queue = l.queue /\ v.allowance = l.allowance
  BY DEF S!Ledger
<1> QED
  BY <1>1, <1>2 DEF S!Resting

\* Time that passes.
LEMMA SavingsAged ==
    ASSUME NEW l \in S!Ledger, S!Resting(l), NEW n \in Nat, n <= EndOf["savings"],
           NEW v, v = [l EXCEPT !.now = n]
    PROVE  v \in S!Ledger /\ S!Resting(v)
<1>1. v \in S!Ledger
  BY DEF S!Ledger
<1>2. v.now = n /\ v.finalized = l.finalized /\ v.queue = l.queue /\ v.allowance = l.allowance
  BY DEF S!Ledger
<1> QED
  BY <1>1, <1>2 DEF S!Resting

\* A request that is finalized.
LEMMA SavingsFinalized ==
    ASSUME NEW l \in S!Ledger, S!Resting(l), NEW n \in Nat, n <= Len(l.queue),
           NEW v, v = [l EXCEPT !.finalized = n]
    PROVE  v \in S!Ledger /\ S!Resting(v)
<1>1. v \in S!Ledger
  BY DEF S!Ledger
<1>2. v.now = l.now /\ v.finalized = n /\ v.queue = l.queue /\ v.allowance = l.allowance
  BY DEF S!Ledger
<1> QED
  BY <1>1, <1>2 DEF S!Resting

\* A ledger on which only its price, its clock or its queue has moved is at rest still.
LEMMA SavingsMoved ==
    ASSUME chain \in S!Ledger, S!Resting(chain), EndOf["savings"] \in Nat, S!Move
    PROVE  chain' \in S!Ledger /\ S!Resting(chain')
<1>0. /\ chain.supplied \in SavingsAmounts /\ chain.debt \in SavingsAmounts
      /\ chain.now \in Nat /\ chain.finalized \in Nat /\ Len(chain.queue) \in Nat
  BY SavingsParts DEF SavingsQueue
<1>1. CASE chain' \in {[chain EXCEPT !.debt[who] = @ + 1, !.supplied["sender"] = @ + 1] : who \in S!Holders}
  <2>1. PICK who \in S!Holders : chain' = [chain EXCEPT !.debt[who] = @ + 1, !.supplied["sender"] = @ + 1]
    BY <1>1
  <2> DEFINE n == chain.debt[who] + 1
             k == chain.supplied["sender"] + 1
             w == SavingsOwing(chain, who, n)
  <2>2. chain' = SavingsSupplying(w, "sender", k)
    BY <2>1 DEF SavingsOwing, SavingsSupplying
  <2>3. "sender" \in S!Holders /\ who \in S!Holders /\ n \in Nat /\ k \in Nat /\ chain \in S!Ledger
    BY <1>0 DEF S!Holders, S!Saver, SavingsAmounts
  <2> HIDE DEF n, k
  <2>4. /\ w \in S!Ledger /\ SavingsKept(w, chain) /\ w.allowance = chain.allowance /\ w.queue = chain.queue
    BY ONLY <2>3, SavingsOwed
  <2> HIDE DEF w
  <2> DEFINE v == chain'
  <2>5. v = SavingsSupplying(w, "sender", k)
    BY <2>2
  <2> HIDE DEF v
  <2>6. /\ v \in S!Ledger /\ SavingsKept(v, w) /\ v.allowance = w.allowance /\ v.queue = w.queue
    BY ONLY <2>3, <2>4, <2>5, SavingsSupplied
  <2>7. S!Resting(v)
    BY <2>4, <2>6 DEF S!Resting, SavingsKept
  <2> QED
    BY <2>6, <2>7 DEF v
<1>2. CASE chain' \in {[chain EXCEPT !.price = p] : p \in 1 .. 3}
  <2> DEFINE v == chain'
  <2>1. PICK p \in 1 .. 3 : v = [chain EXCEPT !.price = p]
    BY <1>2
  <2>2. p \in Nat \ {0}
    OBVIOUS
  <2> HIDE DEF v
  <2>3. v \in S!Ledger /\ S!Resting(v)
    BY <2>1, <2>2, SavingsPriced
  <2> QED
    BY <2>3 DEF v
<1>3. CASE chain.now < EndOf["savings"] /\ chain' \in {[chain EXCEPT !.now = @ + 1]}
  <2> DEFINE v == chain'
             n == chain.now + 1
  <2>1. v = [chain EXCEPT !.now = n]
    BY <1>3
  <2>2. n \in Nat /\ n <= EndOf["savings"]
    BY <1>0, <1>3
  <2> HIDE DEF v, n
  <2>3. v \in S!Ledger /\ S!Resting(v)
    BY <2>1, <2>2, SavingsAged
  <2> QED
    BY <2>3 DEF v
<1>4. CASE chain.finalized < Len(chain.queue) /\ chain' \in {[chain EXCEPT !.finalized = @ + 1]}
  <2> DEFINE v == chain'
             n == chain.finalized + 1
  <2>1. v = [chain EXCEPT !.finalized = n]
    BY <1>4
  <2>2. n \in Nat /\ n <= Len(chain.queue)
    BY <1>0, <1>4
  <2> HIDE DEF v, n
  <2>3. v \in S!Ledger /\ S!Resting(v)
    BY <2>1, <2>2, SavingsFinalized
  <2> QED
    BY <2>3 DEF v
<1> QED
  BY <1>1, <1>2, <1>3, <1>4 DEF S!Move, S!Moved, S!Saver

\* Every step of a session with the savings protocols keeps it.
LEMMA SavingsKeeps ==
    ASSUME S!SavingsAssumption, SavingsInv, S!Next
    PROVE  SavingsInv'
<1>1. CASE \/ S!PrepareAave \/ S!PrepareAaveMode \/ S!PrepareMorpho \/ S!PrepareSky
           \/ S!PrepareVaultExit \/ S!PrepareLido
  BY <1>1, SavingsPrepares
<1>2. CASE S!Execute
  <2>1. plan # S!NoPlan /\ plan' = plan /\ chain' = IF S!Outcome = Reverted THEN chain ELSE S!Outcome
    BY <1>2 DEF S!Execute, S!Submitted
  <2>2. SavingsSafe(S!Outcome)
    BY <2>1, SavingsPlanDone DEF SavingsInv, SavingsDone, S!SavingsAssumption
  <2>3. chain' \in S!Ledger /\ S!Resting(chain')
    BY <2>1, <2>2 DEF SavingsInv, SavingsSafe
  <2> QED
    BY <2>1, <2>3 DEF SavingsInv, SavingsPlan, SavingsPoolPlan, SavingsVaultPlan, SavingsQueuePlan
<1>3. CASE S!Move
  <2>1. plan' = plan
    BY <1>3 DEF S!Move, S!Moved
  <2>2. chain' \in S!Ledger /\ S!Resting(chain')
    BY <1>3, SavingsMoved DEF SavingsInv, S!SavingsAssumption
  <2> QED
    BY <2>1, <2>2 DEF SavingsInv, SavingsPlan, SavingsPoolPlan, SavingsVaultPlan, SavingsQueuePlan
<1> QED
  BY <1>1, <1>2, <1>3 DEF S!Next

\* It holds to begin with.
LEMMA SavingsStarts ==
    ASSUME S!SavingsAssumption, S!Init
    PROVE  SavingsInv
BY DEF S!SavingsAssumption, S!Init, S!Start, SavingsInv

\* What it says of the plan in hand.
LEMMA SavingsHold ==
    ASSUME S!SavingsAssumption, SavingsInv
    PROVE  S!SavingsDeliver
<1>1. CASE plan = S!NoPlan
  BY <1>1 DEF S!SavingsDeliver
<1>2. CASE SavingsPlan
  BY <1>2, SavingsPlanDone DEF SavingsInv, SavingsDone, S!SavingsAssumption
<1> QED
  BY <1>1, <1>2 DEF SavingsInv

-------------------------------------------------------------------------------
(***************************************************************************)
(* Rewards: the ledger                                                     *)
(***************************************************************************)

\* What the distributor has paid of a token, to whomever, is what was claimed of it.
RewardsTotal(l) == \A t \in R!Tokens : l.got["sender"][t] + l.got["friend"][t] = l.claimed[t]

\* A ledger whose totals agree.
RewardsLedger(l) == l \in R!Ledger /\ RewardsTotal(l)

\* The parts of a ledger.
LEMMA RewardsParts ==
    ASSUME NEW l \in R!Ledger
    PROVE  /\ l.done \in SUBSET {claim.id : claim \in Claims} /\ l.funds \in [R!Drops -> Nat]
           /\ l.paid \in [R!Payees -> Nat] /\ l.tree \in DOMAIN Trees
           /\ l.claimed \in [R!Tokens -> Nat] /\ l.got \in [R!Payees -> [R!Tokens -> Nat]]
           /\ l.recipient \in [R!Tokens \cup {"default"} -> {"friend", None}]
BY DEF R!Ledger

\* What a claim pays when it can be.
ClaimPays(m, c, u) ==
    /\ u.done = m.done \cup {c.id}
    /\ u.funds[c.drop] = m.funds[c.drop] - c.amount
    /\ \A d \in R!Drops \ {c.drop} : u.funds[d] = m.funds[d]
    /\ u.paid[c.account] = m.paid[c.account] + c.amount
    /\ \A p \in R!Payees \ {c.account} : u.paid[p] = m.paid[p]

\* The distributor's part of the ledger.
RewardsSame(u, m) ==
    u.tree = m.tree /\ u.claimed = m.claimed /\ u.got = m.got /\ u.recipient = m.recipient

\* A claim that can be paid leaves a ledger.
LEMMA ClaimPaidIs ==
    ASSUME R!RewardsAssumption, NEW m \in R!Ledger, NEW c \in Claims, R!Available(m, c),
           NEW u, u = R!ClaimPaid(m, c)
    PROVE  u \in R!Ledger /\ ClaimPays(m, c, u) /\ RewardsSame(u, m)
<1> DEFINE done == m.done \cup {c.id}
           funds == [m.funds EXCEPT ![c.drop] = @ - c.amount]
           paid == [m.paid EXCEPT ![c.account] = @ + c.amount]
<1>1. c.amount \in Nat /\ c.account \in R!Payees /\ c.drop \in R!Drops /\ c.id \in {d.id : d \in Claims}
  BY DEF R!RewardsAssumption, R!Drops
<1>2. m.funds[c.drop] >= c.amount
  BY DEF R!Available
<1>3. /\ done \in SUBSET {d.id : d \in Claims}
      /\ funds \in [R!Drops -> Nat] /\ paid \in [R!Payees -> Nat]
  BY <1>1, <1>2, RewardsParts
<1>4. /\ funds[c.drop] = m.funds[c.drop] - c.amount
      /\ \A d \in R!Drops \ {c.drop} : funds[d] = m.funds[d]
      /\ paid[c.account] = m.paid[c.account] + c.amount
      /\ \A p \in R!Payees \ {c.account} : paid[p] = m.paid[p]
  BY <1>1, RewardsParts
<1>5. u = [m EXCEPT !.done = done, !.funds = funds, !.paid = paid]
  BY DEF R!ClaimPaid
<1> HIDE DEF done, funds, paid
<1>6. /\ u.done = done /\ u.funds = funds /\ u.paid = paid /\ RewardsSame(u, m)
      /\ u \in R!Ledger
  BY <1>3, <1>5 DEF R!Ledger, RewardsSame
<1> QED
  BY <1>4, <1>6 DEF ClaimPays, done

\* The drops have no part in what the distributor has paid.
LEMMA ClaimPaidRests ==
    ASSUME R!RewardsAssumption, NEW m, RewardsLedger(m), NEW u \in R!Ledger, RewardsSame(u, m)
    PROVE  RewardsLedger(u)
BY DEF RewardsLedger, RewardsTotal, RewardsSame

\* The account that a reward goes to.
LEMMA PayeeIs ==
    ASSUME NEW m \in R!Ledger, NEW t \in R!Tokens
    PROVE  R!PayeeOf(m, t) \in R!Payees
<1>1. m.recipient[t] \in {"friend", None} /\ m.recipient["default"] \in {"friend", None}
  BY RewardsParts
<1> QED
  BY <1>1 DEF R!PayeeOf, R!Payees, R!User

\* A reward as the client fetched it.
LEMMA FetchedIs ==
    ASSUME R!RewardsAssumption, NEW r \in R!Fetched
    PROVE  r.amount \in Nat /\ r.token \in R!Tokens
BY DEF R!Fetched, R!RewardsAssumption

\* What a claim of r at the distributor changes.
RewardIs(m, r, u) ==
    LET p == R!PayeeOf(m, r.token)
    IN  /\ u.claimed[r.token] = r.amount
        /\ \A t \in R!Tokens \ {r.token} : u.claimed[t] = m.claimed[t]
        /\ \A q \in R!Payees, t \in R!Tokens : q # p \/ t # r.token => u.got[q][t] = m.got[q][t]
        /\ u.tree = m.tree /\ u.recipient = m.recipient

\* What a claim at the distributor pays when it does.
LEMMA RewardPaidIs ==
    ASSUME NEW m, RewardsLedger(m), NEW r \in R!Fetched, R!RewardsAssumption,
           R!RootOf(r) = <<m.tree>>, r.amount >= m.claimed[r.token], NEW u, u = R!RewardPaid(m, r)
    PROVE  RewardsLedger(u) /\ RewardIs(m, r, u)
<1> DEFINE p == R!PayeeOf(m, r.token)
           k == r.token
           x == m.got[p][k] + r.amount - m.claimed[k]
           claimed == [m.claimed EXCEPT ![k] = r.amount]
           row == [m.got[p] EXCEPT ![k] = x]
           got == [m.got EXCEPT ![p] = row]
<1>0. m \in R!Ledger
  BY DEF RewardsLedger
<1>1. r.amount \in Nat /\ k \in R!Tokens
  BY FetchedIs
<1>2. p \in R!Payees
  BY <1>0, <1>1, PayeeIs
<1>3. m.got[p] \in [R!Tokens -> Nat] /\ m.got[p][k] \in Nat /\ m.claimed[k] \in Nat
  BY <1>0, <1>1, <1>2, RewardsParts
<1>4. x \in Nat
  BY <1>1, <1>3
<1>5. u = [m EXCEPT !.claimed[k] = r.amount, !.got[p][k] = x]
  BY <1>0, <1>1, <1>2, RewardsParts DEF R!RewardPaid, R!Ledger
<1> HIDE DEF x, p
<1>6. claimed \in [R!Tokens -> Nat] /\ claimed[k] = r.amount
      /\ \A t \in R!Tokens \ {k} : claimed[t] = m.claimed[t]
  BY <1>0, <1>1, RewardsParts
<1>7. row \in [R!Tokens -> Nat] /\ row[k] = x /\ \A t \in R!Tokens \ {k} : row[t] = m.got[p][t]
  BY <1>1, <1>3, <1>4
<1> HIDE DEF k
<1>8. u = [m EXCEPT !.claimed = claimed, !.got = got]
  BY <1>5
<1> HIDE DEF row, claimed
<1>9. got \in [R!Payees -> [R!Tokens -> Nat]] /\ got[p] = row /\ \A q \in R!Payees \ {p} : got[q] = m.got[q]
  BY <1>0, <1>2, <1>7, RewardsParts
<1> HIDE DEF got
<1>10. /\ u.claimed = claimed /\ u.got = got /\ u.tree = m.tree /\ u.recipient = m.recipient
       /\ u \in R!Ledger
  BY <1>0, <1>6, <1>8, <1>9 DEF R!Ledger
<1>11. ASSUME NEW t \in R!Tokens
       PROVE  got["sender"][t] + got["friend"][t] = claimed[t]
  <2>1. m.got["sender"][t] + m.got["friend"][t] = m.claimed[t]
    BY DEF RewardsLedger, RewardsTotal
  <2>2. /\ m.got["sender"][t] \in Nat /\ m.got["friend"][t] \in Nat /\ m.claimed[t] \in Nat
        /\ m.got["sender"][k] \in Nat /\ m.got["friend"][k] \in Nat
    BY <1>0, <1>1, RewardsParts DEF R!Payees, R!User, k
  <2>3. R!Payees = {"sender", "friend"}
    BY DEF R!Payees, R!User
  <2>4. CASE t # k
    <3>1. got["sender"][t] = m.got["sender"][t] /\ got["friend"][t] = m.got["friend"][t]
      BY <1>7, <1>9, <2>3, <2>4
    <3> QED
      BY <1>6, <2>1, <2>4, <3>1
  <2>5. CASE t = k
    <3>1. x = m.got[p][k] + r.amount - m.claimed[k]
      BY DEF x
    <3>2. CASE p = "sender"
      <4>1. got["sender"][k] = x /\ got["friend"][k] = m.got["friend"][k]
        BY <1>7, <1>9, <2>3, <3>2
      <4> QED
        BY <1>1, <1>6, <2>1, <2>2, <2>5, <3>1, <3>2, <4>1
    <3>3. CASE p = "friend"
      <4>1. got["friend"][k] = x /\ got["sender"][k] = m.got["sender"][k]
        BY <1>7, <1>9, <2>3, <3>3
      <4> QED
        BY <1>1, <1>6, <2>1, <2>2, <2>5, <3>1, <3>3, <4>1
    <3> QED
      BY <1>2, <2>3, <3>2, <3>3
  <2> QED
    BY <2>4, <2>5
<1>12. RewardsLedger(u)
  BY <1>10, <1>11 DEF RewardsLedger, RewardsTotal
<1>13. \A q \in R!Payees, t \in R!Tokens : q # p \/ t # k => got[q][t] = m.got[q][t]
  BY <1>7, <1>9
<1>14. RewardIs(m, r, u)
  BY <1>6, <1>10, <1>13 DEF RewardIs, k, p
<1> QED
  BY <1>12, <1>14

-------------------------------------------------------------------------------
(***************************************************************************)
(* Rewards: batches, and batches within them                               *)
(***************************************************************************)

\* Two courses that begin alike and go on alike end alike.
LEMMA SameCourse ==
    ASSUME NEW n \in Nat, NEW f, NEW g, f[0] = g[0],
           \A k \in 1 .. n : f[k - 1] = g[k - 1] => f[k] = g[k]
    PROVE  f[n] = g[n]
<1> DEFINE same == {k \in Nat : k <= n => f[k] = g[k]}
<1>1. 0 \in same
  OBVIOUS
<1>2. ASSUME NEW k \in same PROVE k + 1 \in same
  <2>1. k \in Nat /\ k + 1 - 1 = k
    OBVIOUS
  <2>2. k + 1 <= n => k + 1 \in 1 .. n /\ f[k] = g[k]
    BY <1>2, <2>1
  <2> QED
    BY <2>1, <2>2
<1>3. same = Nat
  <2> HIDE DEF same
  <2>1. same \in SUBSET Nat
    BY DEF same
  <2> QED
    BY <1>1, <1>2, <2>1, InductionOverNat
<1> QED
  BY <1>3

\* The claims of an aggregate, one after the other.
LEMMA AttemptsCourse ==
    ASSUME R!RewardsAssumption, NEW l \in R!Ledger, NEW claims \in Seq(Claims)
    PROVE  \E g \in [0 .. Len(claims) -> R!Ledger] :
              /\ g[0] = l
              /\ \A k \in 1 .. Len(claims) : g[k] = R!Attempted(g[k - 1], claims[k])
              /\ R!Batch(R!Attempted, l, claims) = g[Len(claims)]
<1> DEFINE n == Len(claims)
           then(m, k) == R!Attempted(m, claims[k])
           step == [p \in R!Ledger \X (1 .. n) |-> then(p[1], p[2])]
           more(m, k) == IF m = Reverted THEN Reverted ELSE then(m, k)
           Solves(f) == f = [k \in 0 .. n |-> IF k = 0 THEN l ELSE more(f[k - 1], k)]
           run == CHOOSE f : Solves(f)
<1>1. n \in Nat /\ \A k \in 1 .. n : claims[k] \in Claims
  OBVIOUS
<1>2. Reverted \notin R!Ledger
  BY DEF R!RewardsAssumption
<1>3. \A m \in R!Ledger, k \in 1 .. n : then(m, k) \in R!Ledger
  BY <1>1, ClaimPaidIs DEF R!Attempted
<1>4. R!Batch(R!Attempted, l, claims) = run[n]
  BY DEF R!Batch
<1> HIDE DEF n, then
<1>5. PICK g \in [0 .. n -> R!Ledger] : RangeRecursion(g, n, l, step)
  <2>1. step \in [R!Ledger \X (1 .. n) -> R!Ledger]
    BY <1>3
  <2> HIDE DEF step
  <2> QED
    BY <1>1, <2>1, RangeRecursionExists
<1>6. g[0] = l /\ \A k \in 1 .. n : g[k] = then(g[k - 1], k)
  <2>1. ASSUME NEW k \in 1 .. n PROVE g[k] = then(g[k - 1], k)
    <3>1. g[k - 1] \in R!Ledger
      BY <1>1, <1>5
    <3>2. g[k] = step[<<g[k - 1], k>>]
      BY <1>5 DEF RangeRecursion
    <3> QED
      BY <3>1, <3>2
  <2> QED
    BY <1>5, <2>1 DEF RangeRecursion
<1>7. Solves(g)
  <2>1. ASSUME NEW k \in 0 .. n PROVE g[k] = IF k = 0 THEN l ELSE more(g[k - 1], k)
    <3>1. k # 0 => k \in 1 .. n /\ k - 1 \in 0 .. n
      BY <1>1
    <3>2. k # 0 => g[k - 1] \in R!Ledger
      BY <1>5, <3>1
    <3> QED
      BY <1>2, <1>6, <3>1, <3>2
  <2> QED
    BY <1>5, <2>1
<1>8. Solves(run)
  BY ONLY <1>7 DEF run
<1> HIDE DEF run
<1>9. run[n] = g[n]
  <2>1. run[0] = g[0]
    BY <1>1, <1>6, <1>8
  <2>2. ASSUME NEW k \in 1 .. n, run[k - 1] = g[k - 1] PROVE run[k] = g[k]
    BY <1>1, <1>7, <1>8, <2>2
  <2> QED
    BY <1>1, <2>1, <2>2, SameCourse
<1> QED
  BY <1>4, <1>5, <1>6, <1>9 DEF n, then

\* The rewards of a claim at the distributor, up to the first that it rejects.
LEMMA RewardsCourse ==
    ASSUME R!RewardsAssumption, NEW l, RewardsLedger(l), NEW rewards \in Seq(R!Fetched)
    PROVE  \E g \in [0 .. Len(rewards) -> {m \in R!Ledger : RewardsTotal(m)} \cup {Reverted}] :
              /\ g[0] = l
              /\ \A k \in 1 .. Len(rewards) :
                    g[k] = IF g[k - 1] = Reverted THEN Reverted
                           ELSE R!RewardPaid(g[k - 1], rewards[k])
              /\ R!Batch(R!RewardPaid, l, rewards) = g[Len(rewards)]
<1> DEFINE n == Len(rewards)
           V == {m \in R!Ledger : RewardsTotal(m)} \cup {Reverted}
           more(m, k) == IF m = Reverted THEN Reverted ELSE R!RewardPaid(m, rewards[k])
           step == [p \in V \X (1 .. n) |-> more(p[1], p[2])]
           Solves(f) == f = [k \in 0 .. n |-> IF k = 0 THEN l ELSE more(f[k - 1], k)]
           run == CHOOSE f : Solves(f)
<1>1. n \in Nat /\ \A k \in 1 .. n : rewards[k] \in R!Fetched
  OBVIOUS
<1>2. l \in V
  BY DEF RewardsLedger
<1>3. ASSUME NEW m \in V, NEW k \in 1 .. n PROVE more(m, k) \in V
  <2> DEFINE r == rewards[k]
             u == R!RewardPaid(m, r)
  <2>1. r \in R!Fetched
    BY <1>1
  <2> HIDE DEF r
  <2>2. r.amount \in Nat /\ r.token \in R!Tokens
    BY <2>1, FetchedIs
  <2>3. m # Reverted => RewardsLedger(m) /\ m.claimed[r.token] \in Nat
    BY <2>2, RewardsParts DEF RewardsLedger
  <2>4. R!RootOf(r) # <<m.tree>> \/ r.amount < m.claimed[r.token] => u = Reverted
    BY DEF R!RewardPaid
  <2>5. ASSUME m # Reverted, R!RootOf(r) = <<m.tree>>, r.amount >= m.claimed[r.token] PROVE u \in V
    <3> HIDE DEF u
    <3>1. RewardsLedger(u)
      BY <2>1, <2>3, <2>5, RewardPaidIs DEF u
    <3> QED
      BY <3>1 DEF RewardsLedger
  <2> QED
    BY <2>2, <2>3, <2>4, <2>5 DEF r
<1>4. R!Batch(R!RewardPaid, l, rewards) = run[n]
  BY DEF R!Batch
<1> HIDE DEF n, more
<1>5. PICK g \in [0 .. n -> V] : RangeRecursion(g, n, l, step)
  <2>1. step \in [V \X (1 .. n) -> V]
    BY <1>3
  <2> HIDE DEF step, V
  <2> QED
    BY <1>1, <1>2, <2>1, RangeRecursionExists
<1>6. g[0] = l /\ \A k \in 1 .. n : g[k] = more(g[k - 1], k)
  <2> HIDE DEF V
  <2>1. ASSUME NEW k \in 1 .. n PROVE g[k] = more(g[k - 1], k)
    <3>1. g[k - 1] \in V
      BY <1>1, <1>5
    <3>2. g[k] = step[<<g[k - 1], k>>]
      BY <1>5 DEF RangeRecursion
    <3> QED
      BY <3>1, <3>2
  <2> QED
    BY <1>5, <2>1 DEF RangeRecursion
<1> HIDE DEF V
<1>7. Solves(g)
  <2>1. ASSUME NEW k \in 0 .. n PROVE g[k] = IF k = 0 THEN l ELSE more(g[k - 1], k)
    <3>1. k # 0 => k \in 1 .. n /\ k - 1 \in 0 .. n
      BY <1>1
    <3> QED
      BY <1>6, <3>1
  <2> QED
    BY <1>5, <2>1
<1>8. Solves(run)
  BY ONLY <1>7 DEF run
<1> HIDE DEF run
<1>9. run[n] = g[n]
  <2>1. run[0] = g[0]
    BY <1>1, <1>6, <1>8
  <2>2. ASSUME NEW k \in 1 .. n, run[k - 1] = g[k - 1] PROVE run[k] = g[k]
    BY <1>1, <1>7, <1>8, <2>2
  <2> QED
    BY <1>1, <2>1, <2>2, SameCourse
<1> QED
  BY <1>4, <1>5, <1>6, <1>9 DEF n, more, V

\* A plan has one call.
LEMMA RewardsOne ==
    ASSUME NEW l, NEW a, l # Reverted
    PROVE  R!Batch(R!Apply, l, <<a>>) = R!Apply(l, a)
<1> DEFINE s == <<a>>
           more(m, k) == IF m = Reverted THEN Reverted ELSE R!Apply(m, s[k])
           Solves(f) == f = [k \in 0 .. Len(s) |-> IF k = 0 THEN l ELSE more(f[k - 1], k)]
           run == CHOOSE f : Solves(f)
           g == [k \in 0 .. 1 |-> IF k = 0 THEN l ELSE more(l, 1)]
<1>1. R!Batch(R!Apply, l, s) = run[Len(s)]
  BY DEF R!Batch
<1>2. Len(s) = 1 /\ s[1] = a
  OBVIOUS
<1> HIDE DEF s, more
<1>3. Solves(g)
  <2>1. g[0] = l /\ g[1] = more(l, 1) /\ \A k \in 0 .. 1 : k = 0 \/ k = 1
    OBVIOUS
  <2>2. \A k \in 0 .. 1 : g[k] = IF k = 0 THEN l ELSE more(g[k - 1], k)
    BY <2>1
  <2> HIDE DEF g
  <2>3. g = [k \in 0 .. 1 |-> g[k]]
    BY DEF g
  <2> QED
    BY ONLY <1>2, <2>2, <2>3
<1>4. Solves(run)
  BY ONLY <1>3 DEF run
<1> HIDE DEF run
<1>5. run[0] = l /\ run[1] = more(run[0], 1)
  BY <1>2, <1>4
<1>6. run[Len(s)] = R!Apply(l, a)
  BY <1>2, <1>5 DEF more
<1> QED
  BY <1>1, <1>6 DEF s

-------------------------------------------------------------------------------
(***************************************************************************)
(* Rewards: the claims of drops                                            *)
(***************************************************************************)

\* What each claim is worth.
Amount == [c \in Claims |-> c.amount]

\* What the claims of a set are worth is a sum like others.
LEMMA WorthIs ==
    ASSUME R!RewardsAssumption, NEW T \in SUBSET Claims, IsFiniteSet(T)
    PROVE  R!Worth(T) = SumOver(Amount, T)
<1> DEFINE pick == [s \in SUBSET T |-> CHOOSE x \in s : TRUE]
           Solves(f) == f = [s \in SUBSET T |->
                              IF s = {} THEN 0
                              ELSE (CHOOSE x \in s : TRUE).amount + f[s \ {CHOOSE x \in s : TRUE}]]
           sum == CHOOSE f : Solves(f)
<1>1. R!Worth(T) = sum[T]
  BY DEF R!Worth, R!MapThenSumSet, R!MapThenFoldSet
<1>2. \A x \in T : Amount[x] \in Int /\ Amount[x] = x.amount
  BY DEF R!RewardsAssumption, Amount
<1>3. Picks(pick, T)
  BY DEF Picks
<1>4. \A s \in SUBSET T : s # {} => pick[s] = (CHOOSE x \in s : TRUE) /\ pick[s] \in T
  OBVIOUS
<1>5. PICK g \in [SUBSET T -> Int] : Sums(g, Amount, T) /\ SumOver(Amount, T) = g[T]
  BY <1>2, SumsExist
<1>6. Solves(g)
  <2>1. ASSUME NEW s \in SUBSET T
        PROVE  g[s] = IF s = {} THEN 0
                      ELSE (CHOOSE x \in s : TRUE).amount + g[s \ {CHOOSE x \in s : TRUE}]
    <3>1. g[s] = IF s = {} THEN 0 ELSE Amount[CHOOSE x \in s : TRUE] + g[s \ {CHOOSE x \in s : TRUE}]
      BY <1>5 DEF Sums
    <3>2. s # {} => Amount[CHOOSE x \in s : TRUE] = (CHOOSE x \in s : TRUE).amount
      BY <1>2, <1>4
    <3> QED
      BY <3>1, <3>2
  <2> QED
    BY <1>5, <2>1
<1>7. Solves(sum)
  BY ONLY <1>6 DEF sum
<1> HIDE DEF sum
<1>8. Sums(sum, Amount, T)
  <2>1. ASSUME NEW s \in SUBSET T
        PROVE  sum[s] = IF s = {} THEN 0
                        ELSE Amount[CHOOSE x \in s : TRUE] + sum[s \ {CHOOSE x \in s : TRUE}]
    <3>1. sum[s] = IF s = {} THEN 0
                   ELSE (CHOOSE x \in s : TRUE).amount + sum[s \ {CHOOSE x \in s : TRUE}]
      BY <1>7
    <3>2. s # {} => Amount[CHOOSE x \in s : TRUE] = (CHOOSE x \in s : TRUE).amount
      BY <1>2, <1>4
    <3> QED
      BY <3>1, <3>2
  <2>2. sum = [s \in SUBSET T |-> sum[s]]
    BY ONLY <1>7
  <2> QED
    BY ONLY <2>1, <2>2 DEF Sums
<1>9. sum \in [SUBSET T -> Int]
  <2>1. sum[{}] \in Int
    BY <1>8 DEF Sums
  <2>2. ASSUME NEW s \in SUBSET T, s # {}, sum[s \ {pick[s]}] \in Int PROVE sum[s] \in Int
    <3>1. sum[s] = Amount[pick[s]] + sum[s \ {pick[s]}]
      BY <1>4, <1>8, <2>2 DEF Sums
    <3>2. Amount[pick[s]] \in Int
      BY <1>2, <1>4, <2>2
    <3> QED
      BY <2>2, <3>1, <3>2
  <2> HIDE DEF pick
  <2>3. \A s \in SUBSET T : sum[s] \in Int
    BY <1>3, <2>1, <2>2, SetRecursionType
  <2>4. sum = [s \in SUBSET T |-> sum[s]]
    BY ONLY <1>7
  <2> QED
    BY ONLY <2>3, <2>4
<1>10. T \in SUBSET T /\ \A x \in T : Amount[x] \in Int
  BY <1>2
<1> HIDE DEF pick, Solves
<1>11. SumOver(Amount, T) = sum[T]
  BY <1>8, <1>9, <1>10, SumsOfParts
<1> QED
  BY <1>1, <1>11

\* Claims of the wallet's own.
Claimable(claims) == claims \in Seq(Claims) /\ \A i \in DOMAIN claims : claims[i].account = "sender"

\* Those of the claims that were paid between the ledgers l and m.
ClaimsTaken(l, m, claims) == {c \in {claims[i] : i \in DOMAIN claims} : c.id \in m.done \ l.done}

\* From ledger l to m the first k of the claims were tried.
ClaimsTried(l, m, claims, k) ==
    /\ m \in R!Ledger /\ RewardsSame(m, l) /\ l.done \subseteq m.done
    /\ \A i \in 1 .. k : claims[i].id \in m.done \/ m.funds[claims[i].drop] < claims[i].amount
    /\ m.paid["sender"] = l.paid["sender"] + SumOver(Amount, ClaimsTaken(l, m, claims))

\* Those that were paid are some of the claims, finitely many.
LEMMA TakenFinite ==
    ASSUME NEW l, NEW m, NEW claims \in Seq(Claims)
    PROVE  IsFiniteSet(ClaimsTaken(l, m, claims)) /\ ClaimsTaken(l, m, claims) \in SUBSET Claims
<1>1. IsFiniteSet(DOMAIN claims) /\ \A i \in DOMAIN claims : claims[i] \in Claims
  BY SeqDomain
<1>2. IsFiniteSet({claims[i] : i \in DOMAIN claims})
  BY <1>1, ImageFinite
<1>3. ClaimsTaken(l, m, claims) \in SUBSET {claims[i] : i \in DOMAIN claims}
  BY DEF ClaimsTaken
<1> QED
  BY <1>1, <1>2, <1>3, FS_Subset

\* One more is tried.
LEMMA ClaimTried ==
    ASSUME R!RewardsAssumption, NEW l \in R!Ledger, NEW claims, Claimable(claims), NEW m,
           NEW k \in 1 .. Len(claims), ClaimsTried(l, m, claims, k - 1),
           NEW u, u = R!Attempted(m, claims[k])
    PROVE  ClaimsTried(l, u, claims, k)
<1> DEFINE c == claims[k]
           T == ClaimsTaken(l, m, claims)
<1>1. /\ claims \in Seq(Claims) /\ Len(claims) \in Nat /\ DOMAIN claims = 1 .. Len(claims)
      /\ \A i \in 1 .. Len(claims) : claims[i] \in Claims /\ claims[i].account = "sender"
  BY SeqDomain DEF Claimable
<1>2. c \in Claims /\ c.account = "sender" /\ c.amount \in Nat /\ c.drop \in R!Drops
  BY <1>1 DEF R!RewardsAssumption, R!Drops
<1>3. /\ m \in R!Ledger /\ RewardsSame(m, l) /\ l.done \subseteq m.done
      /\ \A i \in 1 .. (k - 1) : claims[i].id \in m.done \/ m.funds[claims[i].drop] < claims[i].amount
      /\ m.paid["sender"] = l.paid["sender"] + SumOver(Amount, T)
  BY DEF ClaimsTried
<1>4. k \in Nat /\ \A i \in 1 .. k : i = k \/ i \in 1 .. (k - 1)
  BY <1>1
<1>5. IsFiniteSet(T) /\ T \in SUBSET Claims
  BY <1>1, TakenFinite
<1>6. CASE ~R!Available(m, c)
  <2>1. u = m
    BY <1>6 DEF R!Attempted
  <2>2. m.funds[c.drop] \in Nat
    BY <1>2, <1>3, RewardsParts
  <2>3. c.id \in m.done \/ m.funds[c.drop] < c.amount
    BY <1>2, <1>6, <2>2 DEF R!Available
  <2> QED
    BY <1>3, <1>4, <2>1, <2>3 DEF ClaimsTried
<1>7. CASE R!Available(m, c)
  <2> HIDE DEF c
  <2>1. u = R!ClaimPaid(m, c)
    BY <1>7 DEF R!Attempted, c
  <2>2. u \in R!Ledger /\ ClaimPays(m, c, u) /\ RewardsSame(u, m)
    BY <1>2, <1>3, <1>7, <2>1, ClaimPaidIs
  <2>3. /\ u.done = m.done \cup {c.id} /\ u.funds[c.drop] = m.funds[c.drop] - c.amount
        /\ \A d \in R!Drops \ {c.drop} : u.funds[d] = m.funds[d]
        /\ u.paid["sender"] = m.paid["sender"] + c.amount
    BY <1>2, <2>2 DEF ClaimPays
  <2>4. \A d \in R!Drops : m.funds[d] \in Nat /\ u.funds[d] \in Nat
    BY <1>3, <2>2, RewardsParts
  <2>5. \A d \in R!Drops : u.funds[d] <= m.funds[d]
    BY <1>2, <2>3, <2>4
  <2>6. \A i \in 1 .. k : claims[i].id \in u.done \/ u.funds[claims[i].drop] < claims[i].amount
    <3> SUFFICES ASSUME NEW i \in 1 .. k PROVE claims[i].id \in u.done \/ u.funds[claims[i].drop] < claims[i].amount
      OBVIOUS
    <3>1. CASE i = k
      BY <2>3, <3>1 DEF c
    <3>2. CASE i \in 1 .. (k - 1)
      <4>1. claims[i].id \in m.done \/ m.funds[claims[i].drop] < claims[i].amount
        BY <1>3, <3>2
      <4>2. claims[i] \in Claims /\ claims[i].drop \in R!Drops /\ claims[i].amount \in Nat
        BY <1>1, <1>4 DEF R!RewardsAssumption, R!Drops
      <4> QED
        BY <2>3, <2>4, <2>5, <4>1, <4>2
    <3> QED
      BY <1>4, <3>1, <3>2
  <2>7. c.id \notin m.done
    BY <1>7 DEF R!Available
  <2>8. ClaimsTaken(l, u, claims) = T \cup {c} /\ c \notin T
    <3>1. c \in {claims[i] : i \in DOMAIN claims}
      BY <1>1 DEF c
    <3>2. \A d \in {claims[i] : i \in DOMAIN claims} : d.id = c.id => d = c
      BY <1>1, <1>2 DEF R!RewardsAssumption
    <3> QED
      BY <1>3, <2>3, <2>7, <3>1, <3>2 DEF ClaimsTaken
  <2> HIDE DEF T
  <2>9. \A x \in T \cup {c} : Amount[x] \in Int
    BY <1>2, <1>5 DEF R!RewardsAssumption, Amount
  <2>10. SumOver(Amount, T \cup {c}) = Amount[c] + SumOver(Amount, T) /\ SumOver(Amount, T) \in Int
    BY <1>5, <2>8, <2>9, SumWith
  <2>11. Amount[c] = c.amount
    BY <1>2 DEF Amount
  <2>12. l.paid["sender"] \in Nat
    BY RewardsParts DEF R!Payees, R!User
  <2>13. u.paid["sender"] = l.paid["sender"] + SumOver(Amount, ClaimsTaken(l, u, claims))
    BY <1>2, <1>3, <2>3, <2>8, <2>10, <2>11, <2>12
  <2> QED
    BY <1>3, <2>2, <2>3, <2>6, <2>13 DEF ClaimsTried, RewardsSame
<1> QED
  BY <1>6, <1>7

\* Before any was tried.
LEMMA NoneTried ==
    ASSUME NEW l \in R!Ledger, NEW claims
    PROVE  ClaimsTried(l, l, claims, 0)
<1>1. ClaimsTaken(l, l, claims) = {}
  BY DEF ClaimsTaken
<1>2. l.paid["sender"] \in Nat
  BY RewardsParts DEF R!Payees, R!User
<1> QED
  BY <1>1, <1>2, SumEmpty DEF ClaimsTried, RewardsSame

\* An aggregate tries them all.
LEMMA AllTried ==
    ASSUME R!RewardsAssumption, NEW l \in R!Ledger, NEW claims, Claimable(claims)
    PROVE  ClaimsTried(l, R!Batch(R!Attempted, l, claims), claims, Len(claims))
<1> DEFINE n == Len(claims)
<1>1. claims \in Seq(Claims) /\ n \in Nat
  BY SeqDomain DEF Claimable
<1>2. PICK g \in [0 .. n -> R!Ledger] :
              /\ g[0] = l
              /\ \A k \in 1 .. n : g[k] = R!Attempted(g[k - 1], claims[k])
              /\ R!Batch(R!Attempted, l, claims) = g[n]
  BY <1>1, AttemptsCourse
<1> DEFINE tried == {k \in Nat : k <= n => ClaimsTried(l, g[k], claims, k)}
<1>3. 0 \in tried
  BY <1>2, NoneTried
<1>4. ASSUME NEW k \in tried PROVE k + 1 \in tried
  <2> SUFFICES ASSUME k + 1 <= n PROVE ClaimsTried(l, g[k + 1], claims, k + 1)
    BY <1>4
  <2>1. k + 1 \in 1 .. n /\ k + 1 - 1 = k /\ ClaimsTried(l, g[k], claims, k)
    BY <1>1, <1>4
  <2>2. g[k + 1] = R!Attempted(g[k], claims[k + 1])
    BY <1>2, <2>1
  <2> QED
    BY <2>1, <2>2, ClaimTried
<1>5. tried = Nat
  <2> HIDE DEF tried
  <2>1. tried \in SUBSET Nat
    BY DEF tried
  <2> QED
    BY <1>3, <1>4, <2>1, InductionOverNat
<1>6. ClaimsTried(l, g[n], claims, n)
  BY <1>1, <1>5
<1> QED
  BY <1>2, <1>6

\* The bundle of the i-th pair of reads, of an even size.
LEMMA PairsBundle ==
    ASSUME NEW size \in Nat \ {0}, size % 2 = 0, NEW n \in Nat, NEW i \in 1 .. n
    PROVE  \E b \in 1 .. ((2 * n + size - 1) \div size) :
              b * size \in Nat /\ (b - 1) * size \in Nat /\ (b - 1) * size < 2 * i - 1 /\ 2 * i <= b * size
                /\ (b - 1) * size + size = b * size
<1> DEFINE q == (2 * i - 2) \div size
           h == size \div 2
<1>1. 2 * i - 2 \in Nat /\ i \in Nat /\ 2 * n \in Nat
  OBVIOUS
<1>2. q \in Nat /\ size * q \in Int /\ size * q <= 2 * i - 2 /\ 2 * i - 2 < size * q + size
  BY <1>1, QuotientIs
<1>3. h \in Nat /\ size = 2 * h
  OBVIOUS
<1> HIDE DEF q, h
<1>4. h * q \in Int /\ size * q = 2 * (h * q)
  BY <1>2, <1>3
<1>5. 2 * i <= size * q + size
  BY <1>1, <1>2, <1>3, <1>4
<1>6. q * size = size * q /\ (q + 1) * size = size * q + size
  BY <1>2
<1>7. 2 * i - 1 \in 1 .. 2 * n /\ 2 * i - 1 > q * size
  BY <1>1, <1>2, <1>6
<1>8. q + 1 <= (2 * n + size - 1) \div size
  BY <1>1, <1>2, <1>7, PagesReach
<1>9. (2 * n + size - 1) \div size \in Int
  BY <1>1
<1>10. q + 1 \in 1 .. ((2 * n + size - 1) \div size) /\ q + 1 - 1 = q
  BY <1>2, <1>8, <1>9
<1>11. /\ (q + 1) * size \in Nat /\ q * size \in Nat /\ q * size < 2 * i - 1
       /\ 2 * i <= (q + 1) * size /\ q * size + size = (q + 1) * size
  BY <1>1, <1>2, <1>5, <1>6
<1> QED
  BY <1>10, <1>11

\* What is between two places of a sequence is in what is cut out there.
LEMMA CutHas ==
    ASSUME NEW T, NEW s \in Seq(T), NEW a \in Nat, NEW b \in Nat, b <= Len(s), NEW j \in 1 .. Len(s), a < j, j <= b
    PROVE  s[j] \in R!ToSet(SubSeq(s, a + 1, b))
<1> DEFINE cut == SubSeq(s, a + 1, b)
<1>1. Len(s) \in Nat /\ j - a \in 1 .. (b - a) /\ a + 1 \in 1 .. Len(s) /\ b \in 1 .. Len(s)
  OBVIOUS
<1>2. DOMAIN cut = 1 .. (b - a) /\ cut[j - a] = s[j]
  BY <1>1
<1> HIDE DEF cut
<1>3. s[j] \in R!ToSet(cut)
  BY <1>1, <1>2 DEF R!ToSet
<1> QED
  BY <1>3 DEF cut

\* Both reads of a claim are in one bundle.
LEMMA ReadsTogether ==
    ASSUME R!RewardsAssumption, NEW claims \in Seq(Claims), NEW i \in DOMAIN claims
    PROVE  \E b \in DOMAIN R!ClaimReads(claims) :
              {<<claims[i].id, "isClaimed">>, <<claims[i].id, "isAvailable">>}
                  \subseteq R!ToSet(R!ClaimReads(claims)[b])
<1> DEFINE n == Len(claims)
           T == {c.id : c \in Claims} \X {"isClaimed", "isAvailable"}
           pair(k) == <<<<claims[k].id, "isClaimed">>, <<claims[k].id, "isAvailable">>>>
           seqs == [k \in DOMAIN claims |-> pair(k)]
           calls == R!FlattenSeq(seqs)
           last == (Len(calls) + BundleSize - 1) \div BundleSize
           cut(b) == SubSeq(calls, (b - 1) * BundleSize + 1, R!Min({b * BundleSize, Len(calls)}))
<1>1. R!ClaimReads(claims) = [b \in 1 .. last |-> cut(b)]
  BY DEF R!ClaimReads
<1>2. n \in Nat /\ DOMAIN claims = 1 .. n /\ \A k \in 1 .. n : claims[k] \in Claims
  BY SeqDomain
<1>3. \A k \in 1 .. n : pair(k) \in PairsOf(T)
  <2> SUFFICES ASSUME NEW k \in 1 .. n PROVE pair(k) \in PairsOf(T)
    OBVIOUS
  <2>1. <<claims[k].id, "isClaimed">> \in T /\ <<claims[k].id, "isAvailable">> \in T
    BY <1>2
  <2> HIDE DEF T
  <2> QED
    BY <2>1 DEF PairsOf
<1>4. seqs \in Seq(PairsOf(T)) /\ Len(seqs) = n /\ DOMAIN seqs = 1 .. n
  <2> HIDE DEF T, pair
  <2> QED
    BY <1>2, <1>3
<1>5. calls = FlattenSeq(seqs)
  BY DEF R!FlattenSeq, FlattenSeq
<1>6. seqs[i] = pair(i) /\ i \in 1 .. n
  BY <1>2
<1> HIDE DEF seqs, calls, T, cut
<1>7. /\ calls \in Seq(T) /\ Len(calls) = 2 * n
      /\ calls[2 * i - 1] = <<claims[i].id, "isClaimed">> /\ calls[2 * i] = <<claims[i].id, "isAvailable">>
  <2>1. pair(i)[1] = <<claims[i].id, "isClaimed">> /\ pair(i)[2] = <<claims[i].id, "isAvailable">>
    OBVIOUS
  <2> HIDE DEF pair, n
  <2>2. /\ calls \in Seq(T) /\ Len(calls) = 2 * Len(seqs)
        /\ calls[2 * i - 1] = seqs[i][1] /\ calls[2 * i] = seqs[i][2]
    BY <1>4, <1>5, <1>6, PairsJoined
  <2> QED
    BY <1>4, <1>6, <2>1, <2>2
<1>8. BundleSize \in Nat \ {0} /\ BundleSize % 2 = 0
  BY DEF R!RewardsAssumption
<1>9. PICK b \in 1 .. last :
         /\ b * BundleSize \in Nat /\ (b - 1) * BundleSize \in Nat
         /\ (b - 1) * BundleSize < 2 * i - 1 /\ 2 * i <= b * BundleSize
  BY <1>2, <1>6, <1>7, <1>8, PairsBundle
<1> DEFINE from == (b - 1) * BundleSize
           to == b * BundleSize
           end == R!Min({to, Len(calls)})
<1>10. end = Lesser(to, Len(calls))
  BY DEF R!Min, Min, Lesser
<1>11. from \in Nat /\ to \in Nat /\ from < 2 * i - 1 /\ 2 * i <= to
  BY <1>9
<1> HIDE DEF from, to, end
<1>12. Len(calls) \in Nat /\ 2 * i <= Len(calls) /\ 2 * i - 1 \in 1 .. Len(calls) /\ 2 * i \in 1 .. Len(calls)
  BY <1>2, <1>6, <1>7
<1>13. end \in {to, Len(calls)} /\ end <= Len(calls)
  BY <1>10, <1>11, <1>12, LesserFacts
<1>14. end \in Nat /\ 2 * i <= end /\ 2 * i - 1 <= end /\ from < 2 * i
  BY <1>6, <1>11, <1>12, <1>13
<1>15. /\ calls[2 * i - 1] \in R!ToSet(SubSeq(calls, from + 1, end))
       /\ calls[2 * i] \in R!ToSet(SubSeq(calls, from + 1, end))
  BY <1>7, <1>11, <1>12, <1>13, <1>14, CutHas
<1>16. cut(b) = SubSeq(calls, from + 1, end)
  BY DEF cut, from, end, to
<1>17. {<<claims[i].id, "isClaimed">>, <<claims[i].id, "isAvailable">>} \subseteq R!ToSet(cut(b))
  BY <1>7, <1>15, <1>16
<1>18. b \in DOMAIN R!ClaimReads(claims) /\ R!ClaimReads(claims)[b] = cut(b)
  BY <1>1, <1>9
<1> QED
  BY <1>17, <1>18

\* What a plan for claims says.
LEMMA ClaimsSay ==
    ASSUME R!RewardsAssumption, NEW claims, Claimable(claims), plan.kind = "rewards", plan.promise = claims,
           NEW after, after = IF R!Outcome = Reverted THEN chain ELSE R!Outcome, chain \in R!Ledger,
           ClaimsTried(chain, after, claims, Len(claims)),
           R!Outcome = Reverted => Len(claims) = 1 /\ ~R!Available(chain, claims[1])
    PROVE  R!ClaimsIndependent
<1> DEFINE T == {c \in R!ToSet(claims) : c.id \in after.done \ chain.done}
<1>1. claims \in Seq(Claims) /\ DOMAIN claims = 1 .. Len(claims)
  BY SeqDomain DEF Claimable
<1>2. T = ClaimsTaken(chain, after, claims)
  BY DEF ClaimsTaken, R!ToSet
<1> HIDE DEF T
<1>3. R!Worth(T) = SumOver(Amount, T) /\ IsFiniteSet(T) /\ T \in SUBSET Claims
  BY <1>1, <1>2, TakenFinite, WorthIs
<1>4. \A x \in T : Amount[x] \in Int
  BY <1>3 DEF R!RewardsAssumption, Amount
<1>5. SumOver(Amount, T) \in Int
  BY <1>3, <1>4, SumType
<1>6. chain.paid["sender"] \in Nat
  BY RewardsParts DEF R!Payees, R!User
<1>7. after.paid["sender"] - chain.paid["sender"] = R!Worth(T)
  BY <1>2, <1>3, <1>5, <1>6 DEF ClaimsTried
<1>8. \A claim \in R!ToSet(claims) : claim.id \in after.done \/ after.funds[claim.drop] < claim.amount
  BY <1>1 DEF ClaimsTried, R!ToSet
<1>9. \A id \in {claims[i].id : i \in DOMAIN claims} : \E b \in DOMAIN R!ClaimReads(claims) :
          {<<id, "isClaimed">>, <<id, "isAvailable">>} \subseteq R!ToSet(R!ClaimReads(claims)[b])
  <2> SUFFICES ASSUME NEW i \in DOMAIN claims
               PROVE  \E b \in DOMAIN R!ClaimReads(claims) :
                        {<<claims[i].id, "isClaimed">>, <<claims[i].id, "isAvailable">>}
                            \subseteq R!ToSet(R!ClaimReads(claims)[b])
    OBVIOUS
  <2> QED
    BY <1>1, ReadsTogether
<1> QED
  BY <1>7, <1>8, <1>9 DEF R!ClaimsIndependent, R!User, T

\* A plan for the claims of drops.
LEMMA ClaimsDeliver ==
    ASSUME R!RewardsAssumption, RewardsLedger(chain), NEW claims \in Seq(Claims),
           plan = R!PlanRewardsClaim(claims), plan # Refused
    PROVE  /\ R!ClaimsIndependent /\ R!MerklDelivers
           /\ R!Outcome # Reverted => RewardsLedger(R!Outcome)
<1> DEFINE n == Len(claims)
           u == R!Outcome
           after == IF u = Reverted THEN chain ELSE u
<1>1. /\ n \in 1 .. MaxClaims /\ Claimable(claims)
      /\ plan = R!PlanOf("rewards", R!ClaimCalls(claims), claims)
  <2>1. ~(n \notin 1 .. MaxClaims \/ \E i \in DOMAIN claims : claims[i].account # R!User)
    BY DEF R!PlanRewardsClaim
  <2> QED
    BY <2>1 DEF R!PlanRewardsClaim, Claimable, R!User
<1>2. plan.kind = "rewards" /\ plan.calls = R!ClaimCalls(claims) /\ plan.promise = claims
  BY <1>1 DEF R!PlanOf
<1>3. chain \in R!Ledger /\ chain # Reverted /\ n \in Nat /\ n >= 1 /\ claims[1] \in Claims
  BY <1>1, SeqDomain DEF RewardsLedger, R!RewardsAssumption
<1>4. ClaimsTried(chain, after, claims, n) /\ (u = Reverted => n = 1 /\ ~R!Available(chain, claims[1]))
  <2>1. CASE n = 1
    <3> DEFINE c == claims[1]
               call == [op |-> "claim", claim |-> c]
    <3>1. R!ClaimCalls(claims) = <<call>>
      BY <2>1 DEF R!ClaimCalls
    <3>2. R!Apply(chain, call) = R!ClaimPaid(chain, c)
      BY DEF R!Apply
    <3> HIDE DEF call
    <3>3. u = R!ClaimPaid(chain, c)
      BY <1>2, <1>3, <3>1, <3>2, RewardsOne DEF R!Outcome
    <3> HIDE DEF u
    <3>4. CASE R!Available(chain, c)
      <4>1. u \in R!Ledger
        BY <1>3, <3>3, <3>4, ClaimPaidIs
      <4>2. u # Reverted
        BY <4>1 DEF R!RewardsAssumption
      <4>3. after = R!Attempted(chain, claims[1])
        BY <3>3, <3>4, <4>2 DEF R!Attempted
      <4> HIDE DEF after
      <4>4. 1 \in 1 .. n /\ ClaimsTried(chain, chain, claims, 1 - 1)
        BY <1>3, NoneTried
      <4>5. ClaimsTried(chain, after, claims, 1)
        BY <1>1, <1>3, <4>3, <4>4, ClaimTried
      <4> QED
        BY <2>1, <4>2, <4>5
    <3>5. CASE ~R!Available(chain, c)
      <4>1. u = Reverted
        BY <3>3, <3>5 DEF R!ClaimPaid
      <4>2. after = R!Attempted(chain, claims[1])
        BY <3>5, <4>1 DEF R!Attempted
      <4> HIDE DEF after
      <4>3. 1 \in 1 .. n /\ ClaimsTried(chain, chain, claims, 1 - 1)
        BY <1>3, NoneTried
      <4>4. ClaimsTried(chain, after, claims, 1)
        BY <1>1, <1>3, <4>2, <4>3, ClaimTried
      <4> QED
        BY <2>1, <3>5, <4>4
    <3> QED
      BY <3>4, <3>5
  <2>2. CASE n # 1
    <3> DEFINE call == [op |-> "aggregate3", claims |-> claims, allowFailure |-> TRUE]
    <3>1. R!ClaimCalls(claims) = <<call>>
      BY <2>2 DEF R!ClaimCalls
    <3>2. R!Apply(chain, call) = R!Batch(R!Attempted, chain, claims)
      BY DEF R!Apply, R!Aggregated
    <3> HIDE DEF call
    <3>3. u = R!Batch(R!Attempted, chain, claims)
      BY <1>2, <1>3, <3>1, <3>2, RewardsOne DEF R!Outcome
    <3> HIDE DEF u
    <3>4. ClaimsTried(chain, u, claims, n)
      BY <1>1, <1>3, <3>3, AllTried
    <3>5. u # Reverted
      BY <3>4 DEF ClaimsTried, R!RewardsAssumption
    <3> QED
      BY <3>4, <3>5
  <2> QED
    BY <2>1, <2>2
<1>5. u # Reverted => RewardsLedger(u)
  BY <1>4, ClaimPaidRests DEF ClaimsTried
<1>6. R!ClaimsIndependent
  BY <1>1, <1>2, <1>3, <1>4, ClaimsSay
<1>7. R!MerklDelivers
  BY <1>2 DEF R!MerklDelivers
<1> QED
  BY <1>5, <1>6, <1>7

-------------------------------------------------------------------------------
(***************************************************************************)
(* Rewards: the claims of the distributor                                  *)
(***************************************************************************)

\* The root that is folded from a proof is the live one only of the live tree's amount.
LEMMA LiveRoot ==
    ASSUME NEW r, NEW tree, R!RootOf(r) = <<tree>>
    PROVE  r.amount = Trees[tree][r.token]
<1>1. <<r.proof, r.token, r.amount>> # <<tree>>
  <2>1. Len(<<r.proof, r.token, r.amount>>) = 3 /\ Len(<<tree>>) = 1
    OBVIOUS
  <2> QED
    BY <2>1
<1>2. r.proof \in DOMAIN Trees /\ Trees[r.proof][r.token] = r.amount /\ <<r.proof>> = <<tree>>
  BY <1>1 DEF R!RootOf, R!FoldProof
<1>3. r.proof = tree
  BY ONLY <1>2
<1> QED
  BY <1>2, <1>3

\* From ledger l to m the first k of the rewards were paid, and nothing else.
MerklPaid(l, m, rewards, k) ==
    /\ m # Reverted /\ RewardsLedger(m) /\ m.tree = l.tree /\ m.recipient = l.recipient
    /\ \A i \in 1 .. k : m.claimed[rewards[i].token] = rewards[i].amount
    /\ \A t \in R!Tokens : (\A i \in 1 .. k : rewards[i].token # t) => m.claimed[t] = l.claimed[t]
    /\ \A t \in R!Tokens : \A q \in R!Payees \ {R!PayeeOf(l, t)} : m.got[q][t] = l.got[q][t]

\* Rewards, each of another token, of the tree that is live in ledger l, and not yet claimed.
Payable(l, rewards) ==
    /\ rewards \in Seq(R!Fetched)
    /\ \A i, k \in DOMAIN rewards : rewards[i].token = rewards[k].token => i = k
    /\ \A i \in DOMAIN rewards :
          R!RootOf(rewards[i]) = <<l.tree>> /\ l.claimed[rewards[i].token] < rewards[i].amount

\* One more is paid.
LEMMA MerklStep ==
    ASSUME R!RewardsAssumption, NEW l, RewardsLedger(l), NEW rewards, Payable(l, rewards), NEW m,
           NEW k \in 1 .. Len(rewards), MerklPaid(l, m, rewards, k - 1),
           NEW u, u = R!RewardPaid(m, rewards[k])
    PROVE  MerklPaid(l, u, rewards, k)
<1> DEFINE r == rewards[k]
           p == R!PayeeOf(m, r.token)
<1>1. /\ Len(rewards) \in Nat /\ DOMAIN rewards = 1 .. Len(rewards)
      /\ \A i \in 1 .. Len(rewards) : rewards[i] \in R!Fetched
  BY SeqDomain DEF Payable
<1>2. r \in R!Fetched /\ R!RootOf(r) = <<l.tree>> /\ l.claimed[r.token] < r.amount
  BY <1>1 DEF Payable
<1>3. r.amount \in Nat /\ r.token \in R!Tokens
  BY <1>2, FetchedIs
<1>4. k \in Nat /\ \A i \in 1 .. k : i = k \/ (i \in 1 .. (k - 1) /\ i # k)
  BY <1>1
<1>5. \A i \in 1 .. (k - 1) : i \in DOMAIN rewards /\ rewards[i].token # r.token
  BY <1>1, <1>4 DEF Payable
<1>6. m.claimed[r.token] = l.claimed[r.token]
  BY <1>3, <1>5 DEF MerklPaid
<1>7. m.tree = l.tree /\ m.recipient = l.recipient /\ RewardsLedger(m)
  BY DEF MerklPaid
<1>8. l.claimed[r.token] \in Nat
  BY <1>3, RewardsParts DEF RewardsLedger
<1> HIDE DEF r
<1>9. r.amount >= m.claimed[r.token] /\ R!RootOf(r) = <<m.tree>> /\ u = R!RewardPaid(m, r)
  BY <1>2, <1>3, <1>6, <1>7, <1>8 DEF r
<1>10. RewardsLedger(u) /\ RewardIs(m, r, u)
  BY <1>2, <1>7, <1>9, RewardPaidIs
<1>11. \A t \in R!Tokens : R!PayeeOf(m, t) = R!PayeeOf(l, t)
  BY <1>7 DEF R!PayeeOf
<1>12. u # Reverted
  BY <1>10 DEF RewardsLedger, R!RewardsAssumption
<1>13. \A i \in 1 .. k : u.claimed[rewards[i].token] = rewards[i].amount
  <2> SUFFICES ASSUME NEW i \in 1 .. k PROVE u.claimed[rewards[i].token] = rewards[i].amount
    OBVIOUS
  <2>1. CASE i = k
    BY <1>10, <2>1 DEF RewardIs, r
  <2>2. CASE i \in 1 .. (k - 1)
    <3>1. rewards[i] \in R!Fetched /\ rewards[i].token # r.token
      BY <1>1, <1>5, <2>2
    <3>2. rewards[i].token \in R!Tokens
      BY <3>1, FetchedIs
    <3>3. m.claimed[rewards[i].token] = rewards[i].amount
      BY <2>2 DEF MerklPaid
    <3> QED
      BY <1>10, <3>1, <3>2, <3>3 DEF RewardIs
  <2> QED
    BY <1>4, <2>1, <2>2
<1>14. ASSUME NEW t \in R!Tokens, \A i \in 1 .. k : rewards[i].token # t
       PROVE  u.claimed[t] = l.claimed[t]
  <2>1. k \in 1 .. k /\ \A i \in 1 .. (k - 1) : i \in 1 .. k
    BY <1>1, <1>4
  <2>2. t # r.token /\ \A i \in 1 .. (k - 1) : rewards[i].token # t
    BY <1>14, <2>1 DEF r
  <2>3. m.claimed[t] = l.claimed[t]
    BY <2>2 DEF MerklPaid
  <2> QED
    BY <1>10, <2>2, <2>3 DEF RewardIs
<1>15. ASSUME NEW t \in R!Tokens, NEW q \in R!Payees \ {R!PayeeOf(l, t)}
       PROVE  u.got[q][t] = l.got[q][t]
  <2>1. m.got[q][t] = l.got[q][t]
    BY DEF MerklPaid
  <2>2. u.got[q][t] = m.got[q][t]
    BY <1>10, <1>11 DEF RewardIs
  <2> QED
    BY <2>1, <2>2
<1> QED
  BY <1>7, <1>10, <1>12, <1>13, <1>14, <1>15 DEF MerklPaid, RewardIs

\* A plan whose reads pass.
LEMMA MerklPays ==
    ASSUME R!RewardsAssumption, NEW l, RewardsLedger(l), NEW rewards, Payable(l, rewards)
    PROVE  MerklPaid(l, R!Batch(R!RewardPaid, l, rewards), rewards, Len(rewards))
<1> DEFINE n == Len(rewards)
           V == {m \in R!Ledger : RewardsTotal(m)} \cup {Reverted}
<1>1. rewards \in Seq(R!Fetched) /\ n \in Nat
  BY SeqDomain DEF Payable
<1>2. PICK g \in [0 .. n -> V] :
              /\ g[0] = l
              /\ \A k \in 1 .. n : g[k] = IF g[k - 1] = Reverted THEN Reverted
                                          ELSE R!RewardPaid(g[k - 1], rewards[k])
              /\ R!Batch(R!RewardPaid, l, rewards) = g[n]
  BY <1>1, RewardsCourse
<1> DEFINE paid == {k \in Nat : k <= n => MerklPaid(l, g[k], rewards, k)}
<1>3. 0 \in paid
  <2>1. MerklPaid(l, l, rewards, 0)
    BY DEF MerklPaid, RewardsLedger, R!RewardsAssumption
  <2> QED
    BY <1>2, <2>1
<1>4. ASSUME NEW k \in paid PROVE k + 1 \in paid
  <2> SUFFICES ASSUME k + 1 <= n PROVE MerklPaid(l, g[k + 1], rewards, k + 1)
    BY <1>4
  <2>1. k + 1 \in 1 .. n /\ k + 1 - 1 = k /\ MerklPaid(l, g[k], rewards, k)
    BY <1>1, <1>4
  <2>2. g[k + 1] = R!RewardPaid(g[k], rewards[k + 1])
    BY <1>2, <2>1 DEF MerklPaid
  <2> QED
    BY <2>1, <2>2, MerklStep
<1>5. paid = Nat
  <2> HIDE DEF paid
  <2>1. paid \in SUBSET Nat
    BY DEF paid
  <2> QED
    BY <1>3, <1>4, <2>1, InductionOverNat
<1>6. MerklPaid(l, g[n], rewards, n)
  BY <1>1, <1>5
<1> QED
  BY <1>2, <1>6

\* A claim of another tree than the live one pays nothing.
LEMMA MerklReverts ==
    ASSUME R!RewardsAssumption, NEW l, RewardsLedger(l), NEW rewards \in Seq(R!Fetched),
           Len(rewards) >= 1, R!RootOf(rewards[1]) # <<l.tree>>
    PROVE  R!Batch(R!RewardPaid, l, rewards) = Reverted
<1> DEFINE n == Len(rewards)
           V == {m \in R!Ledger : RewardsTotal(m)} \cup {Reverted}
<1>1. n \in Nat /\ l # Reverted
  BY SeqDomain DEF RewardsLedger, R!RewardsAssumption
<1>2. PICK g \in [0 .. n -> V] :
              /\ g[0] = l
              /\ \A k \in 1 .. n : g[k] = IF g[k - 1] = Reverted THEN Reverted
                                          ELSE R!RewardPaid(g[k - 1], rewards[k])
              /\ R!Batch(R!RewardPaid, l, rewards) = g[n]
  BY RewardsCourse
<1> DEFINE over == {k \in Nat : k + 1 <= n => g[k + 1] = Reverted}
<1>3. 0 \in over
  <2>1. 1 \in 1 .. n /\ 1 - 1 = 0
    BY <1>1
  <2>2. g[1] = R!RewardPaid(l, rewards[1])
    BY <1>1, <1>2, <2>1
  <2>3. g[1] = Reverted
    BY <2>2 DEF R!RewardPaid
  <2> QED
    BY <2>3
<1>4. ASSUME NEW k \in over PROVE k + 1 \in over
  <2> SUFFICES ASSUME k + 1 + 1 <= n PROVE g[k + 1 + 1] = Reverted
    BY <1>4
  <2>1. k + 1 + 1 \in 1 .. n /\ k + 1 + 1 - 1 = k + 1 /\ g[k + 1] = Reverted
    BY <1>1, <1>4
  <2>2. PICK j \in 1 .. n : j = k + 1 + 1 /\ j - 1 = k + 1
    BY <2>1
  <2>3. g[j - 1] = Reverted => g[j] = Reverted
    BY ONLY <1>2, j \in 1 .. n
  <2> QED
    BY ONLY <2>1, <2>2, <2>3
<1>5. over = Nat
  <2> HIDE DEF over
  <2>1. over \in SUBSET Nat
    BY DEF over
  <2> QED
    BY <1>3, <1>4, <2>1, InductionOverNat
<1>6. g[n] = Reverted
  <2>1. n - 1 \in over /\ n - 1 + 1 = n
    BY <1>1, <1>5
  <2> QED
    BY <2>1
<1> QED
  BY <1>2, <1>6

\* What a plan for a claim at the distributor says.
LEMMA MerklSays ==
    ASSUME R!RewardsAssumption, RewardsLedger(chain), NEW rewards \in Seq(R!Fetched), Len(rewards) >= 1,
           plan.kind = "merkl", plan.promise = [root |-> R!RootOf(rewards[1]), rewards |-> rewards],
           \A i, k \in DOMAIN rewards : rewards[i].token = rewards[k].token => i = k,
           \A i, k \in DOMAIN rewards : R!RootOf(rewards[i]) = R!RootOf(rewards[k]),
           R!Outcome = R!Batch(R!RewardPaid, chain, rewards)
    PROVE  R!MerklDelivers
<1> DEFINE n == Len(rewards)
           u == R!Outcome
           passes == R!MerklReadsPass(chain, plan.promise)
<1>1. /\ n \in Nat /\ DOMAIN rewards = 1 .. n /\ 1 \in DOMAIN rewards
      /\ \A i \in DOMAIN rewards : rewards[i] \in R!Fetched
  BY SeqDomain
<1>2. plan.promise.root = R!RootOf(rewards[1]) /\ plan.promise.rewards = rewards
  OBVIOUS
<1>3. plan.promise.root # <<chain.tree>> => u = Reverted
  BY <1>2, MerklReverts
<1> HIDE DEF u
<1>4. ASSUME passes
      PROVE  /\ u # Reverted
             /\ \A i \in DOMAIN rewards :
                  /\ u.got["sender"][rewards[i].token] + u.got["friend"][rewards[i].token]
                        = Trees[chain.tree][rewards[i].token]
                  /\ \A other \in R!Payees \ {R!PayeeOf(chain, rewards[i].token)} :
                        u.got[other][rewards[i].token] = chain.got[other][rewards[i].token]
  <2>1. /\ R!RootOf(rewards[1]) = <<chain.tree>>
        /\ \A r \in R!ToSet(rewards) : chain.claimed[r.token] < r.amount
    BY <1>2, <1>4 DEF R!MerklReadsPass
  <2>2. \A i \in DOMAIN rewards :
            /\ R!RootOf(rewards[i]) = <<chain.tree>>
            /\ chain.claimed[rewards[i].token] < rewards[i].amount
    BY <1>1, <2>1 DEF R!ToSet
  <2>3. Payable(chain, rewards)
    BY <2>2 DEF Payable
  <2>4. MerklPaid(chain, u, rewards, n)
    BY <2>3, MerklPays DEF u
  <2>5. ASSUME NEW i \in DOMAIN rewards
        PROVE  /\ u.got["sender"][rewards[i].token] + u.got["friend"][rewards[i].token]
                    = Trees[chain.tree][rewards[i].token]
               /\ \A other \in R!Payees \ {R!PayeeOf(chain, rewards[i].token)} :
                    u.got[other][rewards[i].token] = chain.got[other][rewards[i].token]
    <3> DEFINE r == rewards[i]
    <3>1. r.token \in R!Tokens
      BY <1>1, FetchedIs
    <3>2. u.claimed[r.token] = r.amount
      BY <1>1, <2>4 DEF MerklPaid
    <3>3. r.amount = Trees[chain.tree][r.token]
      BY <2>2, LiveRoot
    <3> HIDE DEF r
    <3>4. u.got["sender"][r.token] + u.got["friend"][r.token] = u.claimed[r.token]
      BY <2>4, <3>1 DEF MerklPaid, RewardsLedger, RewardsTotal
    <3>5. \A other \in R!Payees \ {R!PayeeOf(chain, r.token)} : u.got[other][r.token] = chain.got[other][r.token]
      BY <2>4, <3>1 DEF MerklPaid
    <3> QED
      BY <3>2, <3>3, <3>4, <3>5 DEF r
  <2> QED
    BY <2>4, <2>5 DEF MerklPaid
<1> QED
  BY <1>2, <1>3, <1>4 DEF R!MerklDelivers, R!ToSet, R!User, u

\* A plan for a claim at the distributor.
LEMMA MerklDelivered ==
    ASSUME R!RewardsAssumption, RewardsLedger(chain), NEW rewards \in Seq(R!Fetched),
           plan = R!PlanMerklClaim(rewards), plan # Refused
    PROVE  /\ R!ClaimsIndependent /\ R!MerklDelivers
           /\ R!Outcome # Reverted => RewardsLedger(R!Outcome)
<1> DEFINE n == Len(rewards)
           V == {m \in R!Ledger : RewardsTotal(m)} \cup {Reverted}
           call == [op |-> "merklClaim", rewards |-> rewards]
           promise == [root |-> R!RootOf(rewards[1]), rewards |-> rewards]
<1>1. /\ n \in 1 .. MaxRewards /\ R!OneRoot(rewards)
      /\ \A i, k \in DOMAIN rewards : rewards[i].token = rewards[k].token => i = k
      /\ plan = R!PlanOf("merkl", <<call>>, promise)
  <2>1. ~(\/ n \notin 1 .. MaxRewards
          \/ \E i, k \in DOMAIN rewards : rewards[i].token = rewards[k].token /\ i # k
          \/ \E i \in DOMAIN rewards : rewards[i].amount = 0
          \/ ~R!OneRoot(rewards))
    BY DEF R!PlanMerklClaim
  <2> QED
    BY <2>1 DEF R!PlanMerklClaim
<1>2. n >= 1 /\ n \in Nat
  BY <1>1, SeqDomain DEF R!RewardsAssumption
<1>3. chain # Reverted
  BY DEF RewardsLedger, R!RewardsAssumption
<1>4. R!Apply(chain, call) = R!Batch(R!RewardPaid, chain, rewards)
  BY DEF R!Apply
<1> HIDE DEF call, promise
<1>5. plan.kind = "merkl" /\ plan.calls = <<call>> /\ plan.promise = promise
  BY <1>1 DEF R!PlanOf
<1>6. R!Outcome = R!Batch(R!RewardPaid, chain, rewards)
  BY <1>3, <1>4, <1>5, RewardsOne DEF R!Outcome
<1>7. R!Outcome \in V
  <2>1. PICK g \in [0 .. n -> V] : R!Batch(R!RewardPaid, chain, rewards) = g[n]
    BY RewardsCourse
  <2> HIDE DEF V
  <2> QED
    BY <1>2, <1>6, <2>1
<1>8. R!MerklDelivers
  BY <1>1, <1>2, <1>5, <1>6, MerklSays DEF R!OneRoot, promise
<1>9. R!ClaimsIndependent
  BY <1>5 DEF R!ClaimsIndependent
<1> QED
  BY <1>7, <1>8, <1>9 DEF RewardsLedger

-------------------------------------------------------------------------------
(***************************************************************************)
(* Rewards: the session                                                    *)
(***************************************************************************)

\* The plans that a client may hold.
RewardsPlan ==
    /\ plan # Refused
    /\ \/ \E claims \in Seq(Claims) : plan = R!PlanRewardsClaim(claims)
       \/ \E rewards \in Seq(R!Fetched) : plan = R!PlanMerklClaim(rewards)

\* What was paid of each token is what was claimed, and the plan in hand was prepared.
RewardsInv == RewardsLedger(chain) /\ (plan = R!NoPlan \/ RewardsPlan)

\* It holds to begin with.
LEMMA RewardsStarts ==
    ASSUME R!RewardsAssumption, R!Init
    PROVE  RewardsInv
<1>1. PICK funds \in Funds, token \in R!Tokens \cup {"default", None} :
        /\ chain = [done |-> {}, funds |-> funds, paid |-> [p \in R!Payees |-> 0], tree |-> 1,
                    claimed |-> [t \in R!Tokens |-> 0],
                    got |-> [p \in R!Payees |-> [t \in R!Tokens |-> 0]],
                    recipient |-> [t \in R!Tokens \cup {"default"} |->
                                     IF t = token THEN "friend" ELSE None]]
        /\ plan = R!NoPlan
  BY DEF R!Init, R!Start
<1>2. funds \in [R!Drops -> Nat] /\ 1 \in DOMAIN Trees
  BY DEF R!RewardsAssumption
<1>3. /\ chain.done = {} /\ chain.funds = funds /\ chain.tree = 1
      /\ chain.paid = [p \in R!Payees |-> 0] /\ chain.claimed = [t \in R!Tokens |-> 0]
      /\ chain.got = [p \in R!Payees |-> [t \in R!Tokens |-> 0]]
  BY <1>1
<1>4. chain \in R!Ledger
  BY <1>1, <1>2 DEF R!Ledger
<1>5. RewardsTotal(chain)
  BY <1>3 DEF RewardsTotal, R!Payees, R!User
<1> QED
  BY <1>1, <1>4, <1>5 DEF RewardsInv, RewardsLedger

\* The distributor follows another tree, or pays another account.
LEMMA RewardsTurned ==
    ASSUME R!RewardsAssumption, NEW l, RewardsLedger(l)
    PROVE  /\ \A i \in DOMAIN Trees : RewardsLedger([l EXCEPT !.tree = i])
           /\ \A t \in R!Tokens : RewardsLedger([l EXCEPT !.recipient[t] = "friend"])
<1>1. l \in R!Ledger
  BY DEF RewardsLedger
<1>2. ASSUME NEW i \in DOMAIN Trees PROVE RewardsLedger([l EXCEPT !.tree = i])
  <2> DEFINE u == [l EXCEPT !.tree = i]
  <2>1. u \in R!Ledger /\ u.got = l.got /\ u.claimed = l.claimed
    BY <1>1 DEF R!Ledger
  <2> HIDE DEF u
  <2>2. RewardsLedger(u)
    BY <2>1 DEF RewardsLedger, RewardsTotal
  <2> QED
    BY <2>2 DEF u
<1>3. ASSUME NEW t \in R!Tokens PROVE RewardsLedger([l EXCEPT !.recipient[t] = "friend"])
  <2> DEFINE to == [l.recipient EXCEPT ![t] = "friend"]
             u == [l EXCEPT !.recipient = to]
  <2>1. to \in [R!Tokens \cup {"default"} -> {"friend", None}]
    BY <1>1, RewardsParts
  <2>2. u = [l EXCEPT !.recipient[t] = "friend"]
    OBVIOUS
  <2> HIDE DEF to
  <2>3. u \in R!Ledger /\ u.got = l.got /\ u.claimed = l.claimed
    BY <1>1, <2>1 DEF R!Ledger
  <2> HIDE DEF u
  <2>4. RewardsLedger(u)
    BY <2>3 DEF RewardsLedger, RewardsTotal
  <2> QED
    BY <2>2, <2>4
<1> QED
  BY <1>2, <1>3

\* What it says of the plan in hand.
LEMMA RewardsHold ==
    ASSUME R!RewardsAssumption, RewardsInv
    PROVE  /\ R!ClaimsIndependent /\ R!MerklDelivers
           /\ plan # R!NoPlan /\ R!Outcome # Reverted => RewardsLedger(R!Outcome)
<1>1. CASE plan = R!NoPlan
  <2>1. plan.kind = "none"
    BY <1>1 DEF R!NoPlan, R!PlanOf
  <2> QED
    BY <1>1, <2>1 DEF R!ClaimsIndependent, R!MerklDelivers
<1>2. CASE plan # Refused /\ \E claims \in Seq(Claims) : plan = R!PlanRewardsClaim(claims)
  BY <1>2, ClaimsDeliver DEF RewardsInv
<1>3. CASE plan # Refused /\ \E rewards \in Seq(R!Fetched) : plan = R!PlanMerklClaim(rewards)
  BY <1>3, MerklDelivered DEF RewardsInv
<1> QED
  BY <1>1, <1>2, <1>3 DEF RewardsInv, RewardsPlan

\* Every step of a session with the reward contracts keeps it.
LEMMA RewardsKeeps ==
    ASSUME R!RewardsAssumption, RewardsInv, R!Next
    PROVE  RewardsInv'
<1>0. RewardsLedger(chain)
  BY DEF RewardsInv
<1>1. CASE R!PrepareRewardsClaim
  <2>1. PICK n \in 0 .. 3 : \E claims \in [1 .. n -> Claims] : R!Prepared(R!PlanRewardsClaim(claims))
    BY <1>1 DEF R!PrepareRewardsClaim
  <2>2. PICK claims \in [1 .. n -> Claims] : R!Prepared(R!PlanRewardsClaim(claims))
    BY <2>1
  <2>3. claims \in Seq(Claims)
    OBVIOUS
  <2>4. /\ R!PlanRewardsClaim(claims) # Refused /\ plan' = R!PlanRewardsClaim(claims)
        /\ chain' = chain
    BY <2>2 DEF R!Prepared
  <2> QED
    BY <1>0, <2>3, <2>4 DEF RewardsInv, RewardsPlan
<1>2. CASE R!PrepareMerklClaim
  <2>1. PICK n \in 0 .. 2 : \E rewards \in [1 .. n -> R!Fetched] : R!Prepared(R!PlanMerklClaim(rewards))
    BY <1>2 DEF R!PrepareMerklClaim
  <2>2. PICK rewards \in [1 .. n -> R!Fetched] : R!Prepared(R!PlanMerklClaim(rewards))
    BY <2>1
  <2>3. rewards \in Seq(R!Fetched)
    OBVIOUS
  <2>4. /\ R!PlanMerklClaim(rewards) # Refused /\ plan' = R!PlanMerklClaim(rewards)
        /\ chain' = chain
    BY <2>2 DEF R!Prepared
  <2> QED
    BY <1>0, <2>3, <2>4 DEF RewardsInv, RewardsPlan
<1>3. CASE R!Execute
  <2>1. plan # R!NoPlan /\ plan' = plan /\ chain' = IF R!Outcome = Reverted THEN chain ELSE R!Outcome
    BY <1>3 DEF R!Execute, R!Submitted
  <2>2. RewardsLedger(chain')
    BY <1>0, <2>1, RewardsHold
  <2> QED
    BY <2>1, <2>2 DEF RewardsInv, RewardsPlan
<1>4. CASE R!Move
  <2>1. plan' = plan
    BY <1>4 DEF R!Move, R!Moved
  <2>2. ASSUME NEW i \in DOMAIN Trees, chain' = [chain EXCEPT !.tree = i] PROVE RewardsLedger(chain')
    BY <1>0, <2>2, RewardsTurned
  <2>3. ASSUME NEW c \in Claims, R!Available(chain, c), chain' = R!ClaimPaid(chain, c)
        PROVE  RewardsLedger(chain')
    BY <1>0, <2>3, ClaimPaidIs, ClaimPaidRests DEF RewardsLedger
  <2>4. ASSUME NEW t \in R!Tokens, chain' = [chain EXCEPT !.recipient[t] = "friend"] PROVE RewardsLedger(chain')
    BY <1>0, <2>4, RewardsTurned
  <2>5. RewardsLedger(chain')
    BY <1>4, <2>2, <2>3, <2>4 DEF R!Move, R!Moved
  <2> QED
    BY <2>1, <2>5 DEF RewardsInv, RewardsPlan
<1> QED
  BY <1>1, <1>2, <1>3, <1>4 DEF R!Next

-------------------------------------------------------------------------------
(***************************************************************************)
(* Together                                                                *)
(***************************************************************************)

Inv ==
    /\ part = "index" => IndexInv
    /\ part = "savings" => SavingsInv
    /\ part = "rewards" => RewardsInv

\* Each part keeps to itself.
THEOREM Invariance == Spec => []Inv
<1> USE ReadingAssumption, SavingsAssumption, RewardsAssumption
<1>1. Init => Inv
  BY IndexStarts, SavingsStarts, RewardsStarts DEF Init, Inv
<1>2. Inv /\ [Next]_all => Inv'
  <2> SUFFICES ASSUME Inv, [Next]_all PROVE Inv'
    OBVIOUS
  <2>0. part' = part
    BY DEF Next, all, Session, LiquidityStep, AerodromeStep, OrdersStep, RewardsStep, SavingsStep, SwapStep, IndexStep
  <2>1. ASSUME part = "index" PROVE IndexInv'
    <3>1. [P!Next]_(P!vars)
      BY <2>1 DEF Next, all, index, Session, LiquidityStep, AerodromeStep, OrdersStep, RewardsStep,
                  SavingsStep, SwapStep, IndexStep, P!vars
    <3> QED
      BY <2>1, <3>1, IndexKeeps DEF Inv
  <2>2. ASSUME part = "savings" PROVE SavingsInv'
    <3>1. S!Next \/ UNCHANGED vars
      BY <2>2 DEF Next, all, Session, LiquidityStep, AerodromeStep, OrdersStep, RewardsStep,
                  SavingsStep, SwapStep, IndexStep
    <3>2. CASE UNCHANGED vars
      BY <2>2, <3>2 DEF Inv, vars, SavingsInv, SavingsPlan, SavingsPoolPlan, SavingsVaultPlan, SavingsQueuePlan
    <3> QED
      BY <2>2, <3>1, <3>2, SavingsKeeps DEF Inv
  <2>3. ASSUME part = "rewards" PROVE RewardsInv'
    <3>1. R!Next \/ UNCHANGED vars
      BY <2>3 DEF Next, all, Session, LiquidityStep, AerodromeStep, OrdersStep, RewardsStep,
                  SavingsStep, SwapStep, IndexStep
    <3>2. CASE UNCHANGED vars
      BY <2>3, <3>2 DEF Inv, vars, RewardsInv, RewardsPlan
    <3> QED
      BY <2>3, <3>1, <3>2, RewardsKeeps DEF Inv
  <2> QED
    BY <2>0, <2>1, <2>2, <2>3 DEF Inv
<1> QED
  BY <1>1, <1>2, PTL DEF Spec

\* findIndexedPosition misses a position that was there only if another one left
\* while it read (positions.ts).
THEOREM MissNeedsRemovalHolds == Spec => []MissNeedsRemoval
<1>1. Inv => MissNeedsRemoval
  BY DEF Inv, IndexInv, LookupInv, MissNeedsRemoval
<1> QED
  BY <1>1, Invariance, PTL

\* A listing of pool keys that has finished has each pool known from its start, once,
\* in ascending order and with its own key (listPoolKeys of pools.ts).
THEOREM ListingCompleteHolds == Spec => []ListingComplete
<1>1. IndexInv => P!ListingComplete
  <2> SUFFICES ASSUME IndexInv, listing.status = "complete" PROVE
          /\ listing.known \subseteq ToSet(listing.seen)
          /\ \A i, k \in DOMAIN listing.seen : i < k => listing.seen[i] < listing.seen[k]
          /\ ToSet(listing.seen) \cap Drifted = {}
    BY DEF P!ListingComplete, P!ToSet, ToSet
  <2>1. ListingInv
    BY DEF IndexInv
  <2>2. listing.known \subseteq ToSet(listing.seen)
    BY <2>1 DEF ListingInv
  <2>3. ToSet(listing.seen) \cap Drifted = {}
    BY <2>1 DEF ListingInv, ToSet
  <2> QED
    BY <2>1, <2>2, <2>3 DEF ListingInv, Ascends
<1>2. Inv => ListingComplete
  BY <1>1 DEF Inv, ListingComplete
<1> QED
  BY <1>2, Invariance, PTL

\* A plan for the lending and savings protocols does what it says, whatever has accrued
\* and moved since it was prepared (aave.ts, morpho.ts, sky.ts, lido.ts).
THEOREM SavingsDeliverHolds == Spec => []SavingsDeliver
<1>1. Inv => SavingsDeliver
  BY SavingsAssumption, SavingsHold DEF Inv, SavingsDeliver
<1> QED
  BY <1>1, Invariance, PTL

\* One claim that fails does not hold up the others of its plan, and a claim at Merkl's
\* distributor pays by the tree that is live or not at all (claims.ts, merkl.ts).
THEOREM RewardsDeliverHolds == Spec => []RewardsDeliver
<1>1. Inv => RewardsDeliver
  BY RewardsAssumption, RewardsHold DEF Inv, RewardsDeliver
<1> QED
  BY <1>1, Invariance, PTL
===============================================================================
