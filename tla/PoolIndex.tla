------------------------------ MODULE PoolIndex ------------------------------
(***************************************************************************)
(* Reading an index page by page while it changes: the lookup of a         *)
(* position among its owner's (src/src/positions.ts), which pages by       *)
(* number within one call, and the listing of pool keys (src/src/pools.ts),*)
(* which pages by the last pool id, one call of the tool per page, from an *)
(* upstream cache that lags.  The indexer is external.                     *)
(*                                                                         *)
(* Of an owner's positions one is looked for; the other rows, malformed    *)
(* ones included, are alike.  A pool row is its id; the rows of Drifted    *)
(* have a key from which another id derives.                               *)
(***************************************************************************)
EXTENDS Integers, Sequences, FiniteSets, SequencesExt, FiniteSetsExt, Ordering

CONSTANTS
    Wanted,         \* the row of the position looked for
    Other,          \* any other row, or one that isIndexedPosition does not accept
    MaxRows,        \* bound: the positions of the owner
    PageSize,       \* PAGE_SIZE, 200, and the limit of a listing
    MaxPages,       \* MAX_PAGES, 25
    PoolIds,        \* pool ids, integers above 0
    Drifted,        \* pool ids whose indexed key derives to another id
    MaxChanges      \* bound: what the indexer learns during a behaviour

VARIABLES
    rows,       \* the owner's positions in the order of the index
    pools,      \* ids of the pools the indexer knows
    cached,     \* ids of the pools its cache knew when it was last filled
    lookup,     \* findIndexedPosition: what it looks for and how far it is
    listing,    \* the client's listing of pool keys
    changes

vars == <<rows, pools, cached, lookup, listing, changes>>

\* A page holds something, and a pool id is above 0, where a listing begins.
ReadingAssumption ==
    /\ PageSize \in Nat \ {0}
    /\ PoolIds \in SUBSET (Nat \ {0}) /\ IsFiniteSet(PoolIds)

NoLookup == [status |-> "idle", page |-> 0, there |-> FALSE, shrunk |-> FALSE]

NoListing == [status |-> "idle", cursor |-> 0, seen |-> <<>>, known |-> {}]

Init ==
    /\ \E n \in 0..MaxRows : rows \in {s \in [1..n -> {Wanted, Other}] :
            \A i, k \in 1..n : s[i] = Wanted /\ s[k] = Wanted => i = k}
    /\ pools \in SUBSET PoolIds /\ cached \in SUBSET pools
    /\ lookup = NoLookup /\ listing = NoListing /\ changes = 0
    /\ rows = <<>> \/ pools = {}

------------------------------------------------------------------------------
(***************************************************************************)
(* findIndexedPosition                                                     *)
(***************************************************************************)
Page(k) == ToSet(SubSeq(rows, (k - 1) * PageSize + 1, Min({k * PageSize, Len(rows)})))
TotalPages == (Len(rows) + PageSize - 1) \div PageSize

\* getOwnedIndexedPosition; `there` and `shrunk` are kept for the property.
StartLookup ==
    /\ lookup.status = "idle" /\ listing.status = "idle"
    /\ lookup' = [status |-> "paging", page |-> 1, there |-> Wanted \in ToSet(rows),
                  shrunk |-> FALSE]
    /\ UNCHANGED <<rows, pools, cached, listing, changes>>

LookupEnds(status) == lookup' = [lookup EXCEPT !.status = status]

\* Mutant: a lookup that fills a page exactly does not ask for the next.
FetchPageShort ==
    /\ lookup.status = "paging"
    /\ IF Wanted \in Page(lookup.page) THEN LookupEnds("found")
       ELSE IF Len(rows) < (lookup.page + 1) * PageSize THEN LookupEnds("not_found")
       ELSE IF lookup.page + 1 > MaxPages THEN LookupEnds("too_many")
       ELSE lookup' = [lookup EXCEPT !.page = @ + 1]
    /\ UNCHANGED <<rows, pools, cached, listing, changes>>

\* One turn of the loop: the page is searched, and its own total decides whether
\* there is another one.
FetchPage ==
    /\ lookup.status = "paging"
    /\ IF Wanted \in Page(lookup.page) THEN LookupEnds("found")
       ELSE IF lookup.page + 1 > TotalPages THEN LookupEnds("not_found")
       ELSE IF lookup.page + 1 > MaxPages THEN LookupEnds("too_many")
       ELSE lookup' = [lookup EXCEPT !.page = @ + 1]
    /\ UNCHANGED <<rows, pools, cached, listing, changes>>

\* fetchJson throws: the network, the status, or a body that is not a page.
FetchPageFails ==
    /\ lookup.status = "paging"
    /\ LookupEnds("failed")
    /\ UNCHANGED <<rows, pools, cached, listing, changes>>

------------------------------------------------------------------------------
(***************************************************************************)
(* listPoolKeys                                                            *)
(***************************************************************************)

\* The first ids above the cursor, in ascending order.
After(ids, cursor) ==
    LET above == Sorted({id \in ids : id > cursor}, <)
    IN  SubSeq(above, 1, Min({PageSize, Len(above)}))

StartListing ==
    /\ listing.status = "idle" /\ lookup.status = "idle"
    /\ listing' = [NoListing EXCEPT !.status = "listing", !.known = cached]
    /\ UNCHANGED <<rows, pools, cached, lookup, changes>>

\* derivePoolIdFromConfig of the key, encoded again, must give the row's id.
Derives(id) == id \notin Drifted

\* normalizeListedPool: one bad row fails the page.
Sound(page) == \A i \in DOMAIN page : Derives(page[i])

\* Mutant: the cursor counts the pools seen, as a page number does.
ListPageByCount(ids) ==
    LET sorted == Sorted(ids, <)
        seen == Len(listing.seen)
        page == SubSeq(sorted, seen + 1, Min({seen + PageSize, Len(sorted)}))
        more == seen + Len(page) < Len(sorted)
    IN  listing' = IF ~Sound(page) THEN [listing EXCEPT !.status = "failed"]
                   ELSE [listing EXCEPT !.seen = @ \o page,
                             !.status = IF more THEN "listing" ELSE "complete"]

\* One page, as of now or as cached: its last id is the next cursor.
ListPageOf(ids) ==
    LET page == After(ids, listing.cursor)
        next == IF page = <<>> THEN listing.cursor ELSE Last(page)
        more == \E id \in ids : id > next
    IN  listing' = IF ~Sound(page) THEN [listing EXCEPT !.status = "failed"]
                   ELSE [listing EXCEPT !.seen = @ \o page, !.cursor = next,
                             !.status = IF more THEN "listing" ELSE "complete"]

ListPage ==
    /\ listing.status = "listing"
    /\ ListPageOf(pools) \/ ListPageOf(cached)
    /\ UNCHANGED <<rows, pools, cached, lookup, changes>>

------------------------------------------------------------------------------
(***************************************************************************)
(* The indexer, as far as it moves under a lookup or a listing             *)
(***************************************************************************)
Change == changes < MaxChanges /\ changes' = changes + 1

\* The owner acquires a position, which may be indexed at any place.
Acquire ==
    /\ Change /\ lookup.status = "paging"
    /\ \E row \in {Wanted, Other}, i \in 1..(Len(rows) + 1) :
          /\ row = Wanted => Wanted \notin ToSet(rows)
          /\ rows' = InsertAt(rows, i, row)
    /\ UNCHANGED <<pools, cached, lookup, listing>>

\* The owner parts with one.
Part ==
    /\ Change /\ lookup.status = "paging"
    /\ \E i \in DOMAIN rows : rows' = RemoveAt(rows, i)
    /\ lookup' = [lookup EXCEPT !.shrunk = TRUE]
    /\ UNCHANGED <<pools, cached, listing>>

InitializePool ==
    /\ Change /\ listing.status = "listing"
    /\ \E id \in PoolIds \ pools : pools' = pools \cup {id}
    /\ UNCHANGED <<rows, cached, lookup, listing>>

Revalidate ==
    /\ listing.status = "listing" /\ cached # pools
    /\ cached' = pools
    /\ UNCHANGED <<rows, pools, lookup, listing, changes>>

Next ==
    \/ StartLookup \/ FetchPage \/ FetchPageFails \/ StartListing \/ ListPage
    \/ Acquire \/ Part \/ InitializePool \/ Revalidate

Spec == Init /\ [][Next]_vars

------------------------------------------------------------------------------
(***************************************************************************)
(* Properties                                                              *)
(***************************************************************************)

\* A position the index has throughout a lookup is missed only if the owner parted with
\* another one meanwhile, which moves rows to pages already read; positions acquired
\* meanwhile do not hide it, because every page brings a new total.
MissNeedsRemoval ==
    lookup.status = "not_found" => ~lookup.there \/ lookup.shrunk

\* "Pools are ordered by ascending pool_id": whatever is initialized during a listing,
\* and whichever of its pages are cached, a finished listing has each pool that was in
\* the cache when it began (which is refilled as a whole), none twice, and none whose key
\* is not its own.
ListingComplete ==
    listing.status = "complete" =>
        /\ listing.known \subseteq ToSet(listing.seen)
        /\ \A i, k \in DOMAIN listing.seen : i < k => listing.seen[i] < listing.seen[k]
        /\ ToSet(listing.seen) \cap Drifted = {}
==============================================================================
