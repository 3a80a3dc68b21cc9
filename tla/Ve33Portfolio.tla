---------------------------- MODULE Ve33Portfolio ----------------------------
(***************************************************************************)
(* What src/src/ve33.ts and src/src/core.ts accept of the indexer: a page  *)
(* of an owner's NFTs, from which every review and plan of a portfolio is  *)
(* made, and the directory of Ve33 pools, from which targets are resolved. *)
(* One page must hold everything; a page that does not, or with one row    *)
(* that contradicts itself, refuses the whole call.                        *)
(*                                                                         *)
(* A row is [id, ours, amount, end, stakeEnd, vote, keyed]: whether chain,    *)
(* owner, token and contract are those asked for, the end its stake id     *)
(* holds, and whether its pool key hashes to the pool it names (without a  *)
(* key: whether no other field of a vote is set).                          *)
(***************************************************************************)
EXTENDS Integers, Sequences, SequencesExt, FiniteSetsExt, Functions, Ordering

CONSTANTS
    NoVote,
    Refused,        \* the ServiceError
    MaxOwned,       \* the NFTs one page may hold, 100
    MaxPools        \* the pools one page may hold, 200

ASSUME PagesAssumption == {MaxOwned, MaxPools} \subseteq Nat

------------------------------------------------------------------------------
(***************************************************************************)
(* The indexer's answers                                                   *)
(***************************************************************************)
RowsOf(portfolio) ==
    LET order == Sorted(DOMAIN portfolio, <)
    IN  [k \in DOMAIN order |->
            [id |-> order[k], ours |-> TRUE, amount |-> portfolio[order[k]].amount,
             end |-> portfolio[order[k]].end, stakeEnd |-> portfolio[order[k]].end,
             vote |-> portfolio[order[k]].vote, keyed |-> TRUE]]

\* A row read halfway through an extension or a vote, or of somebody else's NFT.  Each
\* contradicts itself, which is what the page is checked for: a wrong row that agrees with
\* itself cannot be told from a right one, and is not among these.
Garbled(row) ==
    {[row EXCEPT !.ours = FALSE, !.amount = @ + 1],
     [row EXCEPT !.end = @ + 1],
     [row EXCEPT !.keyed = FALSE],
     [row EXCEPT !.keyed = FALSE, !.vote = NoVote]}

\* A page that says it has all the rows: all of them, or one that lost a row or repeats one in another's place.
Torn(rows) ==
    LET page(rs) == [rows |-> rs, total |-> Len(rows)]
    IN  {page(RemoveAt(rows, k)) : k \in DOMAIN rows}
          \cup {page([rows EXCEPT ![k] = rows[j]]) : j, k \in DOMAIN rows}

Pages(portfolio) ==
    LET rows == RowsOf(portfolio)
        garbled(k) == {[rows |-> [rows EXCEPT ![k] = row], total |-> Len(rows)] : row \in Garbled(rows[k])}
    IN  Torn(rows) \cup (UNION {garbled(k) : k \in DOMAIN rows})
          \cup {[rows |-> rows, total |-> Len(rows)]}

Catalogs(pools, initialized) ==
    LET order == SetToSeq(pools)
    IN  Torn([k \in DOMAIN order |-> [pool |-> order[k], initialized |-> order[k] \in initialized]])

------------------------------------------------------------------------------
(***************************************************************************)
(* What is accepted                                                        *)
(***************************************************************************)

\* Mutant: a page is taken for everything there is.
CompleteUnchecked(page, limit) == page.total <= limit

\* One page, and all of it.
Complete(page, limit) == page.total <= limit /\ Len(page.rows) = page.total

\* getOwnedVe33Tokens
OwnedVe33Tokens(page) == IF Complete(page, MaxOwned) THEN page.rows ELSE Refused

\* getVe33Pools
Ve33Pools(catalog) == IF Complete(catalog, MaxPools) THEN catalog.rows ELSE Refused

Voted(rows) ==
    LET voted == Sorted({k \in DOMAIN rows : rows[k].vote # NoVote}, <)
    IN  [i \in DOMAIN voted |-> rows[voted[i]]]

PortfolioOf(rows) ==
    [id \in {rows[k].id : k \in DOMAIN rows} |->
        LET row == CHOOSE r \in ToSet(rows) : r.id = id
        IN  [amount |-> row.amount, end |-> row.end, vote |-> row.vote]]

\* loadVe33Portfolio
Load(page) ==
    LET rows == OwnedVe33Tokens(page) IN
    IF /\ rows # Refused
       /\ \A k \in DOMAIN rows : rows[k].ours /\ rows[k].stakeEnd = rows[k].end /\ rows[k].keyed
       /\ IsInjective([k \in DOMAIN rows |-> rows[k].id])
    THEN PortfolioOf(rows) ELSE Refused

\* prepareAllVe33FeeClaims reads the same page, for the votes alone.
LoadVotes(page) ==
    LET rows == OwnedVe33Tokens(page)
        voted == Voted(rows)
    IN  IF /\ rows # Refused
           /\ \A k \in DOMAIN rows : rows[k].ours
           /\ \A k \in DOMAIN voted : voted[k].keyed
           /\ IsInjective([k \in DOMAIN voted |-> voted[k].id])
        THEN PortfolioOf(voted) ELSE Refused

\* resolveReallocationTargets: each target's pool is in the directory once, initialized.
\* A catalog is a page of [pool, initialized].
Resolves(targets, catalog) ==
    LET rows == Ve33Pools(catalog)
    IN  /\ rows # Refused
        /\ IsInjective([k \in DOMAIN rows |-> rows[k].pool])
        /\ \A i \in DOMAIN targets : \E k \in DOMAIN rows :
              rows[k].pool = targets[i].pool /\ rows[k].initialized
==============================================================================
