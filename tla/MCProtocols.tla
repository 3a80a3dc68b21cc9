------------------------------ MODULE MCProtocols ------------------------------
(***************************************************************************)
(* The protocol tools for TLC: the ledgers that each part begins with, and *)
(* the requests it is asked.                                               *)
(***************************************************************************)
EXTENDS Protocols

MCPlansOf ==
    [liquidity |-> 1, aerodrome |-> 1, orders |-> 3, rewards |-> 2, savings |-> 2, swap |-> 1]

MCMovesOf ==
    [liquidity |-> 1, aerodrome |-> 2, orders |-> 2, rewards |-> 1, savings |-> 1, swap |-> 2]

MCEndOf == [aerodrome |-> 8, savings |-> 2, swap |-> 3]

Zero(set) == [x \in set |-> 0]

------------------------------------------------------------------------------
\* Liquidity: a pool that is not initialized, a Ve33 pool, the two kinds of TWAMM pool.
Pool(core, native, type, extension) ==
    [core |-> core, native |-> native, type |-> type, spacing |-> 2, extension |-> extension]

Nft(liquidity) == [owner |-> "sender", liquidity |-> liquidity, due |-> 1, lazy |-> 0]

Begun(pool, price, nfts) == [pool |-> pool, price |-> price, nfts |-> nfts]

MCStarts ==
    {Begun(Pool("v3", "token1", "concentrated", "none"), None, <<>>),
     Begun(Pool("v3", "token0", "concentrated", "ve33"), 4, <<"ve33", 1>> :> Nft(2)),
     Begun(Pool("v3", "none", "stableswap", "twamm_legacy"), 4,
           <<"v3", 1>> :> Nft(2) @@ <<"other", 1>> :> Nft(1)),
     Begun(Pool("v2", "none", "concentrated", "twamm_v2"), 4,
           <<"v2", 1>> :> Nft(2) @@ <<"v2", 2>> :> Nft(1))}

\* A mint by pool id or key, or an increase, within bounds around, below or above the price.
Target(mode, tokenId, byId, poolKey, declared) ==
    [mode |-> mode, tokenId |-> tokenId, byId |-> byId, poolKey |-> poolKey, declared |-> declared, tick |-> 2]

MCDepositRequests ==
    {target @@ [lower |-> b[1], upper |-> b[2], max0 |-> a[1], max1 |-> a[2], slippage |-> s] :
        target \in {Target("mint_new", None, TRUE, "absent", "unstated"),
                    Target("mint_new", None, FALSE, "exact", "no"),
                    Target("mint_new", None, FALSE, "exact", "unstated"),
                    Target("add_liquidity", 1, TRUE, "exact", "yes"),
                    Target("add_liquidity", 1, TRUE, "other", "unstated")},
        b \in {<<0, 4>>, <<2, 4>>, <<0, 2>>, <<1, 3>>},
        a \in {<<3, 20>>, <<4, 7>>, <<0, 9>>, <<3, 0>>},
        s \in {0, 5}}

------------------------------------------------------------------------------
\* Aerodrome: no lock, and locks that run, have ended, are permanent, or have voted.
Purse(a, b, lp, aero) == [a |-> a, b |-> b, lp |-> lp, other_lp |-> 2, aero |-> aero, reward |-> 0]

Tokens(lock, now, staked) ==
    [now |-> now, reserves |-> <<1, 1>>, lock |-> lock, staked |-> staked, rebase |-> 1,
     bal |-> "sender" :> Purse(4, 4, 2, 1) @@ "friend" :> Purse(0, 0, 0, 0),
     allowance |-> Zero({"a", "b", "lp", "other_lp"} \X {"router"}
                          \cup {"lp", "other_lp"} \X {"gauge"} \cup {<<"aero", "escrow">>}),
     earned |-> Zero({"sender", "friend"}), alive |-> {"gauge"}, owed |-> {"fees"}]

Locked(end, permanent, votes, votedAt) ==
    [owner |-> "sender", amount |-> 2, end |-> end, permanent |-> permanent, managed |-> FALSE,
     votes |-> votes, votedAt |-> votedAt]

Unlocked == [Locked(0, FALSE, <<>>, None) EXCEPT !.owner = None, !.amount = 0]

Voted == <<[pool |-> "pool", weight |-> 9]>>

AeroLedgers ==
    {Tokens(lock[1], lock[2], lock[3]) : lock \in
        {<<Unlocked, 0, 0>>, <<Unlocked, 1, 2>>, <<Locked(6, FALSE, <<>>, None), 1, 2>>,
         <<Locked(3, FALSE, <<>>, None), 3, 1>>, <<Locked(0, TRUE, <<>>, None), 2, 1>>,
         <<Locked(3, FALSE, Voted, 0), 3, 0>>, <<Locked(9, FALSE, Voted, 0), 2, 0>>}}

------------------------------------------------------------------------------
\* Orders on and off the grid, alone and in pairs, with a salt of the caller's or none.
Order(pair, start, end, amount) == [pair |-> pair, start |-> start, end |-> end, amount |-> amount]

Asked(orders, salt) == [orders |-> orders, salt |-> salt]

MCAuctions == {[end |-> 16]}

MCOrderRequests ==
    {Asked(<<>>, None), Asked(<<Order("ab", 0, 16, 480)>>, None),
     Asked(<<Order("ac", 0, 16, 480)>>, None), Asked(<<Order("ab", 0, 16, 480)>>, <<>>),
     Asked(<<Order("ab", 0, 16, 480), Order("ab", 16, 48, 480)>>, None),
     Asked(<<Order("ab", 0, 64, 640), Order("ac", 16, 32, 480)>>, None)}
      \cup {Asked(<<Order("ab", s, e, 960)>>, None) :
                s \in {0, 32, 64}, e \in {24, 48, 64, 80, 256}}

------------------------------------------------------------------------------
\* Rewards: trees that raise one amount or both; drops that are short of a claim or not.
Claim(id, drop, account, amount) == [id |-> id, drop |-> drop, account |-> account, amount |-> amount]

MCTrees == <<[x |-> 1, y |-> 2], [x |-> 3, y |-> 2], [x |-> 4, y |-> 5]>>

MCClaims ==
    {Claim(1, "d", "sender", 1), Claim(2, "d", "sender", 2),
     Claim(3, "e", "sender", 1), Claim(4, "e", "friend", 1)}

MCFunds == {[d |-> 2, e |-> 1], [d |-> 3, e |-> 2], [d |-> 0, e |-> 1]}

------------------------------------------------------------------------------
\* Savings: a supplier and a borrower, with delegation and without.
Holding(asset, share, steth) == [asset |-> asset, share |-> share, steth |-> steth, wsteth |-> 0]

Saved(mine, supplied, debts, price, queue, delegators) ==
    [now |-> 0, price |-> price, queue |-> queue, finalized |-> 0, collateral |-> TRUE,
     bal |-> "sender" :> mine @@ "friend" :> Holding(0, 1, 0), delegators |-> delegators,
     allowance |-> Zero({"aave", "vault", "queue", "wsteth"}),
     supplied |-> "sender" :> supplied @@ "friend" :> 0,
     debt |-> "sender" :> debts[1] @@ "friend" :> debts[2]]

SavingsLedgers ==
    {Saved(Holding(3, 3, 3), 3, <<0, 2>>, 1, <<>>, {"friend"}),
     Saved(Holding(3, 0, 0), 3, <<2, 0>>, 2,
           <<[amount |-> 1, owner |-> "sender"], [amount |-> 2, owner |-> "friend"]>>, {})}

------------------------------------------------------------------------------
\* Swaps within a tolerance, within a loss, unprotected, or with both; and bridges.
Swap(exactOutput, amount, slippage, loss) ==
    [token |-> "a", exactOutput |-> exactOutput, amount |-> amount, slippage |-> slippage,
     loss |-> loss, sender |-> slippage # None \/ loss # None, deadline |-> None,
     recipient |-> "sender", cross |-> FALSE, native |-> FALSE]

Within(minutes) == [Swap(FALSE, 2, None, 1) EXCEPT !.recipient = "friend", !.deadline = minutes]

Bridge(exactOutput, slippage, loss, native) ==
    [Swap(exactOutput, 3, slippage, loss) EXCEPT !.cross = TRUE, !.native = native]

Fee(token, amount) == [token |-> token, amount |-> amount]

MCIntents ==
    {Swap(FALSE, 2, None, None), Swap(FALSE, 2, 1, 1), Swap(TRUE, 3, None, 1)}
      \cup {Swap(FALSE, 3, None, loss) : loss \in {0, 2, 3}}
      \cup {Swap(x, 3, slippage, None) : x \in BOOLEAN, slippage \in {0, 1}}
      \cup {Within(minutes) : minutes \in {0, 1, 4}}
      \cup {Bridge(x, 1, None, ~x) : x \in BOOLEAN}
      \cup {Bridge(FALSE, None, loss, FALSE) : loss \in {None, 1}}

MCFeeBalances ==
    {<<>>, <<Fee("b", 0), Fee("out", 1)>>,
     <<Fee("a", 1), Fee("out", 1), Fee("b", 2), Fee("a", 2)>>}

SwapLedgers ==
    {[now |-> 0, rate |-> 2, bal |-> [a |-> 4, b |-> 2], out |-> Zero({"sender", "friend"}),
      allowance |-> Zero({"a", "b"} \X {"router", "0x", "across", "layerzero", "lifi"})]}

------------------------------------------------------------------------------
MCLedgersOf == [aerodrome |-> AeroLedgers, savings |-> SavingsLedgers, swap |-> SwapLedgers]
==============================================================================
