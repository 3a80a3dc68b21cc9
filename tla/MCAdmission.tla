------------------------------ MODULE MCAdmission ------------------------------
(***************************************************************************)
(* Instances of Admission for TLC.                                         *)
(***************************************************************************)
EXTENDS Admission, TLC

\* "local" costs nothing, "read" one unit, "quote" two and is metered.
MCTools == {"local", "read", "quote"}
MCCost == [t \in MCTools |-> CASE t = "local" -> 0 [] t = "read" -> 1 [] t = "quote" -> 2]

MCLimit == [b \in Budgets |-> IF b = "tools" THEN 3 ELSE 1]
MCPeriod == [b \in Budgets |-> IF b = "burst" THEN 10 ELSE 60]

Post(body, size, id) ==
    [method |-> "POST", route |-> "mcp", size |-> size, body |-> body, identified |-> id]
Get(route) ==
    [method |-> "GET", route |-> route, size |-> 0, body |-> <<>>, identified |-> FALSE]

\* A request of each kind: session traffic, calls of each price, a batch at,
\* above and far above the ceilings, a body that is not JSON or is too large.
MCRequests ==
    {Post(<<t>>, 1, TRUE) : t \in MCTools \cup {NoTool}}
        \cup {Post(<<"read", "quote">>, 2, TRUE), Post(<<"quote", "quote">>, 1, TRUE),
              Post(<<NoTool, NoTool, NoTool>>, 1, FALSE), Post(Garbled, 1, FALSE),
              Post(<<"read">>, 9, TRUE)}
        \cup {Get(r) : r \in Routes}
        \cup {[Get(r) EXCEPT !.method = "OPTIONS"] : r \in {"mcp", "card", "page"}}
        \cup {[Get("page") EXCEPT !.method = "POST"]}

\* The call the liveness run retries draws from every budget.
PoliteRequests == {Post(<<"quote">>, 1, TRUE)}

\* Two requests of one caller, and two callers with one request each.
OneCaller == [s \in Slots |-> CHOOSE c \in Callers : TRUE]
SlotSymmetry == Permutations(Slots)
CallerPerSlot == [s \in Slots |-> s]
================================================================================
