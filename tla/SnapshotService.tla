--------------------------- MODULE SnapshotService ---------------------------
(***************************************************************************)
(* What get_stonx_allocation_recommendation promises its callers, with the *)
(* provider, the markers and the waiting left out.  Snapshots are offered, *)
(* one of them is kept for later calls, and a call that has read what was  *)
(* kept replies once: with an offered snapshot that is usable and no older *)
(* than what it read, or with a refusal if it read nothing usable.         *)
(***************************************************************************)
EXTENDS Integers

CONSTANTS
    Calls, Ids, MaxAge,
    None,           \* nothing kept, nothing read, no reply
    Unavailable     \* the refusal

VARIABLES
    clock,
    offered,    \* the snapshots there are, each with the time it is of
    kept,       \* the snapshot later calls read
    phase,      \* "free", "reading", "waiting" or "replied", of each call
    read,       \* what it read
    since,      \* when it judged what it read
    reply

session == <<phase, read, since, reply>>
vars == <<clock, offered, kept, phase, read, since, reply>>

Init ==
    /\ clock \in Nat
    /\ DOMAIN offered \subseteq Ids /\ offered \in [DOMAIN offered -> 0..clock]
    /\ kept \in DOMAIN offered \cup {None}
    /\ phase = [c \in Calls |-> "free"]
    /\ read = [c \in Calls |-> None]
    /\ since = [c \in Calls |-> 0]
    /\ reply = [c \in Calls |-> None]

Advance ==
    /\ clock' = clock + 1
    /\ UNCHANGED <<offered, kept, session>>

\* A snapshot once offered stays what it is.
Offer(i) ==
    /\ i \notin DOMAIN offered
    /\ \E t \in 0..clock :
          offered' = [k \in DOMAIN offered \cup {i} |-> IF k = i THEN t ELSE offered[k]]
    /\ UNCHANGED <<clock, kept, session>>

Keep ==
    /\ kept' \in DOMAIN offered
    /\ UNCHANGED <<clock, offered, session>>

Ask(c) ==
    /\ phase[c] = "free"
    /\ phase' = [phase EXCEPT ![c] = "reading"]
    /\ \E s \in {kept, None} : read' = [read EXCEPT ![c] = s]
    /\ UNCHANGED <<clock, offered, kept, since, reply>>

Usable(i, t) == i # None /\ t - offered[i] <= MaxAge

Replies(c, t) ==
    {i \in DOMAIN offered : Usable(i, t) /\ (read[c] = None \/ offered[i] >= offered[read[c]])}
        \cup IF Usable(read[c], t) THEN {} ELSE {Unavailable}

Answer(c, t) ==
    /\ phase' = [phase EXCEPT ![c] = "replied"]
    /\ \E a \in Replies(c, t) : reply' = [reply EXCEPT ![c] = a]

\* What was read is judged by the clock of one moment, and the reply is held to it.
Judge(c) ==
    /\ phase[c] = "reading"
    /\ since' = [since EXCEPT ![c] = clock]
    /\ \/ Answer(c, clock)
       \/ phase' = [phase EXCEPT ![c] = "waiting"] /\ UNCHANGED reply
    /\ UNCHANGED <<clock, offered, kept, read>>

Reply(c) ==
    /\ phase[c] = "waiting"
    /\ Answer(c, since[c])
    /\ UNCHANGED <<clock, offered, kept, read, since>>

Close(c) ==
    /\ phase[c] = "replied"
    /\ phase' = [phase EXCEPT ![c] = "free"]
    /\ read' = [read EXCEPT ![c] = None]
    /\ since' = [since EXCEPT ![c] = 0]
    /\ reply' = [reply EXCEPT ![c] = None]
    /\ UNCHANGED <<clock, offered, kept>>

Next ==
    \/ Advance \/ Keep
    \/ \E i \in Ids : Offer(i)
    \/ \E c \in Calls : Ask(c) \/ Judge(c) \/ Reply(c) \/ Close(c)

Spec == Init /\ [][Next]_vars
==============================================================================
