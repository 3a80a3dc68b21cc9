-------------------------- MODULE Ve33Workflow_proofs --------------------------
(***************************************************************************)
(* What holds of the VeToken plans and workflow, for every portfolio,      *)
(* every target allocation and however the ledger moves.                   *)
(*                                                                         *)
(* First of a plan, whatever it is made from: its calls are well formed,   *)
(* no call of it gives up the fees of an NFT that voted unless an earlier  *)
(* one has claimed them or made the NFT, and a reallocation claims every   *)
(* active vote before anything else.  Then of the workflow: its type; that *)
(* no batch gives up the fees of an NFT that voted when its plan was made; *)
(* and that a reallocation of votes that have moved changes nothing.       *)
(***************************************************************************)
EXTENDS Ve33Workflow, Ve33Allocation_proofs


-------------------------------------------------------------------------------
(***************************************************************************)
(* Batches of calls                                                        *)
(***************************************************************************)
IsSeq(s) == s \in Seq(Range(s))

\* Calls that change a vote or burn an NFT without claiming its fees themselves.
Loses(c) == c.op \in {"vote", "clear", "extend", "merge", "withdraw"}

\* Claims that name the pool voted for, and revert on another.
Claims(c) == c.op \in {"claim", "claim_extend", "claim_merge"}

\* The NFTs that have no fees to lose after these calls: claimed or new.
KeptBy(calls) ==
    {calls[k].id : k \in {j \in DOMAIN calls : calls[j].op \in {"claim", "claim_extend"}}}
        \cup {calls[k].child : k \in {j \in DOMAIN calls : calls[j].op \in {"split", "stake"}}}

Unvoted(id, base) == id \in DOMAIN base /\ base[id].vote = NoVote

\* A call that may lose the fees of an NFT is about one that did not vote in base,
\* or whose fees are in keeping already, in `kept` or by an earlier call.
SafeAfter(calls, base, kept) ==
    \A k \in DOMAIN calls : Loses(calls[k]) =>
        \/ Unvoted(calls[k].id, base)
        \/ calls[k].id \in kept
        \/ calls[k].id \in KeptBy(SubSeq(calls, 1, k - 1))

\* The arguments of a call have their types; a vote is one of votes.
GoodCall(c, votes) ==
    /\ Loses(c) \/ Claims(c) \/ c.op \in {"stake", "split", "increase"}
    /\ c.op \in {"split", "stake"} => c.child \in Nat
    /\ c.op = "stake" => c.amount \in Nat \ {0} /\ c.duration \in Nat
    /\ c.op = "split" => c.amount \in Int
    /\ c.op = "increase" => c.amount \in Nat
    /\ c.op = "vote" => c.vote \in votes
    /\ c.op \in {"extend", "claim_extend"} => c.duration \in Nat

GoodCalls(calls, votes) == IsSeq(calls) /\ \A k \in DOMAIN calls : GoodCall(calls[k], votes)

\* A sequence over any set is one over its own elements.
LEMMA AnySeq ==
    ASSUME NEW T, NEW s \in Seq(T)
    PROVE  IsSeq(s)
<1>1. Len(s) \in Nat /\ DOMAIN s = 1 .. Len(s) /\ s = [k \in 1 .. Len(s) |-> s[k]]
  OBVIOUS
<1>2. \A k \in 1 .. Len(s) : s[k] \in Range(s)
  BY <1>1 DEF Range
<1>3. s \in [1 .. Len(s) -> Range(s)]
  BY <1>1, <1>2
<1> QED
  BY <1>1, <1>3 DEF IsSeq

\* A function over 1 .. n is a sequence.
LEMMA FunctionSeq ==
    ASSUME NEW n \in Nat, NEW s, s = [k \in 1 .. n |-> s[k]]
    PROVE  IsSeq(s) /\ Len(s) = n /\ DOMAIN s = 1 .. n
<1>1. \A k \in 1 .. n : s[k] \in Range(s)
  BY DEF Range
<1>2. s \in [1 .. n -> Range(s)]
  BY <1>1
<1> QED
  BY <1>2 DEF IsSeq

\* The places of a sequence.
LEMMA SeqFacts ==
    ASSUME NEW s, IsSeq(s)
    PROVE  Len(s) \in Nat /\ DOMAIN s = 1 .. Len(s)
<1> DEFINE T == Range(s)
<1>1. s \in Seq(T)
  BY DEF IsSeq
<1> HIDE DEF T
<1> QED
  BY <1>1

\* The places of two sequences put together.
LEMMA JoinedSeq ==
    ASSUME NEW s, IsSeq(s), NEW t, IsSeq(t)
    PROVE  /\ IsSeq(s \o t) /\ Len(s \o t) = Len(s) + Len(t)
           /\ DOMAIN (s \o t) = 1 .. (Len(s) + Len(t))
           /\ \A k \in 1 .. Len(s) : (s \o t)[k] = s[k]
           /\ \A k \in 1 .. Len(t) : (s \o t)[Len(s) + k] = t[k]
           /\ \A k \in DOMAIN (s \o t) :
                 \/ k \in 1 .. Len(s) /\ (s \o t)[k] = s[k]
                 \/ k - Len(s) \in 1 .. Len(t) /\ (s \o t)[k] = t[k - Len(s)]
<1> DEFINE T == Range(s) \cup Range(t)
<1>1. s \in Seq(T) /\ t \in Seq(T)
  <2>1. s \in Seq(Range(s)) /\ t \in Seq(Range(t))
    BY DEF IsSeq
  <2>2. ASSUME NEW A, NEW B, NEW q \in Seq(A), A \subseteq B PROVE q \in Seq(B)
    BY <2>2
  <2>3. Range(s) \subseteq T /\ Range(t) \subseteq T
    OBVIOUS
  <2> HIDE DEF T
  <2> QED
    BY <2>1, <2>2, <2>3
<1> HIDE DEF T
<1>2. s \o t \in Seq(T)
  BY <1>1
<1>3. IsSeq(s \o t)
  BY <1>2, AnySeq
<1>4. Len(s) \in Nat /\ Len(t) \in Nat /\ Len(s \o t) = Len(s) + Len(t)
  BY <1>1
<1>5. \A k \in 1 .. (Len(s) + Len(t)) :
          (s \o t)[k] = IF k <= Len(s) THEN s[k] ELSE t[k - Len(s)]
  BY <1>1
<1>6. DOMAIN (s \o t) = 1 .. (Len(s) + Len(t))
  BY <1>2, <1>4
<1>7. \A k \in 1 .. Len(s) : (s \o t)[k] = s[k]
  BY <1>4, <1>5
<1>8. ASSUME NEW k \in 1 .. Len(t) PROVE (s \o t)[Len(s) + k] = t[k]
  <2>1. Len(s) + k \in 1 .. (Len(s) + Len(t)) /\ ~ (Len(s) + k <= Len(s)) /\ (Len(s) + k) - Len(s) = k
    BY <1>4
  <2> QED
    BY <1>5, <2>1
<1>9. ASSUME NEW k \in DOMAIN (s \o t)
      PROVE  \/ k \in 1 .. Len(s) /\ (s \o t)[k] = s[k]
             \/ k - Len(s) \in 1 .. Len(t) /\ (s \o t)[k] = t[k - Len(s)]
  BY <1>4, <1>5, <1>6
<1> QED
  BY <1>3, <1>4, <1>6, <1>7, <1>8, <1>9

\* Two lists of calls keep what either does.
LEMMA JoinedKept ==
    ASSUME NEW s, IsSeq(s), NEW t, IsSeq(t)
    PROVE  KeptBy(s \o t) = KeptBy(s) \cup KeptBy(t)
<1> DEFINE r == s \o t
<1>1. /\ Len(s) \in Nat /\ DOMAIN s = 1 .. Len(s)
      /\ Len(t) \in Nat /\ DOMAIN t = 1 .. Len(t)
  BY SeqFacts
<1>2. /\ \A k \in DOMAIN s : k \in DOMAIN r /\ r[k] = s[k]
      /\ \A k \in DOMAIN t : Len(s) + k \in DOMAIN r /\ r[Len(s) + k] = t[k]
  BY <1>1, JoinedSeq
<1>3. \A k \in DOMAIN r : \/ k \in DOMAIN s /\ r[k] = s[k]
                          \/ k - Len(s) \in DOMAIN t /\ r[k] = t[k - Len(s)]
  BY <1>1, JoinedSeq
<1> HIDE DEF r
<1>4. KeptBy(r) \subseteq KeptBy(s) \cup KeptBy(t)
  BY <1>3 DEF KeptBy
<1>5. KeptBy(s) \subseteq KeptBy(r)
  BY <1>2 DEF KeptBy
<1>6. KeptBy(t) \subseteq KeptBy(r)
  BY <1>2 DEF KeptBy
<1> QED
  BY <1>4, <1>5, <1>6 DEF r

\* The calls before one of a sequence.
LEMMA EarlierCalls ==
    ASSUME NEW s, IsSeq(s), NEW k \in DOMAIN s
    PROVE  /\ IsSeq(SubSeq(s, 1, k - 1)) /\ DOMAIN SubSeq(s, 1, k - 1) = 1 .. (k - 1)
           /\ \A j \in 1 .. (k - 1) : j \in DOMAIN s /\ SubSeq(s, 1, k - 1)[j] = s[j]
<1> DEFINE T == Range(s)
<1>1. s \in Seq(T)
  BY DEF IsSeq
<1> HIDE DEF T
<1>2. Len(s) \in Nat /\ k \in 1 .. Len(s)
  BY <1>1
<1>3. SubSeq(s, 1, k - 1) \in Seq(T) /\ Len(SubSeq(s, 1, k - 1)) = k - 1
  BY <1>1, <1>2
<1>4. \A j \in 1 .. (k - 1) : j \in DOMAIN s /\ SubSeq(s, 1, k - 1)[j] = s[j]
  BY <1>1, <1>2
<1>5. IsSeq(SubSeq(s, 1, k - 1)) /\ DOMAIN SubSeq(s, 1, k - 1) = 1 .. (k - 1)
  <2>1. IsSeq(SubSeq(s, 1, k - 1))
    BY <1>3, AnySeq
  <2> QED
    BY <1>3, <2>1, SeqFacts
<1> QED
  BY <1>4, <1>5

\* What the calls before one keep, a list that starts with them keeps too.
LEMMA BeforeKept ==
    ASSUME NEW s, IsSeq(s), NEW k \in DOMAIN s, NEW t, IsSeq(t),
           \A j \in 1 .. (k - 1) : j \in DOMAIN t /\ t[j] = s[j]
    PROVE  KeptBy(SubSeq(s, 1, k - 1)) \subseteq KeptBy(t)
<1> DEFINE b == SubSeq(s, 1, k - 1)
<1>1. \A j \in DOMAIN b : j \in DOMAIN t /\ b[j] = t[j]
  BY EarlierCalls
<1> HIDE DEF b
<1>2. KeptBy(b) \subseteq KeptBy(t)
  BY <1>1 DEF KeptBy
<1> QED
  BY <1>2 DEF b

\* Two safe batches one after the other, the second with what the first keeps.
LEMMA SafeJoin ==
    ASSUME NEW s, IsSeq(s), NEW t, IsSeq(t), NEW base, NEW kept,
           SafeAfter(s, base, kept), SafeAfter(t, base, kept \cup KeptBy(s))
    PROVE  SafeAfter(s \o t, base, kept)
<1> DEFINE r == s \o t
<1>1. Len(s) \in Nat /\ DOMAIN s = 1 .. Len(s) /\ Len(t) \in Nat /\ DOMAIN t = 1 .. Len(t)
  BY SeqFacts
<1>2. /\ IsSeq(r) /\ DOMAIN r = 1 .. (Len(s) + Len(t))
      /\ \A k \in 1 .. Len(s) : r[k] = s[k]
      /\ \A k \in 1 .. Len(t) : r[Len(s) + k] = t[k]
      /\ \A k \in DOMAIN r : \/ k \in 1 .. Len(s) /\ r[k] = s[k]
                             \/ k - Len(s) \in 1 .. Len(t) /\ r[k] = t[k - Len(s)]
  BY JoinedSeq
<1> HIDE DEF r
<1> SUFFICES ASSUME NEW k \in DOMAIN r, Loses(r[k])
             PROVE  \/ Unvoted(r[k].id, base) \/ r[k].id \in kept
                    \/ r[k].id \in KeptBy(SubSeq(r, 1, k - 1))
  BY DEF SafeAfter, r
<1>3. CASE k \in 1 .. Len(s) /\ r[k] = s[k]
  <2>1. KeptBy(SubSeq(s, 1, k - 1)) \subseteq KeptBy(SubSeq(r, 1, k - 1))
    <3>1. IsSeq(SubSeq(r, 1, k - 1)) /\ DOMAIN SubSeq(r, 1, k - 1) = 1 .. (k - 1)
          /\ \A j \in 1 .. (k - 1) : j \in DOMAIN r /\ SubSeq(r, 1, k - 1)[j] = r[j]
      BY <1>2, EarlierCalls
    <3>2. \A j \in 1 .. (k - 1) : j \in 1 .. Len(s)
      BY <1>1, <1>3
    <3>3. \A j \in 1 .. (k - 1) : SubSeq(r, 1, k - 1)[j] = s[j]
      BY <1>2, <3>1, <3>2
    <3> QED
      BY <1>1, <1>3, <3>1, <3>3, BeforeKept
  <2> QED
    BY <1>1, <1>3, <2>1 DEF SafeAfter
<1>4. CASE k - Len(s) \in 1 .. Len(t) /\ r[k] = t[k - Len(s)]
  <2> DEFINE i == k - Len(s)
             b == SubSeq(r, 1, k - 1)
             u == SubSeq(t, 1, i - 1)
  <2>0. i \in DOMAIN t /\ k \in Int /\ i \in Int /\ k = Len(s) + i
    BY <1>1, <1>2, <1>4
  <2>1. IsSeq(b) /\ DOMAIN b = 1 .. (k - 1) /\ \A j \in 1 .. (k - 1) : b[j] = r[j]
    BY <1>2, EarlierCalls
  <2>2. KeptBy(s) \subseteq KeptBy(b)
    <3>1. \A j \in DOMAIN s : j \in DOMAIN b /\ b[j] = s[j]
      BY <1>1, <1>2, <2>0, <2>1
    <3> HIDE DEF b
    <3> QED
      BY <3>1 DEF KeptBy
  <2>3. KeptBy(u) \subseteq KeptBy(b)
    <3>1. \A j \in DOMAIN u : j \in 1 .. (i - 1) /\ u[j] = t[j]
      BY <2>0, EarlierCalls
    <3>2. ASSUME NEW j \in DOMAIN u PROVE Len(s) + j \in DOMAIN b /\ b[Len(s) + j] = u[j]
      <4>1. j \in 1 .. Len(t) /\ Len(s) + j \in 1 .. (k - 1)
        BY <1>1, <2>0, <3>1
      <4> QED
        BY <1>2, <2>1, <3>1, <4>1
    <3> HIDE DEF b, u
    <3> QED
      BY <3>2 DEF KeptBy
  <2>4. \/ Unvoted(t[i].id, base) \/ t[i].id \in kept \cup KeptBy(s) \/ t[i].id \in KeptBy(u)
    BY <1>4, <2>0 DEF SafeAfter
  <2> QED
    BY <1>4, <2>2, <2>3, <2>4
<1> QED
  BY <1>2, <1>3, <1>4

\* More in keeping is as safe.
LEMMA SafeMore ==
    ASSUME NEW s, NEW base, NEW kept, NEW more, kept \subseteq more, SafeAfter(s, base, kept)
    PROVE  SafeAfter(s, base, more)
BY DEF SafeAfter

\* Two lists of well formed calls make another.
LEMMA GoodJoin ==
    ASSUME NEW votes, NEW s, GoodCalls(s, votes), NEW t, GoodCalls(t, votes)
    PROVE  GoodCalls(s \o t, votes)
<1>1. IsSeq(s) /\ IsSeq(t)
  BY DEF GoodCalls
<1>2. DOMAIN s = 1 .. Len(s) /\ DOMAIN t = 1 .. Len(t)
  BY <1>1, SeqFacts
<1>3. IsSeq(s \o t) /\ \A k \in DOMAIN (s \o t) :
          \/ k \in DOMAIN s /\ (s \o t)[k] = s[k]
          \/ k - Len(s) \in DOMAIN t /\ (s \o t)[k] = t[k - Len(s)]
  BY <1>1, <1>2, JoinedSeq
<1> QED
  BY <1>3 DEF GoodCalls

\* A sequence of calls none of which loses anything but what is in keeping.
LEMMA SafeEach ==
    ASSUME NEW s, NEW base, NEW kept,
           \A k \in DOMAIN s : Loses(s[k]) => Unvoted(s[k].id, base) \/ s[k].id \in kept
    PROVE  SafeAfter(s, base, kept)
BY DEF SafeAfter

\* One call.
LEMMA OneCall ==
    ASSUME NEW votes, NEW base, NEW kept, NEW c, GoodCall(c, votes),
           Loses(c) => Unvoted(c.id, base) \/ c.id \in kept
    PROVE  /\ GoodCalls(<<c>>, votes) /\ SafeAfter(<<c>>, base, kept) /\ <<c>> # <<>>
           /\ c.op \in {"claim", "claim_extend"} => c.id \in KeptBy(<<c>>)
           /\ c.op \in {"split", "stake"} => c.child \in KeptBy(<<c>>)
<1> DEFINE s == <<c>>
<1>1. IsSeq(s)
  <2>1. s \in Seq({c})
    OBVIOUS
  <2> QED
    BY <2>1, AnySeq
<1>2. DOMAIN s = {1} /\ s[1] = c
  OBVIOUS
<1>3. s # <<>>
  OBVIOUS
<1> HIDE DEF s
<1>4. GoodCalls(s, votes) /\ SafeAfter(s, base, kept)
  BY <1>1, <1>2 DEF GoodCalls, SafeAfter
<1>5. /\ c.op \in {"claim", "claim_extend"} => c.id \in KeptBy(s)
      /\ c.op \in {"split", "stake"} => c.child \in KeptBy(s)
  BY <1>2 DEF KeptBy
<1> QED
  BY <1>3, <1>4, <1>5 DEF s

\* No call.
LEMMA NoCall ==
    ASSUME NEW votes, NEW base, NEW kept
    PROVE  GoodCalls(<<>>, votes) /\ SafeAfter(<<>>, base, kept)
<1>1. <<>> \in Seq({}) /\ DOMAIN <<>> = {}
  OBVIOUS
<1> QED
  BY <1>1, AnySeq DEF GoodCalls, SafeAfter

\* Safe sequences of calls, all one after another.
LEMMA SafeFlatten ==
    ASSUME NEW votes, NEW base, NEW kept, NEW T, NEW seqs \in Seq(Seq(T)),
           \A i \in DOMAIN seqs : GoodCalls(seqs[i], votes) /\ SafeAfter(seqs[i], base, kept)
    PROVE  GoodCalls(FlattenSeq(seqs), votes) /\ SafeAfter(FlattenSeq(seqs), base, kept)
<1> DEFINE n == Len(seqs)
           V == {s \in Seq(T) : GoodCalls(s, votes) /\ SafeAfter(s, base, kept)}
<1>1. PICK g \in [0 .. n -> Seq(T)] : Joins(g, seqs) /\ FlattenSeq(seqs) = g[n]
  BY FlattenRecursion
<1>2. n \in Nat /\ DOMAIN seqs = 1 .. n /\ \A i \in 1 .. n : seqs[i] \in Seq(T)
  OBVIOUS
<1>3. \A i \in 1 .. n : g[i] = g[i - 1] \o seqs[i]
  BY <1>1 DEF Joins
<1>4. g[0] \in V
  <2>1. g[0] = <<>> /\ <<>> \in Seq(T)
    BY <1>1 DEF Joins
  <2> QED
    BY <2>1, NoCall
<1> HIDE DEF n
<1>5. ASSUME NEW i \in 1 .. n, g[i - 1] \in V PROVE g[i] \in V
  <2>1. g[i - 1] \in Seq(T) /\ GoodCalls(g[i - 1], votes) /\ SafeAfter(g[i - 1], base, kept)
    BY <1>5
  <2>2. seqs[i] \in Seq(T) /\ GoodCalls(seqs[i], votes) /\ SafeAfter(seqs[i], base, kept)
    BY <1>2
  <2>3. SafeAfter(seqs[i], base, kept \cup KeptBy(g[i - 1]))
    BY <2>2, SafeMore
  <2>4. GoodCalls(g[i - 1] \o seqs[i], votes)
    BY <2>1, <2>2, GoodJoin
  <2>5. SafeAfter(g[i - 1] \o seqs[i], base, kept)
    <3>1. IsSeq(g[i - 1]) /\ IsSeq(seqs[i])
      BY <2>1, <2>2, AnySeq
    <3> QED
      BY <2>1, <2>3, <3>1, SafeJoin
  <2>6. g[i - 1] \o seqs[i] \in Seq(T)
    BY <2>1, <2>2
  <2> QED
    BY <1>3, <2>4, <2>5, <2>6
<1> HIDE DEF V
<1>6. \A i \in 0 .. n : g[i] \in V
  <2>1. \A i \in 1 .. n : g[i - 1] \in V => g[i] \in V
    BY <1>5
  <2> QED
    BY <1>2, <1>4, <2>1, RangeRecursionType
<1>7. g[n] \in V
  BY <1>2, <1>6
<1> QED
  BY <1>1, <1>7 DEF V

-------------------------------------------------------------------------------
(***************************************************************************)
(* The single-purpose plans                                                *)
(***************************************************************************)
IsPortfolio(p, votes) ==
    /\ IsFiniteSet(DOMAIN p) /\ DOMAIN p \subseteq Nat
    /\ p \in [DOMAIN p -> [amount : Nat \ {0}, end : Nat, vote : votes \cup {NoVote}]]

\* NFTs as the portfolio has them.
Known(ns, base) ==
    /\ Identified(ns)
    /\ \A n \in ns : /\ n.id \in DOMAIN base /\ n.vote = base[n.id].vote
                     /\ n.amount \in Nat \ {0} /\ n.end \in Nat

\* What is asked of the calls of a plan made from base.
SafePlan(p, base, votes) ==
    GoodCalls(p.calls, votes) /\ p.calls # <<>> /\ SafeAfter(p.calls, base, {})

\* The NFTs read from a portfolio are as it says.
LEMMA NftsKnown ==
    ASSUME NEW votes, NEW p, IsPortfolio(p, votes), NEW ids \in SUBSET DOMAIN p
    PROVE  /\ Known(NftsOf(p, ids), p)
           /\ \A n \in NftsOf(p, ids) : n.id \in ids
           /\ \A id \in ids : \E n \in NftsOf(p, ids) : n.id = id
<1> DEFINE nft == [id \in ids |-> [id |-> id, amount |-> p[id].amount, end |-> p[id].end,
                                   vote |-> p[id].vote]]
           ns == {nft[id] : id \in ids}
<1>1. NftsOf(p, ids) = ns
  BY DEF NftsOf
<1>2. IsFiniteSet(ids) /\ \A id \in ids : id \in Nat
  BY FS_Subset DEF IsPortfolio
<1>3. \A id \in ids : /\ nft[id].id = id /\ nft[id].vote = p[id].vote
                      /\ nft[id].amount \in Nat \ {0} /\ nft[id].end \in Nat
  BY DEF IsPortfolio
<1> HIDE DEF nft
<1>4. IsFiniteSet(ns)
  BY <1>2, ImageFinite
<1>5. \A n \in ns : \E id \in ids : n = nft[id]
  OBVIOUS
<1>6. \A id \in ids : nft[id] \in ns
  OBVIOUS
<1> HIDE DEF ns
<1>7. Identified(ns)
  BY <1>2, <1>3, <1>4, <1>5 DEF Identified
<1>8. Known(ns, p)
  BY <1>3, <1>5, <1>7 DEF Known
<1> QED
  BY <1>1, <1>3, <1>5, <1>6, <1>8

\* Of these, one without a vote had none there.
LEMMA OneKnown ==
    ASSUME NEW base, NEW ns, Known(ns, base), NEW n \in ns
    PROVE  n.vote = NoVote => Unvoted(n.id, base)
BY DEF Known, Unvoted

\* The order of ids, place by place.
LEMMA OrderById ==
    ASSUME NEW ns, Identified(ns)
    PROVE  LET order == Sorted(ns, ById) IN
           /\ Len(order) \in Nat /\ DOMAIN order = 1 .. Len(order)
           /\ \A k \in DOMAIN order : order[k] \in ns
           /\ \A n \in ns : \E k \in DOMAIN order : order[k] = n
           /\ ns # {} => 1 \in DOMAIN order
<1> DEFINE order == Sorted(ns, ById)
<1>1. order \in Seq(ns) /\ Range(order) = ns
  BY SortedById
<1> HIDE DEF order
<1>2. Len(order) \in Nat /\ DOMAIN order = 1 .. Len(order) /\ \A k \in DOMAIN order : order[k] \in ns
  BY <1>1
<1>3. \A n \in ns : \E k \in DOMAIN order : order[k] = n
  BY <1>1 DEF Range
<1>4. ns # {} => 1 \in DOMAIN order
  BY <1>2, <1>3
<1> QED
  BY <1>2, <1>3, <1>4 DEF order

\* A claim for each of some NFTs.
LEMMA ClaimsOfAll ==
    ASSUME NEW ns, Identified(ns), NEW votes, NEW base, NEW kept
    PROVE  LET order == Sorted(ns, ById)
               calls == [k \in DOMAIN order |-> ClaimCall(order[k])]
           IN  /\ GoodCalls(calls, votes) /\ SafeAfter(calls, base, kept)
               /\ DOMAIN calls = DOMAIN order
               /\ ns # {} => calls # <<>>
               /\ \A n \in ns : n.id \in KeptBy(calls)
               /\ \A k \in DOMAIN calls : Claims(calls[k])
               /\ \A n \in ns : \E k \in DOMAIN calls : calls[k].id = n.id /\ calls[k].pool = n.vote.pool
<1> DEFINE order == Sorted(ns, ById)
           calls == [k \in DOMAIN order |-> ClaimCall(order[k])]
<1>1. /\ Len(order) \in Nat /\ DOMAIN order = 1 .. Len(order)
      /\ \A k \in DOMAIN order : order[k] \in ns
      /\ \A n \in ns : \E k \in DOMAIN order : order[k] = n
      /\ ns # {} => 1 \in DOMAIN order
  BY OrderById
<1> HIDE DEF order
<1>2. /\ DOMAIN calls = DOMAIN order
      /\ \A k \in DOMAIN calls : /\ calls[k].op = "claim" /\ calls[k].id = order[k].id
                                 /\ calls[k].pool = order[k].vote.pool
  BY DEF ClaimCall
<1>3. calls = [k \in 1 .. Len(order) |-> calls[k]]
  BY <1>1
<1> HIDE DEF calls
<1>4. IsSeq(calls)
  BY <1>1, <1>3, FunctionSeq
<1>5. GoodCalls(calls, votes)
  BY <1>2, <1>4 DEF GoodCalls, GoodCall, Loses, Claims
<1>6. SafeAfter(calls, base, kept)
  BY <1>2 DEF SafeAfter, Loses
<1>7. \A n \in ns : n.id \in KeptBy(calls)
  BY <1>1, <1>2 DEF KeptBy
<1>8. ns # {} => calls # <<>>
  <2>1. DOMAIN <<>> = {}
    OBVIOUS
  <2> QED
    BY <1>1, <1>2, <2>1
<1>9. /\ \A k \in DOMAIN calls : Claims(calls[k])
      /\ \A n \in ns : \E k \in DOMAIN calls : calls[k].id = n.id /\ calls[k].pool = n.vote.pool
  BY <1>1, <1>2 DEF Claims
<1> QED
  BY <1>2, <1>5, <1>6, <1>7, <1>8, <1>9 DEF calls, order

\* prepareVe33Claim: every call claims.
LEMMA ClaimSafe ==
    ASSUME NEW base, NEW votes, NEW ns, Known(ns, base), ns # {}
    PROVE  SafePlan(PlanClaim(ns), base, votes)
<1> DEFINE order == Sorted(ns, ById)
           calls == [k \in DOMAIN order |-> ClaimCall(order[k])]
<1>1. GoodCalls(calls, votes) /\ SafeAfter(calls, base, {}) /\ calls # <<>>
  BY ClaimsOfAll DEF Known
<1>2. PlanClaim(ns).calls = calls
  BY DEF PlanClaim, PlanOf
<1> HIDE DEF calls
<1> QED
  BY <1>1, <1>2 DEF SafePlan

\* prepareVe33Extend claims as it extends if there is a vote.
LEMMA ExtendSafe ==
    ASSUME NEW base, NEW votes, NEW ns, Known(ns, base), NEW n \in ns, NEW duration \in Nat
    PROVE  SafePlan(PlanExtend(n, duration), base, votes)
<1> DEFINE bare == [op |-> "extend", id |-> n.id, duration |-> duration]
           claimed == ClaimExtendCall(n, duration)
<1>1. PlanExtend(n, duration).calls = IF n.vote = NoVote THEN <<bare>> ELSE <<claimed>>
  BY DEF PlanExtend, PlanOf
<1>2. n.vote = NoVote => Unvoted(bare.id, base)
  BY OneKnown
<1>3. GoodCall(bare, votes) /\ GoodCall(claimed, votes) /\ ~ Loses(claimed)
  BY DEF GoodCall, Loses, Claims, ClaimExtendCall
<1> HIDE DEF bare, claimed
<1>4. CASE n.vote = NoVote
  BY <1>1, <1>2, <1>3, <1>4, OneCall DEF SafePlan
<1>5. CASE n.vote # NoVote
  BY <1>1, <1>3, <1>5, OneCall DEF SafePlan
<1> QED
  BY <1>4, <1>5

\* An id that is derived from a nonce is a number.
LEMMA ChildIdType ==
    ASSUME NEW nonce \in Nat, NEW index \in Nat
    PROVE  ChildId(nonce, index) \in Nat
BY DEF ChildId

\* prepareVe33Split: a split keeps the fees of the NFT it cuts.
LEMMA SplitSafe ==
    ASSUME NEW base, NEW votes, NEW n, NEW amount \in Int, NEW nonce \in Nat
    PROVE  SafePlan(PlanSplit(n, amount, nonce), base, votes)
<1> DEFINE c == SplitCall(n.id, amount, ChildId(nonce, 0))
<1>1. PlanSplit(n, amount, nonce).calls = <<c>>
  BY DEF PlanSplit
<1>2. GoodCall(c, votes) /\ ~ Loses(c)
  BY ChildIdType DEF GoodCall, Loses, Claims, SplitCall
<1> HIDE DEF c
<1> QED
  BY <1>1, <1>2, OneCall DEF SafePlan

\* prepareVe33Stake makes an NFT that has no fees to lose.
LEMMA StakeSafe ==
    ASSUME NEW base, NEW votes, NEW amount \in Nat \ {0}, NEW duration \in Nat, NEW nonce \in Nat
    PROVE  SafePlan(PlanStake(amount, duration, nonce), base, votes)
<1> DEFINE c == [op |-> "stake", child |-> ChildId(nonce, 0), amount |-> amount, duration |-> duration]
<1>1. PlanStake(amount, duration, nonce).calls = <<c>>
  BY DEF PlanStake
<1>2. GoodCall(c, votes) /\ ~ Loses(c)
  BY ChildIdType DEF GoodCall, Loses, Claims
<1> HIDE DEF c
<1> QED
  BY <1>1, <1>2, OneCall DEF SafePlan

\* prepareVe33IncreaseStake leaves the vote alone.
LEMMA IncreaseSafe ==
    ASSUME NEW base, NEW votes, NEW n, NEW amount \in Nat
    PROVE  SafePlan(PlanIncrease(n, amount), base, votes)
<1> DEFINE c == IncreaseCall(n, amount)
<1>1. PlanIncrease(n, amount).calls = <<c>>
  BY DEF PlanIncrease
<1>2. GoodCall(c, votes) /\ ~ Loses(c)
  BY DEF GoodCall, Loses, Claims, IncreaseCall
<1> HIDE DEF c
<1> QED
  BY <1>1, <1>2, OneCall DEF SafePlan

\* What is claimed of one NFT: nothing, or the fees of its vote.
LEMMA ClaimIfVotedSafe ==
    ASSUME NEW base, NEW votes, NEW ns, Known(ns, base), NEW n \in ns, NEW kept
    PROVE  /\ GoodCalls(ClaimIfVoted(n), votes) /\ SafeAfter(ClaimIfVoted(n), base, kept)
           /\ Unvoted(n.id, base) \/ n.id \in KeptBy(ClaimIfVoted(n))
           /\ n.vote # NoVote => n.id \in KeptBy(ClaimIfVoted(n))
<1> DEFINE c == ClaimCall(n)
<1>1. GoodCall(c, votes) /\ ~ Loses(c) /\ c.op = "claim" /\ c.id = n.id
  BY DEF GoodCall, Loses, Claims, ClaimCall
<1>2. ClaimIfVoted(n) = IF n.vote = NoVote THEN <<>> ELSE <<c>>
  BY DEF ClaimIfVoted
<1> HIDE DEF c
<1>3. CASE n.vote = NoVote
  BY <1>2, <1>3, NoCall, OneKnown
<1>4. CASE n.vote # NoVote
  BY <1>1, <1>2, <1>4, OneCall
<1> QED
  BY <1>3, <1>4

\* Some calls and another one make a batch of at least one call.
LEMMA JoinedNotEmpty ==
    ASSUME NEW s, IsSeq(s), NEW t, IsSeq(t), s # <<>> \/ t # <<>>
    PROVE  s \o t # <<>>
<1>1. \A q : IsSeq(q) /\ q # <<>> => Len(q) # 0
  <2> SUFFICES ASSUME NEW q, IsSeq(q), Len(q) = 0 PROVE q = <<>>
    OBVIOUS
  <2>1. q \in Seq(Range(q))
    BY DEF IsSeq
  <2> HIDE DEF Range
  <2> QED
    BY <2>1
<1>2. Len(s \o t) = Len(s) + Len(t) /\ Len(s) \in Nat /\ Len(t) \in Nat
  BY JoinedSeq, SeqFacts
<1>3. Len(s \o t) # 0
  BY <1>1, <1>2
<1> QED
  BY <1>3

\* prepareVe33Withdraw claims first if there is a vote.
LEMMA WithdrawSafe ==
    ASSUME NEW base, NEW votes, NEW ns, Known(ns, base), NEW n \in ns
    PROVE  SafePlan(PlanWithdraw(n), base, votes)
<1> DEFINE c == [op |-> "withdraw", id |-> n.id]
           claim == ClaimIfVoted(n)
<1>1. PlanWithdraw(n).calls = claim \o <<c>>
  BY DEF PlanWithdraw, PlanOf
<1>2. GoodCall(c, votes) /\ c.id = n.id
  BY DEF GoodCall, Loses, Claims
<1>3. /\ GoodCalls(claim, votes) /\ SafeAfter(claim, base, {})
      /\ Unvoted(n.id, base) \/ n.id \in KeptBy(claim)
  BY ClaimIfVotedSafe
<1> HIDE DEF c, claim
<1>4. GoodCalls(<<c>>, votes) /\ SafeAfter(<<c>>, base, {} \cup KeptBy(claim)) /\ <<c>> # <<>>
  <2>1. Loses(c) => Unvoted(c.id, base) \/ c.id \in {} \cup KeptBy(claim)
    BY <1>2, <1>3
  <2> QED
    BY <1>2, <2>1, OneCall
<1>5. IsSeq(claim) /\ IsSeq(<<c>>)
  BY <1>3, <1>4 DEF GoodCalls
<1> QED
  BY <1>1, <1>3, <1>4, <1>5, GoodJoin, SafeJoin, JoinedNotEmpty DEF SafePlan

\* Each claim directly before its clear.
LEMMA ClearSafe ==
    ASSUME NEW base, NEW votes, NEW ns, Known(ns, base), ns # {}
    PROVE  SafePlan(PlanClear(ns), base, votes)
<1> DEFINE order == Sorted(ns, ById)
           claim(k) == ClaimCall(order[k])
           clear(k) == ClearCall(order[k].id)
           seqs == [k \in DOMAIN order |-> <<claim(k), clear(k)>>]
           T == {claim(k) : k \in DOMAIN order} \cup {clear(k) : k \in DOMAIN order}
<1>1. /\ Len(order) \in Nat /\ DOMAIN order = 1 .. Len(order) /\ 1 \in DOMAIN order
      /\ \A k \in DOMAIN order : order[k] \in ns
  BY OrderById DEF Known
<1>2. PlanClear(ns).calls = FlattenSeq(seqs)
  BY DEF PlanClear
<1> HIDE DEF order
<1>3. \A k \in DOMAIN order : claim(k) \in T /\ clear(k) \in T
  OBVIOUS
<1>4. \A k \in DOMAIN order : /\ GoodCall(claim(k), votes) /\ claim(k).op = "claim"
                              /\ GoodCall(clear(k), votes) /\ clear(k).op = "clear"
                              /\ ~ Loses(claim(k)) /\ claim(k).id = clear(k).id
  BY DEF GoodCall, Loses, Claims, ClaimCall, ClearCall
<1> HIDE DEF T, claim, clear
<1>5. ASSUME NEW k \in DOMAIN order
      PROVE  GoodCalls(<<claim(k), clear(k)>>, votes) /\ SafeAfter(<<claim(k), clear(k)>>, base, {})
  <2> DEFINE first == <<claim(k)>>
             second == <<clear(k)>>
  <2>1. GoodCalls(first, votes) /\ SafeAfter(first, base, {}) /\ claim(k).id \in KeptBy(first)
    BY <1>4, OneCall
  <2>2. clear(k).id \in {} \cup KeptBy(first)
    BY <1>4, <2>1
  <2>3. GoodCalls(second, votes) /\ SafeAfter(second, base, {} \cup KeptBy(first))
    BY <1>4, <2>2, OneCall
  <2>4. first \o second = <<claim(k), clear(k)>>
    BY JoinedTuples
  <2>5. IsSeq(first) /\ IsSeq(second)
    BY <2>1, <2>3 DEF GoodCalls
  <2> HIDE DEF first, second
  <2> QED
    BY <2>1, <2>3, <2>4, <2>5, GoodJoin, SafeJoin
<1>6. seqs \in Seq(Seq(T))
  <2>1. \A k \in DOMAIN order : <<claim(k), clear(k)>> \in Seq(T)
    BY <1>3
  <2> QED
    BY <1>1, <2>1
<1>7. DOMAIN seqs = DOMAIN order /\ \A k \in DOMAIN order : seqs[k] = <<claim(k), clear(k)>>
  OBVIOUS
<1> HIDE DEF seqs
<1>8. GoodCalls(FlattenSeq(seqs), votes) /\ SafeAfter(FlattenSeq(seqs), base, {})
  BY <1>5, <1>6, <1>7, SafeFlatten
<1>9. FlattenSeq(seqs) # <<>>
  <2>1. Range(seqs[1]) \subseteq Range(FlattenSeq(seqs))
    BY <1>1, <1>6, <1>7, FlattenRange
  <2>2. claim(1) \in Range(seqs[1])
    <3>1. seqs[1] = <<claim(1), clear(1)>>
      BY <1>1, <1>7
    <3>2. 1 \in DOMAIN seqs[1] /\ seqs[1][1] = claim(1)
      BY <3>1
    <3> QED
      BY <3>2 DEF Range
  <2>3. Range(<<>>) = {}
    <3>1. DOMAIN <<>> = {}
      OBVIOUS
    <3> QED
      BY <3>1 DEF Range
  <2> QED
    BY <2>1, <2>2, <2>3
<1> QED
  BY <1>2, <1>8, <1>9 DEF SafePlan

\* The destination is claimed before anything, each source as it is merged.
LEMMA MergeSafe ==
    ASSUME NEW base, NEW votes, NEW ds, Known(ds, base), NEW destination \in ds,
           NEW sources, Known(sources, base), sources # {},
           NEW vote \in votes \cup {NoVote, Keep}
    PROVE  SafePlan(PlanMerge(destination, sources, vote), base, votes)
<1> DEFINE order == Sorted(sources, ById)
           bare(n) == [op |-> "merge", id |-> n.id, into |-> destination.id]
           merge(n) == IF n.vote = NoVote THEN bare(n) ELSE ClaimMergeCall(n, destination)
           merges == [k \in DOMAIN order |-> merge(order[k])]
           revote == [op |-> "vote", id |-> destination.id, vote |-> vote]
           settle == IF vote = Keep THEN <<>>
                     ELSE IF vote # NoVote THEN <<revote>>
                     ELSE IF destination.vote # NoVote THEN <<ClearCall(destination.id)>>
                     ELSE <<>>
           claim == ClaimIfVoted(destination)
<1>1. PlanMerge(destination, sources, vote).calls = claim \o merges \o settle
  BY DEF PlanMerge, PlanOf
<1>2. /\ Len(order) \in Nat /\ DOMAIN order = 1 .. Len(order) /\ 1 \in DOMAIN order
      /\ \A k \in DOMAIN order : order[k] \in sources
  BY OrderById DEF Known
<1> HIDE DEF order
<1>3. /\ GoodCalls(claim, votes) /\ SafeAfter(claim, base, {})
      /\ Unvoted(destination.id, base) \/ destination.id \in KeptBy(claim)
      /\ destination.vote # NoVote => destination.id \in KeptBy(claim)
  BY ClaimIfVotedSafe
<1> HIDE DEF claim
<1>4. \A n \in sources : /\ GoodCall(merge(n), votes)
                         /\ Loses(merge(n)) => merge(n).id = n.id /\ n.vote = NoVote
  BY DEF GoodCall, Loses, Claims, ClaimMergeCall
<1>5. \A n \in sources : Loses(merge(n)) => Unvoted(merge(n).id, base)
  BY <1>4, OneKnown
<1> HIDE DEF merge
<1>6. GoodCalls(merges, votes) /\ SafeAfter(merges, base, {} \cup KeptBy(claim)) /\ merges # <<>>
  <2>1. DOMAIN merges = 1 .. Len(order) /\ \A k \in 1 .. Len(order) : merges[k] = merge(order[k])
    BY <1>2
  <2>2. merges = [k \in 1 .. Len(order) |-> merges[k]]
    BY <1>2
  <2>3. DOMAIN <<>> = {}
    OBVIOUS
  <2> HIDE DEF merges
  <2>4. IsSeq(merges)
    BY <1>2, <2>2, FunctionSeq
  <2>5. GoodCalls(merges, votes)
    BY <1>2, <1>4, <2>1, <2>4 DEF GoodCalls
  <2>6. SafeAfter(merges, base, {} \cup KeptBy(claim))
    BY <1>2, <1>5, <2>1 DEF SafeAfter
  <2> QED
    BY <1>2, <2>1, <2>3, <2>5, <2>6
<1> HIDE DEF merges
<1>7. IsSeq(claim) /\ IsSeq(merges)
  BY <1>3, <1>6 DEF GoodCalls
<1>8. /\ GoodCalls(claim \o merges, votes) /\ SafeAfter(claim \o merges, base, {})
      /\ claim \o merges # <<>> /\ KeptBy(claim) \subseteq {} \cup KeptBy(claim \o merges)
  <2>1. KeptBy(claim \o merges) = KeptBy(claim) \cup KeptBy(merges)
    BY <1>7, JoinedKept
  <2> QED
    BY <1>3, <1>6, <1>7, <2>1, GoodJoin, SafeJoin, JoinedNotEmpty
<1>9. GoodCalls(settle, votes) /\ SafeAfter(settle, base, {} \cup KeptBy(claim \o merges))
  <2> DEFINE clear == ClearCall(destination.id)
             kept == {} \cup KeptBy(claim \o merges)
  <2>1. clear.id = destination.id /\ GoodCall(clear, votes)
    BY DEF GoodCall, Loses, Claims, ClearCall
  <2>2. revote.id = destination.id /\ (vote \in votes => GoodCall(revote, votes))
    BY DEF GoodCall, Loses, Claims
  <2>3. Unvoted(destination.id, base) \/ destination.id \in kept
    BY <1>3, <1>8
  <2> HIDE DEF clear, revote, kept
  <2>4. CASE settle = <<>>
    BY <2>4, NoCall DEF kept
  <2>5. CASE settle = <<revote>> /\ vote \in votes
    BY <2>2, <2>3, <2>5, OneCall DEF kept
  <2>6. CASE settle = <<clear>>
    BY <2>1, <2>3, <2>6, OneCall DEF kept
  <2>7. settle = <<>> \/ (settle = <<revote>> /\ vote \in votes) \/ settle = <<clear>>
    BY DEF clear
  <2> HIDE DEF settle
  <2> QED
    BY <2>4, <2>5, <2>6, <2>7 DEF kept
<1> HIDE DEF settle
<1>10. IsSeq(claim \o merges) /\ IsSeq(settle)
  BY <1>8, <1>9 DEF GoodCalls
<1>11. /\ GoodCalls((claim \o merges) \o settle, votes)
       /\ SafeAfter((claim \o merges) \o settle, base, {})
       /\ (claim \o merges) \o settle # <<>>
  BY <1>8, <1>9, <1>10, GoodJoin, SafeJoin, JoinedNotEmpty
<1> QED
  BY <1>1, <1>11 DEF SafePlan

\* Every active NFT is increased, by at least one unit.
LEMMA StakeAllSafe ==
    ASSUME NEW votes, NEW p, IsPortfolio(p, votes), NEW amount \in Nat, NEW native, NEW clock,
           PlanStakeAll(p, amount, native, clock) # Refused
    PROVE  SafePlan(PlanStakeAll(p, amount, native, clock), p, votes)
<1> DEFINE active == Active(p)
           order == Sorted(active, ById)
           stakes == [k \in DOMAIN order |-> order[k].amount]
           extra == ApportionReinvestment(amount, stakes)
           calls == [k \in DOMAIN order |-> IncreaseCall(order[k], extra[k])]
<1>1. active # {} /\ ~ (amount < Len(order)) /\ PlanStakeAll(p, amount, native, clock).calls = calls
  BY DEF PlanStakeAll
<1>2. Known(active, p)
  BY NftsKnown DEF Active
<1>3. /\ Len(order) \in Nat /\ DOMAIN order = 1 .. Len(order) /\ 1 \in DOMAIN order
      /\ \A k \in DOMAIN order : order[k] \in active
  BY <1>1, <1>2, OrderById DEF Known
<1> HIDE DEF order
<1>4. /\ stakes \in [1 .. Len(order) -> Int] /\ Len(stakes) = Len(order)
      /\ \A k \in 1 .. Len(order) : stakes[k] > 0
  <2>1. \A k \in DOMAIN order : order[k].amount \in Nat \ {0}
    BY <1>2, <1>3 DEF Known
  <2> QED
    BY <1>3, <2>1
<1>5. IsFiniteSet(1 .. Len(order)) /\ 1 \in 1 .. Len(order)
  BY <1>3, FS_Interval
<1> HIDE DEF stakes
<1>6. Total(stakes) \in Nat \ {0}
  <2>1. Total(stakes) \in Int /\ Total(stakes) > 0
    BY <1>4, <1>5, TotalType
  <2> QED
    BY <2>1
<1>7. \A k \in 1 .. Len(order) : extra[k] \in Nat
  <2> DEFINE more == Apportion(amount - Len(stakes), stakes, Total(stakes))
  <2>1. amount - Len(stakes) \in Int /\ amount - Len(stakes) >= 0
    BY <1>1, <1>3, <1>4
  <2>2. \A k \in 1 .. Len(order) : stakes[k] >= 0
    BY <1>4
  <2>3. more \in [1 .. Len(order) -> Int] /\ \A k \in 1 .. Len(order) : more[k] >= 0
    BY <1>4, <1>5, <1>6, <2>1, <2>2, ApportionType
  <2>4. DOMAIN stakes = 1 .. Len(order)
    BY <1>4
  <2>5. extra = [k \in DOMAIN stakes |-> 1 + more[k]]
    BY DEF ApportionReinvestment
  <2> HIDE DEF more, extra
  <2> QED
    BY <2>3, <2>4, <2>5
<1> HIDE DEF extra
<1>8. /\ DOMAIN calls = 1 .. Len(order) /\ calls = [k \in 1 .. Len(order) |-> calls[k]]
      /\ \A k \in 1 .. Len(order) : calls[k].op = "increase" /\ calls[k].amount = extra[k]
  BY <1>3 DEF IncreaseCall
<1>9. DOMAIN <<>> = {}
  OBVIOUS
<1> HIDE DEF calls
<1>10. IsSeq(calls)
  BY <1>3, <1>8, FunctionSeq
<1>11. GoodCalls(calls, votes) /\ SafeAfter(calls, p, {})
  BY <1>7, <1>8, <1>10 DEF GoodCalls, GoodCall, SafeAfter, Loses, Claims
<1> QED
  BY <1>1, <1>3, <1>8, <1>9, <1>11 DEF SafePlan

-------------------------------------------------------------------------------
(***************************************************************************)
(* A vote divided over several pools                                       *)
(***************************************************************************)

\* What a target allocation is made of.
IsTargets(targets, votes) ==
    /\ IsSeq(targets)
    /\ \A i \in DOMAIN targets : targets[i].weight \in Nat /\ VoteOf(targets[i]) \in votes

\* A share rounded down is a number.
LEMMA FloorType ==
    ASSUME NEW a \in Int, NEW b \in Int, NEW d \in Nat \ {0}
    PROVE  (a * b) \div d \in Int
<1>1. a * b \in Int
  OBVIOUS
<1>2. \A x \in Int : x \div d \in Int
  OBVIOUS
<1> QED
  BY <1>1, <1>2

\* The buckets of prepareVe33Vote are numbers, one a target and one for what is left.
LEMMA BucketsType ==
    ASSUME NEW votes, NEW n, n.amount \in Nat, NEW targets, IsTargets(targets, votes),
           NEW unallocated \in Nat
    PROVE  LET all == Append([i \in DOMAIN targets |-> targets[i].weight], unallocated) IN
           /\ DOMAIN all = 1 .. (Len(targets) + 1) /\ Len(targets) \in Nat
           /\ \A i \in DOMAIN all : Buckets(n, targets, unallocated)[i] \in Int
<1> DEFINE weights == [i \in DOMAIN targets |-> targets[i].weight]
           all == Append(weights, unallocated)
           floors == [i \in DOMAIN all |-> (n.amount * all[i]) \div ShareTotal]
           kept == KeptBucket(n, targets, floors)
           amounts == [floors EXCEPT ![kept] = @ + n.amount - Total(floors)]
<1>1. Buckets(n, targets, unallocated) = amounts
  BY DEF Buckets
<1>2. Len(targets) \in Nat /\ DOMAIN targets = 1 .. Len(targets)
  BY SeqFacts DEF IsTargets
<1>3. weights \in Seq(Int) /\ Len(weights) = Len(targets)
  <2>1. weights \in [1 .. Len(targets) -> Int]
    BY <1>2 DEF IsTargets
  <2> HIDE DEF weights
  <2> QED
    BY <1>2, <2>1
<1> HIDE DEF weights
<1>4. DOMAIN all = 1 .. (Len(targets) + 1) /\ \A i \in DOMAIN all : all[i] \in Int
  <2>1. all \in Seq(Int) /\ Len(all) = Len(targets) + 1
    BY <1>2, <1>3
  <2> HIDE DEF all
  <2> QED
    BY <2>1
<1> HIDE DEF all
<1>5. floors \in [DOMAIN all -> Int]
  <2>1. ASSUME NEW i \in DOMAIN all PROVE (n.amount * all[i]) \div ShareTotal \in Int
    BY <1>4, FloorType, LimitsAssumption
  <2> QED
    BY <2>1
<1>6. IsFiniteSet(DOMAIN all)
  BY <1>2, <1>4, FS_Interval
<1> HIDE DEF floors, kept
<1>7. Total(floors) \in Int
  BY <1>5, <1>6, TotalType
<1>8. \A i \in DOMAIN all : amounts[i] \in Int
  <2>1. DOMAIN floors = DOMAIN all
    BY <1>5
  <2>2. \A i \in DOMAIN all : floors[i] \in Int
    BY <1>5
  <2> QED
    BY <1>7, <2>1, <2>2
<1> QED
  BY <1>1, <1>2, <1>4, <1>8 DEF all, weights

\* The source is claimed before its vote moves; the other votes are of new NFTs.
LEMMA VoteSafe ==
    ASSUME NEW base, NEW votes, NEW n, n.amount \in Nat,
           NEW targets, IsTargets(targets, votes), NEW unallocated \in Nat, NEW nonce \in Nat,
           PlanVote(n, targets, unallocated, nonce) # Refused
    PROVE  SafePlan(PlanVote(n, targets, unallocated, nonce), base, votes)
<1> DEFINE all == Append([i \in DOMAIN targets |-> targets[i].weight], unallocated)
           floors == [i \in DOMAIN all |-> (n.amount * all[i]) \div ShareTotal]
           kept == KeptBucket(n, targets, floors)
           amounts == Buckets(n, targets, unallocated)
           voted(i) == i \in DOMAIN targets
           others == Sorted({i \in DOMAIN all : i # kept /\ amounts[i] # 0}, <)
           child(k) == ChildId(nonce, k - 1)
           split(k) == SplitCall(n.id, amounts[others[k]], child(k))
           splits == [k \in DOMAIN others |-> split(k)]
           sourceVote ==
               IF ~voted(kept) THEN <<ClearCall(n.id)>>
               ELSE IF Matches(n, targets[kept]) THEN <<>>
               ELSE <<VoteCall(n.id, targets[kept])>>
           vote(k) == VoteCall(child(k), targets[others[k]])
           childVotes == [k \in DOMAIN others |->
                             IF voted(others[k]) THEN <<vote(k)>> ELSE <<>>]
           claim == <<ClaimCall(n)>>
<1>1. PlanVote(n, targets, unallocated, nonce).calls
        = claim \o splits \o sourceVote \o FlattenSeq(childVotes)
  BY DEF PlanVote
<1>2. \A i \in DOMAIN all : amounts[i] \in Int
  BY BucketsType
<1>3. /\ Len(others) \in Nat /\ DOMAIN others = 1 .. Len(others)
      /\ \A k \in DOMAIN others : others[k] \in DOMAIN all
  <2> DEFINE S == {i \in DOMAIN all : i # kept /\ amounts[i] # 0}
  <2>1. DOMAIN all = 1 .. (Len(targets) + 1) /\ Len(targets) \in Nat
    BY BucketsType
  <2>2. Len(targets) + 1 \in Nat /\ S \in SUBSET (1 .. (Len(targets) + 1))
    BY <2>1
  <2> HIDE DEF S
  <2>3. S \in SUBSET Int /\ IsFiniteSet(S)
    BY <2>2, IndicesFinite
  <2> DEFINE order == Sorted(S, <)
  <2>4. order \in Seq(S)
    BY <2>3, SortedNumbers
  <2> HIDE DEF order
  <2>5. /\ Len(order) \in Nat /\ DOMAIN order = 1 .. Len(order)
        /\ \A k \in DOMAIN order : order[k] \in S
    BY <2>4
  <2>6. others = order
    BY DEF order, S
  <2> HIDE DEF others
  <2> QED
    BY <2>5, <2>6 DEF S
<1> HIDE DEF others, amounts, kept, all
<1>4. \A k \in DOMAIN others : child(k) \in Nat
  <2>1. \A k \in DOMAIN others : k - 1 \in Nat
    BY <1>3
  <2> QED
    BY <2>1, ChildIdType
<1> HIDE DEF child
<1>5. GoodCalls(claim, votes) /\ SafeAfter(claim, base, {}) /\ claim # <<>> /\ n.id \in KeptBy(claim)
  <2> DEFINE c == ClaimCall(n)
  <2>1. GoodCall(c, votes) /\ ~ Loses(c) /\ c.op = "claim" /\ c.id = n.id
    BY DEF GoodCall, Loses, Claims, ClaimCall
  <2> HIDE DEF c
  <2> QED
    BY <2>1, OneCall DEF c
<1> HIDE DEF claim
<1>6. /\ GoodCalls(splits, votes) /\ SafeAfter(splits, base, {} \cup KeptBy(claim))
      /\ \A k \in DOMAIN others : child(k) \in KeptBy(splits)
  <2>1. \A k \in DOMAIN others : /\ GoodCall(split(k), votes) /\ ~ Loses(split(k))
                                 /\ split(k).op = "split" /\ split(k).child = child(k)
    BY <1>2, <1>3, <1>4 DEF GoodCall, Loses, Claims, SplitCall
  <2> HIDE DEF split
  <2>2. DOMAIN splits = DOMAIN others /\ \A k \in DOMAIN others : splits[k] = split(k)
    OBVIOUS
  <2>3. splits = [k \in 1 .. Len(others) |-> splits[k]]
    BY <1>3
  <2> HIDE DEF splits
  <2>4. IsSeq(splits)
    BY <1>3, <2>3, FunctionSeq
  <2>5. \A k \in DOMAIN others : child(k) \in KeptBy(splits)
    BY <2>1, <2>2 DEF KeptBy
  <2> QED
    BY <2>1, <2>2, <2>4, <2>5 DEF GoodCalls, SafeAfter
<1> HIDE DEF splits
<1>7. IsSeq(claim) /\ IsSeq(splits)
  BY <1>5, <1>6 DEF GoodCalls
<1> DEFINE ready == claim \o splits
<1>8. /\ GoodCalls(ready, votes) /\ SafeAfter(ready, base, {}) /\ ready # <<>> /\ IsSeq(ready)
      /\ n.id \in KeptBy(ready) /\ \A k \in DOMAIN others : child(k) \in KeptBy(ready)
  <2>1. KeptBy(ready) = KeptBy(claim) \cup KeptBy(splits)
    BY <1>7, JoinedKept
  <2>2. GoodCalls(ready, votes) /\ SafeAfter(ready, base, {}) /\ ready # <<>>
    BY <1>5, <1>6, <1>7, GoodJoin, SafeJoin, JoinedNotEmpty
  <2> HIDE DEF ready
  <2> QED
    BY <1>5, <1>6, <2>1, <2>2 DEF GoodCalls
<1> HIDE DEF ready
<1>9. GoodCalls(sourceVote, votes) /\ SafeAfter(sourceVote, base, {} \cup KeptBy(ready))
  <2> DEFINE clear == ClearCall(n.id)
             move == VoteCall(n.id, targets[kept])
  <2>1. clear.id = n.id /\ GoodCall(clear, votes)
    BY DEF GoodCall, Loses, Claims, ClearCall
  <2>2. move.id = n.id /\ (voted(kept) => GoodCall(move, votes))
    BY DEF GoodCall, Loses, Claims, VoteCall, IsTargets
  <2>3. \/ sourceVote = <<>> \/ sourceVote = <<clear>> \/ (sourceVote = <<move>> /\ voted(kept))
    OBVIOUS
  <2> HIDE DEF clear, move, sourceVote, voted
  <2>4. CASE sourceVote = <<>>
    BY <2>4, NoCall
  <2>5. CASE sourceVote = <<clear>>
    BY <1>8, <2>1, <2>5, OneCall
  <2>6. CASE sourceVote = <<move>> /\ voted(kept)
    BY <1>8, <2>2, <2>6, OneCall
  <2> QED
    BY <2>3, <2>4, <2>5, <2>6
<1> HIDE DEF sourceVote
<1> DEFINE moved == ready \o sourceVote
<1>10. /\ GoodCalls(moved, votes) /\ SafeAfter(moved, base, {}) /\ moved # <<>> /\ IsSeq(moved)
       /\ \A k \in DOMAIN others : child(k) \in KeptBy(moved)
  <2>1. IsSeq(sourceVote)
    BY <1>9 DEF GoodCalls
  <2>2. KeptBy(moved) = KeptBy(ready) \cup KeptBy(sourceVote)
    BY <1>8, <2>1, JoinedKept
  <2>3. GoodCalls(moved, votes) /\ SafeAfter(moved, base, {}) /\ moved # <<>>
    BY <1>8, <1>9, <2>1, GoodJoin, SafeJoin, JoinedNotEmpty
  <2> HIDE DEF moved
  <2> QED
    BY <1>8, <2>2, <2>3 DEF GoodCalls
<1> HIDE DEF moved
<1>11. /\ GoodCalls(FlattenSeq(childVotes), votes)
       /\ SafeAfter(FlattenSeq(childVotes), base, {} \cup KeptBy(moved))
  <2> DEFINE T == {vote(k) : k \in DOMAIN others}
             part(k) == IF voted(others[k]) THEN <<vote(k)>> ELSE <<>>
  <2>1. \A k \in DOMAIN others : vote(k) \in T
    OBVIOUS
  <2>2. \A k \in DOMAIN others : voted(others[k]) => /\ GoodCall(vote(k), votes)
                                                     /\ vote(k).id = child(k)
    BY DEF GoodCall, Loses, Claims, VoteCall, IsTargets
  <2> HIDE DEF T, vote, voted
  <2>3. \A k \in DOMAIN others : part(k) \in Seq(T)
    BY <2>1
  <2>4. ASSUME NEW k \in DOMAIN others
        PROVE  GoodCalls(part(k), votes) /\ SafeAfter(part(k), base, {} \cup KeptBy(moved))
    <3>1. CASE voted(others[k])
      <4>1. vote(k).id \in {} \cup KeptBy(moved)
        BY <1>10, <2>2, <3>1
      <4>2. part(k) = <<vote(k)>> /\ GoodCall(vote(k), votes)
        BY <2>2, <3>1
      <4> HIDE DEF part
      <4> QED
        BY <4>1, <4>2, OneCall
    <3>2. CASE ~ voted(others[k])
      <4>1. part(k) = <<>>
        BY <3>2
      <4> HIDE DEF part
      <4> QED
        BY <4>1, NoCall
    <3> QED
      BY <3>1, <3>2
  <2>5. childVotes = [k \in DOMAIN others |-> part(k)]
    BY DEF vote
  <2> HIDE DEF part, childVotes
  <2>6. childVotes \in Seq(Seq(T))
    BY <1>3, <2>3, <2>5
  <2>7. \A k \in DOMAIN childVotes : k \in DOMAIN others /\ childVotes[k] = part(k)
    BY <2>5
  <2> QED
    BY <2>4, <2>6, <2>7, SafeFlatten
<1> HIDE DEF childVotes
<1>12. IsSeq(FlattenSeq(childVotes))
  BY <1>11 DEF GoodCalls
<1>13. /\ GoodCalls(moved \o FlattenSeq(childVotes), votes)
       /\ SafeAfter(moved \o FlattenSeq(childVotes), base, {})
       /\ moved \o FlattenSeq(childVotes) # <<>>
  BY <1>10, <1>11, <1>12, GoodJoin, SafeJoin, JoinedNotEmpty
<1>14. PlanVote(n, targets, unallocated, nonce).calls = moved \o FlattenSeq(childVotes)
  BY <1>1 DEF moved, ready
<1> QED
  BY <1>13, <1>14 DEF SafePlan

-------------------------------------------------------------------------------
(***************************************************************************)
(* Reallocations                                                           *)
(***************************************************************************)

\* Each of these NFTs is claimed, from the pool it votes for, by a call that only
\* claims come before.
ClaimsAll(calls, ns) ==
    \A n \in ns : \E k \in DOMAIN calls :
        /\ calls[k].id = n.id /\ calls[k].pool = n.vote.pool
        /\ \A j \in 1 .. k : Claims(calls[j])

\* Pieces of the NFTs with these ids, and what they become once they have ids.
RawPieces(ids, targets) ==
    [source : ids, amount : Int, end : Nat, target : Range(targets), isNew : BOOLEAN]

IsPieces(pieces, ids, votes) ==
    /\ IsSeq(pieces)
    /\ \A k \in DOMAIN pieces :
          /\ pieces[k].amount \in Int /\ pieces[k].vote \in votes /\ pieces[k].isNew \in BOOLEAN
          /\ IF pieces[k].isNew THEN pieces[k].id \in Nat ELSE pieces[k].id \in ids

\* What is made of a cohort are pieces of its NFTs for the targets.
LEMMA CohortPiecesType ==
    ASSUME NEW ns, Identified(ns), \A n \in ns : n.amount \in Int /\ n.end \in Nat,
           NEW cohort \in Seq(ns), Range(cohort) = ns, NEW votes, NEW targets, IsTargets(targets, votes)
    PROVE  CohortPieces(cohort, targets) \in Seq(RawPieces({n.id : n \in ns}, targets))
<1> DEFINE ids == {n.id : n \in ns}
           chunks == AllocateCohort(ns, targets)
           piece(n, i) == [source |-> n.id, amount |-> chunks[n.id][i].amount, end |-> n.end,
                           target |-> targets[chunks[n.id][i].target],
                           isNew |-> i # RetainedChunk(n, chunks[n.id], targets)]
           pieces(n) == [i \in DOMAIN chunks[n.id] |-> piece(n, i)]
           C == [target : DOMAIN targets, amount : Int]
           P == RawPieces(ids, targets)
<1>0. IsSeq(targets) /\ DOMAIN targets = 1 .. Len(targets)
      /\ \A i \in DOMAIN targets : targets[i].weight \in Int
  BY SeqFacts DEF IsTargets
<1>1. chunks \in [ids -> Seq(C)]
  <2>1. targets \in Seq(Range(targets))
    BY <1>0 DEF IsSeq
  <2> QED
    BY <1>0, <2>1, AllocateCohortType
<1>2. ToSet(cohort) = ns
  BY DEF ToSet, Range
<1>3. CohortPieces(cohort, targets) = FlattenSeq([k \in DOMAIN cohort |-> pieces(cohort[k])])
  BY <1>2 DEF CohortPieces
<1> HIDE DEF chunks
<1>4. ASSUME NEW n \in ns PROVE pieces(n) \in Seq(P)
  <2> DEFINE cs == chunks[n.id]
  <2>1. n.id \in ids /\ n.end \in Nat
    OBVIOUS
  <2> HIDE DEF ids
  <2>2. cs \in Seq(C)
    BY <1>1, <2>1
  <2> HIDE DEF C, cs
  <2>3. Len(cs) \in Nat /\ DOMAIN cs = 1 .. Len(cs) /\ \A i \in DOMAIN cs : cs[i] \in C
    BY <2>2
  <2>4. ASSUME NEW i \in DOMAIN cs PROVE piece(n, i) \in P
    <3>1. cs[i].target \in DOMAIN targets /\ cs[i].amount \in Int
      BY <2>3 DEF C
    <3>2. targets[cs[i].target] \in Range(targets)
      BY <3>1 DEF Range
    <3> QED
      BY <2>1, <3>1, <3>2 DEF RawPieces, cs
  <2> HIDE DEF piece, P
  <2> QED
    BY <2>3, <2>4 DEF cs
<1>5. [k \in DOMAIN cohort |-> pieces(cohort[k])] \in Seq(Seq(P))
  <2>1. DOMAIN cohort = 1 .. Len(cohort) /\ Len(cohort) \in Nat /\ \A k \in DOMAIN cohort : cohort[k] \in ns
    OBVIOUS
  <2> HIDE DEF pieces, P
  <2> QED
    BY <1>4, <2>1
<1> HIDE DEF pieces, P
<1>6. FlattenSeq([k \in DOMAIN cohort |-> pieces(cohort[k])]) \in Seq(P)
  BY <1>5, FlattenRange
<1> QED
  BY <1>3, <1>6 DEF P

\* Pieces with their ids.
LEMMA WithIdsType ==
    ASSUME NEW ids, NEW votes, NEW targets, IsTargets(targets, votes), NEW nonce \in Nat,
           NEW raw \in Seq(RawPieces(ids, targets))
    PROVE  IsPieces(WithIds(raw, nonce), ids, votes)
<1> DEFINE P == RawPieces(ids, targets)
           before(i) == Quantify(1 .. (i - 1), LAMBDA k : raw[k].isNew)
           pieces == WithIds(raw, nonce)
<1>1. Len(raw) \in Nat /\ DOMAIN raw = 1 .. Len(raw) /\ \A i \in DOMAIN raw : raw[i] \in P
  <2> HIDE DEF P
  <2> QED
    BY SeqDomain DEF P
<1>2. \A i \in DOMAIN raw : /\ raw[i].source \in ids /\ raw[i].amount \in Int
                            /\ raw[i].isNew \in BOOLEAN /\ VoteOf(raw[i].target) \in votes
  BY <1>1 DEF RawPieces, IsTargets, Range
<1>3. \A i \in DOMAIN raw : before(i) \in Nat
  <2> SUFFICES ASSUME NEW i \in DOMAIN raw PROVE before(i) \in Nat
    OBVIOUS
  <2> DEFINE S == {k \in 1 .. (i - 1) : raw[k].isNew}
  <2>1. before(i) = Cardinality(S)
    BY DEF Quantify
  <2>2. i - 1 \in Nat /\ S \in SUBSET (1 .. (i - 1))
    BY <1>1
  <2> HIDE DEF S
  <2>3. IsFiniteSet(S)
    BY <2>2, IndicesFinite
  <2> QED
    BY <2>1, <2>3, FS_CardinalityType
<1> HIDE DEF P
<1>4. pieces = [i \in 1 .. Len(raw) |->
                  [id |-> IF raw[i].isNew THEN ChildId(nonce, before(i)) ELSE raw[i].source,
                   source |-> raw[i].source, amount |-> raw[i].amount, end |-> raw[i].end,
                   vote |-> VoteOf(raw[i].target), isNew |-> raw[i].isNew]]
  BY <1>1 DEF WithIds
<1> HIDE DEF before, pieces
<1>5. \A i \in DOMAIN raw : ChildId(nonce, before(i)) \in Nat
  BY <1>3, ChildIdType
<1>6. IsSeq(pieces) /\ DOMAIN pieces = DOMAIN raw
  <2>1. pieces = [i \in 1 .. Len(raw) |-> pieces[i]]
    BY <1>4
  <2> QED
    BY <1>1, <2>1, FunctionSeq
<1>7. \A i \in DOMAIN raw : /\ pieces[i].id = IF raw[i].isNew THEN ChildId(nonce, before(i)) ELSE raw[i].source
                            /\ pieces[i].amount = raw[i].amount /\ pieces[i].isNew = raw[i].isNew
                            /\ pieces[i].vote = VoteOf(raw[i].target)
  BY <1>1, <1>4
<1> QED
  BY <1>2, <1>5, <1>6, <1>7 DEF IsPieces, pieces

\* Whatever claims the sources first, the pieces may be split off and voted.
LEMMA PiecesSafe ==
    ASSUME NEW base, NEW votes, NEW ids, NEW pieces, IsPieces(pieces, ids, votes),
           NEW first, GoodCalls(first, votes), SafeAfter(first, base, {}), first # <<>>,
           ids \subseteq KeptBy(first)
    PROVE  LET calls == first \o SplitsOf(pieces) \o VotesOf(pieces)
           IN  /\ GoodCalls(calls, votes) /\ calls # <<>> /\ SafeAfter(calls, base, {})
               /\ IsSeq(SplitsOf(pieces)) /\ IsSeq(VotesOf(pieces))
<1> DEFINE new == Sorted({i \in DOMAIN pieces : pieces[i].isNew}, <)
           split(k) == SplitCall(pieces[new[k]].source, pieces[new[k]].amount, pieces[new[k]].id)
           splits == SplitsOf(pieces)
           votings == VotesOf(pieces)
<1>1. IsSeq(pieces) /\ DOMAIN pieces = 1 .. Len(pieces) /\ Len(pieces) \in Nat
  BY SeqFacts DEF IsPieces
<1>2. /\ Len(new) \in Nat /\ DOMAIN new = 1 .. Len(new)
      /\ \A k \in DOMAIN new : new[k] \in DOMAIN pieces /\ pieces[new[k]].isNew
      /\ \A i \in DOMAIN pieces : pieces[i].isNew => \E k \in DOMAIN new : new[k] = i
  <2> DEFINE S == {i \in DOMAIN pieces : pieces[i].isNew}
             order == Sorted(S, <)
  <2>1. S \in SUBSET (1 .. Len(pieces))
    BY <1>1
  <2> HIDE DEF S
  <2>2. S \in SUBSET Int /\ IsFiniteSet(S)
    BY <1>1, <2>1, IndicesFinite
  <2>3. order \in Seq(S) /\ Range(order) = S
    BY <2>2, SortedNumbers
  <2> HIDE DEF order
  <2>4. Len(order) \in Nat /\ DOMAIN order = 1 .. Len(order) /\ \A k \in DOMAIN order : order[k] \in S
    BY <2>3
  <2>5. \A i \in S : \E k \in DOMAIN order : order[k] = i
    BY <2>3 DEF Range
  <2>6. new = order
    BY DEF order, S
  <2> HIDE DEF new
  <2> QED
    BY <2>4, <2>5, <2>6 DEF S
<1>3. splits = [k \in DOMAIN new |-> split(k)]
  BY DEF SplitsOf
<1> HIDE DEF new
<1>4. \A k \in DOMAIN new : /\ GoodCall(split(k), votes) /\ ~ Loses(split(k))
                            /\ split(k).op = "split" /\ split(k).child = pieces[new[k]].id
  BY <1>2 DEF GoodCall, Loses, Claims, SplitCall, IsPieces
<1> HIDE DEF split, splits
<1>5. /\ GoodCalls(splits, votes) /\ SafeAfter(splits, base, {} \cup KeptBy(first))
      /\ \A i \in DOMAIN pieces : pieces[i].isNew => pieces[i].id \in KeptBy(splits)
  <2>1. DOMAIN splits = DOMAIN new /\ \A k \in DOMAIN new : splits[k] = split(k)
    BY <1>3
  <2>2. splits = [k \in 1 .. Len(new) |-> splits[k]]
    BY <1>2, <1>3
  <2>3. IsSeq(splits)
    BY <1>2, <2>2, FunctionSeq
  <2>4. ASSUME NEW i \in DOMAIN pieces, pieces[i].isNew PROVE pieces[i].id \in KeptBy(splits)
    <3>1. PICK k \in DOMAIN new : new[k] = i
      BY <1>2, <2>4
    <3>2. splits[k].op = "split" /\ splits[k].child = pieces[i].id /\ k \in DOMAIN splits
      BY <1>4, <2>1, <3>1
    <3> QED
      BY <3>2 DEF KeptBy
  <2> QED
    BY <1>4, <2>1, <2>3, <2>4 DEF GoodCalls, SafeAfter
<1> DEFINE ready == first \o splits
<1>6. /\ GoodCalls(ready, votes) /\ SafeAfter(ready, base, {}) /\ ready # <<>> /\ IsSeq(ready)
      /\ ids \subseteq KeptBy(ready)
      /\ \A i \in DOMAIN pieces : pieces[i].isNew => pieces[i].id \in KeptBy(ready)
  <2>1. IsSeq(first) /\ IsSeq(splits)
    BY <1>5 DEF GoodCalls
  <2>2. KeptBy(ready) = KeptBy(first) \cup KeptBy(splits)
    BY <2>1, JoinedKept
  <2>3. GoodCalls(ready, votes) /\ SafeAfter(ready, base, {}) /\ ready # <<>>
    BY <1>5, <2>1, GoodJoin, SafeJoin, JoinedNotEmpty
  <2> HIDE DEF ready
  <2> QED
    BY <1>5, <2>2, <2>3 DEF GoodCalls
<1> HIDE DEF ready
<1>7. GoodCalls(votings, votes) /\ SafeAfter(votings, base, {} \cup KeptBy(ready)) /\ IsSeq(votings)
  <2>1. votings = [i \in DOMAIN pieces |-> [op |-> "vote", id |-> pieces[i].id, vote |-> pieces[i].vote]]
    BY DEF VotesOf
  <2> HIDE DEF votings
  <2>2. DOMAIN votings = DOMAIN pieces /\ \A i \in DOMAIN pieces :
            votings[i].op = "vote" /\ votings[i].id = pieces[i].id /\ votings[i].vote = pieces[i].vote
    BY <2>1
  <2>3. votings = [i \in 1 .. Len(pieces) |-> votings[i]]
    BY <1>1, <2>1
  <2>4. IsSeq(votings)
    BY <1>1, <2>3, FunctionSeq
  <2>5. \A i \in DOMAIN pieces : pieces[i].vote \in votes
    BY DEF IsPieces
  <2>6. \A i \in DOMAIN pieces : pieces[i].id \in KeptBy(ready)
    BY <1>6 DEF IsPieces
  <2> QED
    BY <2>2, <2>4, <2>5, <2>6 DEF GoodCalls, GoodCall, SafeAfter, Loses, Claims
<1> HIDE DEF votings
<1>8. /\ GoodCalls(ready \o votings, votes) /\ SafeAfter(ready \o votings, base, {})
      /\ ready \o votings # <<>>
  BY <1>6, <1>7, GoodJoin, SafeJoin, JoinedNotEmpty
<1>9. IsSeq(splits) /\ IsSeq(votings)
  BY <1>5, <1>7 DEF GoodCalls
<1> QED
  BY <1>8, <1>9 DEF ready, splits, votings

\* What claims first still does with calls after it.
LEMMA ClaimsJoin ==
    ASSUME NEW ns, NEW s, IsSeq(s), NEW t, IsSeq(t), ClaimsAll(s, ns)
    PROVE  ClaimsAll(s \o t, ns)
<1> DEFINE r == s \o t
<1>1. Len(s) \in Nat /\ DOMAIN s = 1 .. Len(s) /\ Len(t) \in Nat
  BY SeqFacts
<1>2. DOMAIN r = 1 .. (Len(s) + Len(t)) /\ \A k \in 1 .. Len(s) : r[k] = s[k]
  BY JoinedSeq
<1> HIDE DEF r
<1>3. \A k \in DOMAIN s : k \in DOMAIN r /\ r[k] = s[k] /\ \A j \in 1 .. k : j \in DOMAIN s /\ r[j] = s[j]
  BY <1>1, <1>2
<1>4. ClaimsAll(r, ns)
  BY <1>3 DEF ClaimsAll
<1> QED
  BY <1>4 DEF r

\* Splitting in place claims every vote before it cuts or moves anything.
LEMMA PreserveSafe ==
    ASSUME NEW base, NEW votes, NEW active, Known(active, base), active # {},
           NEW targets, IsTargets(targets, votes), NEW nonce \in Nat,
           PlanPreserve(active, targets, nonce) # Refused
    PROVE  /\ SafePlan(PlanPreserve(active, targets, nonce), base, votes)
           /\ ClaimsAll(PlanPreserve(active, targets, nonce).calls, active)
<1> DEFINE ids == {n.id : n \in active}
           ends == Sorted({n.end : n \in active}, <)
           cohorts == GroupByEndTime(active)
           P == RawPieces(ids, targets)
           raw == FlattenSeq([k \in DOMAIN cohorts |-> CohortPieces(cohorts[k], targets)])
           pieces == WithIds(raw, nonce)
           claims == ClaimsFirst(active, pieces)
           calls == claims \o SplitsOf(pieces) \o VotesOf(pieces)
<1>1. PlanPreserve(active, targets, nonce).calls = calls
  BY DEF PlanPreserve
<1>2. Identified(active) /\ \A n \in active : n.amount \in Int /\ n.end \in Nat
  BY DEF Known
<1>3. Len(ends) \in Nat /\ DOMAIN ends = 1 .. Len(ends)
  <2> DEFINE S == {n.end : n \in active}
             end == [n \in active |-> n.end]
             E == {end[n] : n \in active}
             order == Sorted(S, <)
  <2>1. S = E
    OBVIOUS
  <2>2. E \in SUBSET Int
    BY <1>2
  <2>3. IsFiniteSet(E)
    <3> HIDE DEF end
    <3> QED
      BY <1>2, ImageFinite DEF Identified
  <2> HIDE DEF S, E, end
  <2>4. order \in Seq(S)
    BY <2>1, <2>2, <2>3, SortedNumbers
  <2>5. ends = order
    BY DEF order, S
  <2> HIDE DEF order, ends
  <2> QED
    BY <2>4, <2>5
<1> HIDE DEF ends
<1>4. cohorts = [k \in 1 .. Len(ends) |-> Sorted({n \in active : n.end = ends[k]}, ById)]
  BY <1>3 DEF GroupByEndTime, ends
<1> HIDE DEF cohorts
<1>5. ASSUME NEW k \in 1 .. Len(ends) PROVE CohortPieces(cohorts[k], targets) \in Seq(P)
  <2> DEFINE ns == {n \in active : n.end = ends[k]}
  <2>1. ns \in SUBSET active
    OBVIOUS
  <2>2. cohorts[k] = Sorted(ns, ById)
    BY <1>4
  <2> HIDE DEF ns
  <2>3. IsFiniteSet(ns)
    BY <1>2, <2>1, FS_Subset DEF Identified
  <2>4. Identified(ns) /\ \A n \in ns : n.amount \in Int /\ n.end \in Nat
    BY <1>2, <2>1, <2>3 DEF Identified
  <2>5. cohorts[k] \in Seq(ns) /\ Range(cohorts[k]) = ns
    BY <2>2, <2>4, SortedById
  <2>6. CohortPieces(cohorts[k], targets) \in Seq(RawPieces({n.id : n \in ns}, targets))
    BY <2>4, <2>5, CohortPiecesType
  <2>7. RawPieces({n.id : n \in ns}, targets) \subseteq P
    BY <2>1 DEF RawPieces
  <2>8. ASSUME NEW A, NEW B, NEW q \in Seq(A), A \subseteq B PROVE q \in Seq(B)
    BY <2>8
  <2> HIDE DEF P
  <2> QED
    BY <2>6, <2>7, <2>8
<1>6. raw \in Seq(P)
  <2> DEFINE seqs == [k \in DOMAIN cohorts |-> CohortPieces(cohorts[k], targets)]
  <2>1. seqs = [k \in 1 .. Len(ends) |-> CohortPieces(cohorts[k], targets)]
    BY <1>4
  <2> HIDE DEF P
  <2>2. seqs \in Seq(Seq(P))
    <3> HIDE DEF seqs
    <3> QED
      BY <1>3, <1>5, <2>1
  <2> HIDE DEF seqs
  <2>3. FlattenSeq(seqs) \in Seq(P)
    BY <2>2, FlattenRange
  <2> QED
    BY <2>3 DEF seqs
<1> HIDE DEF raw
<1>7. IsPieces(pieces, ids, votes)
  BY <1>6, WithIdsType
<1> HIDE DEF pieces
<1>8. /\ GoodCalls(claims, votes) /\ SafeAfter(claims, base, {}) /\ claims # <<>>
      /\ ids \subseteq KeptBy(claims) /\ ClaimsAll(claims, active)
  <2> DEFINE order == Sorted(active, ById)
             each == [k \in DOMAIN order |-> ClaimCall(order[k])]
  <2>1. /\ GoodCalls(each, votes) /\ SafeAfter(each, base, {}) /\ each # <<>>
        /\ \A n \in active : n.id \in KeptBy(each)
        /\ \A k \in DOMAIN each : Claims(each[k])
        /\ \A n \in active : \E k \in DOMAIN each : each[k].id = n.id /\ each[k].pool = n.vote.pool
    BY <1>2, ClaimsOfAll
  <2>2. claims = each
    BY DEF ClaimsFirst
  <2> HIDE DEF each, claims
  <2>3. DOMAIN each = 1 .. Len(each) /\ Len(each) \in Nat
    BY <2>1, SeqFacts DEF GoodCalls
  <2>4. ClaimsAll(each, active)
    BY <2>1, <2>3 DEF ClaimsAll
  <2> QED
    BY <2>1, <2>2, <2>4
<1> HIDE DEF claims
<1>9. GoodCalls(calls, votes) /\ calls # <<>> /\ SafeAfter(calls, base, {})
  BY <1>7, <1>8, PiecesSafe
<1>10. ClaimsAll(calls, active)
  <2>1. IsSeq(SplitsOf(pieces)) /\ IsSeq(VotesOf(pieces))
    BY <1>7, <1>8, PiecesSafe
  <2>2. IsSeq(claims) /\ IsSeq(SplitsOf(pieces)) /\ IsSeq(VotesOf(pieces))
    BY <1>8, <2>1 DEF GoodCalls
  <2>3. ClaimsAll(claims \o SplitsOf(pieces), active) /\ IsSeq(claims \o SplitsOf(pieces))
    BY <1>8, <2>2, ClaimsJoin, JoinedSeq
  <2> QED
    BY <2>2, <2>3, ClaimsJoin
<1> HIDE DEF calls
<1> QED
  BY <1>1, <1>9, <1>10 DEF SafePlan

\* compactMaxLockReallocationPlan does so before it merges anything.
LEMMA CompactSafe ==
    ASSUME NEW base, NEW votes, NEW active, Known(active, base), active # {},
           NEW targets, IsTargets(targets, votes), NEW nonce \in Nat,
           PlanCompact(active, targets, nonce) # Refused
    PROVE  /\ SafePlan(PlanCompact(active, targets, nonce), base, votes)
           /\ ClaimsAll(PlanCompact(active, targets, nonce).calls, active)
<1> DEFINE destination == Sorted(active, Descending)[1]
           rest == active \ {destination}
           sources == Sorted(rest, ById)
           amounts == ApportionAmounts(StakeOf(active), targets)
           retained == CHOOSE i \in DOMAIN targets : \A k \in DOMAIN targets :
                          amounts[i] > amounts[k] \/ (amounts[i] = amounts[k] /\ i <= k)
           rawPiece(i) == [source |-> destination.id, amount |-> amounts[i], end |-> MaxLock,
                           target |-> targets[i], isNew |-> i # retained]
           raw == [i \in DOMAIN targets |-> rawPiece(i)]
           ids == {destination.id}
           P == RawPieces(ids, targets)
           pieces == WithIds(raw, nonce)
           extension == <<ClaimExtendCall(destination, MaxLock)>>
           merges == [k \in DOMAIN sources |-> ClaimMergeCall(sources[k], destination)]
           first == Consolidate(destination, sources)
           calls == first \o SplitsOf(pieces) \o VotesOf(pieces)
<1>1. PlanCompact(active, targets, nonce).calls = calls
  BY DEF PlanCompact
<1>2. Identified(active) /\ \A n \in active : n.amount \in Int /\ n.end \in Nat
  BY DEF Known
<1>3. destination \in active
  <2> DEFINE order == Sorted(active, Descending)
  <2>1. order \in Seq(active) /\ Len(order) = Cardinality(active)
    BY <1>2, SortedDescending
  <2>2. Cardinality(active) \in Nat /\ Cardinality(active) # 0
    BY <1>2, FS_CardinalityType, FS_EmptySet DEF Identified
  <2> HIDE DEF order
  <2>3. order[1] \in active
    BY <2>1, <2>2
  <2> QED
    BY <2>3 DEF order
<1> HIDE DEF destination
<1>4. Len(targets) \in Nat /\ DOMAIN targets = 1 .. Len(targets)
      /\ \A i \in DOMAIN targets : targets[i].weight \in Int
  BY SeqFacts DEF IsTargets
<1>5. \A i \in DOMAIN targets : amounts[i] \in Int
  <2> DEFINE stakes == [n \in active |-> n.amount]
             shares == [i \in DOMAIN targets |-> targets[i].weight]
  <2>1. stakes \in [active -> Int] /\ shares \in [DOMAIN targets -> Int]
    BY <1>2, <1>4
  <2>2. IsFiniteSet(active) /\ IsFiniteSet(DOMAIN targets)
    BY <1>2, <1>4, FS_Interval DEF Identified
  <2> HIDE DEF stakes, shares
  <2>3. Total(stakes) \in Int
    BY <2>1, <2>2, TotalType
  <2>4. Apportion(Total(stakes), shares, BpsTotal) \in [DOMAIN targets -> Int]
    BY <2>1, <2>2, <2>3, BpsAssumption, ApportionType
  <2>5. amounts = Apportion(Total(stakes), shares, BpsTotal)
    BY DEF ApportionAmounts, StakeOf, stakes, shares
  <2> HIDE DEF amounts
  <2> QED
    BY <2>4, <2>5
<1> HIDE DEF amounts, retained
<1>6. raw \in Seq(P)
  <2>1. ASSUME NEW i \in DOMAIN targets PROVE rawPiece(i) \in P
    <3>1. targets[i] \in Range(targets)
      BY DEF Range
    <3>2. MaxLock \in Nat
      BY LimitsAssumption
    <3> QED
      BY <1>5, <3>1, <3>2 DEF RawPieces
  <2> HIDE DEF rawPiece, P
  <2> QED
    BY <1>4, <2>1
<1> HIDE DEF raw
<1>7. IsPieces(pieces, ids, votes)
  BY <1>6, WithIdsType
<1> HIDE DEF pieces
<1>8. rest \in SUBSET active /\ Identified(rest)
  <2>1. rest \in SUBSET active
    OBVIOUS
  <2>2. IsFiniteSet(rest)
    BY <1>2, <2>1, FS_Subset DEF Identified
  <2> QED
    BY <1>2, <2>1, <2>2 DEF Identified
<1>9. \A n \in active : n = destination \/ n \in rest
  OBVIOUS
<1> HIDE DEF rest
<1>10. /\ Len(sources) \in Nat /\ DOMAIN sources = 1 .. Len(sources)
       /\ \A k \in DOMAIN sources : sources[k] \in rest
       /\ \A n \in rest : \E k \in DOMAIN sources : sources[k] = n
  BY <1>8, OrderById
<1> HIDE DEF sources
<1>11. /\ GoodCalls(extension, votes) /\ SafeAfter(extension, base, {}) /\ extension # <<>>
       /\ destination.id \in KeptBy(extension)
       /\ DOMAIN extension = 1 .. 1 /\ Len(extension) = 1 /\ Claims(extension[1])
       /\ extension[1].id = destination.id /\ extension[1].pool = destination.vote.pool
  <2> DEFINE c == ClaimExtendCall(destination, MaxLock)
  <2>1. /\ GoodCall(c, votes) /\ ~ Loses(c) /\ c.op = "claim_extend" /\ c.id = destination.id
        /\ c.pool = destination.vote.pool /\ Claims(c)
    BY LimitsAssumption DEF GoodCall, Loses, Claims, ClaimExtendCall
  <2>2. extension = <<c>>
    OBVIOUS
  <2> HIDE DEF c, extension
  <2>3. DOMAIN <<c>> = 1 .. 1 /\ Len(<<c>>) = 1 /\ <<c>>[1] = c
    OBVIOUS
  <2> QED
    BY <2>1, <2>2, <2>3, OneCall
<1> HIDE DEF extension
<1>12. /\ GoodCalls(merges, votes) /\ SafeAfter(merges, base, {} \cup KeptBy(extension)) /\ IsSeq(merges)
       /\ DOMAIN merges = DOMAIN sources
       /\ \A k \in DOMAIN sources : /\ Claims(merges[k]) /\ merges[k].id = sources[k].id
                                    /\ merges[k].pool = sources[k].vote.pool
  <2>1. DOMAIN merges = DOMAIN sources /\ \A k \in DOMAIN sources :
            /\ merges[k].op = "claim_merge" /\ merges[k].id = sources[k].id
            /\ merges[k].pool = sources[k].vote.pool
    BY DEF ClaimMergeCall
  <2>2. merges = [k \in 1 .. Len(sources) |-> merges[k]]
    BY <1>10
  <2> HIDE DEF merges
  <2>3. IsSeq(merges)
    BY <1>10, <2>2, FunctionSeq
  <2> QED
    BY <2>1, <2>3 DEF GoodCalls, GoodCall, SafeAfter, Loses, Claims
<1> HIDE DEF merges
<1>13. first = extension \o merges
  BY DEF Consolidate, extension, merges
<1> HIDE DEF first
<1>14. IsSeq(extension)
  BY <1>11 DEF GoodCalls
<1>15. /\ GoodCalls(first, votes) /\ SafeAfter(first, base, {}) /\ first # <<>>
       /\ ids \subseteq KeptBy(first)
  <2>1. KeptBy(first) = KeptBy(extension) \cup KeptBy(merges)
    BY <1>12, <1>13, <1>14, JoinedKept
  <2> QED
    BY <1>11, <1>12, <1>13, <1>14, <2>1, GoodJoin, SafeJoin, JoinedNotEmpty
<1>16. ClaimsAll(first, active)
  <2>1. /\ DOMAIN first = 1 .. (1 + Len(merges)) /\ first[1] = extension[1]
        /\ \A k \in 1 .. Len(merges) : first[1 + k] = merges[k]
    <3>1. IsSeq(merges)
      BY <1>12
    <3>2. Len(extension) = 1 /\ 1 \in 1 .. 1
      BY <1>11
    <3>3. /\ DOMAIN (extension \o merges) = 1 .. (Len(extension) + Len(merges))
          /\ \A k \in 1 .. Len(extension) : (extension \o merges)[k] = extension[k]
          /\ \A k \in 1 .. Len(merges) : (extension \o merges)[Len(extension) + k] = merges[k]
      BY ONLY <1>14, <3>1, JoinedSeq
    <3> QED
      BY ONLY <1>13, <3>2, <3>3
  <2>2. Len(merges) \in Nat /\ DOMAIN merges = 1 .. Len(merges)
    BY <1>12, SeqFacts
  <2>3. \A j \in DOMAIN first : Claims(first[j])
    <3>1. \A j \in DOMAIN first : j = 1 \/ (j - 1 \in 1 .. Len(merges) /\ j = 1 + (j - 1))
      BY <2>1, <2>2
    <3> QED
      BY <1>11, <1>12, <2>1, <2>2, <3>1
  <2>4. ASSUME NEW n \in active
        PROVE  \E k \in DOMAIN first : first[k].id = n.id /\ first[k].pool = n.vote.pool
    <3>1. CASE n = destination
      <4>1. 1 \in DOMAIN first
        BY <2>1, <2>2
      <4> QED
        BY <1>11, <2>1, <3>1, <4>1
    <3>2. CASE n \in rest
      <4>1. PICK k \in DOMAIN sources : sources[k] = n
        BY <1>10, <3>2
      <4>2. 1 + k \in DOMAIN first /\ first[1 + k] = merges[k]
        BY <1>12, <2>1, <2>2, <4>1
      <4> QED
        BY <1>12, <4>1, <4>2
    <3> QED
      BY <1>9, <3>1, <3>2
  <2>5. \A k \in DOMAIN first : \A j \in 1 .. k : j \in DOMAIN first
    BY <2>1, <2>2
  <2> QED
    BY <2>3, <2>4, <2>5 DEF ClaimsAll
<1>17. /\ GoodCalls(calls, votes) /\ calls # <<>> /\ SafeAfter(calls, base, {})
       /\ IsSeq(SplitsOf(pieces)) /\ IsSeq(VotesOf(pieces))
  <2> HIDE DEF ids
  <2> QED
    BY ONLY <1>7, <1>15, PiecesSafe
<1>18. ClaimsAll(calls, active)
  <2>1. IsSeq(first)
    BY <1>15 DEF GoodCalls
  <2>2. ClaimsAll(first \o SplitsOf(pieces), active) /\ IsSeq(first \o SplitsOf(pieces))
    BY <1>16, <1>17, <2>1, ClaimsJoin, JoinedSeq
  <2> QED
    BY <1>17, <2>2, ClaimsJoin
<1> HIDE DEF calls
<1> QED
  BY <1>1, <1>17, <1>18 DEF SafePlan

\* And so does a reallocation, whichever strategy it takes.
LEMMA ReallocationSafe ==
    ASSUME NEW votes, NEW p, IsPortfolio(p, votes), NEW targets, IsTargets(targets, votes),
           NEW strategy, NEW nonce \in Nat, NEW clock,
           PlanReallocation(strategy, p, targets, nonce, clock) # Refused
    PROVE  /\ SafePlan(PlanReallocation(strategy, p, targets, nonce, clock), p, votes)
           /\ ClaimsAll(PlanReallocation(strategy, p, targets, nonce, clock).calls, Active(p))
<1>1. Known(Active(p), p)
  BY NftsKnown DEF Active
<1>2. Active(p) # {}
  BY DEF PlanReallocation
<1>3. \/ /\ PlanReallocation(strategy, p, targets, nonce, clock) = PlanCompact(Active(p), targets, nonce)
         /\ PlanCompact(Active(p), targets, nonce) # Refused
      \/ /\ PlanReallocation(strategy, p, targets, nonce, clock) = PlanPreserve(Active(p), targets, nonce)
         /\ PlanPreserve(Active(p), targets, nonce) # Refused
  BY DEF PlanReallocation
<1> QED
  BY <1>1, <1>2, <1>3, CompactSafe, PreserveSafe

-------------------------------------------------------------------------------
(***************************************************************************)
(* What the pieces of a reallocation give each target                      *)
(***************************************************************************)

\* What a promise says is given to the NFTs that vote so.
Given(said, vote) ==
    Total([id \in {id \in DOMAIN said : said[id].vote = vote} |-> said[id].amount])

\* What a piece gives to a vote.
GivenTo(vote, ids, targets) ==
    [x \in RawPieces(ids, targets) |-> IF VoteOf(x.target) = vote THEN x.amount ELSE 0]

\* Pieces whose ids are all different.
IdsDiffer(pieces) == \A j, k \in DOMAIN pieces : pieces[j].id = pieces[k].id => j = k

\* Under ids of their own, the pieces promise what they give.
LEMMA PromisedSum ==
    ASSUME NEW ids, NEW votes, NEW targets, IsTargets(targets, votes), NEW nonce \in Nat,
           NEW raw \in Seq(RawPieces(ids, targets)), IdsDiffer(WithIds(raw, nonce)),
           NEW relative, NEW vote
    PROVE  Given(PromiseOf(WithIds(raw, nonce), relative), vote)
             = SeqSum(GivenTo(vote, ids, targets), raw)
<1> DEFINE P == RawPieces(ids, targets)
           w == GivenTo(vote, ids, targets)
           pieces == WithIds(raw, nonce)
           said == PromiseOf(pieces, relative)
           D == DOMAIN raw
           S == {k \in D : pieces[k].vote = vote}
           T == {id \in DOMAIN said : said[id].vote = vote}
           f == [id \in T |-> said[id].amount]
           g == [k \in S |-> pieces[k].amount]
           h == [k \in D |-> w[raw[k]]]
           name == [k \in S |-> pieces[k].id]
<1>1. /\ D = 1 .. Len(raw) /\ Len(raw) \in Nat /\ IsFiniteSet(D)
      /\ \A k \in D : raw[k] \in P /\ raw[k].amount \in Int
  <2> HIDE DEF P
  <2>1. D = 1 .. Len(raw) /\ Len(raw) \in Nat /\ IsFiniteSet(D) /\ \A k \in D : raw[k] \in P
    BY SeqDomain DEF P
  <2> QED
    BY <2>1 DEF P, RawPieces
<1>2. /\ DOMAIN pieces = D
      /\ \A k \in D : pieces[k].amount = raw[k].amount /\ pieces[k].vote = VoteOf(raw[k].target)
  BY DEF WithIds
<1>3. \A k \in D : h[k] = IF k \in S THEN pieces[k].amount ELSE 0
  BY <1>1, <1>2 DEF GivenTo
<1> HIDE DEF pieces
<1>4. /\ DOMAIN said = {pieces[k].id : k \in D}
      /\ \A k \in D : /\ said[pieces[k].id].vote = pieces[k].vote
                      /\ said[pieces[k].id].amount = pieces[k].amount
  <2>1. ASSUME NEW k \in D
        PROVE  pieces[k] = CHOOSE p \in ToSet(pieces) : p.id = pieces[k].id
    <3>1. pieces[k] \in ToSet(pieces)
      BY <1>2 DEF ToSet
    <3>2. \A p \in ToSet(pieces) : p.id = pieces[k].id => p = pieces[k]
      BY <1>2 DEF ToSet, IdsDiffer, pieces
    <3> QED
      BY <3>1, <3>2
  <2> QED
    BY <1>2, <2>1 DEF PromiseOf
<1> HIDE DEF said
<1>5. S \in SUBSET D /\ IsFiniteSet(S)
  <2>1. S \in SUBSET D
    OBVIOUS
  <2> QED
    BY <1>1, <2>1, FS_Subset
<1>6. \A k \in S : name[k] \in T /\ g[k] = f[name[k]] /\ g[k] \in Int
  BY <1>1, <1>2, <1>4
<1>7. \A j, k \in S : name[j] = name[k] => j = k
  BY <1>2 DEF IdsDiffer, pieces
<1>8. \A id \in T : \E k \in S : name[k] = id
  BY <1>4
<1>9. DOMAIN f = T
  OBVIOUS
<1>10. \A k \in D : h[k] = IF k \in S THEN g[k] ELSE 0
  BY <1>3
<1> HIDE DEF S, T, f, g, h, name
<1>11. \A id \in T : f[id] \in Int
  BY <1>6, <1>8
<1>12. SumOver(g, S) = SumOver(f, T)
  BY <1>5, <1>6, <1>7, <1>8, <1>11, SumRenamed
<1> HIDE DEF D
<1>13. SumOver(h, D) = SumOver(g, S)
  BY <1>1, <1>5, <1>6, <1>10, SumWithin
<1>14. Given(said, vote) = SumOver(f, T)
  BY <1>9 DEF Given, Total, SumOver, f, T
<1>15. SeqSum(w, raw) = SumOver(h, D)
  BY DEF SeqSum, h, D
<1> QED
  BY <1>12, <1>13, <1>14, <1>15 DEF said, pieces

\* Which NFT a piece is cut from, and the pieces that stay with it.
SourceOf(ids, targets) == [x \in RawPieces(ids, targets) |-> x.source]
Staying(ids, targets) == {x \in RawPieces(ids, targets) : ~ x.isNew}

\* One piece stays with an NFT and the new ones are numbered: ids of their own.
LEMMA PiecesApart ==
    ASSUME NEW ids, NEW targets, NEW nonce \in Nat, NEW raw \in Seq(RawPieces(ids, targets)),
           OncePer(SourceOf(ids, targets), Staying(ids, targets), raw),
           \A k \in DOMAIN raw : raw[k].isNew => WithIds(raw, nonce)[k].id \notin ids
    PROVE  IdsDiffer(WithIds(raw, nonce))
<1> DEFINE P == RawPieces(ids, targets)
           D == DOMAIN raw
           new(i) == {k \in 1 .. (i - 1) : raw[k].isNew}
           before(i) == Quantify(1 .. (i - 1), LAMBDA k : raw[k].isNew)
           pieces == WithIds(raw, nonce)
<1>1. D = 1 .. Len(raw) /\ Len(raw) \in Nat /\ \A k \in D : raw[k] \in P
  <2> HIDE DEF P
  <2> QED
    BY SeqDomain DEF P
<1>2. \A k \in D : raw[k].source \in ids /\ raw[k].isNew \in BOOLEAN
  BY <1>1 DEF RawPieces
<1>3. \A i : before(i) = Cardinality(new(i))
  BY DEF Quantify
<1>4. DOMAIN pieces = D
      /\ \A k \in D : pieces[k].id = IF raw[k].isNew THEN ChildId(nonce, before(k)) ELSE raw[k].source
  BY DEF WithIds
<1> HIDE DEF before, pieces
<1>5. \A i \in D : IsFiniteSet(new(i)) /\ Cardinality(new(i)) \in Nat
  <2> SUFFICES ASSUME NEW i \in D PROVE IsFiniteSet(new(i)) /\ Cardinality(new(i)) \in Nat
    OBVIOUS
  <2>1. i - 1 \in Nat /\ new(i) \in SUBSET (1 .. (i - 1))
    BY <1>1
  <2> HIDE DEF new
  <2> QED
    BY <2>1, IndicesFinite, FS_CardinalityType
<1>6. ASSUME NEW j \in D, NEW k \in D, raw[j].isNew, j < k
      PROVE  before(j) # before(k)
  <2>1. new(j) \in SUBSET new(k) /\ j \in new(k) /\ j \notin new(j)
    BY <1>1, <1>6
  <2> HIDE DEF new
  <2>2. Cardinality(new(j)) # Cardinality(new(k))
    BY <1>5, <2>1, FS_Subset
  <2> QED
    BY <1>3, <2>2
<1> HIDE DEF new
<1>7. ASSUME NEW j \in D, NEW k \in D, raw[j].isNew, raw[k].isNew, pieces[j].id = pieces[k].id
      PROVE  j = k
  <2>1. \A i \in D : before(i) \in Nat
    BY <1>3, <1>5
  <2>2. before(j) = before(k)
    <3>1. ChildId(nonce, before(j)) = ChildId(nonce, before(k))
      BY <1>4, <1>7
    <3>2. before(j) \in Nat /\ before(k) \in Nat
      BY <2>1
    <3> QED
      BY <3>1, <3>2 DEF ChildId
  <2> QED
    BY <1>1, <1>6, <1>7, <2>2
<1>8. ASSUME NEW j \in D, NEW k \in D, ~ raw[j].isNew, ~ raw[k].isNew, pieces[j].id = pieces[k].id
      PROVE  j = k
  <2>1. raw[j] \in Staying(ids, targets) /\ raw[k] \in Staying(ids, targets)
    BY <1>1, <1>8 DEF Staying
  <2>2. SourceOf(ids, targets)[raw[j]] = SourceOf(ids, targets)[raw[k]]
    BY <1>1, <1>4, <1>8 DEF SourceOf
  <2> QED
    BY <2>1, <2>2 DEF OncePer
<1>9. ASSUME NEW j \in D, NEW k \in D, raw[j].isNew, ~ raw[k].isNew
      PROVE  pieces[j].id # pieces[k].id
  BY <1>2, <1>4, <1>9 DEF pieces
<1> HIDE DEF D
<1>10. \A j, k \in D : pieces[j].id = pieces[k].id => j = k
  BY <1>2, <1>7, <1>8, <1>9
<1> QED
  BY <1>4, <1>10 DEF IdsDiffer, pieces

\* Targets that name different votes.
VotesApart(targets) == \A i, k \in DOMAIN targets : VoteOf(targets[i]) = VoteOf(targets[k]) => i = k

\* The pieces of one NFT.
CutPieces(n, chunks, targets) ==
    [i \in DOMAIN chunks[n.id] |->
        [source |-> n.id, amount |-> chunks[n.id][i].amount, end |-> n.end,
         target |-> targets[chunks[n.id][i].target],
         isNew |-> i # RetainedChunk(n, chunks[n.id], targets)]]

\* They give each target what the chunks do, and one at most stays.
LEMMA CutShares ==
    ASSUME NEW n, n.end \in Nat, NEW ids, n.id \in ids, NEW votes, NEW targets,
           IsTargets(targets, votes), VotesApart(targets),
           NEW chunks, chunks[n.id] \in Seq(Chunks(Len(targets)))
    PROVE  LET mine == CutPieces(n, chunks, targets)
           IN  /\ mine \in Seq(RawPieces(ids, targets))
               /\ \A i \in DOMAIN targets :
                     SeqSum(GivenTo(VoteOf(targets[i]), ids, targets), mine)
                       = Total(SharesOf(chunks[n.id], i))
               /\ OncePer(SourceOf(ids, targets), Staying(ids, targets), mine)
               /\ \A k \in DOMAIN mine : mine[k].source = n.id
<1> DEFINE cut == chunks[n.id]
           mine == CutPieces(n, chunks, targets)
           P == RawPieces(ids, targets)
           m == Len(targets)
<1>1. m \in Nat /\ DOMAIN targets = 1 .. m
  BY SeqFacts DEF IsTargets
<1>2. /\ Len(cut) \in Nat /\ DOMAIN cut = 1 .. Len(cut)
      /\ \A k \in DOMAIN cut : cut[k] \in Chunks(m)
  <2> DEFINE C == Chunks(m)
  <2>1. cut \in Seq(C)
    OBVIOUS
  <2> HIDE DEF C, cut
  <2> QED
    BY <2>1, SeqDomain DEF C
<1>3. \A k \in DOMAIN cut : cut[k].target \in DOMAIN targets /\ cut[k].amount \in Int
  BY <1>1, <1>2 DEF Chunks
<1>4. /\ DOMAIN mine = DOMAIN cut
      /\ \A k \in DOMAIN cut : /\ mine[k].source = n.id /\ mine[k].amount = cut[k].amount
                               /\ mine[k].target = targets[cut[k].target]
                               /\ mine[k].isNew = (k # RetainedChunk(n, cut, targets))
                               /\ mine[k] \in P
  <2> SUFFICES ASSUME NEW k \in DOMAIN cut
               PROVE  /\ mine[k].source = n.id /\ mine[k].amount = cut[k].amount
                      /\ mine[k].target = targets[cut[k].target]
                      /\ mine[k].isNew = (k # RetainedChunk(n, cut, targets))
                      /\ mine[k] \in P
    BY DEF CutPieces
  <2>1. targets[cut[k].target] \in Range(targets)
    BY <1>3 DEF Range
  <2>2. mine[k] = [source |-> n.id, amount |-> cut[k].amount, end |-> n.end,
                   target |-> targets[cut[k].target], isNew |-> k # RetainedChunk(n, cut, targets)]
    BY DEF CutPieces
  <2>3. (k # RetainedChunk(n, cut, targets)) \in BOOLEAN
    OBVIOUS
  <2> HIDE DEF mine, cut
  <2> QED
    BY <1>3, <2>1, <2>2, <2>3 DEF RawPieces
<1>5. mine \in Seq(P)
  <2>1. mine = [k \in 1 .. Len(cut) |-> mine[k]]
    BY <1>2 DEF CutPieces
  <2> HIDE DEF mine, P, cut
  <2>2. \A k \in 1 .. Len(cut) : mine[k] \in P
    BY <1>2, <1>4
  <2> QED
    BY <1>2, <2>1, <2>2
<1> HIDE DEF cut, mine
<1>6. ASSUME NEW i \in DOMAIN targets
      PROVE  SeqSum(GivenTo(VoteOf(targets[i]), ids, targets), mine) = Total(SharesOf(cut, i))
  <2> DEFINE w == GivenTo(VoteOf(targets[i]), ids, targets)
             f == [k \in DOMAIN mine |-> w[mine[k]]]
             g == SharesOf(cut, i)
  <2>1. \A k \in DOMAIN cut : w[mine[k]] = IF cut[k].target = i THEN cut[k].amount ELSE 0
    BY <1>3, <1>4 DEF GivenTo, VotesApart
  <2>2. f = g
    BY <1>4, <2>1 DEF SharesOf
  <2>3. DOMAIN g = DOMAIN mine
    BY <1>4 DEF SharesOf
  <2>4. SeqSum(w, mine) = SumOver(f, DOMAIN mine)
    BY DEF SeqSum
  <2>5. Total(g) = SumOver(g, DOMAIN g)
    BY DEF Total, SumOver
  <2> HIDE DEF f, g
  <2>6. SumOver(f, DOMAIN mine) = SumOver(g, DOMAIN g)
    BY <2>2, <2>3
  <2> QED
    BY <2>4, <2>5, <2>6 DEF g
<1>7. OncePer(SourceOf(ids, targets), Staying(ids, targets), mine)
  <2>1. \A k \in DOMAIN mine : mine[k] \in Staying(ids, targets) => k = RetainedChunk(n, cut, targets)
    BY <1>4 DEF Staying
  <2> QED
    BY <2>1 DEF OncePer
<1> QED
  BY <1>4, <1>5, <1>6, <1>7 DEF cut, mine

\* Pieces of these NFTs that give each target its apportioned share of their stake, and
\* leave each NFT at most one of them.
Serves(cut, ns, ids, targets) ==
    /\ cut \in Seq(RawPieces(ids, targets))
    /\ \A i \in DOMAIN targets :
          SeqSum(GivenTo(VoteOf(targets[i]), ids, targets), cut)
            = ApportionAmounts(StakeOf(ns), targets)[i]
    /\ OncePer(SourceOf(ids, targets), Staying(ids, targets), cut)
    /\ \A x \in Range(cut) : \E n \in ns : x.source = n.id

\* The pieces of a cohort do.
LEMMA CohortShares ==
    ASSUME NEW ns, IsCohort(ns), \A n \in ns : n.end \in Nat, NEW ids, \A n \in ns : n.id \in ids,
           NEW cohort \in Seq(ns), Range(cohort) = ns,
           \A j, k \in DOMAIN cohort : cohort[j] = cohort[k] => j = k,
           NEW votes, NEW targets, IsTargets(targets, votes), Weighted(targets), VotesApart(targets)
    PROVE  Serves(CohortPieces(cohort, targets), ns, ids, targets)
<1> DEFINE P == RawPieces(ids, targets)
           m == Len(targets)
           due == ApportionAmounts(StakeOf(ns), targets)
           chunks == AllocateCohort(ns, targets)
           seqs == [k \in DOMAIN cohort |-> CutPieces(cohort[k], chunks, targets)]
           cut == CohortPieces(cohort, targets)
           key == SourceOf(ids, targets)
           marked == Staying(ids, targets)
<1>1. m \in Nat /\ DOMAIN targets = 1 .. m
  BY SeqFacts DEF IsTargets
<1>2. /\ DOMAIN cohort = 1 .. Len(cohort) /\ Len(cohort) \in Nat /\ IsFiniteSet(DOMAIN cohort)
      /\ \A k \in DOMAIN cohort : cohort[k] \in ns
  BY SeqDomain
<1>3. PICK st : /\ Placed(st, ns, m, due) /\ Unserved(st) = {} /\ chunks = st.chunks
  BY AllocateCohortPlaces
<1>4. /\ \A n \in ns : chunks[n.id] \in Seq(Chunks(m))
      /\ \A i \in 1 .. m : /\ Got(st, ns, i) = due[i]
                           /\ \A n \in ns : Total(SharesOf(chunks[n.id], i)) \in Int
  <2>1. st \in Divisions(Ids(ns), m)
    BY <1>3 DEF Placed
  <2>2. /\ st.demand \in [1 .. m -> Int]
        /\ \A n \in ns : /\ st.chunks[n.id] \in Seq(Chunks(m))
                         /\ \A i \in 1 .. m : Total(SharesOf(st.chunks[n.id], i)) \in Int
    BY <1>1, <2>1, DivisionTypes
  <2>3. ASSUME NEW i \in 1 .. m PROVE Got(st, ns, i) = due[i]
    <3>1. st.demand[i] = 0
      BY <1>3, <2>2 DEF Unserved
    <3>2. Got(st, ns, i) + st.demand[i] = due[i]
      BY <1>3 DEF Placed
    <3>3. Got(st, ns, i) \in Int
      <4> DEFINE f == [n \in ns |-> Total(SharesOf(st.chunks[n.id], i))]
      <4>1. \A n \in ns : f[n] \in Int
        BY <2>2
      <4>2. Got(st, ns, i) = SumOver(f, ns)
        BY DEF Got
      <4>3. IsFiniteSet(ns)
        BY CohortFacts
      <4> HIDE DEF f
      <4> QED
        BY <4>1, <4>2, <4>3, SumType
    <3> QED
      BY <3>1, <3>2, <3>3
  <2> QED
    BY <1>3, <2>2, <2>3
<1>5. cut = FlattenSeq(seqs)
  <2>1. ToSet(cohort) = ns
    BY DEF ToSet, Range
  <2> QED
    BY <2>1 DEF CohortPieces, CutPieces
<1> HIDE DEF chunks, due
<1>6. DOMAIN seqs = DOMAIN cohort /\ \A k \in DOMAIN cohort :
         /\ seqs[k] \in Seq(P) /\ OncePer(key, marked, seqs[k])
         /\ \A i \in DOMAIN targets : SeqSum(GivenTo(VoteOf(targets[i]), ids, targets), seqs[k])
                                        = Total(SharesOf(chunks[cohort[k].id], i))
         /\ \A x \in Range(seqs[k]) : x.source = cohort[k].id
  <2> SUFFICES ASSUME NEW k \in DOMAIN cohort
               PROVE  LET mine == CutPieces(cohort[k], chunks, targets) IN
                      /\ mine \in Seq(P) /\ OncePer(key, marked, mine)
                      /\ \A i \in DOMAIN targets : SeqSum(GivenTo(VoteOf(targets[i]), ids, targets), mine)
                                                     = Total(SharesOf(chunks[cohort[k].id], i))
                      /\ \A x \in Range(mine) : x.source = cohort[k].id
    OBVIOUS
  <2>1. cohort[k].end \in Nat /\ cohort[k].id \in ids /\ chunks[cohort[k].id] \in Seq(Chunks(Len(targets)))
    BY <1>2, <1>4
  <2> QED
    BY <2>1, CutShares DEF Range
<1>7. seqs \in Seq(Seq(P))
  <2>1. seqs = [k \in 1 .. Len(cohort) |-> seqs[k]]
    BY <1>2
  <2> HIDE DEF seqs, P
  <2> QED
    BY <1>2, <1>6, <2>1
<1> HIDE DEF seqs, P, key, marked, cut
<1>8. cut \in Seq(P) /\ \A x \in Range(cut) : \E k \in DOMAIN seqs : x \in Range(seqs[k])
  BY <1>5, <1>7, FlattenRange
<1>9. ASSUME NEW i \in DOMAIN targets
      PROVE  SeqSum(GivenTo(VoteOf(targets[i]), ids, targets), cut) = due[i]
  <2> DEFINE w == GivenTo(VoteOf(targets[i]), ids, targets)
             total == [k \in DOMAIN cohort |-> Total(SharesOf(chunks[cohort[k].id], i))]
             f == [n \in ns |-> Total(SharesOf(chunks[n.id], i))]
  <2>1. \A x \in P : w[x] \in Int
    BY DEF GivenTo, P, RawPieces
  <2>2. \A k \in DOMAIN seqs : total[k] = SeqSum(w, seqs[k])
    BY <1>6
  <2>3. /\ \A n \in ns : f[n] \in Int
        /\ \A k \in DOMAIN cohort : total[k] = f[cohort[k]]
    BY <1>1, <1>2, <1>4
  <2>4. Got(st, ns, i) = SumOver(f, ns)
    BY <1>3 DEF Got
  <2> HIDE DEF w, total, f
  <2>5. SeqSum(w, FlattenSeq(seqs)) = SumOver(total, DOMAIN seqs)
    BY <1>7, <2>1, <2>2, FlattenSum
  <2>6. \A n \in ns : \E k \in DOMAIN cohort : cohort[k] = n
    BY DEF Range
  <2>7. SumOver(total, DOMAIN cohort) = SumOver(f, ns)
    <3> DEFINE D == DOMAIN cohort
    <3>1. /\ IsFiniteSet(D)
          /\ \A k \in D : cohort[k] \in ns /\ total[k] = f[cohort[k]]
          /\ \A j, k \in D : cohort[j] = cohort[k] => j = k
          /\ \A n \in ns : \E k \in D : cohort[k] = n
      BY <1>2, <2>3, <2>6
    <3> HIDE DEF D
    <3>2. SumOver(total, D) = SumOver(f, ns)
      BY <2>3, <3>1, SumRenamed
    <3> QED
      BY <3>2 DEF D
  <2> QED
    BY <1>1, <1>4, <1>5, <1>6, <2>4, <2>5, <2>7 DEF w
<1>10. OncePer(key, marked, cut)
  <2>1. ASSUME NEW j \in DOMAIN seqs, NEW k \in DOMAIN seqs,
               NEW x \in Range(seqs[j]), NEW y \in Range(seqs[k]),
               x \in marked, y \in marked, key[x] = key[y]
        PROVE  j = k
    <3>1. key[x] = x.source /\ key[y] = y.source
      BY <2>1 DEF key, marked, SourceOf, Staying
    <3>2. cohort[j].id = cohort[k].id /\ cohort[j] \in ns /\ cohort[k] \in ns
      BY <1>2, <1>6, <2>1, <3>1
    <3>3. cohort[j] = cohort[k]
      BY <3>2, CohortFacts
    <3> QED
      BY <1>6, <3>3
  <2> QED
    BY <1>5, <1>6, <1>7, <2>1, FlattenOnce
<1>11. \A x \in Range(cut) : \E n \in ns : x.source = n.id
  BY <1>2, <1>6, <1>8
<1> QED
  BY <1>8, <1>9, <1>10, <1>11 DEF Serves, P, key, marked, cut, due

\* Each new piece is split off.
LEMMA SplitChildren ==
    ASSUME NEW votes, NEW ids, NEW pieces, IsPieces(pieces, ids, votes), NEW first, IsSeq(first),
           NEW i \in DOMAIN pieces, pieces[i].isNew
    PROVE  LET calls == first \o SplitsOf(pieces) \o VotesOf(pieces)
           IN  \E k \in DOMAIN calls : calls[k].op = "split" /\ calls[k].child = pieces[i].id
<1> DEFINE S == {j \in DOMAIN pieces : pieces[j].isNew}
           new == Sorted(S, <)
           splits == SplitsOf(pieces)
           votings == VotesOf(pieces)
<1>1. Len(pieces) \in Nat /\ DOMAIN pieces = 1 .. Len(pieces)
  BY SeqFacts DEF IsPieces
<1>2. S \in SUBSET Int /\ IsFiniteSet(S) /\ i \in S
  <2>1. S \in SUBSET (1 .. Len(pieces)) /\ i \in S
    BY <1>1
  <2> HIDE DEF S
  <2> QED
    BY <1>1, <2>1, IndicesFinite
<1>3. splits = [k \in DOMAIN new |-> SplitCall(pieces[new[k]].source, pieces[new[k]].amount, pieces[new[k]].id)]
  BY DEF SplitsOf
<1> HIDE DEF S
<1>4. new \in Seq(S) /\ Range(new) = S
  BY <1>2, SortedNumbers
<1> HIDE DEF new, splits
<1>5. Len(new) \in Nat /\ DOMAIN new = 1 .. Len(new)
  BY <1>4
<1>6. PICK j \in DOMAIN new : new[j] = i
  BY <1>2, <1>4 DEF Range
<1>7. DOMAIN splits = 1 .. Len(new) /\ splits[j].op = "split" /\ splits[j].child = pieces[i].id
  BY <1>3, <1>5, <1>6 DEF SplitCall
<1>8. IsSeq(splits) /\ Len(splits) = Len(new)
  <2>1. splits = [k \in 1 .. Len(new) |-> splits[k]]
    BY <1>3, <1>5
  <2> QED
    BY <1>5, <2>1, FunctionSeq
<1>9. IsSeq(votings)
  <2>1. votings = [k \in 1 .. Len(pieces) |-> votings[k]]
    BY <1>1 DEF VotesOf
  <2> HIDE DEF votings
  <2> QED
    BY <1>1, <2>1, FunctionSeq
<1> HIDE DEF votings
<1> DEFINE ready == first \o splits
<1>10. /\ Len(first) + j \in DOMAIN ready /\ ready[Len(first) + j] = splits[j]
       /\ IsSeq(ready)
  <2>1. Len(first) \in Nat /\ j \in 1 .. Len(splits) /\ Len(splits) \in Nat
    BY <1>5, <1>6, <1>8, SeqFacts
  <2>2. /\ IsSeq(ready) /\ DOMAIN ready = 1 .. (Len(first) + Len(splits))
        /\ \A k \in 1 .. Len(splits) : ready[Len(first) + k] = splits[k]
    <3>1. IsSeq(first) /\ IsSeq(splits)
      BY <1>8
    <3> QED
      BY ONLY <3>1, JoinedSeq DEF ready
  <2> HIDE DEF ready
  <2> QED
    BY <2>1, <2>2
<1> HIDE DEF ready
<1>11. /\ Len(first) + j \in DOMAIN (ready \o votings)
       /\ (ready \o votings)[Len(first) + j] = splits[j]
  <2>1. DOMAIN ready = 1 .. Len(ready) /\ Len(ready) \in Nat /\ Len(votings) \in Nat
    BY <1>9, <1>10, SeqFacts
  <2>2. /\ DOMAIN (ready \o votings) = 1 .. (Len(ready) + Len(votings))
        /\ \A k \in 1 .. Len(ready) : (ready \o votings)[k] = ready[k]
    BY <1>9, <1>10, JoinedSeq
  <2> QED
    BY <1>10, <2>1, <2>2
<1> QED
  BY <1>7, <1>11 DEF ready, splits, votings

\* No NFT of a portfolio has the id a plan gives a new one.
NewIds(calls, base) ==
    \A k \in DOMAIN calls : calls[k].op = "split" => calls[k].child \notin DOMAIN base

\* Then the pieces of NFTs of the portfolio have ids of their own.
LEMMA PlannedApart ==
    ASSUME NEW base, NEW ids, ids \subseteq DOMAIN base, NEW votes, NEW targets, IsTargets(targets, votes),
           NEW nonce \in Nat, NEW raw \in Seq(RawPieces(ids, targets)),
           OncePer(SourceOf(ids, targets), Staying(ids, targets), raw),
           NEW first, IsSeq(first),
           LET pieces == WithIds(raw, nonce)
           IN  NewIds(first \o SplitsOf(pieces) \o VotesOf(pieces), base)
    PROVE  IdsDiffer(WithIds(raw, nonce))
<1> DEFINE pieces == WithIds(raw, nonce)
<1>1. IsPieces(pieces, ids, votes)
  BY WithIdsType
<1>2. DOMAIN pieces = DOMAIN raw /\ \A k \in DOMAIN raw : pieces[k].isNew = raw[k].isNew
  BY DEF WithIds
<1> HIDE DEF pieces
<1>3. ASSUME NEW k \in DOMAIN raw, raw[k].isNew PROVE pieces[k].id \notin ids
  <2> DEFINE calls == first \o SplitsOf(pieces) \o VotesOf(pieces)
  <2>1. k \in DOMAIN pieces /\ pieces[k].isNew
    BY <1>2, <1>3
  <2>2. PICK j \in DOMAIN calls : calls[j].op = "split" /\ calls[j].child = pieces[k].id
    BY <1>1, <2>1, SplitChildren
  <2>3. NewIds(calls, base)
    BY DEF pieces
  <2> HIDE DEF calls
  <2> QED
    BY <2>2, <2>3 DEF NewIds
<1> QED
  BY <1>3, PiecesApart DEF pieces

\* The cohorts are the NFTs whose locks end together, each NFT in one.
LEMMA CohortsOf ==
    ASSUME NEW active, IsCohort(active), \A n \in active : n.end \in Nat
    PROVE  LET cohorts == GroupByEndTime(active)
           IN  /\ Len(cohorts) \in Nat /\ DOMAIN cohorts = 1 .. Len(cohorts)
               /\ \A k \in DOMAIN cohorts :
                     LET ns == ToSet(cohorts[k])
                     IN  /\ ns \subseteq active /\ ns # {} /\ IsCohort(ns)
                         /\ cohorts[k] \in Seq(ns) /\ Range(cohorts[k]) = ns
                         /\ \A i, j \in DOMAIN cohorts[k] : cohorts[k][i] = cohorts[k][j] => i = j
               /\ \A j, k \in DOMAIN cohorts : \A n \in ToSet(cohorts[j]) :
                     n \in ToSet(cohorts[k]) => j = k
<1> DEFINE S == {n.end : n \in active}
           end == [n \in active |-> n.end]
           E == {end[n] : n \in active}
           ends == Sorted(S, <)
           cohorts == GroupByEndTime(active)
           together(e) == {n \in active : n.end = e}
<1>1. Identified(active) /\ IsFiniteSet(active) /\ \A n \in active : n.end \in Nat
  BY DEF IsCohort, Identified
<1>2. S \in SUBSET Int /\ IsFiniteSet(S)
  <2>1. S = E
    OBVIOUS
  <2>2. E \in SUBSET Int
    BY <1>1
  <2>3. IsFiniteSet(E)
    <3> HIDE DEF end
    <3> QED
      BY <1>1, ImageFinite
  <2> QED
    BY <2>1, <2>2, <2>3
<1>3. \A e \in S : \E n \in active : n.end = e
  OBVIOUS
<1>4. cohorts = [k \in DOMAIN ends |-> Sorted(together(ends[k]), ById)]
  BY DEF GroupByEndTime
<1> HIDE DEF S, cohorts
<1>5. /\ Len(ends) \in Nat /\ DOMAIN ends = 1 .. Len(ends)
      /\ \A k \in DOMAIN ends : ends[k] \in S
      /\ \A j, k \in DOMAIN ends : ends[j] = ends[k] => j = k
  <2>1. ends \in Seq(S) /\ \A j, k \in DOMAIN ends : j < k => ends[j] < ends[k]
    BY <1>2, SortedNumbers
  <2> HIDE DEF ends
  <2>2. Len(ends) \in Nat /\ DOMAIN ends = 1 .. Len(ends) /\ \A k \in DOMAIN ends : ends[k] \in S
    BY <2>1
  <2>3. \A k \in DOMAIN ends : ends[k] \in Int
    BY <1>2, <2>2
  <2>4. ASSUME NEW j \in DOMAIN ends, NEW k \in DOMAIN ends, ends[j] = ends[k] PROVE j = k
    <3>1. j \in Int /\ k \in Int /\ ends[j] \in Int /\ ends[k] \in Int
      BY <2>2, <2>3
    <3>2. (j < k => ends[j] < ends[k]) /\ (k < j => ends[k] < ends[j])
      BY <2>1
    <3> QED
      BY <2>4, <3>1, <3>2
  <2> QED
    BY <2>2, <2>4
<1> HIDE DEF ends
<1>6. DOMAIN cohorts = DOMAIN ends /\ Len(cohorts) = Len(ends)
      /\ \A k \in DOMAIN ends : cohorts[k] = Sorted(together(ends[k]), ById)
  BY <1>4, <1>5
<1>7. ASSUME NEW k \in DOMAIN cohorts
      PROVE  LET ns == together(ends[k])
             IN  /\ ToSet(cohorts[k]) = ns /\ ns \subseteq active /\ ns # {} /\ IsCohort(ns)
                 /\ cohorts[k] \in Seq(ns) /\ Range(cohorts[k]) = ns
                 /\ \A i, j \in DOMAIN cohorts[k] : cohorts[k][i] = cohorts[k][j] => i = j
  <2> DEFINE ns == together(ends[k])
             cohort == cohorts[k]
  <2>1. ns \in SUBSET active
    OBVIOUS
  <2>2. ns # {}
    BY <1>3, <1>5, <1>6
  <2>3. cohort = Sorted(ns, ById)
    BY <1>6
  <2> HIDE DEF ns, cohort
  <2>4. Identified(ns)
    BY <1>1, <2>1, FS_Subset DEF Identified
  <2>5. IsCohort(ns)
    BY <2>1, <2>4 DEF IsCohort
  <2>6. /\ cohort \in Seq(ns) /\ Range(cohort) = ns
        /\ \A i, j \in DOMAIN cohort : cohort[i] = cohort[j] => i = j
    BY <2>3, <2>4, SortedById
  <2>7. ToSet(cohort) = ns
    BY <2>6 DEF ToSet, Range
  <2> QED
    BY <2>1, <2>2, <2>5, <2>6, <2>7 DEF ns, cohort
<1>8. ASSUME NEW j \in DOMAIN cohorts, NEW k \in DOMAIN cohorts,
             NEW n \in ToSet(cohorts[j]), n \in ToSet(cohorts[k])
      PROVE  j = k
  <2>1. n \in together(ends[j]) /\ n \in together(ends[k])
    <3>1. ToSet(cohorts[j]) = together(ends[j]) /\ ToSet(cohorts[k]) = together(ends[k])
      BY <1>7
    <3> HIDE DEF together
    <3> QED
      BY <1>8, <3>1, Zenon
  <2>2. n.end = ends[j] /\ n.end = ends[k]
    BY <2>1
  <2> QED
    BY <1>5, <1>6, <2>2
<1> HIDE DEF together
<1>9. /\ Len(cohorts) \in Nat /\ DOMAIN cohorts = 1 .. Len(cohorts)
      /\ \A k \in DOMAIN cohorts :
            LET ns == ToSet(cohorts[k])
            IN  /\ ns \subseteq active /\ ns # {} /\ IsCohort(ns)
                /\ cohorts[k] \in Seq(ns) /\ Range(cohorts[k]) = ns
                /\ \A i, j \in DOMAIN cohorts[k] : cohorts[k][i] = cohorts[k][j] => i = j
  BY <1>5, <1>6, <1>7
<1> QED
  BY <1>8, <1>9 DEF cohorts

\* What the NFTs of each of these sets are to give a target, together.
Apportioned(parts, targets, i) ==
    Total([ns \in parts |-> ApportionAmounts(StakeOf(ns), targets)[i]])

\* preserveExistingLocksReallocationPlan gives each target its share of every cohort.
LEMMA PreserveShares ==
    ASSUME NEW base, NEW votes, NEW active, Known(active, base),
           NEW targets, IsTargets(targets, votes), Weighted(targets), VotesApart(targets),
           NEW nonce \in Nat, PlanPreserve(active, targets, nonce) # Refused,
           NewIds(PlanPreserve(active, targets, nonce).calls, base),
           NEW i \in DOMAIN targets
    PROVE  Given(PlanPreserve(active, targets, nonce).promise, VoteOf(targets[i]))
             = Apportioned({ToSet(c) : c \in ToSet(GroupByEndTime(active))}, targets, i)
<1> DEFINE ids == {n.id : n \in active}
           cohorts == GroupByEndTime(active)
           D == DOMAIN cohorts
           P == RawPieces(ids, targets)
           seqs == [k \in D |-> CohortPieces(cohorts[k], targets)]
           raw == FlattenSeq(seqs)
           pieces == WithIds(raw, nonce)
           first == ClaimsFirst(active, pieces)
           key == SourceOf(ids, targets)
           marked == Staying(ids, targets)
           w == GivenTo(VoteOf(targets[i]), ids, targets)
           parts == {ToSet(c) : c \in ToSet(cohorts)}
           f == [ns \in parts |-> ApportionAmounts(StakeOf(ns), targets)[i]]
           name == [k \in D |-> ToSet(cohorts[k])]
           total == [k \in D |-> f[name[k]]]
<1>1. IsCohort(active) /\ Identified(active) /\ (\A n \in active : n.end \in Nat)
      /\ ids \subseteq DOMAIN base /\ (\A n \in active : n.id \in ids)
  BY DEF Known, IsCohort
<1>2. /\ PlanPreserve(active, targets, nonce).calls = first \o SplitsOf(pieces) \o VotesOf(pieces)
      /\ PlanPreserve(active, targets, nonce).promise = PromiseOf(pieces, FALSE)
  BY DEF PlanPreserve
<1>3. /\ Len(cohorts) \in Nat /\ D = 1 .. Len(cohorts)
      /\ \A k \in D :
            LET ns == ToSet(cohorts[k])
            IN  /\ ns \subseteq active /\ ns # {} /\ IsCohort(ns)
                /\ cohorts[k] \in Seq(ns) /\ Range(cohorts[k]) = ns
                /\ \A a, b \in DOMAIN cohorts[k] : cohorts[k][a] = cohorts[k][b] => a = b
      /\ \A j, k \in D : \A n \in ToSet(cohorts[j]) : n \in ToSet(cohorts[k]) => j = k
  BY <1>1, CohortsOf
<1> HIDE DEF ids, cohorts
<1>4. ASSUME NEW k \in D
      PROVE  /\ seqs[k] \in Seq(P)
             /\ SeqSum(w, seqs[k]) = ApportionAmounts(StakeOf(name[k]), targets)[i]
             /\ ApportionAmounts(StakeOf(name[k]), targets)[i] \in Int
             /\ OncePer(key, marked, seqs[k])
             /\ \A x \in Range(seqs[k]) : \E n \in name[k] : x.source = n.id
  <2> DEFINE ns == ToSet(cohorts[k])
             cohort == cohorts[k]
             cut == CohortPieces(cohort, targets)
  <2>1. /\ IsCohort(ns) /\ (\A n \in ns : n.end \in Nat) /\ (\A n \in ns : n.id \in ids)
        /\ cohort \in Seq(ns) /\ Range(cohort) = ns
        /\ \A a, b \in DOMAIN cohort : cohort[a] = cohort[b] => a = b
    BY <1>1, <1>3
  <2>2. seqs[k] = cut /\ name[k] = ns
    OBVIOUS
  <2> HIDE DEF ns, cohort
  <2>3. /\ cut \in Seq(P)
        /\ SeqSum(w, cut) = ApportionAmounts(StakeOf(ns), targets)[i]
        /\ OncePer(key, marked, cut)
        /\ \A x \in Range(cut) : \E n \in ns : x.source = n.id
    <3>1. /\ cut \in Seq(P) /\ SeqSum(w, cut) = ApportionAmounts(StakeOf(ns), targets)[i]
          /\ OncePer(key, marked, cut) /\ \A x \in Range(cut) : \E n \in ns : x.source = n.id
      <4>1. Serves(cut, ns, ids, targets)
        BY <2>1, CohortShares
      <4> HIDE DEF cut
      <4> QED
        BY <4>1 DEF Serves
    <3> HIDE DEF cut
    <3> QED
      BY <3>1
  <2>4. ApportionAmounts(StakeOf(ns), targets)[i] \in Int
    <3>1. ApportionAmounts(StakeOf(ns), targets) \in [1 .. Len(targets) -> Nat]
      BY <2>1, DemandFair
    <3>2. i \in 1 .. Len(targets)
      BY SeqFacts DEF IsTargets
    <3> QED
      BY <3>1, <3>2
  <2> QED
    BY <2>2, <2>3, <2>4
<1>5. D = 1 .. Len(cohorts) /\ IsFiniteSet(D) /\ DOMAIN seqs = D
  BY <1>3, FS_Interval
<1>6. seqs \in Seq(Seq(P))
  <2>1. seqs = [k \in 1 .. Len(cohorts) |-> seqs[k]]
    BY <1>3
  <2> HIDE DEF seqs, P
  <2> QED
    BY <1>3, <1>4, <2>1
<1>7. /\ \A k \in D : name[k] \in parts /\ total[k] = f[name[k]]
      /\ \A ns \in parts : \E k \in D : name[k] = ns
      /\ \A k \in D : f[name[k]] = ApportionAmounts(StakeOf(name[k]), targets)[i]
      /\ DOMAIN f = parts
  <2>1. \A k \in D : cohorts[k] \in ToSet(cohorts)
    BY DEF ToSet
  <2>2. \A c \in ToSet(cohorts) : \E k \in D : cohorts[k] = c
    BY DEF ToSet
  <2> QED
    BY <2>1, <2>2
<1>8. \A j, k \in D : name[j] = name[k] => j = k
  BY <1>3
<1>9. \A j, k \in D : \A n \in name[j], l \in name[k] : n.id = l.id => j = k
  <2>1. \A j \in D : \A n \in name[j] : n \in active
    BY <1>3
  <2>2. \A n, l \in active : n.id = l.id => n = l
    BY <1>1 DEF Identified
  <2>3. \A j, k \in D : \A n \in name[j] : n \in name[k] => j = k
    BY <1>3
  <2> HIDE DEF name, D
  <2> QED
    BY <2>1, <2>2, <2>3
<1> HIDE DEF seqs, P, w, key, marked, parts, f, name, total, D
<1>10. SeqSum(w, raw) = SumOver(total, D)
  <2>1. \A x \in P : w[x] \in Int
    BY DEF GivenTo, P, w, RawPieces
  <2>2. \A k \in DOMAIN seqs : total[k] = SeqSum(w, seqs[k])
    BY <1>4, <1>5, <1>7
  <2> QED
    BY <1>5, <1>6, <2>1, <2>2, FlattenSum
<1>11. SumOver(total, D) = SumOver(f, parts)
  <2>1. \A ns \in parts : f[ns] \in Int
    BY <1>4, <1>7
  <2> QED
    <3>1. IsFiniteSet(D)
      BY <1>5
    <3> QED
      BY ONLY <1>7, <1>8, <2>1, <3>1, SumRenamed
<1>12. OncePer(key, marked, raw)
  <2>1. ASSUME NEW j \in DOMAIN seqs, NEW k \in DOMAIN seqs,
               NEW x \in Range(seqs[j]), NEW y \in Range(seqs[k]),
               x \in marked, y \in marked, key[x] = key[y]
        PROVE  j = k
    <3>1. x.source = y.source
      BY <2>1 DEF key, marked, SourceOf, Staying
    <3>2. PICK n \in name[j], l \in name[k] : x.source = n.id /\ y.source = l.id
      BY <1>4, <1>5, <2>1
    <3> QED
      BY <1>5, <1>9, <3>1, <3>2
  <2>2. \A k \in DOMAIN seqs : OncePer(key, marked, seqs[k])
    BY <1>4, <1>5
  <2> QED
    BY <1>6, <2>1, <2>2, FlattenOnce
<1>13. raw \in Seq(P)
  BY <1>6, FlattenRange
<1> HIDE DEF raw
<1>14. IsSeq(first)
  <2> DEFINE order == Sorted(active, ById)
             each == [k \in DOMAIN order |-> ClaimCall(order[k])]
  <2>1. GoodCalls(each, votes)
    BY <1>1, ClaimsOfAll
  <2>2. first = each
    BY DEF ClaimsFirst
  <2> HIDE DEF each, first
  <2> QED
    BY <2>1, <2>2 DEF GoodCalls
<1> HIDE DEF first
<1>15. IdsDiffer(pieces)
  <2>1. NewIds(first \o SplitsOf(pieces) \o VotesOf(pieces), base)
    BY <1>2
  <2> QED
    BY <1>1, <1>12, <1>13, <1>14, <2>1, PlannedApart DEF P, key, marked
<1>16. Given(PromiseOf(pieces, FALSE), VoteOf(targets[i])) = SeqSum(w, raw)
  <2>1. raw \in Seq(RawPieces(ids, targets))
    BY <1>13 DEF P
  <2>2. \A relative : Given(PromiseOf(pieces, relative), VoteOf(targets[i])) = SeqSum(w, raw)
    BY <1>15, <2>1, PromisedSum DEF w
  <2> HIDE DEF pieces, w
  <2> QED
    BY <2>2, Zenon
<1>17. Apportioned(parts, targets, i) = SumOver(f, parts)
  BY <1>7 DEF Apportioned, Total, SumOver, f
<1> QED
  BY <1>2, <1>10, <1>11, <1>16, <1>17 DEF parts, cohorts

\* compactMaxLockReallocationPlan gives each target its share of everything.
LEMMA CompactShares ==
    ASSUME NEW base, NEW votes, NEW active, Known(active, base), active # {},
           NEW targets, IsTargets(targets, votes), Weighted(targets), VotesApart(targets),
           NEW nonce \in Nat, PlanCompact(active, targets, nonce) # Refused,
           NewIds(PlanCompact(active, targets, nonce).calls, base),
           NEW i \in DOMAIN targets
    PROVE  Given(PlanCompact(active, targets, nonce).promise, VoteOf(targets[i]))
             = Apportioned({active}, targets, i)
<1> DEFINE destination == Sorted(active, Descending)[1]
           rest == active \ {destination}
           sources == Sorted(rest, ById)
           amounts == ApportionAmounts(StakeOf(active), targets)
           retained == CHOOSE j \in DOMAIN targets : \A k \in DOMAIN targets :
                          amounts[j] > amounts[k] \/ (amounts[j] = amounts[k] /\ j <= k)
           rawPiece(j) == [source |-> destination.id, amount |-> amounts[j], end |-> MaxLock,
                           target |-> targets[j], isNew |-> j # retained]
           raw == [j \in DOMAIN targets |-> rawPiece(j)]
           ids == {destination.id}
           D == DOMAIN targets
           P == RawPieces(ids, targets)
           pieces == WithIds(raw, nonce)
           first == Consolidate(destination, sources)
           w == GivenTo(VoteOf(targets[i]), ids, targets)
           h == [k \in DOMAIN raw |-> w[raw[k]]]
<1>1. /\ PlanCompact(active, targets, nonce).calls = first \o SplitsOf(pieces) \o VotesOf(pieces)
      /\ PlanCompact(active, targets, nonce).promise = PromiseOf(pieces, TRUE)
  BY DEF PlanCompact
<1>2. IsCohort(active) /\ Identified(active) /\ \A n \in active : n.amount \in Int /\ n.id \in DOMAIN base
  BY DEF Known, IsCohort
<1>3. destination \in active
  <2> DEFINE order == Sorted(active, Descending)
  <2>1. order \in Seq(active) /\ Len(order) = Cardinality(active)
    BY <1>2, SortedDescending
  <2>2. Cardinality(active) \in Nat /\ Cardinality(active) # 0
    BY <1>2, FS_CardinalityType, FS_EmptySet DEF Identified
  <2> HIDE DEF order
  <2>3. order[1] \in active
    BY <2>1, <2>2
  <2> QED
    BY <2>3 DEF order
<1>4. IsSeq(first)
  <2> DEFINE c == ClaimExtendCall(destination, MaxLock)
             merges == [k \in DOMAIN sources |-> ClaimMergeCall(sources[k], destination)]
  <2>1. Identified(rest)
    BY <1>2, FS_Subset DEF Identified
  <2> HIDE DEF rest
  <2>2. Len(sources) \in Nat /\ DOMAIN sources = 1 .. Len(sources)
    BY <2>1, OrderById
  <2> HIDE DEF sources
  <2>3. merges = [k \in 1 .. Len(sources) |-> merges[k]]
    BY <2>2
  <2> HIDE DEF merges
  <2>4. IsSeq(merges)
    BY <2>2, <2>3, FunctionSeq
  <2> HIDE DEF c
  <2>5. <<c>> \in Seq({c})
    OBVIOUS
  <2>6. IsSeq(<<c>>)
    BY <2>5, AnySeq
  <2>7. IsSeq(<<c>> \o merges)
    BY <2>4, <2>6, JoinedSeq
  <2> QED
    BY <2>7 DEF Consolidate, c, merges
<1> HIDE DEF destination, rest, sources, first
<1>5. D = 1 .. Len(targets) /\ Len(targets) \in Nat /\ IsFiniteSet(D)
  BY SeqFacts, FS_Interval DEF IsTargets
<1>6. \A j \in D : amounts[j] \in Int
  <2>1. amounts \in [1 .. Len(targets) -> Nat]
    BY <1>2, DemandFair
  <2> HIDE DEF amounts
  <2> QED
    BY <1>5, <2>1
<1> HIDE DEF amounts, retained
<1>7. ASSUME NEW j \in D PROVE rawPiece(j) \in P
  <2>1. targets[j] \in Range(targets)
    BY DEF Range
  <2>2. MaxLock \in Nat /\ (j # retained) \in BOOLEAN
    BY LimitsAssumption
  <2> QED
    BY <1>6, <2>1, <2>2 DEF RawPieces
<1>8. DOMAIN raw = D /\ \A j \in D : /\ raw[j].amount = amounts[j] /\ raw[j].target = targets[j]
                                     /\ raw[j].isNew = (j # retained) /\ raw[j] \in P
  BY <1>7
<1>9. raw \in Seq(P)
  <2>1. raw = [j \in 1 .. Len(targets) |-> raw[j]]
    BY <1>5
  <2> HIDE DEF raw, P
  <2> QED
    BY <1>5, <1>8, <2>1
<1> HIDE DEF raw
<1>10. OncePer(SourceOf(ids, targets), Staying(ids, targets), raw)
  <2>1. \A j \in DOMAIN raw : raw[j] \in Staying(ids, targets) => j = retained
    BY <1>8 DEF Staying
  <2> QED
    BY <2>1 DEF OncePer
<1>11. IdsDiffer(pieces)
  <2>1. NewIds(first \o SplitsOf(pieces) \o VotesOf(pieces), base)
    BY <1>1
  <2>2. ids \subseteq DOMAIN base
    BY <1>2, <1>3
  <2> HIDE DEF ids
  <2> QED
    BY <1>4, <1>9, <1>10, <2>1, <2>2, PlannedApart
<1>12. Given(PromiseOf(pieces, TRUE), VoteOf(targets[i])) = SeqSum(w, raw)
  <2> HIDE DEF ids
  <2>1. raw \in Seq(RawPieces(ids, targets))
    BY <1>9
  <2>2. \A relative : Given(PromiseOf(pieces, relative), VoteOf(targets[i])) = SeqSum(w, raw)
    BY <1>11, <2>1, PromisedSum
  <2> HIDE DEF pieces, w
  <2> QED
    BY <2>2, Zenon
<1>13. \A j \in D : h[j] = IF j = i THEN amounts[i] ELSE 0
  BY <1>8 DEF GivenTo, VotesApart
<1>14. SeqSum(w, raw) = SumOver(h, D)
  BY <1>8 DEF SeqSum
<1> HIDE DEF h, w, pieces, ids, P, D
<1>15. SumOver(h, D) = amounts[i]
  <2>1. i \in D /\ \A j \in D : h[j] \in Int
    BY <1>6, <1>13 DEF D
  <2>2. SumOver(h, D) = h[i] + SumOver(h, D \ {i}) /\ SumOver(h, D \ {i}) \in Int
    BY <1>5, <2>1, SumSplit
  <2>3. D \ {i} \in SUBSET D
    OBVIOUS
  <2> DEFINE others == D \ {i}
  <2>4. IsFiniteSet(others) /\ \A j \in others : h[j] \in Int /\ h[j] = 0
    BY <1>5, <1>13, <2>1, <2>3, FS_Subset
  <2> HIDE DEF others
  <2>5. SumOver(h, others) = 0
    BY <2>4, SumZero
  <2> QED
    BY <1>6, <1>13, <2>1, <2>2, <2>5 DEF others
<1>16. Apportioned({active}, targets, i) = amounts[i]
  <2> DEFINE f == [ns \in {active} |-> ApportionAmounts(StakeOf(ns), targets)[i]]
             S == {active}
  <2>1. Apportioned({active}, targets, i) = SumOver(f, S)
    BY DEF Apportioned, Total, SumOver
  <2>2. IsFiniteSet(S) /\ active \in S /\ S \ {active} = {}
    BY FS_Singleton
  <2>3. f[active] = amounts[i] /\ f[active] \in Int /\ \A x \in S : x = active
    BY <1>6 DEF amounts, D
  <2> HIDE DEF f, S
  <2>4. SumOver(f, S) = f[active] + SumOver(f, S \ {active})
    BY <2>2, <2>3, SumSplit
  <2>5. SumOver(f, S \ {active}) = 0
    BY <2>2, SumEmpty
  <2> QED
    BY <2>1, <2>3, <2>4, <2>5
<1> QED
  BY <1>1, <1>12, <1>14, <1>15, <1>16

\* The NFTs whose stake is apportioned together, and a plan that gives each target its share.
Parts(tool, known) ==
    IF tool = "compact" THEN {Active(known)}
    ELSE {ToSet(c) : c \in ToSet(GroupByEndTime(Active(known)))}

GivesShares(p, base, known, targets) ==
    NewIds(p.calls, base) =>
        \A i \in DOMAIN targets :
            Given(p.promise, VoteOf(targets[i])) = Apportioned(Parts(p.tool, known), targets, i)

\* A reallocation is one, whichever strategy it takes.
LEMMA ReallocationShares ==
    ASSUME NEW votes, NEW p, IsPortfolio(p, votes), NEW targets, IsTargets(targets, votes),
           NEW strategy, NEW nonce \in Nat, NEW clock,
           PlanReallocation(strategy, p, targets, nonce, clock) # Refused
    PROVE  GivesShares(PlanReallocation(strategy, p, targets, nonce, clock), p, p, targets)
<1> DEFINE made == PlanReallocation(strategy, p, targets, nonce, clock)
           compact == PlanCompact(Active(p), targets, nonce)
           preserve == PlanPreserve(Active(p), targets, nonce)
<1>1. Known(Active(p), p)
  BY NftsKnown DEF Active
<1>2. Active(p) # {} /\ ValidTargets(targets)
  BY DEF PlanReallocation
<1>3. (made = compact /\ compact # Refused) \/ (made = preserve /\ preserve # Refused)
  BY DEF PlanReallocation
<1>4. Weighted(targets) /\ VotesApart(targets)
  BY <1>2 DEF ValidTargets, Weighted, VotesApart, IsTargets, IsSeq
<1>5. compact # Refused => compact.tool = "compact"
  BY DEF PlanCompact
<1>6. preserve # Refused => preserve.tool = "preserve"
  BY DEF PlanPreserve
<1> HIDE DEF made, compact, preserve
<1>7. ASSUME made = compact, compact # Refused, NewIds(made.calls, p), NEW i \in DOMAIN targets
      PROVE  Given(made.promise, VoteOf(targets[i])) = Apportioned(Parts(made.tool, p), targets, i)
  <2>1. NewIds(compact.calls, p)
    BY <1>7
  <2>2. Given(compact.promise, VoteOf(targets[i])) = Apportioned({Active(p)}, targets, i)
    BY <1>1, <1>2, <1>4, <1>7, <2>1, CompactShares DEF compact
  <2>3. Parts(made.tool, p) = {Active(p)}
    BY <1>5, <1>7 DEF Parts
  <2> QED
    BY <1>7, <2>2, <2>3, Zenon
<1>8. ASSUME made = preserve, preserve # Refused, NewIds(made.calls, p), NEW i \in DOMAIN targets
      PROVE  Given(made.promise, VoteOf(targets[i])) = Apportioned(Parts(made.tool, p), targets, i)
  <2>1. NewIds(preserve.calls, p)
    BY <1>8
  <2>2. Given(preserve.promise, VoteOf(targets[i])) = Apportioned({ToSet(c) : c \in ToSet(GroupByEndTime(Active(p)))}, targets, i)
    BY <1>1, <1>2, <1>4, <1>8, <2>1, PreserveShares DEF preserve
  <2>3. Parts(made.tool, p) = {ToSet(c) : c \in ToSet(GroupByEndTime(Active(p)))}
    BY <1>6, <1>8 DEF Parts
  <2> QED
    BY <1>8, <2>2, <2>3, Zenon
<1> QED
  BY <1>3, <1>7, <1>8 DEF made, GivesShares

-------------------------------------------------------------------------------
(***************************************************************************)
(* The indexer's pages                                                     *)
(***************************************************************************)

\* The rows of a page about these NFTs.
Rows(ids, votes) ==
    [id : ids, ours : BOOLEAN, amount : Nat \ {0}, end : Nat, stakeEnd : Nat,
     vote : votes \cup {NoVote}, keyed : BOOLEAN]

\* The rows of a table are those of the portfolio, each once.
LEMMA RowsType ==
    ASSUME NEW votes, NEW p, IsPortfolio(p, votes)
    PROVE  LET rows == RowsOf(p) IN
           /\ rows \in Seq(Rows(DOMAIN p, votes))
           /\ \A id \in DOMAIN p : \E k \in DOMAIN rows : rows[k].id = id
           /\ \A j, k \in DOMAIN rows : rows[j].id = rows[k].id => j = k
           /\ \A k \in DOMAIN rows : /\ rows[k].amount = p[rows[k].id].amount
                                     /\ rows[k].end = p[rows[k].id].end
                                     /\ rows[k].stakeEnd = rows[k].end
                                     /\ rows[k].vote = p[rows[k].id].vote
<1> DEFINE order == Sorted(DOMAIN p, <)
           row(k) == [id |-> order[k], ours |-> TRUE, amount |-> p[order[k]].amount,
                      end |-> p[order[k]].end, stakeEnd |-> p[order[k]].end,
                      vote |-> p[order[k]].vote, keyed |-> TRUE]
           rows == [k \in DOMAIN order |-> row(k)]
<1>1. RowsOf(p) = rows
  BY DEF RowsOf
<1>2. /\ Len(order) \in Nat /\ DOMAIN order = 1 .. Len(order)
      /\ \A k \in DOMAIN order : order[k] \in DOMAIN p
      /\ \A id \in DOMAIN p : \E k \in DOMAIN order : order[k] = id
      /\ \A j, k \in DOMAIN order : order[j] = order[k] => j = k
  <2>1. DOMAIN p \in SUBSET Int /\ IsFiniteSet(DOMAIN p)
    BY DEF IsPortfolio
  <2>2. /\ order \in Seq(DOMAIN p) /\ Range(order) = DOMAIN p
        /\ \A i, k \in DOMAIN order : i < k => order[i] < order[k]
    BY <2>1, SortedNumbers
  <2> HIDE DEF order
  <2>3. Len(order) \in Nat /\ DOMAIN order = 1 .. Len(order) /\ \A k \in DOMAIN order : order[k] \in DOMAIN p
    BY <2>2
  <2>4. \A id \in DOMAIN p : \E k \in DOMAIN order : order[k] = id
    BY <2>2 DEF Range
  <2>5. ASSUME NEW j \in DOMAIN order, NEW k \in DOMAIN order, order[j] = order[k] PROVE j = k
    <3>1. order[j] \in Int /\ order[k] \in Int /\ j \in Int /\ k \in Int
      BY <2>1, <2>3
    <3>2. (j < k => order[j] < order[k]) /\ (k < j => order[k] < order[j])
      BY <2>2
    <3> QED
      BY <2>5, <3>1, <3>2
  <2> QED
    BY <2>3, <2>4, <2>5
<1> HIDE DEF order
<1>3. \A k \in DOMAIN order : row(k) \in Rows(DOMAIN p, votes)
  BY <1>2 DEF Rows, IsPortfolio
<1>4. \A k \in DOMAIN order : /\ row(k).id = order[k] /\ row(k).amount = p[order[k]].amount
                              /\ row(k).end = p[order[k]].end /\ row(k).stakeEnd = row(k).end
                              /\ row(k).vote = p[order[k]].vote
  OBVIOUS
<1> HIDE DEF row
<1>5. rows \in Seq(Rows(DOMAIN p, votes)) /\ DOMAIN rows = DOMAIN order
      /\ \A k \in DOMAIN order : rows[k] = row(k)
  BY <1>2, <1>3
<1> HIDE DEF rows
<1> QED
  BY <1>1, <1>2, <1>4, <1>5

\* A sequence without one of its places is shorter.
LEMMA RemovedLength ==
    ASSUME NEW T, NEW s \in Seq(T), NEW k \in DOMAIN s
    PROVE  Len(RemoveAt(s, k)) # Len(s)
<1>1. Len(s) \in Nat /\ k \in 1 .. Len(s)
  OBVIOUS
<1>2. SubSeq(s, 1, k - 1) \in Seq(T) /\ Len(SubSeq(s, 1, k - 1)) = k - 1
  BY <1>1
<1>3. SubSeq(s, k + 1, Len(s)) \in Seq(T) /\ Len(SubSeq(s, k + 1, Len(s))) = Len(s) - k
  BY <1>1
<1>4. Len(SubSeq(s, 1, k - 1) \o SubSeq(s, k + 1, Len(s))) = (k - 1) + (Len(s) - k)
  BY <1>2, <1>3
<1> QED
  BY <1>1, <1>4 DEF RemoveAt

\* A page with all the rows shows the portfolio.
LEMMA RowsShowPortfolio ==
    ASSUME NEW votes, NEW p, IsPortfolio(p, votes)
    PROVE  PortfolioOf(RowsOf(p)) = p
<1> DEFINE rows == RowsOf(p)
           row(id) == CHOOSE r \in ToSet(rows) : r.id = id
<1>1. /\ rows \in Seq(Rows(DOMAIN p, votes))
      /\ \A id \in DOMAIN p : \E k \in DOMAIN rows : rows[k].id = id
      /\ \A k \in DOMAIN rows : /\ rows[k].amount = p[rows[k].id].amount
                                /\ rows[k].end = p[rows[k].id].end
                                /\ rows[k].vote = p[rows[k].id].vote
  BY RowsType
<1> HIDE DEF rows
<1>2. \A k \in DOMAIN rows : rows[k].id \in DOMAIN p
  <2>1. \A k \in DOMAIN rows : rows[k] \in Rows(DOMAIN p, votes)
    BY <1>1
  <2> QED
    BY <2>1 DEF Rows
<1>3. {rows[k].id : k \in DOMAIN rows} = DOMAIN p
  BY <1>1, <1>2
<1>4. ASSUME NEW id \in DOMAIN p
      PROVE  row(id).amount = p[id].amount /\ row(id).end = p[id].end /\ row(id).vote = p[id].vote
  <2>1. \E r \in ToSet(rows) : r.id = id
    BY <1>1 DEF ToSet
  <2>2. row(id) \in ToSet(rows) /\ row(id).id = id
    BY <2>1
  <2> HIDE DEF row
  <2>3. PICK k \in DOMAIN rows : rows[k] = row(id)
    BY <2>2 DEF ToSet
  <2> QED
    BY <1>1, <2>2, <2>3
<1>5. PortfolioOf(rows) = [id \in DOMAIN p |-> [amount |-> row(id).amount, vote |-> row(id).vote, end |-> row(id).end]]
  BY <1>3 DEF PortfolioOf
<1> HIDE DEF row
<1>6. \A id \in DOMAIN p : p[id] = [amount |-> row(id).amount, vote |-> row(id).vote, end |-> row(id).end]
  <2> SUFFICES ASSUME NEW id \in DOMAIN p
               PROVE  p[id] = [amount |-> row(id).amount, vote |-> row(id).vote, end |-> row(id).end]
    OBVIOUS
  <2>1. p[id] \in [amount : Nat \ {0}, end : Nat, vote : votes \cup {NoVote}]
    BY DEF IsPortfolio
  <2>2. p[id] = [amount |-> p[id].amount, vote |-> p[id].vote, end |-> p[id].end]
    BY <2>1
  <2> QED
    BY <1>4, <2>2
<1>7. p = [id \in DOMAIN p |-> p[id]]
  BY DEF IsPortfolio
<1> QED
  BY <1>5, <1>6, <1>7 DEF rows

\* What a page is, next to the rows of a page that shows everything.
LEMMA PageKinds ==
    ASSUME NEW p, NEW page \in Pages(p)
    PROVE  LET rows == RowsOf(p) IN
           \/ \E k \in DOMAIN rows : page = [rows |-> RemoveAt(rows, k), total |-> Len(rows)]
           \/ \E j, k \in DOMAIN rows : page = [rows |-> [rows EXCEPT ![k] = rows[j]], total |-> Len(rows)]
           \/ \E k \in DOMAIN rows : \E row \in Garbled(rows[k]) :
               page = [rows |-> [rows EXCEPT ![k] = row], total |-> Len(rows)]
           \/ page = [rows |-> rows, total |-> Len(rows)]
<1> DEFINE rows == RowsOf(p)
           full == [rows |-> rows, total |-> Len(rows)]
           garbled(k) == {[rows |-> [rows EXCEPT ![k] = row], total |-> Len(rows)] : row \in Garbled(rows[k])}
           parts == {garbled(k) : k \in DOMAIN rows}
<1>1. Pages(p) = Torn(rows) \cup (UNION parts) \cup {full}
  BY DEF Pages
<1> HIDE DEF rows
<1>2. Torn(rows) = {[rows |-> RemoveAt(rows, k), total |-> Len(rows)] : k \in DOMAIN rows}
                     \cup {[rows |-> [rows EXCEPT ![k] = rows[j]], total |-> Len(rows)] : j, k \in DOMAIN rows}
  BY DEF Torn
<1>3. page \in Torn(rows) =>
        \/ \E k \in DOMAIN rows : page = [rows |-> RemoveAt(rows, k), total |-> Len(rows)]
        \/ \E j, k \in DOMAIN rows : page = [rows |-> [rows EXCEPT ![k] = rows[j]], total |-> Len(rows)]
  BY <1>2
<1>4. ASSUME NEW part \in parts, page \in part
      PROVE  \E k \in DOMAIN rows : \E row \in Garbled(rows[k]) :
                 page = [rows |-> [rows EXCEPT ![k] = row], total |-> Len(rows)]
  <2>1. PICK k \in DOMAIN rows : part = garbled(k)
    OBVIOUS
  <2>2. page \in garbled(k)
    BY <1>4, <2>1
  <2> QED
    BY <2>2
<1> HIDE DEF parts, full
<1>5. page \in Torn(rows) \/ page = full \/ \E part \in parts : page \in part
  BY <1>1
<1> QED
  BY <1>3, <1>4, <1>5 DEF full, rows

\* loadVe33Portfolio accepts no page but one that shows the NFTs as the indexer has
\* them: a page that lost a row, repeats one, or holds one that contradicts itself
\* or is somebody else's, refuses the call.
THEOREM LoadIsHonest ==
    ASSUME NEW votes, NEW p, IsPortfolio(p, votes), NEW page \in Pages(p)
    PROVE  Load(page) = p \/ Load(page) = Refused
<1> DEFINE rows == RowsOf(p)
           seen == page.rows
<1>1. /\ rows \in Seq(Rows(DOMAIN p, votes))
      /\ \A j, k \in DOMAIN rows : rows[j].id = rows[k].id => j = k
      /\ \A k \in DOMAIN rows : rows[k].stakeEnd = rows[k].end
  BY RowsType
<1>2. PortfolioOf(rows) = p
  BY RowsShowPortfolio
<1>3. \/ \E k \in DOMAIN rows : page = [rows |-> RemoveAt(rows, k), total |-> Len(rows)]
      \/ \E j, k \in DOMAIN rows : page = [rows |-> [rows EXCEPT ![k] = rows[j]], total |-> Len(rows)]
      \/ \E k \in DOMAIN rows : \E row \in Garbled(rows[k]) :
             page = [rows |-> [rows EXCEPT ![k] = row], total |-> Len(rows)]
      \/ page = [rows |-> rows, total |-> Len(rows)]
  BY PageKinds
<1> HIDE DEF rows
<1>4. \A k \in DOMAIN rows : /\ rows[k].end \in Nat
                             /\ rows[k] \in Rows(DOMAIN p, votes)
  <2>1. \A k \in DOMAIN rows : rows[k] \in Rows(DOMAIN p, votes)
    BY <1>1
  <2> QED
    BY <2>1 DEF Rows
<1>5. \/ Load(page) = Refused
      \/ /\ Load(page) = PortfolioOf(seen) /\ Len(seen) = page.total
         /\ \A k \in DOMAIN seen : seen[k].ours /\ seen[k].stakeEnd = seen[k].end /\ seen[k].keyed
         /\ \A j, k \in DOMAIN seen : seen[j].id = seen[k].id => j = k
  <2>1. CASE Complete(page, MaxOwned)
    <3> DEFINE ids == [k \in DOMAIN seen |-> seen[k].id]
    <3>1. OwnedVe33Tokens(page) = seen
      BY <2>1 DEF OwnedVe33Tokens
    <3>2. \/ Load(page) = Refused
          \/ /\ Load(page) = PortfolioOf(seen)
             /\ \A k \in DOMAIN seen : seen[k].ours /\ seen[k].stakeEnd = seen[k].end /\ seen[k].keyed
             /\ IsInjective(ids)
      BY <3>1 DEF Load
    <3>3. IsInjective(ids) => \A j, k \in DOMAIN seen : seen[j].id = seen[k].id => j = k
      BY DEF IsInjective
    <3> QED
      BY <2>1, <3>2, <3>3 DEF Complete
  <2>2. CASE ~ Complete(page, MaxOwned)
    <3>1. OwnedVe33Tokens(page) = Refused
      BY <2>2 DEF OwnedVe33Tokens
    <3> QED
      BY <3>1 DEF Load
  <2> QED
    BY <2>1, <2>2
<1> SUFFICES ASSUME Load(page) # Refused PROVE Load(page) = p
  OBVIOUS
<1>6. /\ Load(page) = PortfolioOf(seen) /\ Len(seen) = page.total
      /\ \A k \in DOMAIN seen : seen[k].ours /\ seen[k].stakeEnd = seen[k].end /\ seen[k].keyed
      /\ \A j, k \in DOMAIN seen : seen[j].id = seen[k].id => j = k
  BY <1>5
<1>7. CASE page = [rows |-> rows, total |-> Len(rows)]
  BY <1>2, <1>6, <1>7
<1>8. ASSUME NEW k \in DOMAIN rows, page = [rows |-> RemoveAt(rows, k), total |-> Len(rows)]
      PROVE  FALSE
  <2>1. seen = RemoveAt(rows, k) /\ page.total = Len(rows)
    BY <1>8
  <2> QED
    BY <1>1, <1>6, <2>1, RemovedLength
<1>9. ASSUME NEW j \in DOMAIN rows, NEW k \in DOMAIN rows,
             page = [rows |-> [rows EXCEPT ![k] = rows[j]], total |-> Len(rows)]
      PROVE  seen = rows
  <2>1. seen = [rows EXCEPT ![k] = rows[j]]
    BY <1>9
  <2>2. rows = [i \in DOMAIN rows |-> rows[i]]
    BY <1>1
  <2>3. DOMAIN seen = DOMAIN rows /\ \A i \in DOMAIN rows : seen[i] = IF i = k THEN rows[j] ELSE rows[i]
    BY <2>1, <2>2
  <2>4. j = k
    BY <1>6, <2>3
  <2> QED
    BY <2>1, <2>2, <2>4
<1>10. ASSUME NEW k \in DOMAIN rows, NEW row \in Garbled(rows[k]),
              page = [rows |-> [rows EXCEPT ![k] = row], total |-> Len(rows)]
       PROVE  FALSE
  <2> DEFINE r == rows[k]
  <2>1. seen = [rows EXCEPT ![k] = row]
    BY <1>10
  <2>2. rows = [i \in DOMAIN rows |-> rows[i]]
    BY <1>1
  <2>3. k \in DOMAIN seen /\ seen[k] = row
    BY <2>1, <2>2
  <2>4. row.ours /\ row.stakeEnd = row.end /\ row.keyed
    BY <1>6, <2>3
  <2>5. r \in Rows(DOMAIN p, votes) /\ r.stakeEnd = r.end /\ r.end \in Nat
    BY <1>1, <1>4
  <2>6. \/ row = [r EXCEPT !.ours = FALSE, !.amount = @ + 1]
        \/ row = [r EXCEPT !.end = @ + 1]
        \/ row = [r EXCEPT !.keyed = FALSE]
        \/ row = [r EXCEPT !.keyed = FALSE, !.vote = NoVote]
    BY DEF Garbled
  <2> HIDE DEF r
  <2>7. ASSUME row = [r EXCEPT !.ours = FALSE, !.amount = @ + 1] PROVE row.ours = FALSE
    BY <2>5, <2>7 DEF Rows
  <2>8. ASSUME row = [r EXCEPT !.end = @ + 1] PROVE row.stakeEnd = r.end /\ row.end = r.end + 1
    BY <2>5, <2>8 DEF Rows
  <2>9. ASSUME row = [r EXCEPT !.keyed = FALSE] \/ row = [r EXCEPT !.keyed = FALSE, !.vote = NoVote]
        PROVE  row.keyed = FALSE
    BY <2>5, <2>9 DEF Rows
  <2> QED
    BY <2>4, <2>5, <2>6, <2>7, <2>8, <2>9
<1> QED
  BY <1>2, <1>3, <1>6, <1>7, <1>8, <1>9, <1>10

\* Rows with NFTs of p make a portfolio.
LEMMA PortfolioOfType ==
    ASSUME NEW votes, NEW ids \in SUBSET Nat, NEW rows \in Seq(Rows(ids, votes))
    PROVE  IsPortfolio(PortfolioOf(rows), votes)
<1> DEFINE R == Rows(ids, votes)
           name == [k \in DOMAIN rows |-> rows[k].id]
           D == {name[k] : k \in DOMAIN rows}
           row(id) == CHOOSE r \in ToSet(rows) : r.id = id
<1>1. IsFiniteSet(DOMAIN rows) /\ \A k \in DOMAIN rows : rows[k] \in R
  <2> HIDE DEF R
  <2> QED
    BY SeqDomain DEF R
<1>2. \A k \in DOMAIN rows : name[k] = rows[k].id /\ name[k] \in Nat
  BY <1>1 DEF Rows
<1>3. {rows[k].id : k \in DOMAIN rows} = D
  OBVIOUS
<1> HIDE DEF name
<1>4. IsFiniteSet(D) /\ D \subseteq Nat
  BY <1>1, <1>2, ImageFinite
<1>5. ASSUME NEW id \in D PROVE row(id) \in R
  <2>1. PICK k \in DOMAIN rows : name[k] = id
    OBVIOUS
  <2>2. \E r \in ToSet(rows) : r.id = id
    BY <1>2, <2>1 DEF ToSet
  <2>3. row(id) \in ToSet(rows)
    BY <2>2
  <2> HIDE DEF row, R
  <2> QED
    BY <1>1, <2>3 DEF ToSet
<1>6. PortfolioOf(rows) = [id \in D |-> [amount |-> row(id).amount, end |-> row(id).end, vote |-> row(id).vote]]
  BY <1>3 DEF PortfolioOf
<1> HIDE DEF D, row
<1>7. \A id \in D : [amount |-> row(id).amount, end |-> row(id).end, vote |-> row(id).vote]
                      \in [amount : Nat \ {0}, end : Nat, vote : votes \cup {NoVote}]
  BY <1>5 DEF Rows
<1> QED
  BY <1>4, <1>6, <1>7 DEF IsPortfolio

\* The votes a page shows, if they are accepted, are a portfolio.
LEMMA LoadVotesType ==
    ASSUME NEW votes, NEW p, IsPortfolio(p, votes), NEW page \in Pages(p)
    PROVE  LoadVotes(page) = Refused \/ IsPortfolio(LoadVotes(page), votes)
<1> DEFINE R == Rows(DOMAIN p, votes)
           rows == RowsOf(p)
           seen == page.rows
<1>1. rows \in Seq(R)
  BY RowsType
<1>2. \/ \E k \in DOMAIN rows : page = [rows |-> RemoveAt(rows, k), total |-> Len(rows)]
      \/ \E j, k \in DOMAIN rows : page = [rows |-> [rows EXCEPT ![k] = rows[j]], total |-> Len(rows)]
      \/ \E k \in DOMAIN rows : \E row \in Garbled(rows[k]) :
             page = [rows |-> [rows EXCEPT ![k] = row], total |-> Len(rows)]
      \/ page = [rows |-> rows, total |-> Len(rows)]
  BY PageKinds
<1> HIDE DEF rows
<1>3. ASSUME NEW k \in DOMAIN rows, NEW row \in R PROVE [rows EXCEPT ![k] = row] \in Seq(R)
  <2> HIDE DEF R
  <2> QED
    BY <1>1
<1>4. \A k \in DOMAIN rows : rows[k] \in R
  <2> HIDE DEF R
  <2> QED
    BY <1>1
<1>5. ASSUME NEW k \in DOMAIN rows, NEW row \in Garbled(rows[k]) PROVE row \in R
  <2> DEFINE r == rows[k]
  <2>1. r \in R
    BY <1>4
  <2>2. \/ row = [r EXCEPT !.ours = FALSE, !.amount = @ + 1]
        \/ row = [r EXCEPT !.end = @ + 1]
        \/ row = [r EXCEPT !.keyed = FALSE]
        \/ row = [r EXCEPT !.keyed = FALSE, !.vote = NoVote]
    BY DEF Garbled
  <2> HIDE DEF r, rows
  <2>3. ASSUME row = [r EXCEPT !.ours = FALSE, !.amount = @ + 1] PROVE row \in R
    <3> DEFINE more == r.amount + 1
    <3>1. r.amount \in Nat \ {0}
      BY <2>1 DEF Rows
    <3>2. more \in Nat \ {0}
      BY <3>1
    <3>3. row = [r EXCEPT !.ours = FALSE, !.amount = more]
      BY <2>3
    <3> HIDE DEF more
    <3> QED
      BY <2>1, <3>2, <3>3 DEF Rows
  <2>4. ASSUME row = [r EXCEPT !.end = @ + 1] PROVE row \in R
    BY <2>1, <2>4 DEF Rows
  <2>5. ASSUME row = [r EXCEPT !.keyed = FALSE] PROVE row \in R
    BY <2>1, <2>5 DEF Rows
  <2>6. ASSUME row = [r EXCEPT !.keyed = FALSE, !.vote = NoVote] PROVE row \in R
    BY <2>1, <2>6 DEF Rows
  <2> QED
    BY <2>2, <2>3, <2>4, <2>5, <2>6
<1>6. LoadVotes(page) # Refused => seen \in Seq(R)
  <2>1. CASE Complete(page, MaxOwned)
    <3>1. Len(seen) = page.total
      BY <2>1 DEF Complete
    <3> HIDE DEF R
    <3>2. ASSUME NEW k \in DOMAIN rows, page = [rows |-> RemoveAt(rows, k), total |-> Len(rows)]
          PROVE  FALSE
      <4>1. seen = RemoveAt(rows, k) /\ page.total = Len(rows)
        BY <3>2
      <4> QED
        BY <1>1, <3>1, <4>1, RemovedLength
    <3> QED
      BY <1>1, <1>2, <1>3, <1>4, <1>5, <3>2
  <2>2. CASE ~ Complete(page, MaxOwned)
    <3>1. OwnedVe33Tokens(page) = Refused
      BY <2>2 DEF OwnedVe33Tokens
    <3> QED
      BY <3>1 DEF LoadVotes
  <2> QED
    BY <2>1, <2>2
<1>7. LoadVotes(page) # Refused => LoadVotes(page) = PortfolioOf(Voted(OwnedVe33Tokens(page)))
  BY DEF LoadVotes
<1>8. LoadVotes(page) # Refused => OwnedVe33Tokens(page) = seen
  BY DEF LoadVotes, OwnedVe33Tokens
<1> SUFFICES ASSUME seen \in Seq(R) PROVE Voted(seen) \in Seq(R)
  <2>1. Voted(seen) \in Seq(R) /\ DOMAIN p \in SUBSET Nat => IsPortfolio(PortfolioOf(Voted(seen)), votes)
    BY PortfolioOfType
  <2> HIDE DEF R
  <2> QED
    BY <1>6, <1>7, <1>8, <2>1 DEF IsPortfolio
<1> DEFINE S == {k \in DOMAIN seen : seen[k].vote # NoVote}
           order == Sorted(S, <)
<1>9. Len(seen) \in Nat /\ DOMAIN seen = 1 .. Len(seen) /\ \A k \in DOMAIN seen : seen[k] \in R
  <2> HIDE DEF R, seen
  <2> QED
    BY SeqDomain
<1>10. S \in SUBSET (1 .. Len(seen))
  BY <1>9
<1>11. Voted(seen) = [i \in DOMAIN order |-> seen[order[i]]]
  BY DEF Voted
<1> HIDE DEF S, R, seen
<1>12. S \in SUBSET Int /\ IsFiniteSet(S)
  BY <1>9, <1>10, IndicesFinite
<1>13. order \in Seq(S)
  BY <1>12, SortedNumbers
<1> HIDE DEF order
<1>14. Len(order) \in Nat /\ DOMAIN order = 1 .. Len(order) /\ \A i \in DOMAIN order : order[i] \in S
  BY <1>13
<1> DEFINE voted == [i \in DOMAIN order |-> seen[order[i]]]
<1>15. \A i \in DOMAIN order : seen[order[i]] \in R
  BY <1>9, <1>10, <1>14
<1>16. voted \in Seq(R)
  BY <1>14, <1>15
<1> QED
  BY <1>11, <1>16


-------------------------------------------------------------------------------
(***************************************************************************)
(* The ledger, call by call                                                *)
(***************************************************************************)

\* Every vote an NFT may get.
AllVotes == Votes \cup {VoteOf(t) : t \in UNION {ToSet(l) : l \in TargetLists}}

Ledgers ==
    {t \in [nfts : UNION {[D -> Nfts] : D \in SUBSET Nat}, now : Nat, lost : SUBSET Nat] :
        IsFiniteSet(DOMAIN t.nfts)}

Pending(t, id) == id \in DOMAIN t.nfts /\ t.nfts[id].pending

\* u came of t without an NFT that has fees now and had none, or that votes in a
\* pool now and did not.
NoNewFees(t, u) == \A id : Pending(u, id) => Pending(t, id)
NoNewVotes(t, u) == \A id, pool : Chain!VotesIn(u, id, pool) => Chain!VotesIn(t, id, pool)

\* What it takes to be a ledger.
LEMMA LedgerMade ==
    ASSUME NEW D \in SUBSET Nat, IsFiniteSet(D), NEW f \in [D -> Nfts], NEW time \in Nat,
           NEW gone \in SUBSET Nat, NEW u, u = [nfts |-> f, now |-> time, lost |-> gone]
    PROVE  u \in Ledgers
<1>1. f \in UNION {[E -> Nfts] : E \in SUBSET Nat}
  OBVIOUS
<1>2. u.nfts = f /\ DOMAIN f = D
  OBVIOUS
<1>3. u \in [nfts : UNION {[E -> Nfts] : E \in SUBSET Nat}, now : Nat, lost : SUBSET Nat]
  BY <1>1
<1> QED
  BY <1>2, <1>3 DEF Ledgers

\* And what a ledger is made of.
LEMMA LedgerFacts ==
    ASSUME NEW t \in Ledgers
    PROVE  /\ DOMAIN t.nfts \in SUBSET Nat /\ IsFiniteSet(DOMAIN t.nfts)
           /\ t.nfts \in [DOMAIN t.nfts -> Nfts]
           /\ t.now \in Nat /\ t.lost \in SUBSET Nat
           /\ t = [nfts |-> t.nfts, now |-> t.now, lost |-> t.lost]
<1>1. t \in [nfts : UNION {[D -> Nfts] : D \in SUBSET Nat}, now : Nat, lost : SUBSET Nat]
      /\ IsFiniteSet(DOMAIN t.nfts)
  BY DEF Ledgers
<1>2. PICK D \in SUBSET Nat : t.nfts \in [D -> Nfts]
  BY <1>1
<1> QED
  BY <1>1, <1>2

\* The stake, the end, the vote, the owner and the fees of an NFT.
LEMMA NftFacts ==
    ASSUME NEW n
    PROVE  n \in Nfts <=>
               /\ n = [mine |-> n.mine, amount |-> n.amount, end |-> n.end,
                       pending |-> n.pending, vote |-> n.vote]
               /\ n.mine \in BOOLEAN /\ n.amount \in Nat \ {0} /\ n.end \in Nat
               /\ n.pending \in BOOLEAN /\ n.vote \in AllVotes \cup {NoVote}
BY DEF Nfts, AllVotes

\* One NFT of the ledger is replaced.
LEMMA OneChanged ==
    ASSUME NEW t \in Ledgers, NEW id \in DOMAIN t.nfts, NEW nft \in Nfts,
           NEW gone \in SUBSET Nat, NEW u,
           u = [nfts |-> [t.nfts EXCEPT ![id] = nft], now |-> t.now, lost |-> gone]
    PROVE  /\ u \in Ledgers
           /\ (nft.pending => t.nfts[id].pending) => NoNewFees(t, u)
           /\ nft.pending = FALSE => ~ Pending(u, id)
           /\ (nft.mine => t.nfts[id].mine) /\ nft.vote \in {t.nfts[id].vote, NoVote} => NoNewVotes(t, u)
<1>1. /\ DOMAIN t.nfts \in SUBSET Nat /\ IsFiniteSet(DOMAIN t.nfts)
      /\ t.nfts \in [DOMAIN t.nfts -> Nfts] /\ t.now \in Nat
  BY LedgerFacts
<1> DEFINE f == [t.nfts EXCEPT ![id] = nft]
<1>2. /\ f \in [DOMAIN t.nfts -> Nfts] /\ DOMAIN f = DOMAIN t.nfts /\ f[id] = nft
      /\ \A k \in DOMAIN t.nfts : k # id => f[k] = t.nfts[k]
  BY <1>1
<1>3. u.nfts = f
  OBVIOUS
<1>4. u = [nfts |-> f, now |-> t.now, lost |-> gone]
  OBVIOUS
<1> HIDE DEF f
<1>5. u \in Ledgers
  BY <1>1, <1>2, <1>4, LedgerMade
<1>6. (nft.pending => t.nfts[id].pending) => NoNewFees(t, u)
  BY <1>2, <1>3 DEF NoNewFees, Pending
<1>7. nft.pending = FALSE => ~ Pending(u, id)
  BY <1>2, <1>3 DEF Pending
<1>8. ASSUME nft.mine => t.nfts[id].mine, nft.vote \in {t.nfts[id].vote, NoVote}
      PROVE  NoNewVotes(t, u)
  BY <1>2, <1>3, <1>8 DEF NoNewVotes, Chain!VotesIn, Chain!Mine
<1> QED
  BY <1>5, <1>6, <1>7, <1>8

\* No fees are lost in u that were not in t, or those of id alone.
SameLosses(t, u) == u.lost = t.lost
Forfeits(t, u, id) == u.lost = IF Pending(t, id) THEN t.lost \cup {id} ELSE t.lost

\* What the ledger u that a call c makes of the ledger t has to do with t.
Effect(t, c, u) ==
    /\ u \in Ledgers
    /\ NoNewFees(t, u)
    /\ c.op \in {"claim", "claim_extend"} => ~ Pending(u, c.id)
    /\ c.op \in {"split", "stake"} => ~ Pending(u, c.child)
    /\ SameLosses(t, u) \/ (Loses(c) /\ Forfeits(t, u, c.id))
    /\ Claims(c) => Chain!VotesIn(t, c.id, c.pool) /\ NoNewVotes(t, u)

\* Setting a vote takes the fees of no other NFT.
LEMMA RevoteLedger ==
    ASSUME NEW t \in Ledgers, NEW id \in DOMAIN t.nfts, NEW vote \in AllVotes \cup {NoVote},
           NEW u, u = Chain!Revote(t, id, vote)
    PROVE  /\ u \in Ledgers /\ id \in DOMAIN u.nfts
           /\ NoNewFees(t, u) /\ ~ Pending(u, id) /\ Forfeits(t, u, id)
           /\ vote = NoVote => NoNewVotes(t, u)
<1>1. /\ DOMAIN t.nfts \in SUBSET Nat /\ t.nfts \in [DOMAIN t.nfts -> Nfts]
      /\ t.now \in Nat /\ t.lost \in SUBSET Nat
      /\ t = [nfts |-> t.nfts, now |-> t.now, lost |-> t.lost]
  BY LedgerFacts
<1> DEFINE n == t.nfts[id]
           nft == [mine |-> n.mine, amount |-> n.amount, end |-> n.end,
                   pending |-> FALSE, vote |-> vote]
           gone == IF n.pending THEN t.lost \cup {id} ELSE t.lost
<1>2. n \in Nfts
  BY <1>1
<1>3. /\ n = [mine |-> n.mine, amount |-> n.amount, end |-> n.end,
               pending |-> n.pending, vote |-> n.vote]
      /\ n.mine \in BOOLEAN /\ n.amount \in Nat \ {0} /\ n.end \in Nat
  BY <1>2, NftFacts
<1>4. nft \in Nfts
  BY <1>3, NftFacts
<1>5. gone \in SUBSET Nat
  BY <1>1
<1>6. [[n EXCEPT !.vote = vote] EXCEPT !.pending = FALSE] = nft
  <2> DEFINE m == [n EXCEPT !.vote = vote]
  <2>1. m = [mine |-> n.mine, amount |-> n.amount, end |-> n.end,
             pending |-> n.pending, vote |-> vote]
    BY <1>3
  <2> DEFINE no == FALSE
  <2>2. no = FALSE
    OBVIOUS
  <2> HIDE DEF m, no
  <2>3. [m EXCEPT !.pending = no] = [mine |-> n.mine, amount |-> n.amount, end |-> n.end,
                                     pending |-> no, vote |-> vote]
    BY <2>1
  <2> QED
    BY <2>2, <2>3 DEF m
<1>7. u = [nfts |-> [t.nfts EXCEPT ![id] = nft], now |-> t.now, lost |-> gone]
  <2> DEFINE m == [n EXCEPT !.vote = vote]
             f == [t.nfts EXCEPT ![id] = m]
  <2>1. u = [[t EXCEPT !.nfts = [f EXCEPT ![id] = [f[id] EXCEPT !.pending = FALSE]]]
                EXCEPT !.lost = gone]
    BY <1>1 DEF Chain!Revote
  <2>2. f[id] = m
    BY <1>1
  <2>3. [f EXCEPT ![id] = [m EXCEPT !.pending = FALSE]] = [t.nfts EXCEPT ![id] = nft]
    BY <1>1, <1>6
  <2> HIDE DEF m, f, gone, nft
  <2> QED
    BY <1>1, <2>1, <2>2, <2>3
<1> DEFINE g == [t.nfts EXCEPT ![id] = nft]
<1>8. g[id] = nft /\ DOMAIN g = DOMAIN t.nfts
  BY <1>1
<1>9. u.nfts = g /\ u.lost = gone
  BY <1>7
<1>10. nft.pending = FALSE /\ nft.mine = n.mine /\ nft.vote = vote /\ nft.end = n.end
  OBVIOUS
<1>11. gone = IF Pending(t, id) THEN t.lost \cup {id} ELSE t.lost
  BY <1>3 DEF Pending
<1> HIDE DEF gone, nft, g
<1>12. /\ u \in Ledgers /\ NoNewFees(t, u) /\ ~ Pending(u, id)
       /\ vote = NoVote => NoNewVotes(t, u)
  BY <1>4, <1>5, <1>7, <1>10, OneChanged
<1> QED
  BY <1>8, <1>9, <1>11, <1>12 DEF Forfeits

\* Nor does burning an NFT.
LEMMA BurnLedger ==
    ASSUME NEW t \in Ledgers, NEW id \in DOMAIN t.nfts, NEW u, u = Chain!Burn(t, id)
    PROVE  /\ u \in Ledgers
           /\ NoNewFees(t, u) /\ NoNewVotes(t, u) /\ Forfeits(t, u, id)
<1>1. /\ DOMAIN t.nfts \in SUBSET Nat /\ t.nfts \in [DOMAIN t.nfts -> Nfts]
      /\ IsFiniteSet(DOMAIN t.nfts)
      /\ t.now \in Nat /\ t.lost \in SUBSET Nat
      /\ t = [nfts |-> t.nfts, now |-> t.now, lost |-> t.lost]
  BY LedgerFacts
<1> DEFINE D == DOMAIN t.nfts \ {id}
           f == [k \in D |-> t.nfts[k]]
           gone == IF t.nfts[id].pending THEN t.lost \cup {id} ELSE t.lost
<1>2. u = [nfts |-> f, now |-> t.now, lost |-> gone]
  BY <1>1 DEF Chain!Burn
<1>3. gone = IF Pending(t, id) THEN t.lost \cup {id} ELSE t.lost
  BY DEF Pending
<1>4. D \in SUBSET Nat /\ IsFiniteSet(D) /\ f \in [D -> Nfts] /\ gone \in SUBSET Nat
  BY <1>1, FS_Subset
<1>5. u.nfts = f /\ u.lost = gone
  BY <1>2
<1>6. DOMAIN f = D /\ \A k \in D : k \in DOMAIN t.nfts /\ f[k] = t.nfts[k]
  OBVIOUS
<1> HIDE DEF D, f, gone
<1>7. u \in Ledgers
  BY <1>1, <1>2, <1>4, LedgerMade
<1>8. NoNewFees(t, u)
  BY <1>5, <1>6 DEF NoNewFees, Pending
<1>9. NoNewVotes(t, u)
  BY <1>5, <1>6 DEF NoNewVotes, Chain!VotesIn, Chain!Mine
<1> QED
  BY <1>3, <1>5, <1>7, <1>8, <1>9 DEF Forfeits

\* A claim loses nothing.
LEMMA ClaimEffect ==
    ASSUME NEW t \in Ledgers, NEW c, NEW u, u = Chain!Claim(t, c), u # Reverted
    PROVE  /\ u \in Ledgers /\ SameLosses(t, u)
           /\ NoNewFees(t, u) /\ NoNewVotes(t, u) /\ ~ Pending(u, c.id)
           /\ Chain!VotesIn(t, c.id, c.pool)
<1>1. Chain!VotesIn(t, c.id, c.pool) /\ u = [t EXCEPT !.nfts[c.id].pending = FALSE]
  BY DEF Chain!Claim
<1>2. c.id \in DOMAIN t.nfts
  BY <1>1 DEF Chain!VotesIn, Chain!Mine
<1>3. /\ t.nfts \in [DOMAIN t.nfts -> Nfts]
      /\ t.lost \in SUBSET Nat
      /\ t = [nfts |-> t.nfts, now |-> t.now, lost |-> t.lost]
  BY LedgerFacts
<1> DEFINE n == t.nfts[c.id]
           no == FALSE
           nft == [mine |-> n.mine, amount |-> n.amount, end |-> n.end,
                   pending |-> no, vote |-> n.vote]
<1>4. n \in Nfts
  BY <1>2, <1>3
<1>5. /\ n = [mine |-> n.mine, amount |-> n.amount, end |-> n.end,
               pending |-> n.pending, vote |-> n.vote]
      /\ n.mine \in BOOLEAN /\ n.amount \in Nat \ {0} /\ n.end \in Nat
      /\ n.vote \in AllVotes \cup {NoVote}
  BY <1>4, NftFacts
<1>6. nft \in Nfts
  BY <1>5, NftFacts
<1>7. u = [t EXCEPT !.nfts = [t.nfts EXCEPT ![c.id] = [n EXCEPT !.pending = no]]]
  BY <1>1
<1>8. no = FALSE
  OBVIOUS
<1> HIDE DEF no
<1>9. [n EXCEPT !.pending = no] = nft
  BY <1>5
<1>10. u = [nfts |-> [t.nfts EXCEPT ![c.id] = nft], now |-> t.now, lost |-> t.lost]
  <2> HIDE DEF n, nft
  <2> QED
    BY <1>3, <1>7, <1>9
<1>11. nft.pending = no /\ nft.mine = n.mine /\ nft.vote = n.vote
  OBVIOUS
<1>12. u.lost = t.lost
  BY <1>10
<1> HIDE DEF nft
<1>13. u \in Ledgers /\ NoNewFees(t, u) /\ ~ Pending(u, c.id) /\ NoNewVotes(t, u)
  BY <1>2, <1>3, <1>6, <1>8, <1>10, <1>11, OneChanged
<1> QED
  BY <1>1, <1>12, <1>13 DEF SameLosses

\* A lock extended, after its vote was cleared.
LEMMA ExtendEffect ==
    ASSUME NEW t \in Ledgers, NEW c, c.duration \in Nat, NEW u, u = Chain!Extend(t, c), u # Reverted
    PROVE  /\ u \in Ledgers
           /\ NoNewFees(t, u) /\ NoNewVotes(t, u) /\ ~ Pending(u, c.id) /\ Forfeits(t, u, c.id)
<1> DEFINE r == Chain!Revote(t, c.id, NoVote)
<1>0. c.id \in DOMAIN t.nfts
  BY DEF Chain!Extend, Chain!Live, Chain!Mine
<1>1. u = [r EXCEPT !.nfts[c.id].end = t.now + c.duration]
  BY DEF Chain!Extend
<1>2. /\ r \in Ledgers /\ c.id \in DOMAIN r.nfts
      /\ NoNewFees(t, r) /\ NoNewVotes(t, r) /\ ~ Pending(r, c.id) /\ Forfeits(t, r, c.id)
  <2>1. r = Chain!Revote(t, c.id, NoVote) /\ NoVote \in AllVotes \cup {NoVote}
    OBVIOUS
  <2> HIDE DEF r
  <2> QED
    BY <1>0, <2>1, RevoteLedger
<1> HIDE DEF r
<1>3. /\ r.nfts \in [DOMAIN r.nfts -> Nfts]
      /\ r.lost \in SUBSET Nat
      /\ r = [nfts |-> r.nfts, now |-> r.now, lost |-> r.lost]
  BY <1>2, LedgerFacts
<1> DEFINE n == r.nfts[c.id]
           end == t.now + c.duration
           nft == [mine |-> n.mine, amount |-> n.amount, end |-> end,
                   pending |-> n.pending, vote |-> n.vote]
<1>4. n \in Nfts /\ end \in Nat
  BY <1>0, <1>2, <1>3, LedgerFacts
<1>5. /\ n = [mine |-> n.mine, amount |-> n.amount, end |-> n.end,
               pending |-> n.pending, vote |-> n.vote]
      /\ n.mine \in BOOLEAN /\ n.amount \in Nat \ {0} /\ n.pending \in BOOLEAN
      /\ n.vote \in AllVotes \cup {NoVote}
  BY <1>4, NftFacts
<1>6. nft \in Nfts
  <2> HIDE DEF n, end
  <2> QED
    BY <1>4, <1>5, NftFacts
<1>7. u = [r EXCEPT !.nfts = [r.nfts EXCEPT ![c.id] = [n EXCEPT !.end = end]]]
  BY <1>1
<1> HIDE DEF end
<1>8. [n EXCEPT !.end = end] = nft
  BY <1>5
<1>9. u = [nfts |-> [r.nfts EXCEPT ![c.id] = nft], now |-> r.now, lost |-> r.lost]
  <2> HIDE DEF n, nft
  <2> QED
    BY <1>3, <1>7, <1>8
<1>10. nft.pending = n.pending /\ nft.mine = n.mine /\ nft.vote = n.vote
  OBVIOUS
<1>11. u.lost = r.lost
  BY <1>2, <1>9
<1>12. n.pending = FALSE
  BY <1>0, <1>2, <1>5 DEF Pending
<1>15. c.id \in DOMAIN r.nfts /\ r.lost \in SUBSET Nat
  BY <1>0, <1>2, <1>3
<1>16. /\ nft.pending = FALSE /\ (nft.pending => r.nfts[c.id].pending)
       /\ (nft.mine => r.nfts[c.id].mine) /\ nft.vote \in {r.nfts[c.id].vote, NoVote}
  BY <1>10, <1>12
<1> HIDE DEF nft, n
<1>17. r \in Ledgers
  BY <1>2
<1>13. u \in Ledgers /\ NoNewFees(r, u) /\ ~ Pending(u, c.id) /\ NoNewVotes(r, u)
  BY <1>6, <1>9, <1>15, <1>16, <1>17, OneChanged
<1>14. NoNewFees(t, u) /\ NoNewVotes(t, u)
  BY <1>2, <1>13 DEF NoNewFees, NoNewVotes
<1> QED
  BY <1>2, <1>11, <1>13, <1>14 DEF Forfeits

\* A stake grown or cut, with everything else of the NFT as it was.
LEMMA AmountChanged ==
    ASSUME NEW t \in Ledgers, NEW id \in DOMAIN t.nfts, NEW amount \in Nat \ {0},
           NEW u, u = [t EXCEPT !.nfts[id] = [t.nfts[id] EXCEPT !.amount = amount]]
    PROVE  /\ u \in Ledgers /\ SameLosses(t, u)
           /\ NoNewFees(t, u) /\ NoNewVotes(t, u)
           /\ DOMAIN u.nfts = DOMAIN t.nfts
           /\ \A k \in DOMAIN t.nfts : Pending(u, k) <=> Pending(t, k)
<1>1. /\ t.nfts \in [DOMAIN t.nfts -> Nfts]
      /\ t.lost \in SUBSET Nat
      /\ t = [nfts |-> t.nfts, now |-> t.now, lost |-> t.lost]
  BY LedgerFacts
<1> DEFINE n == t.nfts[id]
           nft == [mine |-> n.mine, amount |-> amount, end |-> n.end,
                   pending |-> n.pending, vote |-> n.vote]
<1>2. n \in Nfts
  BY <1>1
<1>3. /\ n = [mine |-> n.mine, amount |-> n.amount, end |-> n.end,
               pending |-> n.pending, vote |-> n.vote]
      /\ n.mine \in BOOLEAN /\ n.end \in Nat /\ n.pending \in BOOLEAN
      /\ n.vote \in AllVotes \cup {NoVote}
  BY <1>2, NftFacts
<1>4. nft \in Nfts
  <2> HIDE DEF n
  <2> QED
    BY <1>3, NftFacts
<1>5. [n EXCEPT !.amount = amount] = nft
  BY <1>3
<1>6. u = [t EXCEPT !.nfts = [t.nfts EXCEPT ![id] = [n EXCEPT !.amount = amount]]]
  OBVIOUS
<1>7. u = [nfts |-> [t.nfts EXCEPT ![id] = nft], now |-> t.now, lost |-> t.lost]
  <2> HIDE DEF n, nft
  <2> QED
    BY <1>1, <1>5, <1>6
<1> DEFINE f == [t.nfts EXCEPT ![id] = nft]
<1>8. f[id] = nft /\ DOMAIN f = DOMAIN t.nfts /\ \A k \in DOMAIN t.nfts : k # id => f[k] = t.nfts[k]
  BY <1>1
<1>9. u.nfts = f /\ u.lost = t.lost
  BY <1>7
<1>10. /\ (nft.pending => t.nfts[id].pending)
       /\ (nft.mine => t.nfts[id].mine) /\ nft.vote \in {t.nfts[id].vote, NoVote}
  OBVIOUS
<1>11. t.nfts[id].pending <=> nft.pending
  OBVIOUS
<1> HIDE DEF nft, n
<1>12. u \in Ledgers /\ NoNewFees(t, u) /\ NoNewVotes(t, u)
  BY <1>1, <1>4, <1>7, <1>10, OneChanged
<1> HIDE DEF f
<1>13. \A k \in DOMAIN t.nfts : Pending(u, k) <=> Pending(t, k)
  BY <1>8, <1>9, <1>11 DEF Pending
<1> QED
  BY <1>8, <1>9, <1>12, <1>13 DEF SameLosses

\* One NFT is burned, after its stake was added to another.
LEMMA MergeEffect ==
    ASSUME NEW t \in Ledgers, NEW c, NEW u, u = Chain!Merge(t, c), u # Reverted
    PROVE  /\ u \in Ledgers
           /\ NoNewFees(t, u) /\ NoNewVotes(t, u) /\ Forfeits(t, u, c.id)
<1>1. c.id \in DOMAIN t.nfts /\ c.into \in DOMAIN t.nfts
  BY DEF Chain!Merge, Chain!Live, Chain!Mine
<1>2. t.nfts \in [DOMAIN t.nfts -> Nfts]
  BY LedgerFacts
<1> DEFINE amount == t.nfts[c.into].amount + t.nfts[c.id].amount
           s == [t EXCEPT !.nfts[c.into] = [t.nfts[c.into] EXCEPT !.amount = amount]]
<1>3. u = Chain!Burn(s, c.id)
  BY DEF Chain!Merge
<1>4. amount \in Nat \ {0}
  <2>1. t.nfts[c.into].amount \in Nat \ {0} /\ t.nfts[c.id].amount \in Nat \ {0}
    BY <1>1, <1>2, NftFacts
  <2> QED
    BY <2>1
<1>5. /\ s \in Ledgers /\ SameLosses(t, s)
      /\ NoNewFees(t, s) /\ NoNewVotes(t, s) /\ c.id \in DOMAIN s.nfts
      /\ Pending(s, c.id) <=> Pending(t, c.id)
  <2>1. s = [t EXCEPT !.nfts[c.into] = [t.nfts[c.into] EXCEPT !.amount = amount]]
    OBVIOUS
  <2> HIDE DEF s, amount
  <2> QED
    BY <1>1, <1>4, <2>1, AmountChanged
<1> HIDE DEF s
<1>6. /\ u \in Ledgers
      /\ NoNewFees(s, u) /\ NoNewVotes(s, u) /\ Forfeits(s, u, c.id)
  BY <1>3, <1>5, BurnLedger
<1>7. NoNewFees(t, u) /\ NoNewVotes(t, u)
  BY <1>5, <1>6 DEF NoNewFees, NoNewVotes
<1>8. Forfeits(t, u, c.id)
  BY <1>5, <1>6 DEF SameLosses, Forfeits
<1> QED
  BY <1>6, <1>7, <1>8

\* A new NFT without a vote.
LEMMA NftAdded ==
    ASSUME NEW t \in Ledgers, NEW child \in Nat, child \notin DOMAIN t.nfts,
           NEW nft \in Nfts, nft.pending = FALSE,
           NEW u, u = [t EXCEPT !.nfts = [k \in DOMAIN t.nfts \cup {child} |->
                                             IF k = child THEN nft ELSE t.nfts[k]]]
    PROVE  /\ u \in Ledgers /\ SameLosses(t, u)
           /\ NoNewFees(t, u) /\ ~ Pending(u, child)
<1>1. /\ DOMAIN t.nfts \in SUBSET Nat /\ IsFiniteSet(DOMAIN t.nfts)
      /\ t.nfts \in [DOMAIN t.nfts -> Nfts]
      /\ t.now \in Nat /\ t.lost \in SUBSET Nat
      /\ t = [nfts |-> t.nfts, now |-> t.now, lost |-> t.lost]
  BY LedgerFacts
<1> DEFINE D == DOMAIN t.nfts \cup {child}
           f == [k \in D |-> IF k = child THEN nft ELSE t.nfts[k]]
<1>2. u = [nfts |-> f, now |-> t.now, lost |-> t.lost]
  <2>1. u = [t EXCEPT !.nfts = f]
    OBVIOUS
  <2> HIDE DEF f
  <2> QED
    BY <1>1, <2>1
<1>3. D \in SUBSET Nat /\ IsFiniteSet(D) /\ f \in [D -> Nfts]
  BY <1>1, FS_AddElement
<1>4. /\ DOMAIN f = D /\ f[child] = nft
      /\ \A k \in D : k # child => k \in DOMAIN t.nfts /\ f[k] = t.nfts[k]
  OBVIOUS
<1>5. u.nfts = f /\ u.lost = t.lost
  BY <1>2
<1> HIDE DEF D, f
<1>6. u \in Ledgers
  BY <1>1, <1>2, <1>3, LedgerMade
<1>7. NoNewFees(t, u) /\ ~ Pending(u, child)
  BY <1>4, <1>5 DEF NoNewFees, Pending
<1> QED
  BY <1>5, <1>6, <1>7 DEF SameLosses

\* A stake makes an NFT without fees.
LEMMA StakeEffect ==
    ASSUME NEW t \in Ledgers, NEW c, c.child \in Nat, c.amount \in Nat \ {0}, c.duration \in Nat,
           NEW u, u = Chain!Stake(t, c), u # Reverted
    PROVE  /\ u \in Ledgers /\ SameLosses(t, u)
           /\ NoNewFees(t, u) /\ ~ Pending(u, c.child)
<1> DEFINE end == t.now + c.duration
           nft == [mine |-> TRUE, amount |-> c.amount, end |-> end, vote |-> NoVote,
                   pending |-> FALSE]
           more == [k \in DOMAIN t.nfts \cup {c.child} |->
                       IF k = c.child THEN nft ELSE t.nfts[k]]
<1>1. c.child \notin DOMAIN t.nfts /\ u = [t EXCEPT !.nfts = more]
  BY DEF Chain!Stake
<1>2. end \in Nat
  BY LedgerFacts
<1>3. nft \in Nfts /\ nft.pending = FALSE
  <2> HIDE DEF end
  <2> QED
    BY <1>2, NftFacts
<1> HIDE DEF nft
<1> QED
  BY <1>1, <1>3, NftAdded

\* The source keeps its vote and its fees; the child has neither.
LEMMA SplitEffect ==
    ASSUME NEW t \in Ledgers, NEW c, c.child \in Nat, c.amount \in Int,
           NEW u, u = Chain!Split(t, c), u # Reverted
    PROVE  /\ u \in Ledgers /\ SameLosses(t, u)
           /\ NoNewFees(t, u) /\ ~ Pending(u, c.child)
<1>1. /\ c.id \in DOMAIN t.nfts /\ c.child \notin DOMAIN t.nfts
      /\ 0 < c.amount /\ c.amount < t.nfts[c.id].amount
  BY DEF Chain!Split, Chain!Live, Chain!Mine
<1>2. t.nfts \in [DOMAIN t.nfts -> Nfts] /\ t.nfts[c.id] \in Nfts
  BY <1>1, LedgerFacts
<1> DEFINE n == t.nfts[c.id]
           amount == n.amount - c.amount
           s == [t EXCEPT !.nfts[c.id] = [n EXCEPT !.amount = amount]]
           no == FALSE
           nft == [[[n EXCEPT !.amount = c.amount] EXCEPT !.vote = NoVote] EXCEPT !.pending = no]
           more == [k \in DOMAIN s.nfts \cup {c.child} |->
                       IF k = c.child THEN nft ELSE s.nfts[k]]
<1>3. u = [s EXCEPT !.nfts = more]
  BY DEF Chain!Split, Chain!Set
<1>4. /\ n = [mine |-> n.mine, amount |-> n.amount, end |-> n.end,
               pending |-> n.pending, vote |-> n.vote]
      /\ n.mine \in BOOLEAN /\ n.amount \in Nat \ {0} /\ n.end \in Nat
  BY <1>2, NftFacts
<1>5. amount \in Nat \ {0} /\ c.amount \in Nat \ {0}
  BY <1>1, <1>4
<1>6. nft = [mine |-> n.mine, amount |-> c.amount, end |-> n.end, pending |-> no, vote |-> NoVote]
  <2> DEFINE m == [n EXCEPT !.amount = c.amount]
             v == [m EXCEPT !.vote = NoVote]
  <2> HIDE DEF n, no
  <2>1. m = [mine |-> n.mine, amount |-> c.amount, end |-> n.end,
             pending |-> n.pending, vote |-> n.vote]
    BY <1>4
  <2> HIDE DEF m
  <2>2. v = [mine |-> n.mine, amount |-> c.amount, end |-> n.end,
             pending |-> n.pending, vote |-> NoVote]
    BY <2>1
  <2> HIDE DEF v
  <2>3. [v EXCEPT !.pending = no] = [mine |-> n.mine, amount |-> c.amount, end |-> n.end,
                                     pending |-> no, vote |-> NoVote]
    BY <2>2
  <2> QED
    BY <2>3 DEF m, v
<1>7. nft \in Nfts /\ nft.pending = FALSE
  <2>1. no = FALSE
    OBVIOUS
  <2> HIDE DEF n, no, nft
  <2> QED
    BY <1>4, <1>5, <1>6, <2>1, NftFacts
<1>8. /\ s \in Ledgers /\ SameLosses(t, s)
      /\ NoNewFees(t, s) /\ DOMAIN s.nfts = DOMAIN t.nfts
  <2>1. s = [t EXCEPT !.nfts[c.id] = [t.nfts[c.id] EXCEPT !.amount = amount]]
    OBVIOUS
  <2> HIDE DEF s, amount
  <2> QED
    BY <1>1, <1>5, <2>1, AmountChanged
<1> HIDE DEF s, nft
<1>9. /\ u \in Ledgers /\ SameLosses(s, u)
      /\ NoNewFees(s, u) /\ ~ Pending(u, c.child)
  BY <1>1, <1>3, <1>7, <1>8, NftAdded
<1> QED
  BY <1>8, <1>9 DEF SameLosses, NoNewFees

\* What a call does, whichever it is.
LEMMA CallEffect ==
    ASSUME NEW t \in Ledgers, NEW c, GoodCall(c, AllVotes),
           NEW u, u = Chain!Call(t, c), u # Reverted
    PROVE  Effect(t, c, u)
<1>1. CASE c.op = "claim"
  <2>1. u = Chain!Claim(t, c)
    BY <1>1 DEF Chain!Call, Chain!Plain
  <2>2. /\ u \in Ledgers /\ SameLosses(t, u)
        /\ NoNewFees(t, u) /\ NoNewVotes(t, u) /\ ~ Pending(u, c.id)
        /\ Chain!VotesIn(t, c.id, c.pool)
    BY <2>1, ClaimEffect
  <2> QED
    BY <1>1, <2>2 DEF Effect
<1>2. CASE c.op = "stake"
  <2>1. u = Chain!Stake(t, c)
    BY <1>2 DEF Chain!Call, Chain!Plain
  <2>2. c.child \in Nat /\ c.amount \in Nat \ {0} /\ c.duration \in Nat
    BY <1>2 DEF GoodCall
  <2>3. /\ u \in Ledgers /\ SameLosses(t, u)
        /\ NoNewFees(t, u) /\ ~ Pending(u, c.child)
    BY <2>1, <2>2, StakeEffect
  <2> QED
    BY <1>2, <2>3 DEF Effect, Claims
<1>3. CASE c.op = "split"
  <2>1. u = Chain!Split(t, c)
    BY <1>3 DEF Chain!Call, Chain!Plain
  <2>2. c.child \in Nat /\ c.amount \in Int
    BY <1>3 DEF GoodCall
  <2>3. /\ u \in Ledgers /\ SameLosses(t, u)
        /\ NoNewFees(t, u) /\ ~ Pending(u, c.child)
    BY <2>1, <2>2, SplitEffect
  <2> QED
    BY <1>3, <2>3 DEF Effect, Claims
<1>4. ASSUME NEW vote \in AllVotes \cup {NoVote}, Chain!Mine(t, c.id),
             u = Chain!Revote(t, c.id, vote), c.op \in {"vote", "clear"}
      PROVE  Effect(t, c, u)
  <2>1. c.id \in DOMAIN t.nfts
    BY <1>4 DEF Chain!Mine
  <2>2. /\ u \in Ledgers /\ NoNewFees(t, u) /\ Forfeits(t, u, c.id)
    BY <1>4, <2>1, RevoteLedger
  <2> QED
    BY <1>4, <2>2 DEF Effect, Claims, Loses
<1>5. CASE c.op = "vote"
  <2>1. u = Chain!Vote(t, c)
    BY <1>5 DEF Chain!Call, Chain!Plain
  <2>2. Chain!Mine(t, c.id) /\ u = Chain!Revote(t, c.id, c.vote)
    BY <2>1 DEF Chain!Vote, Chain!Live
  <2>3. c.vote \in AllVotes \cup {NoVote}
    BY <1>5 DEF GoodCall
  <2> QED
    BY <1>4, <1>5, <2>2, <2>3
<1>6. CASE c.op = "clear"
  <2>1. u = Chain!ClearVote(t, c)
    BY <1>6 DEF Chain!Call, Chain!Plain
  <2>2. Chain!Mine(t, c.id) /\ u = Chain!Revote(t, c.id, NoVote)
    BY <2>1 DEF Chain!ClearVote
  <2>3. NoVote \in AllVotes \cup {NoVote}
    OBVIOUS
  <2> QED
    BY <1>4, <1>6, <2>2, <2>3
<1>7. CASE c.op = "extend"
  <2>1. u = Chain!Extend(t, c)
    BY <1>7 DEF Chain!Call, Chain!Plain
  <2>2. c.duration \in Nat
    BY <1>7 DEF GoodCall
  <2>3. u \in Ledgers /\ NoNewFees(t, u) /\ Forfeits(t, u, c.id)
    BY <2>1, <2>2, ExtendEffect
  <2> QED
    BY <1>7, <2>3 DEF Effect, Claims, Loses
<1>8. CASE c.op = "merge"
  <2>1. u = Chain!Merge(t, c)
    BY <1>8 DEF Chain!Call, Chain!Plain
  <2>2. u \in Ledgers /\ NoNewFees(t, u) /\ Forfeits(t, u, c.id)
    BY <2>1, MergeEffect
  <2> QED
    BY <1>8, <2>2 DEF Effect, Claims, Loses
<1>9. CASE c.op = "withdraw"
  <2>1. u = Chain!Withdraw(t, c)
    BY <1>9 DEF Chain!Call, Chain!Plain
  <2>2. c.id \in DOMAIN t.nfts /\ u = Chain!Burn(t, c.id)
    BY <2>1 DEF Chain!Withdraw, Chain!Mine
  <2>3. u \in Ledgers /\ NoNewFees(t, u) /\ Forfeits(t, u, c.id)
    BY <2>2, BurnLedger
  <2> QED
    BY <1>9, <2>3 DEF Effect, Claims, Loses
<1>10. CASE c.op = "increase"
  <2>1. u = Chain!Increase(t, c)
    BY <1>10 DEF Chain!Call, Chain!Plain
  <2> DEFINE amount == t.nfts[c.id].amount + c.amount
  <2>2. /\ c.id \in DOMAIN t.nfts
        /\ u = [t EXCEPT !.nfts[c.id] = [t.nfts[c.id] EXCEPT !.amount = amount]]
    BY <2>1 DEF Chain!Increase, Chain!Live, Chain!Mine, Chain!Set
  <2>3. amount \in Nat \ {0}
    <3>1. t.nfts[c.id].amount \in Nat \ {0}
      BY <2>2, LedgerFacts, NftFacts
    <3>2. c.amount \in Nat
      BY <1>10 DEF GoodCall
    <3> QED
      BY <3>1, <3>2
  <2> HIDE DEF amount
  <2>4. u \in Ledgers /\ SameLosses(t, u) /\ NoNewFees(t, u)
    BY <2>2, <2>3, AmountChanged
  <2> QED
    BY <1>10, <2>4 DEF Effect, Claims
<1>11. CASE c.op \in {"claim_extend", "claim_merge"}
  <2> DEFINE claimed == Chain!Claim(t, c)
  <2>1. /\ claimed # Reverted
        /\ u = IF c.op = "claim_extend" THEN Chain!Extend(claimed, c) ELSE Chain!Merge(claimed, c)
    BY <1>11 DEF Chain!Call
  <2>2. /\ claimed \in Ledgers /\ SameLosses(t, claimed)
        /\ NoNewFees(t, claimed) /\ NoNewVotes(t, claimed) /\ ~ Pending(claimed, c.id)
        /\ Chain!VotesIn(t, c.id, c.pool)
    BY <2>1, ClaimEffect
  <2> HIDE DEF claimed
  <2>3. c.op = "claim_extend" =>
           /\ u \in Ledgers
           /\ NoNewFees(claimed, u) /\ NoNewVotes(claimed, u) /\ ~ Pending(u, c.id)
           /\ Forfeits(claimed, u, c.id)
    <3>1. c.op = "claim_extend" => c.duration \in Nat
      BY DEF GoodCall
    <3> QED
      BY <2>1, <2>2, <3>1, ExtendEffect
  <2>4. c.op = "claim_merge" =>
           /\ u \in Ledgers
           /\ NoNewFees(claimed, u) /\ NoNewVotes(claimed, u) /\ Forfeits(claimed, u, c.id)
    BY <2>1, <2>2, MergeEffect
  <2>5. /\ u \in Ledgers
        /\ NoNewFees(claimed, u) /\ NoNewVotes(claimed, u) /\ Forfeits(claimed, u, c.id)
        /\ c.op = "claim_extend" => ~ Pending(u, c.id)
    BY <1>11, <2>3, <2>4
  <2>6. SameLosses(t, u)
    BY <2>2, <2>5 DEF SameLosses, Forfeits
  <2>7. NoNewFees(t, u) /\ NoNewVotes(t, u)
    BY <2>2, <2>5 DEF NoNewFees, NoNewVotes
  <2> QED
    BY <1>11, <2>2, <2>5, <2>6, <2>7 DEF Effect
<1> QED
  BY <1>1, <1>2, <1>3, <1>5, <1>6, <1>7, <1>8, <1>9, <1>10, <1>11 DEF GoodCall, Loses, Claims

-------------------------------------------------------------------------------
(***************************************************************************)
(* A batch, call after call                                                *)
(***************************************************************************)

\* The ledgers that the calls of a batch make one after the other.
Course(g, t, calls) ==
    /\ g[0] = t /\ g[Len(calls)] = Chain!Batch(t, calls)
    /\ \A k \in 1 .. Len(calls) :
          g[k] = IF g[k - 1] = Reverted THEN Reverted ELSE Chain!Call(g[k - 1], calls[k])

\* A batch is carried out call by call.
LEMMA BatchRuns ==
    ASSUME NEW t \in Ledgers, NEW calls, GoodCalls(calls, AllVotes)
    PROVE  \E g : Course(g, t, calls)
<1> DEFINE n == Len(calls)
           V == Ledgers \cup {Reverted}
           then(s, k) == IF s = Reverted THEN Reverted ELSE Chain!Call(s, calls[k])
           step == [p \in V \X (1 .. n) |-> then(p[1], p[2])]
           Solves(f) == f = [k \in 0 .. n |-> IF k = 0 THEN t ELSE then(f[k - 1], k)]
           run == CHOOSE f : Solves(f)
<1>1. n \in Nat /\ DOMAIN calls = 1 .. n
  BY DEF GoodCalls, IsSeq
<1>2. ASSUME NEW s \in V, NEW k \in 1 .. n PROVE then(s, k) \in V
  <2>1. GoodCall(calls[k], AllVotes)
    BY <1>1 DEF GoodCalls
  <2>2. s # Reverted /\ Chain!Call(s, calls[k]) # Reverted => Chain!Call(s, calls[k]) \in Ledgers
    BY <2>1, CallEffect DEF Effect
  <2> QED
    BY <2>2
<1>3. t \in V
  OBVIOUS
<1> HIDE DEF n, V, then
<1>4. step \in [V \X (1 .. n) -> V]
  BY <1>2
<1>5. PICK g \in [0 .. n -> V] : RangeRecursion(g, n, t, step)
  <2> HIDE DEF step
  <2> QED
    BY <1>1, <1>3, <1>4, RangeRecursionExists
<1>6. ASSUME NEW k \in 1 .. n PROVE g[k] = then(g[k - 1], k)
  <2>1. k - 1 \in 0 .. n
    BY <1>1
  <2>2. g[k] = step[<<g[k - 1], k>>]
    BY <1>5 DEF RangeRecursion
  <2> QED
    BY <2>1, <2>2
<1>7. Solves(g)
  <2>1. g[0] = t
    BY <1>5 DEF RangeRecursion
  <2>2. ASSUME NEW k \in 0 .. n PROVE g[k] = IF k = 0 THEN t ELSE then(g[k - 1], k)
    BY <1>1, <1>6, <2>1
  <2> QED
    BY <2>2
<1>8. Solves(run)
  BY ONLY <1>7 DEF run
<1>9. run[n] = Chain!Batch(t, calls)
  BY DEF Chain!Batch, run, n, then
<1> HIDE DEF run
<1>10. run[0] = t /\ \A k \in 1 .. n : run[k] = then(run[k - 1], k)
  BY <1>1, <1>8
<1> QED
  BY <1>9, <1>10 DEF Course, n, then

\* What one more call keeps: what it claims, or makes.
LEMMA KeptGrows ==
    ASSUME NEW calls, IsSeq(calls), NEW k \in DOMAIN calls,
           NEW id \in KeptBy(SubSeq(calls, 1, k))
    PROVE  \/ id \in KeptBy(SubSeq(calls, 1, k - 1))
           \/ calls[k].op \in {"claim", "claim_extend"} /\ id = calls[k].id
           \/ calls[k].op \in {"split", "stake"} /\ id = calls[k].child
<1> DEFINE s == SubSeq(calls, 1, k - 1)
           u == SubSeq(calls, 1, k)
<1>1. DOMAIN s = 1 .. (k - 1) /\ \A j \in 1 .. (k - 1) : s[j] = calls[j]
  BY EarlierCalls
<1>2. DOMAIN u = 1 .. k /\ \A j \in 1 .. k : u[j] = calls[j]
  BY DEF IsSeq
<1>3. k \in Nat /\ \A j \in 1 .. k : j = k \/ j \in 1 .. (k - 1)
  BY DEF IsSeq
<1> HIDE DEF s, u
<1>4. id \in KeptBy(u)
  BY DEF u
<1>5. id \in KeptBy(s) \/ (calls[k].op \in {"claim", "claim_extend"} /\ id = calls[k].id)
        \/ (calls[k].op \in {"split", "stake"} /\ id = calls[k].child)
  BY <1>1, <1>2, <1>3, <1>4 DEF KeptBy
<1> QED
  BY <1>5 DEF s

\* A batch that keeps to the rule of SafeAfter gives up the fees of no NFT that
\* voted in base, whatever has accrued since and wherever the votes are now.
LEMMA BatchKeepsFees ==
    ASSUME NEW t \in Ledgers, NEW calls, GoodCalls(calls, AllVotes),
           NEW base, SafeAfter(calls, base, {}), Chain!Batch(t, calls) # Reverted
    PROVE  /\ Chain!Batch(t, calls) \in Ledgers
           /\ \A id \in Chain!Batch(t, calls).lost \ t.lost : Unvoted(id, base)
<1> DEFINE n == Len(calls)
           Good(s, k) == /\ s \in Ledgers
                         /\ \A id \in KeptBy(SubSeq(calls, 1, k)) : ~ Pending(s, id)
                         /\ \A id \in s.lost \ t.lost : Unvoted(id, base)
<1>1. n \in Nat /\ DOMAIN calls = 1 .. n /\ IsSeq(calls)
  BY DEF GoodCalls, IsSeq
<1>2. PICK g : Course(g, t, calls)
  BY BatchRuns
<1> DEFINE P == {k \in Nat : k <= n /\ g[k] # Reverted => Good(g[k], k)}
<1>3. 0 \in P
  <2>1. KeptBy(SubSeq(calls, 1, 0)) = {}
    <3>1. DOMAIN SubSeq(calls, 1, 0) = {}
      BY <1>1 DEF IsSeq
    <3> QED
      BY <3>1 DEF KeptBy
  <2>2. g[0] = t
    BY <1>2 DEF Course
  <2> QED
    BY <2>1, <2>2
<1>4. ASSUME NEW k \in P PROVE k + 1 \in P
  <2> SUFFICES ASSUME k + 1 <= n, g[k + 1] # Reverted PROVE Good(g[k + 1], k + 1)
    OBVIOUS
  <2> DEFINE c == calls[k + 1]
             s == g[k]
             u == g[k + 1]
  <2>1. k + 1 \in DOMAIN calls /\ (k + 1) - 1 = k /\ k \in Nat /\ k <= n
    BY <1>1
  <2>2. s # Reverted /\ u = Chain!Call(s, c)
    BY <1>1, <1>2, <2>1 DEF Course
  <2>3. Good(s, k)
    BY <2>1, <2>2
  <2>4. GoodCall(c, AllVotes)
    BY <2>1 DEF GoodCalls
  <2>5. Effect(s, c, u)
    BY <2>2, <2>3, <2>4, CallEffect
  <2>6. ASSUME NEW id \in KeptBy(SubSeq(calls, 1, k + 1)) PROVE ~ Pending(u, id)
    <3>1. \/ id \in KeptBy(SubSeq(calls, 1, k))
          \/ c.op \in {"claim", "claim_extend"} /\ id = c.id
          \/ c.op \in {"split", "stake"} /\ id = c.child
      BY <1>1, <2>1, KeptGrows
    <3> QED
      BY <2>3, <2>5, <3>1 DEF Effect, NoNewFees
  <2>7. ASSUME NEW id \in u.lost \ t.lost PROVE Unvoted(id, base)
    <3>1. CASE id \in s.lost
      BY <2>3, <3>1
    <3>2. CASE id \notin s.lost
      <4>1. Loses(c) /\ id = c.id /\ Pending(s, c.id)
        BY <2>5, <3>2 DEF Effect, SameLosses, Forfeits
      <4>2. c.id \notin KeptBy(SubSeq(calls, 1, k))
        BY <2>3, <4>1
      <4>3. Unvoted(c.id, base)
        BY <2>1, <4>1, <4>2 DEF SafeAfter
      <4> QED
        BY <4>1, <4>3
    <3> QED
      BY <3>1, <3>2
  <2>8. u \in Ledgers
    BY <2>5 DEF Effect
  <2> QED
    BY <2>6, <2>7, <2>8
<1>5. P \in SUBSET Nat
  OBVIOUS
<1> HIDE DEF P
<1>6. n \in P
  BY <1>1, <1>3, <1>4, <1>5, InductionOverNat
<1>7. g[n] = Chain!Batch(t, calls)
  BY <1>2 DEF Course
<1>8. Good(g[n], n)
  BY <1>1, <1>6, <1>7 DEF P
<1> QED
  BY <1>7, <1>8

\* A batch leaves a ledger or reverts.
LEMMA BatchType ==
    ASSUME NEW t \in Ledgers, NEW calls, GoodCalls(calls, AllVotes)
    PROVE  Chain!Batch(t, calls) \in Ledgers \cup {Reverted}
<1> DEFINE n == Len(calls)
           V == Ledgers \cup {Reverted}
<1>1. n \in Nat /\ DOMAIN calls = 1 .. n
  BY DEF GoodCalls, IsSeq
<1>2. PICK g : Course(g, t, calls)
  BY BatchRuns
<1>3. ASSUME NEW k \in 1 .. n, g[k - 1] \in V PROVE g[k] \in V
  <2>1. GoodCall(calls[k], AllVotes)
    BY <1>1 DEF GoodCalls
  <2>2. g[k] = IF g[k - 1] = Reverted THEN Reverted ELSE Chain!Call(g[k - 1], calls[k])
    BY <1>2 DEF Course
  <2>3. g[k - 1] # Reverted /\ g[k] # Reverted => Effect(g[k - 1], calls[k], g[k])
    BY <1>3, <2>1, <2>2, CallEffect
  <2> QED
    BY <2>2, <2>3 DEF Effect
<1>4. g[0] \in V /\ g[n] = Chain!Batch(t, calls)
  BY <1>2 DEF Course
<1>5. \A k \in 1 .. n : g[k - 1] \in V => g[k] \in V
  BY <1>3
<1> HIDE DEF V
<1>6. \A k \in 0 .. n : g[k] \in V
  BY <1>1, <1>4, <1>5, RangeRecursionType
<1>7. n \in 0 .. n
  BY <1>1
<1> QED
  BY <1>4, <1>6, <1>7 DEF V

\* A claim of a vote that is not there reverts the batch, when only claims precede it:
\* no claim gives a vote to an NFT that had none, or another pool to one that votes.
LEMMA BatchStops ==
    ASSUME NEW t \in Ledgers, NEW calls, GoodCalls(calls, AllVotes),
           NEW ns, ClaimsAll(calls, ns), NEW n \in ns, ~ Chain!VotesIn(t, n.id, n.vote.pool)
    PROVE  Chain!Batch(t, calls) = Reverted
<1> DEFINE len == Len(calls)
           Same(s) == s = Reverted \/ (s \in Ledgers /\ NoNewVotes(t, s))
<1>1. len \in Nat /\ DOMAIN calls = 1 .. len
  BY DEF GoodCalls, IsSeq
<1>2. PICK g : Course(g, t, calls)
  BY BatchRuns
<1>3. PICK k \in 1 .. len : /\ calls[k].id = n.id /\ calls[k].pool = n.vote.pool
                            /\ \A j \in 1 .. k : Claims(calls[j])
  BY <1>1 DEF ClaimsAll
<1>4. /\ g[0] = t /\ g[len] = Chain!Batch(t, calls)
      /\ \A j \in 1 .. len :
            g[j] = IF g[j - 1] = Reverted THEN Reverted ELSE Chain!Call(g[j - 1], calls[j])
  BY <1>2 DEF Course
<1>5. ASSUME NEW j \in 1 .. len, g[j - 1] \in Ledgers, g[j - 1] # Reverted, g[j] # Reverted
      PROVE  Effect(g[j - 1], calls[j], g[j])
  <2>1. GoodCall(calls[j], AllVotes)
    BY <1>1 DEF GoodCalls
  <2>2. g[j] = Chain!Call(g[j - 1], calls[j])
    BY <1>4, <1>5
  <2> QED
    BY <1>5, <2>1, <2>2, CallEffect
<1> DEFINE Before == {j \in Nat : j < k => Same(g[j])}
<1>6. 0 \in Before
  BY <1>4 DEF NoNewVotes
<1>7. ASSUME NEW j \in Before PROVE j + 1 \in Before
  <2> SUFFICES ASSUME j + 1 < k, g[j + 1] # Reverted
               PROVE  g[j + 1] \in Ledgers /\ NoNewVotes(t, g[j + 1])
    OBVIOUS
  <2>1. j + 1 \in 1 .. len /\ j + 1 \in 1 .. k /\ (j + 1) - 1 = j
    BY <1>1
  <2>2. g[j] # Reverted
    BY <1>4, <2>1
  <2>3. g[j] \in Ledgers /\ NoNewVotes(t, g[j])
    BY <2>2
  <2>4. Effect(g[j], calls[j + 1], g[j + 1]) /\ Claims(calls[j + 1])
    BY <1>3, <1>5, <2>1, <2>2, <2>3
  <2> QED
    BY <2>3, <2>4 DEF Effect, NoNewVotes
<1>8. Before \in SUBSET Nat
  OBVIOUS
<1> HIDE DEF Before
<1>9. k - 1 \in Before
  <2>1. Before = Nat
    BY <1>6, <1>7, <1>8, InductionOverNat
  <2>2. k - 1 \in Nat
    BY <1>1
  <2> QED
    BY <2>1, <2>2
<1>10. Same(g[k - 1])
  BY <1>1, <1>9 DEF Before
<1>11. g[k] = Reverted
  <2> SUFFICES ASSUME g[k] # Reverted PROVE FALSE
    OBVIOUS
  <2>1. g[k - 1] # Reverted
    BY <1>4
  <2>2. g[k - 1] \in Ledgers /\ NoNewVotes(t, g[k - 1])
    BY <1>10, <2>1
  <2>3. Effect(g[k - 1], calls[k], g[k]) /\ Claims(calls[k])
    BY <1>1, <1>3, <1>5, <2>1, <2>2
  <2> QED
    BY <1>3, <2>2, <2>3 DEF Effect, NoNewVotes
<1> DEFINE After == {j \in Nat : k <= j /\ j <= len => g[j] = Reverted}
<1>12. 0 \in After
  BY <1>1
<1>13. ASSUME NEW j \in After PROVE j + 1 \in After
  <2> SUFFICES ASSUME k <= j + 1, j + 1 <= len, j + 1 # k PROVE g[j + 1] = Reverted
    BY <1>11
  <2>1. k <= j /\ j <= len /\ j + 1 \in 1 .. len /\ (j + 1) - 1 = j
    BY <1>1
  <2> QED
    BY <1>4, <2>1
<1>14. After \in SUBSET Nat
  OBVIOUS
<1> HIDE DEF After
<1>15. len \in After
  BY <1>1, <1>12, <1>13, <1>14, InductionOverNat
<1> QED
  BY <1>1, <1>4, <1>15 DEF After

-------------------------------------------------------------------------------
(***************************************************************************)
(* The inductive invariant                                                 *)
(***************************************************************************)
NftsInv == nfts \in [DOMAIN nfts -> Nfts] /\ IsFiniteSet(DOMAIN nfts) /\ DOMAIN nfts \subseteq Nat

CountsInv ==
    /\ now \in 0 .. MaxTime /\ lost \in SUBSET Nat
    /\ plans \in 0 .. MaxPlans /\ runs \in 0 .. MaxRuns /\ moves \in 0 .. MaxMoves

\* What the indexer, the client and the plan in hand know are portfolios.
KnownInv ==
    /\ IsPortfolio(indexed, AllVotes) /\ IsPortfolio(reviewed, AllVotes)
    /\ IsPortfolio(plan.base, AllVotes)

\* The plan in hand keeps to the rule about fees, and if it is a reallocation it
\* starts with the claims of every vote the indexer knew of when it was made, and
\* gives each target its share of their stake.
PlanInv ==
    /\ plan = NoPlan \/ SafePlan(plan, plan.base, AllVotes)
    /\ Reallocating => ClaimsAll(plan.calls, Active(plan.known))
    /\ Reallocating => GivesShares(plan, plan.base, plan.known, plan.targets)

Inv == NftsInv /\ CountsInv /\ KnownInv /\ PlanInv

\* The lists of targets that are reallocated to.
LEMMA TargetsTyped ==
    ASSUME NEW targets \in TargetLists
    PROVE  IsTargets(targets, AllVotes)
<1> DEFINE T == [pool : Pools, fee : Nat, weight : Nat]
<1>1. targets \in Seq(T)
  BY TargetsAssumption
<1>2. ASSUME NEW i \in DOMAIN targets
      PROVE  targets[i].weight \in Nat /\ VoteOf(targets[i]) \in AllVotes
  <2>1. targets[i] \in T
    <3> HIDE DEF T
    <3> QED
      BY <1>1
  <2>2. targets[i] \in ToSet(targets)
    BY DEF ToSet
  <2>3. targets[i] \in UNION {ToSet(l) : l \in TargetLists}
    BY <2>2
  <2> QED
    BY <2>1, <2>3 DEF AllVotes
<1>3. IsSeq(targets)
  BY <1>1, AnySeq
<1> QED
  BY <1>2, <1>3 DEF IsTargets

\* Some of the NFTs of a portfolio are as it says if all are.
LEMMA SomeKnown ==
    ASSUME NEW base, NEW ns, Known(ns, base), NEW ms \in SUBSET ns
    PROVE  Known(ms, base)
BY FS_Subset DEF Known, Identified

\* So are the active ones.
LEMMA ActiveKnown ==
    ASSUME NEW votes, NEW p, IsPortfolio(p, votes)
    PROVE  Known(Active(p), p)
<1>1. {id \in DOMAIN p : p[id].vote # NoVote} \in SUBSET DOMAIN p
  OBVIOUS
<1> QED
  BY <1>1, NftsKnown DEF Active

\* So is each one.
LEMMA NftKnown ==
    ASSUME NEW votes, NEW p, IsPortfolio(p, votes), NEW id \in DOMAIN p
    PROVE  /\ Known(NftsOf(p, {id}), p) /\ Nft(p, id) \in NftsOf(p, {id})
           /\ Nft(p, id).amount \in Nat
<1>1. {id} \in SUBSET DOMAIN p
  OBVIOUS
<1>2. Nft(p, id) \in NftsOf(p, {id})
  BY DEF Nft, NftsOf
<1>3. Known(NftsOf(p, {id}), p)
  BY <1>1, NftsKnown
<1> QED
  BY <1>2, <1>3 DEF Known

\* The plan before there is one.
LEMMA NoPlanFacts ==
    /\ IsPortfolio(NoPlan.base, AllVotes)
    /\ NoPlan.tool = "none"
<1>1. IsFiniteSet({})
  BY FS_EmptySet
<1> QED
  BY <1>1 DEF NoPlan, NoPromise, IsPortfolio

\* The invariant holds of what the workflow starts from.
LEMMA InitInv ==
    ASSUME Init
    PROVE  Inv
<1>1. PICK p \in Portfolios :
        /\ nfts = [id \in DOMAIN p |->
                      [mine |-> TRUE, amount |-> p[id].amount, end |-> p[id].end,
                       vote |-> p[id].vote, pending |-> p[id].vote # NoVote]]
        /\ indexed = p /\ reviewed = p
  BY DEF Init
<1>2. /\ IsFiniteSet(DOMAIN p) /\ DOMAIN p \subseteq Nat
      /\ p \in [DOMAIN p -> [amount : Nat \ {0}, end : Nat, vote : Votes \cup {NoVote}]]
  BY PortfoliosAssumption
<1>3. IsPortfolio(p, AllVotes)
  BY <1>2 DEF IsPortfolio, AllVotes
<1>4. ASSUME NEW id \in DOMAIN p PROVE nfts[id] \in Nfts
  <2>1. p[id].amount \in Nat \ {0} /\ p[id].end \in Nat /\ p[id].vote \in AllVotes \cup {NoVote}
    BY <1>2 DEF AllVotes
  <2> DEFINE voted == p[id].vote # NoVote
  <2>2. nfts[id] = [mine |-> TRUE, amount |-> p[id].amount, end |-> p[id].end,
                    vote |-> p[id].vote, pending |-> voted]
    BY <1>1
  <2>3. voted \in BOOLEAN
    OBVIOUS
  <2> HIDE DEF voted
  <2> QED
    BY <2>1, <2>2, <2>3, NftFacts
<1>5. NftsInv
  <2> DEFINE start(id) == [mine |-> TRUE, amount |-> p[id].amount, end |-> p[id].end,
                           vote |-> p[id].vote, pending |-> p[id].vote # NoVote]
  <2>1. nfts = [id \in DOMAIN p |-> start(id)]
    BY <1>1
  <2> HIDE DEF start
  <2>2. nfts = [id \in DOMAIN p |-> nfts[id]] /\ DOMAIN nfts = DOMAIN p
    BY <2>1
  <2> QED
    BY <1>2, <1>4, <2>2 DEF NftsInv
<1>6. CountsInv
  BY BoundsAssumption DEF Init, CountsInv
<1>7. plan = NoPlan
  BY DEF Init
<1>8. KnownInv
  BY <1>1, <1>3, <1>7, NoPlanFacts DEF KnownInv
<1>9. PlanInv
  BY <1>7, NoPlanFacts DEF PlanInv, Reallocating
<1> QED
  BY <1>5, <1>6, <1>8, <1>9 DEF Inv

\* The state as a ledger.
LEMMA LedgerTyped ==
    ASSUME Inv
    PROVE  /\ Ledger \in Ledgers
           /\ Ledger.nfts = nfts /\ Ledger.now = now /\ Ledger.lost = lost
<1>1. /\ DOMAIN nfts \in SUBSET Nat /\ IsFiniteSet(DOMAIN nfts)
      /\ nfts \in [DOMAIN nfts -> Nfts] /\ now \in Nat /\ lost \in SUBSET Nat
  BY BoundsAssumption DEF Inv, NftsInv, CountsInv
<1>2. Ledger = [nfts |-> nfts, now |-> now, lost |-> lost]
  BY DEF Ledger
<1> QED
  BY <1>1, <1>2, LedgerMade

-------------------------------------------------------------------------------
(***************************************************************************)
(* Each action keeps the invariant: the world                              *)
(***************************************************************************)
LEMMA ExecuteInv ==
    ASSUME Inv, Execute
    PROVE  Inv'
<1>1. Ledger \in Ledgers /\ Ledger.nfts = nfts /\ Ledger.lost = lost
  BY LedgerTyped
<1>2. GoodCalls(plan.calls, AllVotes)
  BY DEF Inv, PlanInv, SafePlan, Execute
<1>3. Outcome \in Ledgers \cup {Reverted}
  BY <1>1, <1>2, BatchType DEF Outcome
<1>4. CASE Outcome = Reverted
  <2>1. UNCHANGED <<nfts, lost>>
    BY <1>4 DEF Execute
  <2> QED
    BY <2>1, BoundsAssumption
       DEF Inv, NftsInv, CountsInv, KnownInv, PlanInv, Reallocating, Execute
<1>5. CASE Outcome # Reverted
  <2>1. nfts' = Outcome.nfts /\ lost' = Outcome.lost /\ Outcome \in Ledgers
    BY <1>3, <1>5 DEF Execute
  <2>2. NftsInv' /\ lost' \in SUBSET Nat
    BY <2>1, LedgerFacts DEF NftsInv
  <2> QED
    BY <2>2, BoundsAssumption
       DEF Inv, CountsInv, KnownInv, PlanInv, Reallocating, Execute
<1> QED
  BY <1>4, <1>5

\* The indexer catching up with the ledger keeps it.
LEMMA SyncInv ==
    ASSUME Inv, Sync
    PROVE  Inv'
<1> DEFINE ids == {k \in DOMAIN nfts : nfts[k].mine}
           row == [id \in ids |-> [amount |-> nfts[id].amount, end |-> nfts[id].end,
                                   vote |-> nfts[id].vote]]
<1>1. indexed' = row
  BY DEF Sync, Portfolio
<1>2. IsFiniteSet(ids) /\ ids \subseteq Nat
  BY FS_Subset DEF Inv, NftsInv
<1>3. ASSUME NEW id \in ids
      PROVE  row[id] \in [amount : Nat \ {0}, end : Nat, vote : AllVotes \cup {NoVote}]
  <2>1. nfts[id] \in Nfts
    BY DEF Inv, NftsInv
  <2> QED
    BY <2>1, NftFacts
<1>4. IsPortfolio(indexed', AllVotes)
  BY <1>1, <1>2, <1>3 DEF IsPortfolio
<1> QED
  BY <1>4 DEF Inv, NftsInv, CountsInv, KnownInv, PlanInv, Reallocating, Sync, client

\* An NFT of the ledger is replaced, and nothing else.
LEMMA ReplaceInv ==
    ASSUME Inv, NEW id \in DOMAIN nfts, NEW nft \in Nfts, nfts' = [nfts EXCEPT ![id] = nft]
    PROVE  NftsInv'
BY DEF Inv, NftsInv

\* Fees that accrue keep it.
LEMMA AccrueInv ==
    ASSUME Inv, Accrue
    PROVE  Inv'
<1> DEFINE yes == TRUE
<1>1. PICK id \in DOMAIN nfts : nfts' = [nfts EXCEPT ![id] = [nfts[id] EXCEPT !.pending = yes]]
  BY DEF Accrue
<1> DEFINE n == nfts[id]
           nft == [n EXCEPT !.pending = yes]
<1>2. n \in Nfts
  BY DEF Inv, NftsInv
<1>3. nft \in Nfts
  <2>1. yes \in BOOLEAN
    OBVIOUS
  <2> HIDE DEF n, yes
  <2>2. nft = [mine |-> n.mine, amount |-> n.amount, end |-> n.end,
               pending |-> yes, vote |-> n.vote]
    BY <1>2, NftFacts
  <2> HIDE DEF nft
  <2> QED
    BY <1>2, <2>1, <2>2, NftFacts
<1>4. nfts' = [nfts EXCEPT ![id] = nft]
  BY <1>1
<1> HIDE DEF nft
<1>5. NftsInv'
  BY <1>3, <1>4, ReplaceInv
<1> QED
  BY <1>5 DEF Inv, CountsInv, KnownInv, PlanInv, Reallocating, Accrue, client

\* Time that passes keeps it.
LEMMA TickInv ==
    ASSUME Inv, Tick
    PROVE  Inv'
BY BoundsAssumption DEF Inv, NftsInv, CountsInv, KnownInv, PlanInv, Reallocating, Tick, client

\* The owner's own batch.
LEMMA ElsewhereInv ==
    ASSUME Inv, NEW calls, GoodCalls(calls, AllVotes), Elsewhere(calls)
    PROVE  NftsInv'
<1>1. Ledger \in Ledgers
  BY LedgerTyped
<1>2. Chain!Batch(Ledger, calls) \in Ledgers /\ nfts' = Chain!Batch(Ledger, calls).nfts
  BY <1>1, BatchType DEF Elsewhere
<1> QED
  BY <1>2, LedgerFacts DEF NftsInv

\* One well formed call.
LEMMA OneGood ==
    ASSUME NEW c, GoodCall(c, AllVotes)
    PROVE  GoodCalls(<<c>>, AllVotes)
<1>1. <<c>> \in Seq({c})
  OBVIOUS
<1>2. IsSeq(<<c>>)
  BY <1>1, AnySeq
<1> QED
  BY <1>2 DEF GoodCalls

\* The owner's own changes elsewhere keep it.
LEMMA MoveInv ==
    ASSUME Inv, Move
    PROVE  Inv'
<1>1. PICK id \in DOMAIN nfts :
        LET claim == IF nfts[id].vote = NoVote THEN <<>>
                     ELSE <<ClaimCall([id |-> id, vote |-> nfts[id].vote])>> IN
        \/ \E v \in Votes : Elsewhere(claim \o <<[op |-> "vote", id |-> id, vote |-> v]>>)
        \/ Elsewhere(claim \o <<ClearCall(id)>>)
        \/ Elsewhere(<<SplitCall(id, 1, 1000 + moves)>>)
        \/ Elsewhere(<<[op |-> "increase", id |-> id, amount |-> 1]>>)
        \/ nfts[id].mine /\ nfts' = [nfts EXCEPT ![id].mine = FALSE]
  BY DEF Move
<1> DEFINE claim == IF nfts[id].vote = NoVote THEN <<>>
                    ELSE <<ClaimCall([id |-> id, vote |-> nfts[id].vote])>>
<1>2. GoodCalls(claim, AllVotes)
  <2>1. GoodCall(ClaimCall([id |-> id, vote |-> nfts[id].vote]), AllVotes)
    BY DEF GoodCall, ClaimCall, Claims
  <2>2. GoodCalls(<<>>, AllVotes)
    BY DEF GoodCalls, IsSeq
  <2> QED
    BY <2>1, <2>2, OneGood
<1> HIDE DEF claim
<1>3. ASSUME NEW v \in Votes, Elsewhere(claim \o <<[op |-> "vote", id |-> id, vote |-> v]>>)
      PROVE  NftsInv'
  <2>1. GoodCall([op |-> "vote", id |-> id, vote |-> v], AllVotes)
    BY DEF GoodCall, Loses, AllVotes
  <2>2. GoodCalls(<<[op |-> "vote", id |-> id, vote |-> v]>>, AllVotes)
    BY <2>1, OneGood
  <2> QED
    BY <1>2, <1>3, <2>2, GoodJoin, ElsewhereInv
<1>4. ASSUME Elsewhere(claim \o <<ClearCall(id)>>)
      PROVE  NftsInv'
  <2>1. GoodCall(ClearCall(id), AllVotes)
    BY DEF GoodCall, Loses, ClearCall
  <2>2. GoodCalls(<<ClearCall(id)>>, AllVotes)
    BY <2>1, OneGood
  <2> QED
    BY <1>2, <1>4, <2>2, GoodJoin, ElsewhereInv
<1>5. ASSUME Elsewhere(<<SplitCall(id, 1, 1000 + moves)>>)
      PROVE  NftsInv'
  <2>1. 1000 + moves \in Nat
    BY BoundsAssumption DEF Inv, CountsInv
  <2>2. GoodCall(SplitCall(id, 1, 1000 + moves), AllVotes)
    BY <2>1 DEF GoodCall, SplitCall
  <2> QED
    BY <1>5, <2>2, OneGood, ElsewhereInv
<1>6. ASSUME Elsewhere(<<[op |-> "increase", id |-> id, amount |-> 1]>>)
      PROVE  NftsInv'
  <2>1. GoodCall([op |-> "increase", id |-> id, amount |-> 1], AllVotes)
    BY DEF GoodCall
  <2> QED
    BY <1>6, <2>1, OneGood, ElsewhereInv
<1>7. ASSUME nfts' = [nfts EXCEPT ![id].mine = FALSE]
      PROVE  NftsInv'
  <2> DEFINE n == nfts[id]
             no == FALSE
             nft == [n EXCEPT !.mine = no]
  <2>1. n \in Nfts
    BY DEF Inv, NftsInv
  <2>2. nft \in Nfts
    <3>1. no \in BOOLEAN
      OBVIOUS
    <3> HIDE DEF n, no
    <3>2. nft = [mine |-> no, amount |-> n.amount, end |-> n.end,
                 pending |-> n.pending, vote |-> n.vote]
      BY <2>1, NftFacts
    <3> HIDE DEF nft
    <3> QED
      BY <2>1, <3>1, <3>2, NftFacts
  <2>3. nfts' = [nfts EXCEPT ![id] = nft]
    BY <1>7
  <2> HIDE DEF nft
  <2> QED
    BY <2>2, <2>3, ReplaceInv
<1>8. NftsInv'
  BY <1>1, <1>3, <1>4, <1>5, <1>6, <1>7 DEF claim
<1> QED
  BY <1>8, BoundsAssumption DEF Inv, CountsInv, KnownInv, PlanInv, Reallocating, Move, client

\* Loading the portfolio keeps it.
LEMMA ReviewInv ==
    ASSUME Inv, Review
    PROVE  Inv'
<1>1. PICK page \in Pages(indexed) : Load(page) # Refused /\ reviewed' = Load(page)
  BY DEF Review
<1>2. reviewed' = indexed
  BY <1>1, LoadIsHonest DEF Inv, KnownInv
<1> QED
  BY <1>2 DEF Inv, NftsInv, CountsInv, KnownInv, PlanInv, Reallocating, Review

-------------------------------------------------------------------------------
(***************************************************************************)
(* Each action keeps the invariant: the preparers                          *)
(***************************************************************************)

\* What is asked of a plan that is handed out.
LEMMA PreparedInv ==
    ASSUME Inv, plans < MaxPlans,
           NEW p, NEW base, IsPortfolio(base, AllVotes), NEW targets, Prepared(p, base, targets),
           SafePlan(p, base, AllVotes),
           p.tool \in {"preserve", "compact"} =>
               ClaimsAll(p.calls, Active(indexed)) /\ GivesShares(p, base, indexed, targets)
    PROVE  Inv'
<1>1. /\ plan'.tool = p.tool /\ plan'.calls = p.calls /\ plan'.promise = p.promise
      /\ plan'.base = base /\ plan'.known = indexed /\ plan'.targets = targets
  BY DEF Prepared
<1>2. KnownInv'
  BY <1>1 DEF Inv, KnownInv, Prepared
<1>3. PlanInv'
  <2>1. SafePlan(plan, plan.base, AllVotes)'
    BY <1>1 DEF SafePlan
  <2>2. ASSUME Reallocating' PROVE ClaimsAll(plan.calls, Active(plan.known))'
    BY <1>1, <2>2 DEF Reallocating
  <2>3. ASSUME Reallocating' PROVE GivesShares(plan, plan.base, plan.known, plan.targets)'
    BY <1>1, <2>3 DEF Reallocating, GivesShares
  <2> QED
    BY <2>1, <2>2, <2>3 DEF PlanInv
<1>4. CountsInv'
  BY BoundsAssumption DEF Inv, CountsInv, Prepared
<1>5. NftsInv'
  BY DEF Inv, NftsInv, Prepared
<1> QED
  BY <1>2, <1>3, <1>4, <1>5 DEF Inv

\* The nonce and the time are numbers.
LEMMA NonceTyped ==
    ASSUME Inv
    PROVE  plans + 1 \in Nat /\ now \in Nat
BY BoundsAssumption DEF Inv, CountsInv

\* Preparing a reallocation keeps it.
LEMMA ReallocationInv ==
    ASSUME Inv, plans < MaxPlans, PrepareReallocation
    PROVE  Inv'
<1>1. PICK page \in Pages(indexed), targets \in TargetLists, strategy \in {"preserve", "compact"} :
         /\ SameState(Load(page))
         /\ Prepared(PlanReallocation(strategy, reviewed, targets, plans + 1, now), reviewed, targets)
  BY DEF PrepareReallocation
<1> DEFINE p == PlanReallocation(strategy, reviewed, targets, plans + 1, now)
<1>2. IsPortfolio(indexed, AllVotes) /\ IsPortfolio(reviewed, AllVotes)
  BY DEF Inv, KnownInv
<1>3. reviewed = indexed
  BY <1>1, <1>2, LoadIsHonest DEF SameState
<1>4. IsTargets(targets, AllVotes)
  BY TargetsTyped
<1>5. p # Refused /\ Prepared(p, reviewed, targets)
  BY <1>1 DEF Prepared
<1>6. SafePlan(p, reviewed, AllVotes) /\ ClaimsAll(p.calls, Active(reviewed))
  BY <1>2, <1>4, <1>5, NonceTyped, ReallocationSafe
<1>7. GivesShares(p, reviewed, reviewed, targets)
  BY <1>2, <1>4, <1>5, NonceTyped, ReallocationShares
<1> HIDE DEF p
<1>8. p.tool \in {"preserve", "compact"} =>
          ClaimsAll(p.calls, Active(indexed)) /\ GivesShares(p, reviewed, indexed, targets)
  BY <1>3, <1>6, <1>7
<1> QED
  BY <1>2, <1>5, <1>6, <1>8, PreparedInv

\* Preparing to stake everything keeps it.
LEMMA StakeAllInv ==
    ASSUME Inv, plans < MaxPlans, PrepareStakeAll
    PROVE  Inv'
<1>1. PICK amount \in {2, 3}, native \in BOOLEAN :
         Prepared(PlanStakeAll(reviewed, amount, native, now), reviewed, <<>>)
  BY DEF PrepareStakeAll
<1> DEFINE p == PlanStakeAll(reviewed, amount, native, now)
<1>2. IsPortfolio(reviewed, AllVotes)
  BY DEF Inv, KnownInv
<1>3. p # Refused /\ Prepared(p, reviewed, <<>>)
  BY <1>1 DEF Prepared
<1>4. SafePlan(p, reviewed, AllVotes)
  BY <1>2, <1>3, StakeAllSafe
<1>5. p.tool = "stake_all"
  BY <1>3 DEF PlanStakeAll
<1> HIDE DEF p
<1> QED
  BY <1>2, <1>3, <1>4, <1>5, PreparedInv

\* Preparing to claim from the votes table keeps it.
LEMMA ClaimsInv ==
    ASSUME Inv, plans < MaxPlans, PrepareClaims
    PROVE  Inv'
<1>1. PICK page \in Pages(indexed) :
         /\ LoadVotes(page) # Refused
         /\ Prepared(PlanClaims(LoadVotes(page)), LoadVotes(page), <<>>)
  BY DEF PrepareClaims
<1> DEFINE votes == LoadVotes(page)
           p == PlanClaims(votes)
           ns == NftsOf(votes, DOMAIN votes)
<1>2. IsPortfolio(votes, AllVotes)
  BY <1>1, LoadVotesType DEF Inv, KnownInv
<1>3. p # Refused /\ Prepared(p, votes, <<>>)
  BY <1>1 DEF Prepared
<1> HIDE DEF votes
<1>4. p = PlanClaim(ns) /\ DOMAIN votes # {}
  BY <1>3 DEF PlanClaims
<1>5. Known(ns, votes) /\ ns # {}
  <2>1. DOMAIN votes \in SUBSET DOMAIN votes
    OBVIOUS
  <2> QED
    BY <1>2, <1>4, <2>1, NftsKnown
<1> HIDE DEF ns
<1>6. SafePlan(p, votes, AllVotes)
  BY <1>4, <1>5, ClaimSafe
<1>7. p.tool = "claim"
  BY <1>4 DEF PlanClaim, PlanOf
<1> HIDE DEF p
<1> QED
  BY <1>2, <1>3, <1>6, <1>7, PreparedInv

\* The preparers of one NFT, and of some of the votes.
LEMMA SimpleInv ==
    ASSUME Inv, plans < MaxPlans, NEW p, NEW targets, Prepared(p, reviewed, targets),
           SafePlan(p, reviewed, AllVotes), p.tool \notin {"preserve", "compact"}
    PROVE  Inv'
BY PreparedInv DEF Inv, KnownInv

\* Preparing a vote keeps it.
LEMMA VoteInv ==
    ASSUME Inv, plans < MaxPlans, PrepareVote
    PROVE  Inv'
<1>1. PICK id \in DOMAIN reviewed, targets \in TargetLists, unallocated \in 0 .. 1 :
         Prepared(PlanVote(Nft(reviewed, id), targets, unallocated, plans + 1), reviewed, targets)
  BY DEF PrepareVote
<1> DEFINE n == Nft(reviewed, id)
           p == PlanVote(n, targets, unallocated, plans + 1)
<1>2. p # Refused /\ Prepared(p, reviewed, targets)
  BY <1>1 DEF Prepared
<1>3. n.amount \in Nat
  BY NftKnown DEF Inv, KnownInv
<1> HIDE DEF n
<1>4. SafePlan(p, reviewed, AllVotes)
  <2>1. unallocated \in Nat /\ plans + 1 \in Nat
    BY NonceTyped
  <2> QED
    BY <1>2, <1>3, <2>1, TargetsTyped, VoteSafe
<1>5. p.tool = "vote"
  BY <1>2 DEF PlanVote
<1> HIDE DEF p
<1> QED
  BY <1>2, <1>4, <1>5, SimpleInv

\* The NFTs the client has reviewed.
LEMMA ReviewedKnown ==
    ASSUME Inv
    PROVE  /\ IsPortfolio(reviewed, AllVotes)
           /\ \A id \in DOMAIN reviewed :
                 /\ Known(NftsOf(reviewed, {id}), reviewed)
                 /\ Nft(reviewed, id) \in NftsOf(reviewed, {id})
           /\ \A ns \in SUBSET Active(reviewed) : Known(ns, reviewed)
           /\ plans + 1 \in Nat
BY NonceTyped, NftKnown, ActiveKnown, SomeKnown DEF Inv, KnownInv

\* Preparing a change of a lock keeps it.
LEMMA LockInv ==
    ASSUME Inv, plans < MaxPlans,
           PrepareExtend \/ PrepareSplit \/ PrepareStake \/ PrepareIncrease \/ PrepareWithdraw
    PROVE  Inv'
<1>1. CASE PrepareExtend
  <2>1. PICK id \in DOMAIN reviewed, duration \in {1, MaxLock} :
           Prepared(PlanExtend(Nft(reviewed, id), duration), reviewed, <<>>)
    BY <1>1 DEF PrepareExtend
  <2>2. duration \in Nat
    BY LimitsAssumption
  <2>3. SafePlan(PlanExtend(Nft(reviewed, id), duration), reviewed, AllVotes)
    BY <2>2, ReviewedKnown, ExtendSafe
  <2>4. PlanExtend(Nft(reviewed, id), duration).tool = "extend"
    BY DEF PlanExtend, PlanOf
  <2> QED
    BY <2>1, <2>3, <2>4, SimpleInv
<1>2. CASE PrepareSplit
  <2>1. PICK id \in DOMAIN reviewed :
           \E amount \in 1 .. (reviewed[id].amount - 1) :
              Prepared(PlanSplit(Nft(reviewed, id), amount, plans + 1), reviewed, <<>>)
    BY <1>2 DEF PrepareSplit
  <2>4. PICK amount \in 1 .. (reviewed[id].amount - 1) :
           Prepared(PlanSplit(Nft(reviewed, id), amount, plans + 1), reviewed, <<>>)
    BY <2>1
  <2>2. SafePlan(PlanSplit(Nft(reviewed, id), amount, plans + 1), reviewed, AllVotes)
    BY ReviewedKnown, SplitSafe
  <2>3. PlanSplit(Nft(reviewed, id), amount, plans + 1).tool = "split"
    BY DEF PlanSplit
  <2> QED
    BY <2>2, <2>3, <2>4, SimpleInv
<1>3. CASE PrepareStake
  <2>1. PICK duration \in {1, MaxLock} :
           Prepared(PlanStake(1, duration, plans + 1), reviewed, <<>>)
    BY <1>3 DEF PrepareStake
  <2>2. duration \in Nat
    BY LimitsAssumption
  <2>3. SafePlan(PlanStake(1, duration, plans + 1), reviewed, AllVotes)
    BY <2>2, ReviewedKnown, StakeSafe
  <2>4. PlanStake(1, duration, plans + 1).tool = "stake"
    BY DEF PlanStake
  <2> QED
    BY <2>1, <2>3, <2>4, SimpleInv
<1>4. CASE PrepareIncrease
  <2>1. PICK id \in DOMAIN reviewed : Prepared(PlanIncrease(Nft(reviewed, id), 1), reviewed, <<>>)
    BY <1>4 DEF PrepareIncrease
  <2>2. SafePlan(PlanIncrease(Nft(reviewed, id), 1), reviewed, AllVotes)
    BY IncreaseSafe
  <2>3. PlanIncrease(Nft(reviewed, id), 1).tool = "increase"
    BY DEF PlanIncrease
  <2> QED
    BY <2>1, <2>2, <2>3, SimpleInv
<1>5. CASE PrepareWithdraw
  <2>1. PICK id \in DOMAIN reviewed : Prepared(PlanWithdraw(Nft(reviewed, id)), reviewed, <<>>)
    BY <1>5 DEF PrepareWithdraw
  <2>2. SafePlan(PlanWithdraw(Nft(reviewed, id)), reviewed, AllVotes)
    BY ReviewedKnown, WithdrawSafe
  <2>3. PlanWithdraw(Nft(reviewed, id)).tool = "withdraw"
    BY DEF PlanWithdraw, PlanOf
  <2> QED
    BY <2>1, <2>2, <2>3, SimpleInv
<1> QED
  BY <1>1, <1>2, <1>3, <1>4, <1>5

\* Preparing to claim, clear or merge votes keeps it.
LEMMA VotesInv ==
    ASSUME Inv, plans < MaxPlans, PrepareClaim \/ PrepareClear \/ PrepareMerge
    PROVE  Inv'
<1>1. CASE PrepareClaim
  <2>1. PICK ns \in SUBSET Active(reviewed) : ns # {} /\ Prepared(PlanClaim(ns), reviewed, <<>>)
    BY <1>1 DEF PrepareClaim
  <2>2. SafePlan(PlanClaim(ns), reviewed, AllVotes)
    BY <2>1, ReviewedKnown, ClaimSafe
  <2>3. PlanClaim(ns).tool = "claim"
    BY DEF PlanClaim, PlanOf
  <2> QED
    BY <2>1, <2>2, <2>3, SimpleInv
<1>2. CASE PrepareClear
  <2>1. PICK ns \in SUBSET Active(reviewed) : ns # {} /\ Prepared(PlanClear(ns), reviewed, <<>>)
    BY <1>2 DEF PrepareClear
  <2>2. SafePlan(PlanClear(ns), reviewed, AllVotes)
    BY <2>1, ReviewedKnown, ClearSafe
  <2>3. PlanClear(ns).tool = "clear"
    BY DEF PlanClear
  <2> QED
    BY <2>1, <2>2, <2>3, SimpleInv
<1>3. CASE PrepareMerge
  <2>1. PICK id \in DOMAIN reviewed, ids \in SUBSET DOMAIN reviewed,
             vote \in Votes \cup {NoVote, Keep} :
           /\ ids # {}
           /\ Prepared(PlanMerge(Nft(reviewed, id), NftsOf(reviewed, ids), vote), reviewed, <<>>)
    BY <1>3 DEF PrepareMerge
  <2>2. Known(NftsOf(reviewed, ids), reviewed) /\ NftsOf(reviewed, ids) # {}
    BY <2>1, NftsKnown, ReviewedKnown
  <2>3. vote \in AllVotes \cup {NoVote, Keep}
    BY DEF AllVotes
  <2>4. SafePlan(PlanMerge(Nft(reviewed, id), NftsOf(reviewed, ids), vote), reviewed, AllVotes)
    BY <2>2, <2>3, ReviewedKnown, MergeSafe
  <2>5. PlanMerge(Nft(reviewed, id), NftsOf(reviewed, ids), vote).tool = "merge"
    BY DEF PlanMerge, PlanOf
  <2> QED
    BY <2>1, <2>4, <2>5, SimpleInv
<1> QED
  BY <1>1, <1>2, <1>3

-------------------------------------------------------------------------------
(***************************************************************************)
(* What holds of the workflow                                              *)
(***************************************************************************)

\* The inductive invariant holds of every state: every ledger, portfolio and counter
\* has its type, and every plan handed out claims before it gives up fees.
THEOREM Invariance == Spec => []Inv
<1>1. Init => Inv
  BY InitInv
<1>2. Inv /\ [Next]_vars => Inv'
  <2> SUFFICES ASSUME Inv, [Next]_vars PROVE Inv'
    OBVIOUS
  <2>1. CASE Review
    BY <2>1, ReviewInv
  <2>2. CASE Prepare
    <3>1. plans < MaxPlans
      BY <2>2 DEF Prepare
    <3>2. CASE PrepareReallocation
      BY <3>1, <3>2, ReallocationInv
    <3>3. CASE PrepareStakeAll
      BY <3>1, <3>3, StakeAllInv
    <3>4. CASE PrepareClaims
      BY <3>1, <3>4, ClaimsInv
    <3>5. CASE PrepareVote
      BY <3>1, <3>5, VoteInv
    <3>6. CASE PrepareExtend \/ PrepareSplit \/ PrepareStake \/ PrepareIncrease \/ PrepareWithdraw
      BY <3>1, <3>6, LockInv
    <3>7. CASE PrepareClaim \/ PrepareClear \/ PrepareMerge
      BY <3>1, <3>7, VotesInv
    <3> QED
      BY <2>2, <3>2, <3>3, <3>4, <3>5, <3>6, <3>7 DEF Prepare
  <2>3. CASE Execute
    BY <2>3, ExecuteInv
  <2>4. CASE Sync
    BY <2>4, SyncInv
  <2>5. CASE Accrue
    BY <2>5, AccrueInv
  <2>6. CASE Tick
    BY <2>6, TickInv
  <2>7. CASE Move
    BY <2>7, MoveInv
  <2>8. CASE UNCHANGED vars
    BY <2>8 DEF vars, Inv, NftsInv, CountsInv, KnownInv, PlanInv, Reallocating
  <2> QED
    BY <2>1, <2>2, <2>3, <2>4, <2>5, <2>6, <2>7, <2>8 DEF Next
<1> QED
  BY <1>1, <1>2, PTL DEF Spec

\* Whatever the owner starts with and whatever the tools are asked for, every variable of
\* the workflow has its type, and a plan of any preparer of src/src/ve33.ts has a call.
THEOREM TypeCorrect == Spec => []TypeOK
<1>1. Inv => TypeOK
  <2> SUFFICES ASSUME Inv PROVE TypeOK
    OBVIOUS
  <2>1. \A id \in DOMAIN nfts : id \in Nat /\ nfts[id] \in Nfts
    BY DEF Inv, NftsInv
  <2>2. now \in 0 .. MaxTime /\ lost \subseteq Nat
    BY DEF Inv, CountsInv
  <2>3. ASSUME NEW p, IsPortfolio(p, AllVotes), NEW id \in DOMAIN p
        PROVE  id \in Nat /\ p[id].amount \in Nat \ {0}
    BY <2>3 DEF IsPortfolio
  <2>4. plan = NoPlan \/ plan.calls # <<>>
    BY DEF Inv, PlanInv, SafePlan
  <2>5. plans \in 0 .. MaxPlans /\ runs \in 0 .. MaxRuns /\ moves \in 0 .. MaxMoves
    BY DEF Inv, CountsInv
  <2>6. \A p \in {indexed, reviewed, plan.base} : IsPortfolio(p, AllVotes)
    BY DEF Inv, KnownInv
  <2> QED
    BY <2>1, <2>2, <2>3, <2>4, <2>5, <2>6 DEF TypeOK
<1> QED
  BY <1>1, Invariance, PTL

\* No preparer of src/src/ve33.ts hands out a batch that discards the fees of an NFT which
\* voted when the plan was made - with votes moved, fees accrued and locks run out since,
\* for any number of NFTs and targets, however often the batch is submitted.
THEOREM FeesKeptHolds == Spec => []FeesKept
<1>1. Inv => FeesKept
  <2> SUFFICES ASSUME Inv, plan # NoPlan, Outcome # Reverted, NEW id \in Outcome.lost \ lost
               PROVE  id \in DOMAIN plan.base /\ plan.base[id].vote = NoVote
    BY DEF FeesKept
  <2>1. Ledger \in Ledgers /\ Ledger.lost = lost
    BY LedgerTyped
  <2>2. GoodCalls(plan.calls, AllVotes) /\ SafeAfter(plan.calls, plan.base, {})
    BY DEF Inv, PlanInv, SafePlan
  <2>3. Chain!Batch(Ledger, plan.calls) # Reverted
    BY DEF Outcome
  <2>4. \A k \in Chain!Batch(Ledger, plan.calls).lost \ Ledger.lost : Unvoted(k, plan.base)
    BY <2>1, <2>2, <2>3, BatchKeepsFees
  <2> QED
    BY <2>1, <2>4 DEF Outcome, Unvoted
<1> QED
  BY <1>1, Invariance, PTL

\* A reallocation (prepareVe33Reallocation, either strategy) of a portfolio one of whose
\* votes has meanwhile moved to another pool, been cleared or left the owner changes
\* nothing, as README.md:664-666 says: its claims come first, and one of them reverts.
THEOREM StaleVoteStopsHolds == Spec => []StaleVoteStops
<1>1. Inv => StaleVoteStops
  <2> SUFFICES ASSUME Inv, Reallocating, NEW n \in Active(plan.known),
                      ~ Chain!VotesIn(Ledger, n.id, n.vote.pool)
               PROVE  Outcome = Reverted
    BY DEF StaleVoteStops
  <2>1. Ledger \in Ledgers
    BY LedgerTyped
  <2>2. plan # NoPlan
    BY NoPlanFacts DEF Reallocating
  <2>3. GoodCalls(plan.calls, AllVotes) /\ ClaimsAll(plan.calls, Active(plan.known))
    BY <2>2 DEF Inv, PlanInv, SafePlan
  <2> QED
    BY <2>1, <2>3, BatchStops DEF Outcome
<1> QED
  BY <1>1, Invariance, PTL

\* No NFT of the portfolio a plan was made from has the id the plan gives a new one: the
\* salts of new NFTs are hashes (saltToId), which the code takes to be different.
IdsApart == NewIds(plan.calls, plan.base)

\* Whatever the portfolio, the targets and their weights, a reallocation that is handed
\* out (prepareVe33Reallocation, either strategy) promises each target, in all its pieces
\* together, what apportionAmounts gives it of the stake that was known to vote: of every
\* lock-end cohort when locks are kept, of the whole when they are compacted.
THEOREM SharesAsRequestedHolds == Spec => [](IdsApart => SharesAsRequested)
<1>1. Inv => (IdsApart => SharesAsRequested)
  <2> SUFFICES ASSUME Inv, IdsApart, Reallocating,
                      NEW i \in DOMAIN plan.targets
               PROVE  LET promised == {id \in DOMAIN plan.promise :
                                          plan.promise[id].vote = VoteOf(plan.targets[i])}
                          parts == IF plan.tool = "compact" THEN {Active(plan.known)}
                                   ELSE {ToSet(c) : c \in ToSet(GroupByEndTime(Active(plan.known)))}
                      IN  Total([id \in promised |-> plan.promise[id].amount])
                            = Total([ns \in parts |-> ApportionAmounts(StakeOf(ns), plan.targets)[i]])
    BY DEF SharesAsRequested
  <2>1. GivesShares(plan, plan.base, plan.known, plan.targets)
    BY DEF Inv, PlanInv
  <2>2. Given(plan.promise, VoteOf(plan.targets[i]))
          = Apportioned(Parts(plan.tool, plan.known), plan.targets, i)
    BY <2>1 DEF GivesShares, IdsApart
  <2> QED
    BY <2>2 DEF Given, Apportioned, Parts
<1> QED
  BY <1>1, Invariance, PTL
===============================================================================
