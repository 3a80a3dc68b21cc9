------------------------------ MODULE Ordering ------------------------------
(***************************************************************************)
(* What `sort` of a JavaScript array makes of distinct elements under a    *)
(* comparison that orders any two of them.  SetToSortSeq of SequencesExt   *)
(* gives the same sequence, but rests on SortSeq of TLC, of which a proof  *)
(* knows nothing; here the k-th element is the one with k - 1 before it.   *)
(***************************************************************************)
EXTENDS Integers, FiniteSets

Sorted(S, Before(_, _)) ==
    [k \in 1..Cardinality(S) |->
        CHOOSE x \in S : Cardinality({y \in S : Before(y, x)}) = k - 1]
=============================================================================
