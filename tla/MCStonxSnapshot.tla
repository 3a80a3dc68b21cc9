-------------------------- MODULE MCStonxSnapshot --------------------------
(* StonxSnapshot for TLC: the calls are interchangeable. *)
EXTENDS StonxSnapshot, TLC

CallSymmetry == Permutations(Calls)
=============================================================================
