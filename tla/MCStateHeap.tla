---------------------------- MODULE MCStateHeap ----------------------------
(***************************************************************************)
(* Instance of StateHeap for TLC: three configs, so that a State has two   *)
(* children to choose from, and config ids that come back after a Deleted. *)
(***************************************************************************)
EXTENDS StateHeap

\* Addresses and config ids are interchangeable.
Symmetry == Permutations(Objs) \cup Permutations(Configs)
=============================================================================
