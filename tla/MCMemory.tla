------------------------------ MODULE MCMemory -------------------------------
(* MemoryUsers on small instances. *)
EXTENDS MemoryUsers, TLC

CONSTANTS p1, p2, a1, a2

Symmetry == Permutations(Pools) \cup Permutations(Allocators)
==============================================================================
