---------------------------- MODULE MCThreadPool -----------------------------
(* ThreadPool on small instances: names for the threads, and the symmetry   *)
(* of threads that start alike.                                             *)
EXTENDS ThreadPool

CONSTANTS c1, c2, w1, w2

Symmetry == Permutations(Workers) \cup Permutations(Clients)
WorkerSymmetry == Permutations(Workers)
==============================================================================
