------------------------------ MODULE MCRwMutex ------------------------------
(* RwMutex on small instances: the parts threads play.                      *)
EXTENDS RwMutex, TLC

CONSTANTS t1, t2, t3, t4

AllBut(s) == [t \in Threads |-> IF t = s THEN {} ELSE AllOperations]
Reading == [t \in Threads |-> ReadOperations]
OneReader(s) == [t \in Threads |-> IF t = s THEN AllOperations ELSE WriteOperations]

(* All threads but one that use all operations; threads that read; one that *)
(* uses all operations beside others that write.                            *)
MCPrograms == {AllBut(t) : t \in Threads} \cup {Reading} \cup {OneReader(t) : t \in Threads}
MCAnything == {[t \in Threads |-> AllOperations]}

Symmetry == Permutations(Threads)
==============================================================================
