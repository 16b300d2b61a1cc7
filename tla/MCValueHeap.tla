----------------------------- MODULE MCValueHeap -----------------------------
(***************************************************************************)
(* ValueHeap on small instances.  One program would need too many values   *)
(* and too much memory to do everything, so that each behaviour is one of  *)
(* these programs, which share the interesting cases out among them.       *)
(***************************************************************************)
EXTENDS ValueHeap, TLC

CONSTANTS m1, m2, m3, m4

Sym == Permutations(Addresses)

(* Numbers around the ends of a word of 5 bits, signed and unsigned.        *)
MCFloats == {-1, 0, 1, 9, 10, 16, 32}
Edges == {-16, -1, 0, 1, 9, 10, 15, 16, 31}
EdgeScalars == {v \in Scalars : v.type \in {"unsigned", "signed"} => v.bits \in Edges}
LetterY == Value("char", 121)

Program(n, p, i, s, o, c) ==
    [variables |-> n, payloads |-> p, items |-> i, scalars |-> s, owned |-> o, converted |-> c]

MCSettings == {
    \* every scalar converted to every type in place
    Program(1, 1, 0, EdgeScalars, {"string"}, ScalarTypes \ {"void"}),
    \* two variables that copy, move and nest arrays in each other
    Program(2, 4, 2, {Void}, {"array"}, {}),
    \* arrays and objects together
    Program(2, 2, 2, {Void}, {"array", "object"}, {}),
    \* an array that is filled while its elements are read
    Program(1, 3, 2, {LetterY}, {"array"}, {}),
    \* strings and the scalars that replace them
    Program(2, 2, 1, {LetterY}, {"string"}, {}) }
==============================================================================
