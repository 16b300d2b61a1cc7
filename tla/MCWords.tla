------------------------------- MODULE MCWords -------------------------------
(***************************************************************************)
(* The calls of the arithmetic that are looked at.                         *)
(***************************************************************************)
EXTENDS Words

(* Lengths around the word sizes, and the byte patterns zero, all ones and *)
(* two that no reversal leaves alone.                                      *)
MCBuffers == {[i \in 1..n |-> (first + step * i) % 256] :
                n \in 0..9 \cup {15}, first \in {0, 255}, step \in {0, 3, 90}}

(* The memories tell any two addresses below 32 apart. *)
MCMemories == {[a \in 0..31 |-> 0], [a \in 0..31 |-> 1]}
              \cup {[a \in 0..31 |-> BitOf(a, i)] : i \in 0..4}
MCBounds == {-16385, -16384, -129, -128, -2, -1, 0, 1, 2, 3, 127, 128, 129, 255, 256,
             16384, 16385, 32767, 32768}

(* The range whose ends are both powers of two. *)
MCPowers == {-128, 128}
==============================================================================
