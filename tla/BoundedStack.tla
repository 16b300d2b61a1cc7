----------------------------- MODULE BoundedStack ----------------------------
(***************************************************************************)
(* What a stack of at most Depth values promises: values are pushed and    *)
(* popped at its end, and any of them can be taken out, its place being    *)
(* taken by the last one.                                                  *)
(***************************************************************************)
EXTENDS Integers, Sequences

CONSTANTS StackValues, Depth

VARIABLE content

StackInit == content = <<>>

Pushed(v) == Len(content) < Depth /\ content' = Append(content, v)

Popped == content # <<>> /\ content' = SubSeq(content, 1, Len(content) - 1)

Taken(i) ==
    /\ i \in 1..Len(content)
    /\ content' = [j \in 1..(Len(content) - 1) |->
                     IF j = i THEN content[Len(content)] ELSE content[j]]

Cleared == content' = <<>>

StackNext ==
    \/ \E v \in StackValues : Pushed(v)
    \/ Popped
    \/ \E i \in 1..Depth : Taken(i)
    \/ Cleared

StackSpec == StackInit /\ [][StackNext]_content
==============================================================================
