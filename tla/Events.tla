-------------------------------- MODULE Events -------------------------------
(***************************************************************************)
(* What the serialisers exchange: values as trees, the events of           *)
(* value_parser (serial/value_parser.hpp) and value_to_parser              *)
(* (serial/value_to_parser.cpp:18), which walks a value and calls a        *)
(* parser.  The walk is a list of things still to do, so that every event  *)
(* is a step of its own and the parser may throw at each.                  *)
(*                                                                         *)
(* A tree is a function from paths to nodes.  A path is the sequence of    *)
(* keys that leads to a node from the root; a key is the name of a member, *)
(* a sequence of character codes, and <<i>> for the i-th item of an array. *)
(* A node is [type, bits, text]; text is the content of a string.          *)
(***************************************************************************)
EXTENDS Variant, SequencesExt, FiniteSets

Empty == <<>>
Root == <<>>
ContainerTypes == {"array", "object"}

Scalar(type, bits) == [type |-> type, bits |-> bits, text |-> Empty]
String(text) == [type |-> "string", bits |-> 0, text |-> text]
IsContainer(node) == node.type \in ContainerTypes

Lone(node) == [p \in {Root} |-> node]
TypeOf(t) == t[Root].type

(* c_str(): a text up to its first NUL. *)
CString(s) == SubSeq(s, 1, Cardinality({n \in 1..Len(s) : \A i \in 1..n : s[i] # 0}))
Cut(node) == IF node.type = "string" THEN String(CString(node.text)) ELSE node

(* The tree below a path, and the keys of the items there, in the order of  *)
(* std::string, in which a std::map has them and the i-th item is the i-th. *)
Sub(t, path) ==
    [p \in {SubSeq(q, Len(path) + 1, Len(q)) : q \in {q \in DOMAIN t : IsPrefix(path, q)}} |->
        t[path \o p]]
Keys(t, path) == {Last(q) : q \in {q \in DOMAIN t : q # Root /\ Front(q) = path}}

Before(a, b) ==
    \E n \in 0..Len(a) :
        /\ n < Len(b)
        /\ SubSeq(a, 1, n) = SubSeq(b, 1, n)
        /\ n = Len(a) \/ a[n + 1] < b[n + 1]

SortedKeys(t, path) ==
    LET keys == Keys(t, path)
    IN [i \in 1..Cardinality(keys) |->
          CHOOSE k \in keys : Cardinality({j \in keys : Before(j, k)}) = i - 1]

Event(op, value, text) == [op |-> op, value |-> value, text |-> text]
Leaf(node) == Event("value", node, Empty)
Name(text) == Event("name", Scalar("void", 0), text)
Begin(type) == Event("begin", Scalar(type, 0), Empty)
End(type) == Event("end", Scalar(type, 0), Empty)

(* A copy of a tree, if none of its characters throws. *)
CharOf(node) == GetChar(Value("char", node.bits), 0)
Unreadable(t) == \E p \in DOMAIN t : t[p].type = "char" /\ CharOf(t[p]) = {Throws}

CopyOfNode(node) ==
    IF node.type = "char" THEN Scalar("char", (CHOOSE c \in CharOf(node) : TRUE).bits)
    ELSE node
CopyOf(t) == [p \in DOMAIN t |-> CopyOfNode(t[p])]

------------------------------------------------------------------------------
(* value_to_parser                                                          *)

Visit(t) == Event("visit", t, Empty)
Member(t, key) == Event("member", t, key)

WalkItems(t) ==
    LET keys == SortedKeys(t, Root)
    IN [i \in DOMAIN keys |->
          LET item == Sub(t, <<keys[i]>>)
          IN IF TypeOf(t) = "object" THEN Member(item, keys[i]) ELSE Visit(item)]

(* Mutant: the end of a container is announced before its items. *)
ExpandEndsFirst(t) == <<Begin(TypeOf(t)), End(TypeOf(t))>> \o WalkItems(CopyOf(t))

(* A container is copied first; the walk goes through the copy. *)
Expand(t) == <<Begin(TypeOf(t))>> \o WalkItems(CopyOf(t)) \o <<End(TypeOf(t))>>

(* The walk with its first entry expanded, so that an event comes first.    *)
(* A member of an object is copied once more before it is named, because    *)
(* the loop has it as a pair of another type than the map's.                *)
Unfolded(todo) ==
    LET first == Head(todo)
    IN CASE first.op = "member" ->
              <<Name(CString(first.text)), Visit(CopyOf(first.value))>> \o Tail(todo)
         [] first.op = "visit" ->
              (IF IsContainer(first.value[Root]) THEN Expand(first.value)
               ELSE <<Leaf(Cut(CopyOfNode(first.value[Root])))>>) \o Tail(todo)
         [] OTHER -> todo

(* get_char throws, for the value itself or while a container or a member   *)
(* is copied.                                                               *)
WalkThrows(todo) ==
    todo # <<>> /\ Head(todo).op \in {"visit", "member"} /\ Unreadable(Head(todo).value)
==============================================================================
