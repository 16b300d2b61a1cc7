---------------------------- MODULE ParserToValue ----------------------------
(***************************************************************************)
(* parser_to_value (serial/value_to_parser.cpp:68): a value_parser that    *)
(* builds a value.  mStack holds pointers to the containers that are open, *)
(* here their paths: an item of an array is moved only while nothing in it *)
(* is open, and the members of an object never are.                        *)
(***************************************************************************)
EXTENDS Events

(* The parser is a record [root, stack, name, threw], the outcome of the    *)
(* last event included.                                                     *)
NewParser ==
    [root |-> Lone(Scalar("void", 0)), stack |-> <<Root>>, name |-> Empty, threw |-> FALSE]

(* A node in the place of what is at a path. *)
Put(t, path, node) ==
    [q \in {q \in DOMAIN t : ~IsPrefix(path, q)} \cup {path} |->
        IF q = path THEN node ELSE t[q]]

Throw(p) == [p EXCEPT !.threw = TRUE]

(* The new item of t, and open if it is a container. *)
Placed(p, t, path, new) ==
    [p EXCEPT !.root = Put(t, path, new),
              !.stack = IF IsContainer(new) THEN Append(@, path) ELSE @]

(* array_.push_back(value()) copies the items that are there when it has to *)
(* move them to longer storage.                                             *)
AppendToArray(p, at, new) ==
    LET n == Cardinality(Keys(p.root, at))
        moved == [q \in DOMAIN p.root |->
                    IF IsPrefix(at, q) THEN CopyOfNode(p.root[q]) ELSE p.root[q]]
        add(t) == Placed(p, t, Append(at, <<n + 1>>), new)
    IN {add(p.root)} \cup
       (IF n = 0 THEN {} ELSE {IF Unreadable(Sub(p.root, at)) THEN Throw(p) ELSE add(moved)})

(* Mutant: a member without a name is put in under the empty name. *)
AppendToObjectUnnamed(p, at, new) ==
    {[Placed(p, p.root, Append(at, p.name), new) EXCEPT !.name = Empty]}

(* emplace and assign: the value given last for a name stays. *)
AppendToObject(p, at, new) ==
    IF p.name = Empty THEN {Throw(p)}
    ELSE {[Placed(p, p.root, Append(at, p.name), new) EXCEPT !.name = Empty]}

(* append_value: anything that is not in a container takes the place of the *)
(* root.                                                                    *)
AppendValue(p, new) ==
    LET at == Last(p.stack)
    IN CASE p.root[at].type = "array" -> AppendToArray(p, at, new)
         [] p.root[at].type = "object" -> AppendToObject(p, at, new)
         [] OTHER -> {Placed(p, p.root, at, new)}

(* Mutant: the root is taken off the stack too. *)
CloseAlways(p, type) ==
    IF p.root[Last(p.stack)].type # type THEN {Throw(p)}
    ELSE {[p EXCEPT !.stack = Front(@)]}

(* end_array and end_object: the root stays on the stack. *)
Close(p, type) ==
    IF p.root[Last(p.stack)].type # type THEN {Throw(p)}
    ELSE {[p EXCEPT !.stack = IF Len(@) > 1 THEN Front(@) ELSE @]}

SetName(p, text) ==
    IF p.root[Last(p.stack)].type # "object" THEN {Throw(p)}
    ELSE {[p EXCEPT !.name = text]}

(* What the parser may be after an event. *)
Accept(p, e) ==
    CASE e.op = "value" -> AppendValue(p, e.value)
      [] e.op = "begin" -> AppendValue(p, Scalar(e.value.type, 0))
      [] e.op = "end" -> Close(p, e.value.type)
      [] e.op = "name" -> SetName(p, e.text)

------------------------------------------------------------------------------

(* The stack is the chain of open containers, each an item of the one below *)
(* it; an open root is there twice.                                         *)
IsChain(p) ==
    /\ p.stack # <<>> /\ Head(p.stack) = Root
    /\ \A i \in 2..Len(p.stack) :
         /\ \/ i = 2 /\ p.stack[i] = Root
            \/ p.stack[i] # Root /\ Front(p.stack[i]) = p.stack[i - 1]
         /\ p.stack[i] \in DOMAIN p.root /\ IsContainer(p.root[p.stack[i]])

(* Every node but the root is an item of a container, the items of an array *)
(* are numbered from 1 without a gap, and every member has a name.          *)
IsValue(t) ==
    /\ Root \in DOMAIN t
    /\ \A q \in DOMAIN t \ {Root} : Front(q) \in DOMAIN t /\ IsContainer(t[Front(q)])
    /\ \A q \in DOMAIN t :
         /\ t[q].type = "array" => Keys(t, q) = {<<i>> : i \in 1..Cardinality(Keys(t, q))}
         /\ t[q].type = "object" => Empty \notin Keys(t, q)
==============================================================================
