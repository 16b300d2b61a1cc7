------------------------------ MODULE ValueHeap ------------------------------
(***************************************************************************)
(* solaire::serial::value (serial/value.cpp): values that own strings,     *)
(* arrays and objects, and a program that sets, converts, copies, moves,   *)
(* appends and indexes them in any order, aliases included.                *)
(*                                                                         *)
(* A location is a pair <<p, k>>: item k of the payload at address p.      *)
(* Address 0 is the stack of the program with its variables, every other   *)
(* payload is a std::string (of which the first character is kept), an     *)
(* array_t (items 1..n) or an object_t (items by name, a number).          *)
(* A payload may be exchanged for a longer one by std::vector, which       *)
(* copies the items it has, because the move constructor may throw.        *)
(***************************************************************************)
EXTENDS Variant, FiniteSets, Functions

CONSTANTS
    Addresses,  \* where payloads can be; which one is used does not matter
    Names,      \* names of members, which are numbers, and indices
    Settings    \* records [variables, payloads, items, scalars, owned,
                \* converted]: how many variables a program has, how many
                \* payloads at most, the items up to which it appends, the
                \* scalars it uses, the owners it creates and the types it
                \* converts to

ASSUME ValueHeapAssumption ==
    /\ 0 \notin Addresses /\ Names \subseteq Nat
    /\ IsFiniteSet(Addresses)
    /\ \A s \in Settings :
         /\ {s.variables, s.payloads, s.items} \subseteq Nat
         /\ s.scalars \subseteq Scalars
         /\ s.owned \subseteq OwnerTypes
         /\ s.converted \subseteq ScalarTypes \ {"void"}

VARIABLES
    memory,     \* the payloads
    undefined,  \* undefined behaviour has happened, the program is over
    setting     \* what this program uses, chosen at the start

heapVars == <<memory, undefined, setting>>

Payload(kind, items) == [kind |-> kind, front |-> 0, items |-> items]
Unused == Payload("free", <<>>)

At(m, l) == m[l[1]].items[l[2]]
Owns(v) == IF v.type \in OwnerTypes THEN {v.bits} ELSE {}
OwnedBy(m, p) == UNION {Owns(v) : v \in Range(m[p].items)}

(* All that v owns, directly or not: the least set that holds what v owns   *)
(* and what its members own.                                                *)
ClosedIn(m) == {S \in SUBSET Addresses : \A p \in S : OwnedBy(m, p) \subseteq S}
Closure(m, v) == {p \in Addresses : \A S \in ClosedIn(m) : Owns(v) \subseteq S => p \in S}

Below(m, p) == UNION {Closure(m, v) : v \in Range(m[p].items)}
FromStack(m) == Below(m, 0)
LocationsIn(m, ps) == UNION {{<<p, k>> : k \in DOMAIN m[p].items} : p \in ps}
Locations == LocationsIn(memory, {0} \cup FromStack(memory))

Inside(m, l, o) == l[1] \in Closure(m, At(m, o))
HasChar(m, v) ==
    \/ v.type = "char"
    \/ \E l \in LocationsIn(m, Closure(m, v)) : At(m, l).type = "char"

FreeIn(m) == {p \in Addresses : m[p].kind = "free"}
Fresh(m) == CHOOSE p \in FreeIn(m) : TRUE

IsWord(v) == IsScalar(v) \/ (v.type \in OwnerTypes /\ v.bits \in Addresses)

HeapTypeOK ==
    /\ DOMAIN memory = {0} \cup Addresses
    /\ \A p \in DOMAIN memory :
         /\ memory[p].kind \in IF p = 0 THEN {"stack"} ELSE OwnerTypes \cup {"free"}
         /\ memory[p].front \in 0..127
         /\ \A v \in Range(memory[p].items) : IsWord(v)
    /\ undefined \in BOOLEAN
    /\ setting \in Settings

HeapInit ==
    /\ setting \in Settings
    /\ memory = [p \in {0} \cup Addresses |->
                   IF p = 0
                   THEN Payload("stack", [x \in 1..setting.variables |-> Void])
                   ELSE Unused]
    /\ undefined = FALSE

------------------------------------------------------------------------------

Put(m, l, v) == [m EXCEPT ![l[1]].items[l[2]] = v]

(* set_void(): the payload and all it owns are deleted. *)
SetVoid(m, l) ==
    LET gone == Closure(m, At(m, l))
    IN Put([p \in DOMAIN m |-> IF p \in gone THEN Unused ELSE m[p]], l, Void)

(* Mutant: an owner of another kind keeps what it owns. *)
SetOwnerOver(m, l, kind) ==
    LET a == IF At(m, l).type = kind THEN At(m, l).bits ELSE Fresh(m)
    IN Put([m EXCEPT ![a] = Payload(kind, <<>>)], l, Value(kind, a))

(* set_string(), set_array(), set_object(): an owner of the kind is cleared *)
(* and kept, any other value makes way for a new one.                       *)
SetOwner(m, l, kind) ==
    LET cleared == SetVoid(m, l)
        a == IF At(m, l).type = kind THEN At(m, l).bits ELSE Fresh(cleared)
    IN Put([cleared EXCEPT ![a] = Payload(kind, <<>>)], l, Value(kind, a))

(* Mutant: only the first level is copied. *)
CopyOfFlat(v, f) == IF v.type \in OwnerTypes THEN Void ELSE v

(* The word a copy of v gets, when the copies of the payloads are at        *)
(* addresses f: a character is read by the const get_char.                  *)
CopyOf(v, f) ==
    CASE v.type \in OwnerTypes -> Value(v.type, f[v.bits])
      [] v.type = "char" -> CHOOSE r \in GetChar(v, 0) : TRUE
      [] OTHER -> v

(* Mutant: the items of the copy are the items of the original. *)
PlantedShallow(m, from, f) ==
    LET new == {f[p] : p \in from}
        original(a) == CHOOSE p \in from : f[p] = a
    IN [a \in DOMAIN m |-> IF a \in new THEN m[original(a)] ELSE m[a]]

(* m with copies of the payloads of from at the addresses f gives them. *)
Planted(m, from, f) ==
    LET new == {f[p] : p \in from}
        original(a) == CHOOSE p \in from : f[p] = a
    IN [a \in DOMAIN m |->
          IF a \in new
          THEN [m[original(a)] EXCEPT !.items = [k \in DOMAIN @ |-> CopyOf(@[k], f)]]
          ELSE m[a]]

(* The ways to place copies of the payloads of ps, one of which is taken. *)
Places(m, ps) == {f \in [ps -> FreeIn(m)] : \A p, q \in ps : f[p] = f[q] => p = q}
FreshFor(m, ps) == CHOOSE f \in Places(m, ps) : TRUE

Unreadable(m, v) ==
    \E w \in {v} \cup {At(m, l) : l \in LocationsIn(m, Closure(m, v))} :
        w.type = "char" /\ GetChar(w, 0) = {Throws}

(* What an operation may leave: a memory, or nothing to speak of. *)
Broken == [p \in {0} \cup Addresses |-> Unused]
Leave(outcomes) ==
    \E m \in outcomes :
        IF m = Broken THEN undefined' = TRUE /\ UNCHANGED <<memory, setting>>
        ELSE /\ Cardinality(Addresses \ FreeIn(m)) <= setting.payloads
             /\ memory' = m
             /\ UNCHANGED <<undefined, setting>>
Become(m) == Leave({m})

------------------------------------------------------------------------------

(* set_bool() = b and the other setters of scalars. *)
SetScalar(l, v) ==
    /\ v \in setting.scalars
    /\ Become(Put(SetVoid(memory, l), l, v))

(* set_string(), set_array() and set_object(); a string gets a character. *)
SetPayload(l, kind, front) ==
    /\ kind \in setting.owned
    /\ kind # "string" => front = 0
    /\ At(memory, l).type = kind \/ FreeIn(SetVoid(memory, l)) # {}
    /\ LET m == SetOwner(memory, l, kind)
       IN Become([m EXCEPT ![At(m, l).bits].front = front])

(* The non-const get_ of a scalar type: converts the value where it is. *)
ConvertInPlace(l, type) ==
    /\ type \in setting.converted
    /\ LET v == At(memory, l)
           front == IF v.type = "string" THEN memory[v.bits].front ELSE 0
       IN Leave({CASE r = Undefined -> Broken
                   [] r = Throws -> memory
                   [] OTHER -> Put(SetVoid(memory, l), l, r) :
                 r \in GetInPlace(v, front, type)})

(* operator=(const value&) of a scalar.  Either side may be evaluated       *)
(* first: the value is gone if the setter deletes it, and a getter that     *)
(* throws may leave the new type with whatever the word holds.              *)
CopiedScalar(d, s) ==
    LET v == At(memory, s)
        Written(w) == Put(SetVoid(memory, d), d, w)
        r == CHOOSE r \in (IF v.type = "char" THEN GetChar(v, 0) ELSE {v}) : TRUE
    IN (IF Inside(memory, s, d) THEN {Broken} ELSE {})
       \cup IF r # Throws THEN {Written(r)}
            ELSE {memory} \cup {Written(c) : c \in {w \in setting.scalars : w.type = "char"}}

(* operator=(const value&) of an owner: the destination becomes an empty    *)
(* owner of the same kind, and only then the source is read.                *)
CopiedOwner(d, s) ==
    LET v == At(memory, s)
        emptied == SetOwner(memory, d, v.type)
        root == At(emptied, d).bits
        below == Closure(emptied, v) \ {v.bits}
        f == [p \in {v.bits} \cup below |->
                IF p = v.bits THEN root ELSE FreshFor(emptied, below)[p]]
    IN CASE Inside(memory, s, d) -> {Broken}
         [] d = s -> {emptied}
         [] d # s /\ ~Inside(memory, s, d) ->
              IF At(memory, d).type # v.type /\ FreeIn(SetVoid(memory, d)) = {} THEN {}
              ELSE IF Unreadable(emptied, v) THEN {emptied}
              ELSE IF Places(emptied, below) = {} THEN {}
              ELSE {Planted(emptied, {v.bits} \cup below, f)}

Copied(d, s) ==
    IF At(memory, s).type \in OwnerTypes THEN CopiedOwner(d, s) ELSE CopiedScalar(d, s)

CopyAssign(d, s) == Leave(Copied(d, s))

(* Mutant: the source is left as it is. *)
MoveAssignCopies(d, s) == Become(Put(memory, d, At(memory, s)))

(* operator=(value&&): the two words are exchanged. *)
MoveAssign(d, s) ==
    Become(Put(Put(memory, d, At(memory, s)), s, At(memory, d)))

(* push_back and add of a value: the parameter is a copy of it, and what is *)
(* appended a copy of that, which throws for the 0 or 1 that the first made *)
(* of a character.  A full vector copies its items to longer storage, and   *)
(* is as before if one of them throws.                                      *)
AppendCopy(l, s, key, full) ==
    LET a == At(memory, l)
        v == At(memory, s)
        below == Closure(memory, v)
        f == FreshFor(memory, below)
        old == Closure(memory, a)
        grown == IF full THEN Planted(memory, old, [p \in old |-> p]) ELSE memory
        copied == Planted(memory, below, f)
        both == [p \in DOMAIN memory |->
                   IF p \in {f[q] : q \in below} THEN copied[p] ELSE grown[p]]
    IN IF HasChar(memory, v) \/ (full /\ Unreadable(memory, a))
       THEN UNCHANGED heapVars
       ELSE /\ Places(memory, below) # {}
            /\ Cardinality(LocationsIn(memory, Addresses)) < setting.items
            /\ Become([both EXCEPT ![a.bits].items =
                         [k \in DOMAIN @ \cup {key} |->
                            IF k = key THEN CopyOf(v, f) ELSE @[k]]])

PushBack(l, s, full) ==
    LET a == At(memory, l)
    IN /\ a.type = "array"
       /\ AppendCopy(l, s, Len(memory[a.bits].items) + 1, full)

(* A name that is taken keeps its value. *)
Add(l, s, name) ==
    LET a == At(memory, l)
    IN /\ a.type = "object"
       /\ name \notin DOMAIN memory[a.bits].items
       /\ AppendCopy(l, s, name, FALSE)

(* operator[]: an index out of range or a missing name is undefined, and    *)
(* the first member of an object is answered for every index.               *)
Selected(m, l, byName, key) ==
    LET a == At(m, l)
        has == DOMAIN m[a.bits].items
    IN CASE byName /\ a.type = "object" -> has \cap {key}
         [] ~byName /\ a.type = "array" -> has \cap {key + 1}
         [] ~byName /\ a.type = "object" -> {k \in has : \A j \in has : k <= j}

Indexable(l, byName) ==
    At(memory, l).type = "object" \/ (~byName /\ At(memory, l).type = "array")

(* l[key] = v, by move. *)
AssignSelected(l, byName, key, v) ==
    LET chosen == Selected(memory, l, byName, key)
        a == At(memory, l).bits
    IN /\ Indexable(l, byName)
       /\ v \in setting.scalars
       /\ IF chosen = {} THEN Become(Broken)
          ELSE \E k \in chosen : Become(Put(SetVoid(memory, <<a, k>>), <<a, k>>, v))

HeapNext ==
    /\ ~undefined
    /\ \E l \in Locations :
         \/ \E v \in setting.scalars : SetScalar(l, v)
         \/ \E kind \in OwnerTypes, front \in {0} \cup Chars : SetPayload(l, kind, front)
         \/ \E type \in setting.converted : ConvertInPlace(l, type)
         \/ \E s \in Locations : CopyAssign(l, s)
         \/ \E s \in Locations : MoveAssign(l, s)
         \/ \E s \in Locations, full \in BOOLEAN : PushBack(l, s, full)
         \/ \E s \in Locations, name \in Names : Add(l, s, name)
         \/ \E byName \in BOOLEAN, key \in Names, v \in setting.scalars :
              AssignSelected(l, byName, key, v)

HeapSpec == HeapInit /\ [][HeapNext]_heapVars

------------------------------------------------------------------------------

(* Whatever is copied, moved or thrown half way, no value owns a payload    *)
(* that was deleted or is of another kind.                                  *)
NoDangling(m) ==
    \A l \in LocationsIn(m, DOMAIN m) :
        LET v == At(m, l)
        IN v.type \in OwnerTypes => m[v.bits].kind = v.type

(* No two values own the same payload: nothing is deleted twice. *)
OneOwner(m) ==
    \A l, o \in LocationsIn(m, DOMAIN m) :
        l # o => Owns(At(m, l)) \cap Owns(At(m, o)) = {}

(* Every payload in use has at most one owner, and every owner a payload of *)
(* its kind, through copies between aliases, moves and exceptions half way. *)
OwnersAreSound == NoDangling(memory) /\ OneOwner(memory)

(* What the program can no longer reach hangs from a cycle, which only the  *)
(* move of a value into something it owns makes; nothing else leaks.        *)
LeaksAreCycles ==
    \A p \in Addresses :
        memory[p].kind # "free" =>
            \/ p \in FromStack(memory)
            \/ \E q \in Addresses : q \in Below(memory, q) /\ p \in Below(memory, q)

(* v in memory m and w in memory n have the same type and content, at every *)
(* depth: the payloads below v have counterparts f below w.                 *)
SameWord(v, w, f) ==
    v.type = w.type /\ (IF v.type \in OwnerTypes THEN f[v.bits] ELSE v.bits) = w.bits

SamePayload(a, b, f) ==
    /\ a.kind = b.kind /\ a.front = b.front
    /\ DOMAIN a.items = DOMAIN b.items
    /\ \A k \in DOMAIN a.items : SameWord(a.items[k], b.items[k], f)

Same(m, v, n, w) ==
    \E f \in [Closure(m, v) -> Addresses] :
        /\ SameWord(v, w, f)
        /\ \A p \in Closure(m, v) : SamePayload(m[p], n[f[p]], f)

(* Copying between values neither of which is inside the other gives the    *)
(* destination the content of the source and leaves the source alone, as    *)
(* long as there is no character in it.                                     *)
CopyIsFaithful ==
    \A d, s \in Locations :
        /\ d # s
        /\ ~Inside(memory, d, s) /\ ~Inside(memory, s, d)
        /\ ~HasChar(memory, At(memory, s))
        => \A m \in Copied(d, s) :
             /\ Same(memory, At(memory, s), m, At(m, d))
             /\ Same(memory, At(memory, s), m, At(m, s))

(* A value that is converted where it is, any number of times, stands for   *)
(* the same number, as long as each conversion is one the code computes.    *)
ConversionKeepsNumber ==
    \A l \in Locations, type \in setting.converted :
        LET v == At(memory, l)
        IN Computed(v, type) =>
             \A r \in GetInPlace(v, 0, type) : r.type = type /\ Number(r) = Number(v)
==============================================================================
