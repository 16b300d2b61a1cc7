------------------------------ MODULE ArrayList ------------------------------
(***************************************************************************)
(* solaire::array_list (core/array_list.hpp) over a heap_allocator or a    *)
(* static_allocator (core/allocator.hpp).  One list is built, used and     *)
(* destroyed.  Its elements are what its slots hold: one that was          *)
(* constructed and never given a value holds Default, and one where no T   *)
(* has been constructed, or written, is Raw.                               *)
(*                                                                         *)
(* Only resize and the copy constructor construct a T; push_back, insert   *)
(* and erase assign to one, and the destructor destroys one in every slot. *)
(* A static list cannot resize.  Where there is no T this is undefined,    *)
(* unless T is trivial (an int): then storage is as good as a T.           *)
(*                                                                         *)
(* The index type I has `limit' values; mSize is of that type, and the     *)
(* capacity that resize is asked for is narrowed to it.  reserve and the   *)
(* two assignments do not compile when they are used, and are left out.    *)
(***************************************************************************)
EXTENDS Integers, Sequences, SequencesExt

CONSTANTS
    ListValues,         \* the values put into lists
    Default,            \* a default constructed T
    Raw,                \* storage without a T
    DefaultAllocation,  \* DEFAULT_ALLOCATION
    ListKinds,          \* records [static, slots, limit, trivial]: the allocator
                        \* and the slots of a static one, the index type, and T
    Capacities          \* the capacities lists are constructed with

ASSUME ListAssumption ==
    /\ Default # Raw /\ ListValues \cap {Default, Raw} = {}
    /\ DefaultAllocation \in Nat \ {0}
    /\ Capacities \subseteq Nat
    /\ \A k \in ListKinds :
         /\ k.static \in BOOLEAN /\ k.trivial \in BOOLEAN
         /\ k.slots \in Nat /\ (k.static => k.slots > 0)
         /\ k.limit \in Nat \ {0}

VARIABLES
    listKind,   \* what kind of list it is
    slots,      \* the storage, slot i is slots[i + 1]
    mListSize,  \* mSize
    mAllocated, \* the flag of a static_allocator
    listState   \* "unborn", "live", "gone", or how the program ended:
                \* "undefined", "terminated", "hangs"

listVars == <<listKind, slots, mListSize, mAllocated, listState>>

Capacity == Len(slots)
Elements == SubSeq(slots, 1, mListSize)

ListTypeOK ==
    /\ listKind \in ListKinds
    /\ \A i \in DOMAIN slots : slots[i] \in ListValues \cup {Default, Raw}
    /\ listState \in {"unborn", "live", "gone", "undefined", "terminated", "hangs"}
    /\ mAllocated \in BOOLEAN
    /\ listState = "live" => mListSize \in 0..Capacity /\ mListSize < listKind.limit

Filled(n, with) == [i \in 1..n |-> with]

ListInit ==
    /\ listKind \in ListKinds
    /\ slots = Filled(IF listKind.static THEN listKind.slots ELSE 0, Raw)
    /\ mListSize = 0
    /\ mAllocated = FALSE
    /\ listState = "unborn"

EndList(how) == listState' = how /\ UNCHANGED <<listKind, slots, mListSize, mAllocated>>

------------------------------------------------------------------------------

(* resize: how many slots there are after it, or the exception of a list    *)
(* that cannot grow.  A capacity the index type does not hold becomes a     *)
(* small one, and that is no reason to grow.                                *)
Narrow(n) == n % listKind.limit
ResizeThrows(n) == listKind.static /\ Narrow(n) > Capacity

(* Mutant: only the elements are constructed. *)
ResizedRaw(n) ==
    IF listKind.static \/ Narrow(n) <= Capacity THEN slots
    ELSE Elements \o Filled(Narrow(n) - mListSize, Raw)

Resized(n) ==
    IF listKind.static \/ Narrow(n) <= Capacity THEN slots
    ELSE Elements \o Filled(Narrow(n) - mListSize, Default)

ConstructList(n) ==
    /\ listState = "unborn"
    /\ ~ResizeThrows(n)
    /\ slots' = Resized(n)
    /\ listState' = "live"
    /\ UNCHANGED <<listKind, mListSize, mAllocated>>

Doubled == IF Capacity = 0 THEN DefaultAllocation ELSE 2 * Capacity
Full == mListSize = Capacity
Room == IF Full THEN Resized(Doubled) ELSE slots

Stored(s, size) ==
    /\ slots' = s
    /\ mListSize' = Narrow(size)
    /\ UNCHANGED <<listKind, mAllocated, listState>>

(* push_back and insert of a value that is not in the list; push_back is    *)
(* the insert behind the last element.  What is behind the offset is moved  *)
(* up by one slot, into one behind the elements that has to hold a T.       *)
NoObjectAt(s, i) == s[i] = Raw /\ ~listKind.trivial

(* Mutant: the slot behind the elements is taken for a T. *)
InsertValueAnywhere(offset, v) ==
    /\ listState = "live"
    /\ offset \in 0..mListSize
    /\ ~(Full /\ ResizeThrows(Doubled))
    /\ IF mListSize = Len(Room) THEN EndList("undefined")
       ELSE Stored([i \in DOMAIN Room |->
                      IF i = offset + 1 THEN v
                      ELSE IF i \in (offset + 2)..(mListSize + 1) THEN Room[i - 1]
                      ELSE Room[i]],
                   mListSize + 1)

InsertValue(offset, v) ==
    /\ listState = "live"
    /\ offset \in 0..mListSize
    /\ ~(Full /\ ResizeThrows(Doubled))
    /\ IF mListSize = Len(Room) \/ NoObjectAt(Room, mListSize + 1) THEN EndList("undefined")
       ELSE Stored([i \in DOMAIN Room |->
                      IF i = offset + 1 THEN v
                      ELSE IF i \in (offset + 2)..(mListSize + 1) THEN Room[i - 1]
                      ELSE Room[i]],
                   mListSize + 1)

(* Mutant: the element is read before the others are moved. *)
InsertElementRead(offset, j) ==
    /\ j \in 0..(mListSize - 1)
    /\ InsertValue(offset, slots[j + 1])

(* The same with a reference to element j of the list itself: it is read    *)
(* when the elements have been moved, and is gone with the storage if that  *)
(* was full.  An element that was moved may be any.                         *)
InsertElement(offset, j) ==
    /\ j \in 0..(mListSize - 1)
    /\ IF Full /\ ~ResizeThrows(Doubled) /\ listState = "live"
       THEN offset \in 0..mListSize /\ EndList("undefined")
       ELSE \E v \in CASE j < offset -> {slots[j + 1]}
                       [] j = offset -> {slots[j + 1], Default}
                       [] j > offset -> {slots[j]} :
              InsertValue(offset, v)

(* Mutant: one element more is moved down. *)
EraseShiftsAll(offset) ==
    /\ listState = "live"
    /\ offset \in 0..(mListSize - 1)
    /\ Stored([i \in DOMAIN slots |->
                 IF i \in offset..(mListSize - 1) THEN slots[i + 1] ELSE slots[i]],
              mListSize - 1)

(* erase; what is behind the offset is moved down by one slot. *)
Erase(offset) ==
    /\ listState = "live"
    /\ offset \in 0..(mListSize - 1)
    /\ Stored([i \in DOMAIN slots |->
                 IF i \in (offset + 1)..(mListSize - 1) THEN slots[i + 1] ELSE slots[i]],
              mListSize - 1)

(* pop_front of nothing takes mSize below zero. *)
PopFrontOfNothing ==
    listState = "live" /\ mListSize = 0 /\ EndList("undefined")

PopBack ==
    /\ listState = "live"
    /\ Stored(slots, IF mListSize = 0 THEN 0 ELSE mListSize - 1)

ClearList == listState = "live" /\ Stored(slots, 0)

(* The copy constructor, of a list with another index type or allocation    *)
(* (one of the same type is not copied), allocates and constructs the       *)
(* elements and no more; the program goes on with the copy.  A static list  *)
(* that is too small throws.                                                *)
CopyList(k) ==
    /\ listState = "live"
    /\ k.trivial = listKind.trivial
    /\ k.static => mListSize <= k.slots
    /\ listKind' = k
    /\ slots' = Elements \o Filled(IF k.static THEN k.slots - mListSize ELSE 0, Raw)
    /\ mListSize' = mListSize % k.limit
    /\ mAllocated' = k.static
    /\ UNCHANGED listState

(* Behind a move construction the program goes on with the list that was    *)
(* moved from.  A static list cannot be moved.                              *)
MoveListAway ==
    /\ listState = "live" /\ ~listKind.static
    /\ slots' = <<>> /\ mListSize' = 0
    /\ UNCHANGED <<listKind, mAllocated, listState>>

(* Mutant: any allocator gives back. *)
DestroyAny ==
    /\ listState = "live"
    /\ EndList(IF \E i \in DOMAIN slots : NoObjectAt(slots, i) THEN "undefined"
               ELSE IF Capacity >= listKind.limit THEN "hangs" ELSE "gone")

(* The destructor counts to the capacity with an index of type I, in which  *)
(* time it destroys no T twice or where there is none, and gives back what  *)
(* a static list may never have allocated.                                  *)
DestroyList ==
    /\ listState = "live"
    /\ EndList(IF \E i \in DOMAIN slots : NoObjectAt(slots, i) THEN "undefined"
               ELSE IF Capacity >= listKind.limit
                    THEN IF listKind.trivial THEN "hangs" ELSE "undefined"
               ELSE IF listKind.static /\ ~mAllocated THEN "terminated" ELSE "gone")

ListNext ==
    \/ \E n \in Capacities : ConstructList(n)
    \/ \E offset \in 0..mListSize :
         \/ \E v \in ListValues : InsertValue(offset, v)
         \/ \E j \in 0..mListSize : InsertElement(offset, j)
         \/ Erase(offset)
    \/ PopFrontOfNothing
    \/ PopBack
    \/ ClearList
    \/ \E k \in ListKinds : CopyList(k)
    \/ MoveListAway
    \/ DestroyList

ListSpec == ListInit /\ [][ListNext]_listVars

------------------------------------------------------------------------------

(* A list whose index cannot count its slots forgets them all when the last *)
(* one is filled.                                                           *)
CountWraps == mListSize + 1 = listKind.limit

(* insert, push_back and erase do to the elements what they do to a         *)
(* sequence, through every growth and shift, unless the program is over or  *)
(* the count wraps.                                                         *)
ListFollowsSequence ==
    [][listState' = "live" /\ listState = "live" =>
         /\ \A offset \in 0..mListSize :
              /\ \A v \in ListValues : InsertValue(offset, v) /\ ~CountWraps =>
                   Elements' = InsertAt(Elements, offset + 1, v)
              /\ Erase(offset) => Elements' = RemoveAt(Elements, offset + 1)
         /\ \A k \in ListKinds : CopyList(k) /\ mListSize < k.limit => Elements' = Elements]_listVars

(* Inserting an element of the list in front of itself inserts its          *)
(* predecessor.                                                             *)
InsertsThePredecessor ==
    [][\A offset, j \in 0..mListSize :
         /\ InsertElement(offset, j) /\ j > offset
         /\ listState' = "live" /\ ~CountWraps
         => Elements' = InsertAt(Elements, offset + 1, Elements[j])]_listVars

(* Every slot of a heap list holds a T, which push_back and insert assign   *)
(* to and the destructor destroys, whatever the list has been through.  Of  *)
(* a static list the elements do, or have been written.                     *)
SlotsAreBuilt ==
    listState = "live" =>
        \A i \in DOMAIN slots : slots[i] = Raw => listKind.static /\ i > mListSize

(* No T ever gets into a static list but by the copy that made it: one that *)
(* was constructed by itself is empty for good, if T is not trivial.        *)
OnlyCopiesHoldObjects ==
    listState = "live" /\ listKind.static /\ ~listKind.trivial /\ ~mAllocated =>
        mListSize = 0 /\ \A i \in DOMAIN slots : slots[i] = Raw

(* A static list is destroyed only if a copy made it, and filled it unless  *)
(* T is trivial: any other ends the program.  A heap list is destroyed if   *)
(* its index can count its slots.                                           *)
OnlyCopiesAreDestroyed ==
    /\ listState = "gone" /\ listKind.static =>
         mAllocated /\ (listKind.trivial \/ \A i \in DOMAIN slots : slots[i] # Raw)
    /\ listState = "terminated" => listKind.static /\ ~mAllocated

(* From its construction to its destructor a list does to no slot what      *)
(* needs a T that is not there, except where that is undefined behaviour:   *)
(* in static lists, of T's that are not trivial.                            *)
ListLifetime == SlotsAreBuilt /\ OnlyCopiesHoldObjects /\ OnlyCopiesAreDestroyed

(* push_back, insert, erase and copies do to a list what they do to a       *)
(* sequence, but for an element inserted in front of itself.                *)
ListSteps == ListFollowsSequence /\ InsertsThePredecessor
==============================================================================
