--------------------------- MODULE ContainerProofs ---------------------------
(***************************************************************************)
(* Proofs about the containers: ArrayList and IntegerMap, for every range  *)
(* of the index type, of keys and of values, FastStack, for every capacity *)
(* its index can count to, and TreeNode, for every set of nodes.           *)
(***************************************************************************)
EXTENDS ArrayList, IntegerMap, FastStack, TreeNode, SequenceTheorems, FiniteSetTheorems, TLAPS

------------------------------------------------------------------------------
(* array_list                                                              *)

Slots == ListValues \cup {Default, Raw}

UnbornIsEmpty ==
    listState = "unborn" =>
        /\ mListSize = 0
        /\ \A i \in DOMAIN slots : slots[i] = Raw
        /\ ~listKind.static => slots = <<>>

SizeWithin ==
    listState = "live" =>
        mListSize \in Nat /\ mListSize <= Len(slots) /\ mListSize < listKind.limit

(* The storage of a static list is the one it came with, until it is gone. *)
StaticKeepsSlots == listKind.static => Len(slots) = listKind.slots

ListInv ==
    /\ listKind \in ListKinds
    /\ slots \in Seq(Slots)
    /\ mAllocated \in BOOLEAN
    /\ listState \in {"unborn", "live", "gone", "undefined", "terminated", "hangs"}
    /\ UnbornIsEmpty
    /\ SizeWithin
    /\ StaticKeepsSlots
    /\ SlotsAreBuilt
    /\ OnlyCopiesHoldObjects
    /\ OnlyCopiesAreDestroyed

(* What is narrowed to the index type is in its range, and is not changed   *)
(* if it was.                                                               *)
LEMMA NarrowedInRange ==
    ASSUME ListInv, NEW n \in Nat
    PROVE  /\ Narrow(n) \in Nat /\ Narrow(n) < listKind.limit /\ Narrow(n) <= n
           /\ n < listKind.limit => Narrow(n) = n
<1>1. listKind.limit \in Nat /\ listKind.limit > 0  BY ListAssumption DEF ListInv
<1>2. ASSUME NEW m \in Nat, m > 0
      PROVE  n % m \in Nat /\ n % m < m /\ n % m <= n /\ (n < m => n % m = n)
  BY <1>2, SMTT(30)
<1> QED  BY <1>1, <1>2 DEF Narrow

(* Concatenation and the built-in slices, slot by slot. *)
LEMMA FilledIs ==
    ASSUME NEW n \in Nat, NEW with \in Slots
    PROVE  /\ Filled(n, with) \in Seq(Slots)
           /\ Len(Filled(n, with)) = n
           /\ \A i \in 1..n : Filled(n, with)[i] = with
<1>1. Filled(n, with) \in Seq(Slots)  BY IsASeq DEF Filled
<1> QED  BY <1>1 DEF Filled

LEMMA ElementsAre ==
    ASSUME ListInv, listState = "live"
    PROVE  /\ Elements \in Seq(Slots)
           /\ Len(Elements) = mListSize
           /\ \A i \in 1..mListSize : Elements[i] = slots[i]
BY DEF ListInv, SizeWithin, Elements

(* The slots of a list that grows: those of the elements, then new ones. *)
LEMMA RaisedSlots ==
    ASSUME NEW n \in Nat, ListInv, listState \in {"live", "unborn"}, NEW with \in Slots,
           mListSize <= n
    PROVE  LET s == Elements \o Filled(n - mListSize, with)
           IN  /\ s \in Seq(Slots)
               /\ Len(s) = n
               /\ \A i \in 1..n : s[i] = IF i <= mListSize THEN slots[i] ELSE with
<1>1. /\ Elements \in Seq(Slots) /\ mListSize \in Nat
      /\ Len(Elements) = mListSize
      /\ \A i \in 1..mListSize : Elements[i] = slots[i]
  BY ElementsAre DEF ListInv, SizeWithin, UnbornIsEmpty, Elements
<1>2. n - mListSize \in Nat  BY <1>1
<1> DEFINE f == Filled(n - mListSize, with)
<1>3. f \in Seq(Slots) /\ Len(f) = n - mListSize /\ \A i \in 1..(n - mListSize) : f[i] = with
  BY <1>2, FilledIs
<1> HIDE DEF f
<1>4. Elements \o f \in Seq(Slots)  BY <1>1, <1>3
<1>5. Len(Elements \o f) = n  BY <1>1, <1>3
<1>6. ASSUME NEW i \in 1..n
      PROVE  (Elements \o f)[i] = IF i <= mListSize THEN slots[i] ELSE with
  <2>1. CASE i <= mListSize  BY <1>1, <1>3, <2>1
  <2>2. CASE i > mListSize
    <3>1. i - mListSize \in 1..(n - mListSize)  BY <1>1, <2>2
    <3> QED  BY <1>1, <1>3, <2>2, <3>1
  <2>3. i <= mListSize \/ i > mListSize  BY <1>1
  <2> QED  BY <2>1, <2>2, <2>3
<1> QED  BY <1>4, <1>5, <1>6 DEF f

(* What resize leaves, if it does not throw. *)
LEMMA ResizedSlots ==
    ASSUME NEW n \in Nat, ListInv, listState \in {"live", "unborn"}, ~ResizeThrows(n)
    PROVE  /\ Resized(n) \in Seq(Slots)
           /\ Len(Resized(n)) >= Len(slots)
           /\ listKind.static => Resized(n) = slots
           /\ \A i \in 1..Len(Resized(n)) :
                 Resized(n)[i] = IF i <= mListSize \/ Resized(n) = slots
                                 THEN slots[i] ELSE Default
<1>1. CASE listKind.static \/ Narrow(n) <= Capacity
  BY <1>1 DEF Resized, ListInv
<1>2. CASE ~listKind.static /\ ~(Narrow(n) <= Capacity)
  <2>1. Resized(n) = Elements \o Filled(Narrow(n) - mListSize, Default)
    BY <1>2 DEF Resized
  <2>2. Narrow(n) \in Nat  BY NarrowedInRange
  <2>3. mListSize \in Nat /\ mListSize <= Capacity /\ Capacity \in Nat
    BY DEF ListInv, SizeWithin, UnbornIsEmpty, Capacity
  <2>4. mListSize <= Narrow(n) /\ Narrow(n) > Len(slots)  BY <1>2, <2>2, <2>3 DEF Capacity
  <2>5. Default \in Slots  BY DEF Slots
  <2>6. LET s == Resized(n)
        IN  /\ s \in Seq(Slots)
            /\ Len(s) = Narrow(n)
            /\ \A i \in 1..Narrow(n) : s[i] = IF i <= mListSize THEN slots[i] ELSE Default
    BY <2>1, <2>2, <2>4, <2>5, RaisedSlots
  <2> HIDE DEF ListInv
  <2> QED  BY <1>2, <2>2, <2>3, <2>4, <2>6 DEF Capacity
<1> QED  BY <1>1, <1>2

LEMMA ListInvInit == ListInit => ListInv
<1> SUFFICES ASSUME ListInit PROVE ListInv
  OBVIOUS
<1>1. listKind \in ListKinds /\ listKind.static \in BOOLEAN /\ listKind.slots \in Nat
  BY ListAssumption DEF ListInit
<1> DEFINE n == IF listKind.static THEN listKind.slots ELSE 0
<1>2. n \in Nat /\ Raw \in Slots  BY <1>1 DEF Slots
<1>3. slots = Filled(n, Raw)  BY DEF ListInit
<1>4. slots \in Seq(Slots) /\ Len(slots) = n /\ \A i \in 1..n : slots[i] = Raw
  BY <1>2, <1>3, FilledIs
<1>5. UnbornIsEmpty
  <2>1. ~listKind.static => slots = <<>>  BY <1>4
  <2> QED  BY <1>4, <2>1 DEF UnbornIsEmpty, ListInit
<1>6. StaticKeepsSlots  BY <1>4 DEF StaticKeepsSlots
<1> HIDE DEF n
<1>7. SizeWithin /\ SlotsAreBuilt /\ OnlyCopiesHoldObjects /\ OnlyCopiesAreDestroyed
  BY DEF ListInit, SizeWithin, SlotsAreBuilt, OnlyCopiesHoldObjects, OnlyCopiesAreDestroyed
<1> QED  BY <1>1, <1>4, <1>5, <1>6, <1>7 DEF ListInit, ListInv

(* What an insertion leaves: the storage has room for it, what was behind   *)
(* the offset is one slot up, and what was in no element stays.             *)
LEMMA InsertedSlots ==
    ASSUME ListInv, NEW offset \in 0..mListSize, NEW v \in Slots, InsertValue(offset, v),
           listState' = "live"
    PROVE  /\ slots' \in Seq(Slots)
           /\ Len(slots') = Len(Room) /\ Len(slots') > mListSize
           /\ \A i \in 1..Len(slots') :
                 slots'[i] = IF i = offset + 1 THEN v
                             ELSE IF i > offset + 1 /\ i <= mListSize + 1 THEN Room[i - 1]
                             ELSE Room[i]
           /\ \A i \in 1..Len(slots') :
                 Room[i] = IF i <= mListSize \/ Room = slots THEN slots[i] ELSE Default
           /\ listKind.static => Room = slots
           /\ mListSize' = Narrow(mListSize + 1)
           /\ listState = "live"
           /\ ~NoObjectAt(Room, mListSize + 1)
           /\ UNCHANGED <<listKind, mAllocated>>
<1>1. /\ listState = "live" /\ ~(Full /\ ResizeThrows(Doubled))
      /\ mListSize # Len(Room) /\ ~NoObjectAt(Room, mListSize + 1)
      /\ slots' = [i \in DOMAIN Room |->
                     IF i = offset + 1 THEN v
                     ELSE IF i \in (offset + 2)..(mListSize + 1) THEN Room[i - 1]
                     ELSE Room[i]]
      /\ mListSize' = Narrow(mListSize + 1)
      /\ UNCHANGED <<listKind, mAllocated>>
  BY DEF InsertValue, Stored, EndList
<1>2. /\ slots \in Seq(Slots) /\ Len(slots) \in Nat
      /\ mListSize \in Nat /\ mListSize <= Len(slots)
  BY <1>1 DEF ListInv, SizeWithin
<1>3. /\ Room \in Seq(Slots) /\ Len(Room) >= Len(slots)
      /\ \A i \in 1..Len(Room) :
            Room[i] = IF i <= mListSize \/ Room = slots THEN slots[i] ELSE Default
      /\ listKind.static => Room = slots
  <2>1. CASE ~Full  BY <1>2, <2>1 DEF Room
  <2>2. CASE Full
    <3>1. Doubled \in Nat
      BY <1>2, ListAssumption DEF Doubled, Capacity
    <3>2. Room = Resized(Doubled) /\ ~ResizeThrows(Doubled)  BY <1>1, <2>2 DEF Room
    <3> QED  BY <1>1, <3>1, <3>2, ResizedSlots
  <2> QED  BY <2>1, <2>2
<1>4. Len(Room) \in Nat /\ Len(Room) > mListSize  BY <1>1, <1>2, <1>3
<1>5. /\ DOMAIN Room = 1..Len(Room)
      /\ \A i \in 1..Len(Room) : Room[i] \in Slots
  BY <1>3
<1> DEFINE s == [i \in 1..Len(Room) |->
                     IF i = offset + 1 THEN v
                     ELSE IF i \in (offset + 2)..(mListSize + 1) THEN Room[i - 1]
                     ELSE Room[i]]
<1>6. slots' = s  BY <1>1, <1>5
<1>7. \A i \in 1..Len(Room) : s[i] \in Slots  BY <1>2, <1>4, <1>5
<1>8. s \in Seq(Slots) /\ Len(s) = Len(Room)
  <2>1. s \in [1..Len(Room) -> Slots]  BY <1>7
  <2> QED  BY <1>4, <2>1
<1>9. \A i \in 1..Len(Room) :
        s[i] = IF i = offset + 1 THEN v
               ELSE IF i > offset + 1 /\ i <= mListSize + 1 THEN Room[i - 1]
               ELSE Room[i]
  BY <1>2, <1>4
<1> HIDE DEF s
<1> QED  BY <1>1, <1>3, <1>4, <1>6, <1>8, <1>9

(* An element is a T: it has been constructed, or was put there. *)
LEMMA ElementIsBuilt ==
    ASSUME ListInv, listState = "live", NEW j \in 1..mListSize
    PROVE  slots[j] \in Slots /\ slots[j] # Raw
<1>1. mListSize \in Nat /\ mListSize <= Len(slots) /\ slots \in Seq(Slots)
  BY DEF ListInv, SizeWithin
<1>2. j \in 1..Len(slots)  BY <1>1
<1>3. slots[j] = Raw => j > mListSize  BY <1>2, <1>1 DEF ListInv, SlotsAreBuilt
<1> QED  BY <1>1, <1>2, <1>3

(* The program is over: nothing is promised of the list any more. *)
LEMMA EndedInv ==
    ASSUME ListInv, NEW how \in {"undefined", "hangs"}, EndList(how)
    PROVE  ListInv'
BY DEF EndList, ListInv, UnbornIsEmpty, SizeWithin, StaticKeepsSlots, SlotsAreBuilt,
   OnlyCopiesHoldObjects, OnlyCopiesAreDestroyed

(* The parts of the invariant that only speak of storage and size. *)
LEMMA StoredInv ==
    ASSUME ListInv, listState \in {"live", "unborn"}, listState' = "live",
           listKind' = listKind, mAllocated' \in BOOLEAN,
           slots' \in Seq(Slots),
           mListSize' \in Nat, mListSize' <= Len(slots'), mListSize' < listKind.limit,
           listKind.static => Len(slots') = Len(slots),
           \A i \in 1..Len(slots') : slots'[i] = Raw => listKind.static /\ i > mListSize',
           OnlyCopiesHoldObjects'
    PROVE  ListInv'
<1>1. (listKind \in ListKinds)'  BY DEF ListInv
<1>2. UnbornIsEmpty' /\ SizeWithin' /\ OnlyCopiesAreDestroyed'
  BY DEF UnbornIsEmpty, SizeWithin, OnlyCopiesAreDestroyed
<1>3. StaticKeepsSlots'  BY DEF ListInv, StaticKeepsSlots
<1>4. SlotsAreBuilt'  BY DEF SlotsAreBuilt
<1> QED  BY <1>1, <1>2, <1>3, <1>4 DEF ListInv

LEMMA InsertValueInv ==
    ASSUME ListInv, NEW offset \in 0..mListSize, NEW v \in Slots \ {Raw}, InsertValue(offset, v)
    PROVE  ListInv'
<1>1. listState = "live"  BY DEF InsertValue
<1>2. CASE listState' # "live"
  <2>1. EndList("undefined")  BY <1>1, <1>2 DEF InsertValue, Stored
  <2> QED  BY <2>1, EndedInv
<1>3. CASE listState' = "live"
  <2>1. mListSize \in Nat /\ mListSize + 1 \in Nat  BY <1>1 DEF ListInv, SizeWithin
  <2>2. /\ slots' \in Seq(Slots) /\ Len(slots') > mListSize
        /\ listKind' = listKind /\ mAllocated' = mAllocated
        /\ listKind.static => Len(slots') = Len(slots)
    BY <1>3, InsertedSlots
  <2>3. mListSize' \in Nat /\ mListSize' <= mListSize + 1 /\ mListSize' < listKind.limit
    BY <1>3, <2>1, InsertedSlots, NarrowedInRange
  <2>4. Len(slots') \in Nat /\ mListSize' <= Len(slots')  BY <2>1, <2>2, <2>3
  <2>5. ASSUME NEW i \in 1..Len(slots'), slots'[i] = Raw
        PROVE  listKind.static /\ i > mListSize'
    <3>1. /\ slots'[i] = IF i = offset + 1 THEN v
                         ELSE IF i > offset + 1 /\ i <= mListSize + 1 THEN Room[i - 1]
                         ELSE Room[i]
          /\ \A j \in 1..Len(slots') :
                Room[j] = IF j <= mListSize \/ Room = slots THEN slots[j] ELSE Default
          /\ Len(slots') = Len(Room)
      BY <1>3, InsertedSlots
    <3>2. i > mListSize + 1
      <4>1. CASE i = offset + 1  BY <2>5, <3>1, <4>1
      <4>2. CASE i > offset + 1 /\ i <= mListSize + 1
        <5>1. i - 1 \in 1..mListSize /\ i - 1 \in 1..Len(slots')  BY <2>1, <2>4, <4>2
        <5>2. slots'[i] = slots[i - 1]  BY <2>1, <3>1, <4>2, <5>1
        <5> QED  BY <1>1, <2>5, <5>1, <5>2, ElementIsBuilt
      <4>3. CASE i < offset + 1
        <5>1. i \in 1..mListSize  BY <2>1, <2>4, <4>3
        <5>2. slots'[i] = slots[i]  BY <2>1, <3>1, <4>3, <5>1
        <5> QED  BY <1>1, <2>5, <5>1, <5>2, ElementIsBuilt
      <4> QED  BY <2>1, <2>4, <4>1, <4>2, <4>3
    <3>3. slots'[i] = Room[i]  BY <2>1, <2>4, <3>1, <3>2
    <3>4. Room = slots /\ Room[i] = slots[i]
      BY <2>1, <2>4, <2>5, <3>1, <3>2, <3>3, ListAssumption
    <3>5. listKind.static
      <4>1. i \in DOMAIN slots  BY <3>1, <3>4 DEF ListInv
      <4> QED  BY <1>1, <2>5, <3>3, <3>4, <4>1 DEF ListInv, SlotsAreBuilt
    <3> QED  BY <2>1, <2>3, <2>4, <3>2, <3>5
  <2>6. mAllocated \in BOOLEAN  BY DEF ListInv
  <2>7. OnlyCopiesHoldObjects'
    <3>1. SUFFICES ASSUME listKind.static, ~listKind.trivial, ~mAllocated PROVE FALSE
      BY <2>2 DEF OnlyCopiesHoldObjects
    <3>2. Room = slots /\ ~NoObjectAt(Room, mListSize + 1) /\ Len(slots') = Len(Room)
      BY <1>3, <3>1, InsertedSlots
    <3>3. mListSize = 0 /\ \A i \in DOMAIN slots : slots[i] = Raw
      BY <1>1, <3>1 DEF ListInv, OnlyCopiesHoldObjects
    <3>4. mListSize + 1 \in DOMAIN slots  BY <2>1, <2>2, <2>4, <3>2, <3>3 DEF ListInv
    <3> QED  BY <3>1, <3>2, <3>3, <3>4 DEF NoObjectAt
  <2> QED  BY <1>1, <1>3, <2>2, <2>3, <2>4, <2>5, <2>6, <2>7, StoredInv
<1> QED  BY <1>2, <1>3

(* The element that is inserted, as its reference is read.                  *)
LEMMA InsertElementIs ==
    ASSUME ListInv, NEW offset \in 0..mListSize, NEW j \in 0..mListSize, InsertElement(offset, j)
    PROVE  \/ EndList("undefined") /\ listState = "live"
           \/ \E v \in Slots \ {Raw} :
                 /\ InsertValue(offset, v)
                 /\ j > offset => v = slots[j]
<1>1. CASE Full /\ ~ResizeThrows(Doubled) /\ listState = "live"
  BY <1>1 DEF InsertElement
<1>2. CASE ~(Full /\ ~ResizeThrows(Doubled) /\ listState = "live")
  <2>1. j \in 0..(mListSize - 1)  BY DEF InsertElement
  <2>2. PICK v \in CASE j < offset -> {slots[j + 1]}
                     [] j = offset -> {slots[j + 1], Default}
                     [] j > offset -> {slots[j]} : InsertValue(offset, v)
    BY <1>2 DEF InsertElement
  <2>3. listState = "live"  BY <2>2 DEF InsertValue
  <2>4. mListSize \in Nat  BY <2>3 DEF ListInv, SizeWithin
  <2>5. slots[j + 1] \in Slots \ {Raw}
    <3>1. j + 1 \in 1..mListSize  BY <2>1, <2>4
    <3> QED  BY <2>3, <3>1, ElementIsBuilt
  <2>6. Default \in Slots \ {Raw}  BY ListAssumption DEF Slots
  <2>7. v \in Slots \ {Raw} /\ (j > offset => v = slots[j])
    <3>1. CASE j < offset  BY <2>1, <2>2, <2>4, <2>5, <3>1
    <3>2. CASE j = offset  BY <2>1, <2>2, <2>4, <2>5, <2>6, <3>2
    <3>3. CASE j > offset
      <4>1. v = slots[j]  BY <2>1, <2>2, <2>4, <3>3
      <4>2. j \in 1..mListSize  BY <2>1, <2>4, <3>3
      <4> QED  BY <2>3, <4>1, <4>2, ElementIsBuilt
    <3> QED  BY <2>1, <2>4, <3>1, <3>2, <3>3
  <2> QED  BY <2>2, <2>7
<1> QED  BY <1>1, <1>2

(* What erase leaves. *)
LEMMA ErasedSlots ==
    ASSUME ListInv, NEW offset \in 0..mListSize, Erase(offset)
    PROVE  /\ listState = "live" /\ listState' = "live"
           /\ UNCHANGED <<listKind, mAllocated>>
           /\ mListSize \in Nat /\ offset < mListSize
           /\ mListSize' = mListSize - 1
           /\ slots' \in Seq(Slots) /\ Len(slots') = Len(slots)
           /\ \A i \in 1..Len(slots) :
                 slots'[i] = IF i > offset /\ i < mListSize THEN slots[i + 1] ELSE slots[i]
<1>1. /\ listState = "live" /\ listState' = "live"
      /\ UNCHANGED <<listKind, mAllocated>>
      /\ mListSize' = Narrow(mListSize - 1)
      /\ slots' = [i \in DOMAIN slots |->
                     IF i \in (offset + 1)..(mListSize - 1) THEN slots[i + 1] ELSE slots[i]]
      /\ offset \in 0..(mListSize - 1)
  BY DEF Erase, Stored
<1>2. /\ slots \in Seq(Slots) /\ Len(slots) \in Nat
      /\ mListSize \in Nat /\ mListSize <= Len(slots) /\ mListSize < listKind.limit
      /\ listKind.limit \in Nat
  BY <1>1, ListAssumption DEF ListInv, SizeWithin
<1>3. offset \in Nat /\ offset < mListSize /\ mListSize - 1 \in Nat /\ mListSize - 1 < listKind.limit
  BY <1>1, <1>2
<1>4. mListSize' = mListSize - 1  BY <1>1, <1>3, NarrowedInRange
<1> DEFINE s == [i \in 1..Len(slots) |->
                     IF i \in (offset + 1)..(mListSize - 1) THEN slots[i + 1] ELSE slots[i]]
<1>5. slots' = s /\ \A i \in 1..Len(slots) : slots[i] \in Slots  BY <1>1, <1>2
<1>6. s \in Seq(Slots) /\ Len(s) = Len(slots)
  <2>1. \A i \in 1..Len(slots) : s[i] \in Slots  BY <1>2, <1>3, <1>5
  <2>2. s \in [1..Len(slots) -> Slots]  BY <2>1
  <2> QED  BY <1>2, <2>2
<1>7. \A i \in 1..Len(slots) :
        s[i] = IF i > offset /\ i < mListSize THEN slots[i + 1] ELSE slots[i]
  BY <1>2, <1>3
<1> HIDE DEF s
<1> QED  BY <1>1, <1>2, <1>3, <1>4, <1>5, <1>6, <1>7

LEMMA ListInvStep ==
    ASSUME ListInv, [ListNext]_listVars
    PROVE  ListInv'
<1>0. /\ listKind \in ListKinds /\ listKind.limit \in Nat /\ listKind.limit > 0
      /\ listKind.static \in BOOLEAN /\ listKind.slots \in Nat
      /\ slots \in Seq(Slots) /\ Len(slots) \in Nat /\ DOMAIN slots = 1..Len(slots)
      /\ mAllocated \in BOOLEAN
      /\ Default \in Slots /\ Default # Raw /\ Raw \in Slots
  BY ListAssumption DEF ListInv, Slots
<1>1. listState = "live" => mListSize \in Nat /\ mListSize <= Len(slots) /\ mListSize < listKind.limit
  BY DEF ListInv, SizeWithin
<1>2. listState = "live" =>
        \A i \in 1..Len(slots) : slots[i] = Raw => listKind.static /\ i > mListSize
  BY <1>0 DEF ListInv, SlotsAreBuilt
<1>3. listKind.static => Len(slots) = listKind.slots  BY DEF ListInv, StaticKeepsSlots
<1>4. ASSUME NEW n \in Capacities, ConstructList(n) PROVE ListInv'
  <2>1. n \in Nat  BY ListAssumption
  <2>2. /\ listState = "unborn" /\ listState' = "live" /\ ~ResizeThrows(n)
        /\ slots' = Resized(n) /\ UNCHANGED <<listKind, mListSize, mAllocated>>
    BY <1>4 DEF ConstructList
  <2>3. /\ mListSize = 0
        /\ \A i \in 1..Len(slots) : slots[i] = Raw
        /\ ~listKind.static => Len(slots) = 0
    BY <1>0, <2>2 DEF ListInv, UnbornIsEmpty
  <2>4. /\ slots' \in Seq(Slots) /\ Len(slots') >= Len(slots)
        /\ listKind.static => slots' = slots
        /\ \A i \in 1..Len(slots') :
              slots'[i] = IF i <= mListSize \/ slots' = slots THEN slots[i] ELSE Default
    BY <2>1, <2>2, ResizedSlots
  <2>5. Len(slots') \in Nat  BY <2>4
  <2>6. ASSUME NEW i \in 1..Len(slots'), slots'[i] = Raw
        PROVE  listKind.static /\ i > mListSize'
    <3>1. i > mListSize  BY <2>3, <2>5
    <3>2. slots' = slots  BY <1>0, <2>3, <2>4, <2>5, <2>6, <3>1
    <3> QED  BY <2>2, <2>3, <2>5, <3>1, <3>2
  <2>7. OnlyCopiesHoldObjects'  BY <1>0, <2>2, <2>3, <2>4 DEF OnlyCopiesHoldObjects
  <2> QED  BY <1>0, <2>2, <2>3, <2>4, <2>5, <2>6, <2>7, StoredInv
<1>5. ASSUME NEW offset \in 0..mListSize, NEW v \in ListValues, InsertValue(offset, v)
      PROVE  ListInv'
  <2>1. v \in Slots \ {Raw}  BY ListAssumption DEF Slots
  <2> QED  BY <1>5, <2>1, InsertValueInv
<1>6. ASSUME NEW offset \in 0..mListSize, NEW j \in 0..mListSize, InsertElement(offset, j)
      PROVE  ListInv'
  BY <1>6, InsertElementIs, InsertValueInv, EndedInv
<1>7. ASSUME NEW offset \in 0..mListSize, Erase(offset) PROVE ListInv'
  <2>1. /\ listState = "live" /\ listState' = "live"
        /\ UNCHANGED <<listKind, mAllocated>>
        /\ mListSize \in Nat /\ offset < mListSize
        /\ mListSize' = mListSize - 1
        /\ slots' \in Seq(Slots) /\ Len(slots') = Len(slots)
        /\ \A i \in 1..Len(slots) :
              slots'[i] = IF i > offset /\ i < mListSize THEN slots[i + 1] ELSE slots[i]
    BY <1>7, ErasedSlots
  <2>2. offset \in Nat /\ mListSize' \in Nat /\ mListSize' <= Len(slots') /\ mListSize' < listKind.limit
    BY <1>0, <1>1, <2>1
  <2>3. ASSUME NEW i \in 1..Len(slots'), slots'[i] = Raw
        PROVE  listKind.static /\ i > mListSize'
    <3>1. i \in 1..Len(slots)  BY <2>1
    <3>2. CASE i > offset /\ i < mListSize
      <4>1. i + 1 \in 1..mListSize /\ slots'[i] = slots[i + 1]  BY <2>1, <2>2, <3>1, <3>2
      <4> QED  BY <2>1, <2>3, <4>1, ElementIsBuilt
    <3>3. CASE ~(i > offset /\ i < mListSize)
      <4>1. slots'[i] = slots[i]  BY <2>1, <3>1, <3>3
      <4>2. listKind.static /\ i > mListSize  BY <1>2, <2>1, <2>3, <3>1, <4>1
      <4> QED  BY <1>0, <2>1, <4>2
    <3> QED  BY <3>2, <3>3
  <2>4. OnlyCopiesHoldObjects'
    BY <2>1, <2>2 DEF ListInv, OnlyCopiesHoldObjects
  <2> QED  BY <1>0, <2>1, <2>2, <2>3, <2>4, StoredInv
<1>8. CASE PopFrontOfNothing  BY <1>8, EndedInv DEF PopFrontOfNothing
<1>9. CASE PopBack
  <2> DEFINE n == IF mListSize = 0 THEN 0 ELSE mListSize - 1
  <2>1. /\ listState = "live" /\ listState' = "live" /\ slots' = slots
        /\ UNCHANGED <<listKind, mAllocated>> /\ mListSize' = Narrow(n)
    BY <1>9 DEF PopBack, Stored
  <2>2. n \in Nat /\ n <= mListSize  BY <1>1, <2>1
  <2> HIDE DEF n
  <2>3. mListSize' = n
    <3>1. n < listKind.limit  BY <1>0, <1>1, <2>1, <2>2
    <3>2. Narrow(n) = n  BY <2>2, <3>1, NarrowedInRange
    <3> QED  BY <2>1, <3>2
  <2>4. \A i \in 1..Len(slots) : slots[i] = Raw => listKind.static /\ i > n
    BY <1>0, <1>1, <1>2, <2>1, <2>2
  <2>5. OnlyCopiesHoldObjects'
    BY <2>1, <2>3 DEF ListInv, OnlyCopiesHoldObjects, n
  <2> QED  BY <1>0, <1>1, <2>1, <2>2, <2>3, <2>4, <2>5, StoredInv
<1>10. CASE ClearList
  <2>1. /\ listState = "live" /\ listState' = "live" /\ slots' = slots
        /\ UNCHANGED <<listKind, mAllocated>> /\ mListSize' = Narrow(0)
    BY <1>10 DEF ClearList, Stored
  <2>2. mListSize' = 0  BY <1>0, <2>1, NarrowedInRange
  <2>3. \A i \in 1..Len(slots) : slots[i] = Raw => listKind.static /\ i > 0
    BY <1>0, <1>2, <2>1
  <2>4. OnlyCopiesHoldObjects'
    BY <2>1, <2>2 DEF ListInv, OnlyCopiesHoldObjects
  <2> QED  BY <1>0, <2>1, <2>2, <2>3, <2>4, StoredInv
<1>11. ASSUME NEW k \in ListKinds, CopyList(k) PROVE ListInv'
  <2> DEFINE n == IF k.static THEN k.slots ELSE mListSize
  <2>0. k.static \in BOOLEAN /\ k.slots \in Nat /\ k.limit \in Nat /\ k.limit > 0
    BY ListAssumption
  <2>1. /\ listState = "live" /\ listState' = "live" /\ listKind' = k
        /\ k.static => mListSize <= k.slots
        /\ mListSize' = mListSize % k.limit /\ mAllocated' = k.static
        /\ slots' = Elements \o Filled(IF k.static THEN k.slots - mListSize ELSE 0, Raw)
    BY <1>11 DEF CopyList
  <2>2. n \in Nat /\ mListSize <= n  BY <1>1, <2>0, <2>1
  <2>3. n - mListSize = IF k.static THEN k.slots - mListSize ELSE 0
    BY <1>1, <2>1
  <2>4. (~k.static => n = mListSize) /\ (k.static => n = k.slots)  OBVIOUS
  <2> HIDE DEF n
  <2>5. slots' = Elements \o Filled(n - mListSize, Raw)  BY <2>1, <2>3
  <2>6. /\ slots' \in Seq(Slots) /\ Len(slots') = n
        /\ \A i \in 1..n : slots'[i] = IF i <= mListSize THEN slots[i] ELSE Raw
    <3>1. n \in Nat /\ mListSize <= n /\ Raw \in Slots /\ listState \in {"live", "unborn"}
      BY <1>0, <2>1, <2>2
    <3>2. LET s == Elements \o Filled(n - mListSize, Raw)
          IN  /\ s \in Seq(Slots)
              /\ Len(s) = n
              /\ \A i \in 1..n : s[i] = IF i <= mListSize THEN slots[i] ELSE Raw
      BY <3>1, RaisedSlots
    <3> QED  BY <2>5, <3>2
  <2>7. mListSize' \in Nat /\ mListSize' <= mListSize /\ mListSize' < k.limit
    <3>1. ASSUME NEW i \in Nat, NEW m \in Nat, m > 0 PROVE i % m \in Nat /\ i % m <= i /\ i % m < m
      BY <3>1, SMTT(30)
    <3> QED  BY <1>1, <2>0, <2>1, <3>1
  <2>8. ASSUME NEW i \in 1..n, slots'[i] = Raw PROVE k.static /\ i > mListSize'
    <3>1. CASE i <= mListSize
      <4>1. i \in 1..mListSize  BY <1>1, <2>2, <3>1
      <4>2. slots[i] = Raw  BY <2>6, <2>8, <3>1
      <4> QED  BY <2>1, <4>1, <4>2, ElementIsBuilt
    <3>2. CASE ~(i <= mListSize)
      <4>1. i > mListSize /\ n > mListSize  BY <1>1, <2>1, <2>2, <3>2
      <4> QED  BY <1>1, <2>0, <2>1, <2>4, <2>7, <4>1
    <3> QED  BY <3>1, <3>2
  <2>9. UnbornIsEmpty' /\ OnlyCopiesHoldObjects' /\ OnlyCopiesAreDestroyed'
    BY <2>1 DEF UnbornIsEmpty, OnlyCopiesHoldObjects, OnlyCopiesAreDestroyed
  <2>10. SizeWithin'
    <3>1. mListSize' <= Len(slots')  BY <1>1, <2>1, <2>2, <2>6, <2>7
    <3> QED  BY <2>1, <2>7, <3>1 DEF SizeWithin
  <2>11. StaticKeepsSlots'  BY <2>1, <2>4, <2>6 DEF StaticKeepsSlots
  <2>12. SlotsAreBuilt'  BY <2>1, <2>2, <2>6, <2>8 DEF SlotsAreBuilt
  <2> QED  BY <2>0, <2>1, <2>6, <2>9, <2>10, <2>11, <2>12 DEF ListInv
<1>12. CASE MoveListAway
  <2>1. /\ listState = "live" /\ listState' = "live" /\ ~listKind.static
        /\ slots' = <<>> /\ mListSize' = 0 /\ UNCHANGED <<listKind, mAllocated>>
    BY <1>12 DEF MoveListAway
  <2>2. slots' \in Seq(Slots) /\ Len(slots') = 0  BY <2>1
  <2>3. OnlyCopiesHoldObjects'  BY <2>1 DEF OnlyCopiesHoldObjects
  <2> QED  BY <1>0, <2>1, <2>2, <2>3, StoredInv
<1>13. CASE DestroyList
  <2>1. CASE EndList("undefined") \/ EndList("hangs")  BY <2>1, EndedInv
  <2>2. CASE ~(EndList("undefined") \/ EndList("hangs"))
    <3>1. /\ EndList(IF listKind.static /\ ~mAllocated THEN "terminated" ELSE "gone")
          /\ ~\E i \in DOMAIN slots : NoObjectAt(slots, i)
      BY <1>13, <2>2 DEF DestroyList
    <3>2. listState' \in {"gone", "terminated"} /\ UNCHANGED <<listKind, slots, mListSize, mAllocated>>
      BY <3>1 DEF EndList
    <3>3. OnlyCopiesAreDestroyed'
      BY <3>1, <3>2 DEF EndList, NoObjectAt, OnlyCopiesAreDestroyed
    <3> QED
      BY <3>2, <3>3 DEF ListInv, UnbornIsEmpty, SizeWithin, StaticKeepsSlots, SlotsAreBuilt,
         OnlyCopiesHoldObjects
  <2> QED  BY <2>1, <2>2
<1>14. CASE UNCHANGED listVars
  BY <1>14 DEF listVars, ListInv, UnbornIsEmpty, SizeWithin, StaticKeepsSlots, SlotsAreBuilt,
     OnlyCopiesHoldObjects, OnlyCopiesAreDestroyed
<1> QED
  BY <1>4, <1>5, <1>6, <1>7, <1>8, <1>9, <1>10, <1>11, <1>12, <1>13, <1>14 DEF ListNext

(* What InsertAt of a sequence holds, place by place. *)
InsertedAt(t, s, i, e) ==
    /\ Len(t) = Len(s) + 1
    /\ \A k \in 1..(Len(s) + 1) :
          t[k] = IF k < i THEN s[k] ELSE IF k = i THEN e ELSE s[k - 1]

LEMMA InsertAtIs ==
    ASSUME NEW S, NEW s \in Seq(S), NEW i \in 1..(Len(s) + 1), NEW e \in S
    PROVE  InsertAt(s, i, e) \in Seq(S) /\ InsertedAt(InsertAt(s, i, e), s, i, e)
<1> DEFINE a == SubSeq(s, 1, i - 1)
           b == SubSeq(s, i, Len(s))
<1>0. Len(s) \in Nat /\ i \in Nat /\ i >= 1 /\ i <= Len(s) + 1  OBVIOUS
<1>1. a \in Seq(S) /\ Len(a) = i - 1 /\ \A k \in 1..(i - 1) : a[k] = s[k]  BY <1>0
<1>2. b \in Seq(S) /\ Len(b) = Len(s) - i + 1
      /\ \A k \in 1..(Len(s) - i + 1) : b[k] = s[i + k - 1]
  BY <1>0
<1>3. <<e>> \in Seq(S) /\ Len(<<e>>) = 1 /\ <<e>>[1] = e  OBVIOUS
<1> HIDE DEF a, b
<1> DEFINE c == a \o <<e>>
<1>4. c \in Seq(S) /\ Len(c) = i /\ \A k \in 1..i : c[k] = IF k < i THEN s[k] ELSE e
  BY <1>0, <1>1, <1>3
<1> HIDE DEF c
<1>5. /\ c \o b \in Seq(S) /\ Len(c \o b) = Len(s) + 1
      /\ \A k \in 1..(Len(s) + 1) : (c \o b)[k] = IF k <= i THEN c[k] ELSE b[k - i]
  <2>1. /\ c \o b \in Seq(S) /\ Len(c \o b) = Len(c) + Len(b)
        /\ \A k \in 1..(Len(c) + Len(b)) :
              (c \o b)[k] = IF k <= Len(c) THEN c[k] ELSE b[k - Len(c)]
    BY <1>2, <1>4, ConcatProperties
  <2>2. Len(c) = i /\ Len(c) + Len(b) = Len(s) + 1  BY <1>0, <1>2, <1>4
  <2> QED  BY <2>1, <2>2
<1>6. ASSUME NEW k \in 1..(Len(s) + 1)
      PROVE  (c \o b)[k] = IF k < i THEN s[k] ELSE IF k = i THEN e ELSE s[k - 1]
  <2>1. CASE k <= i
    <3>1. (c \o b)[k] = c[k] /\ k \in 1..i  BY <1>0, <1>5, <2>1
    <3> QED  BY <1>0, <1>4, <3>1
  <2>2. CASE k > i
    <3>1. k - i \in 1..(Len(s) - i + 1)  BY <1>0, <2>2
    <3>2. (c \o b)[k] = b[k - i]  BY <1>0, <1>5, <2>2
    <3>3. b[k - i] = s[k - 1]  BY <1>0, <1>2, <3>1
    <3> QED  BY <1>0, <2>2, <3>2, <3>3
  <2>3. k <= i \/ k > i  BY <1>0
  <2> QED  BY <2>1, <2>2, <2>3
<1> QED  BY <1>5, <1>6 DEF InsertAt, InsertedAt, a, b, c

LEMMA RemoveAtIs ==
    ASSUME NEW S, NEW s \in Seq(S), NEW i \in 1..Len(s)
    PROVE  /\ RemoveAt(s, i) \in Seq(S)
           /\ Len(RemoveAt(s, i)) = Len(s) - 1
           /\ \A k \in 1..(Len(s) - 1) : RemoveAt(s, i)[k] = IF k < i THEN s[k] ELSE s[k + 1]
<1> DEFINE a == SubSeq(s, 1, i - 1)
           b == SubSeq(s, i + 1, Len(s))
<1>0. Len(s) \in Nat /\ i \in Nat /\ i >= 1 /\ i <= Len(s)  OBVIOUS
<1>1. a \in Seq(S) /\ Len(a) = i - 1 /\ \A k \in 1..(i - 1) : a[k] = s[k]  BY <1>0
<1>2. b \in Seq(S) /\ Len(b) = Len(s) - i
      /\ \A k \in 1..(Len(s) - i) : b[k] = s[i + k]
  BY <1>0
<1> HIDE DEF a, b
<1>3. a \o b \in Seq(S) /\ Len(a \o b) = Len(s) - 1
  <2>1. a \o b \in Seq(S) /\ Len(a \o b) = Len(a) + Len(b)  BY <1>1, <1>2, ConcatProperties
  <2> QED  BY <1>0, <1>1, <1>2, <2>1
<1>4. ASSUME NEW k \in 1..(Len(s) - 1)
      PROVE  (a \o b)[k] = IF k < i THEN s[k] ELSE s[k + 1]
  <2>1. CASE k < i  BY <1>0, <1>1, <1>2, <2>1
  <2>2. CASE k >= i
    <3>1. k - (i - 1) \in 1..(Len(s) - i)  BY <1>0, <2>2
    <3>2. (a \o b)[k] = b[k - (i - 1)]  BY <1>0, <1>1, <1>2, <2>2, <3>1
    <3>3. b[k - (i - 1)] = s[k + 1]  BY <1>0, <1>2, <3>1
    <3> QED  BY <1>0, <2>2, <3>2, <3>3
  <2>3. k < i \/ k >= i  BY <1>0
  <2> QED  BY <2>1, <2>2, <2>3
<1> QED  BY <1>3, <1>4 DEF RemoveAt, a, b

(* The elements are a sequence in the next state too. *)
LEMMA NextElementsAre ==
    ASSUME ListInv', listState' = "live"
    PROVE  /\ Elements' \in Seq(Slots)
           /\ Len(Elements') = mListSize' /\ mListSize' \in Nat
           /\ \A i \in 1..mListSize' : Elements'[i] = slots'[i]
BY DEF ListInv, SizeWithin, Elements

(* Unless the count wraps, an insertion is that of a sequence. *)
LEMMA InsertionFollows ==
    ASSUME ListInv, ListInv', NEW offset \in 0..mListSize, NEW v \in Slots \ {Raw},
           InsertValue(offset, v), listState' = "live", ~CountWraps
    PROVE  Elements' = InsertAt(Elements, offset + 1, v)
<1>1. listState = "live"  BY DEF InsertValue
<1>2. /\ mListSize \in Nat /\ mListSize <= Len(slots) /\ Len(slots) \in Nat
      /\ mListSize + 1 < listKind.limit
  BY <1>1, ListAssumption DEF ListInv, SizeWithin, CountWraps
<1>3. Narrow(mListSize + 1) = mListSize + 1
  <2>1. mListSize + 1 \in Nat  BY <1>2
  <2> QED  BY <1>2, <2>1, NarrowedInRange
<1>4. /\ Len(slots') > mListSize /\ Len(slots') \in Nat
      /\ \A i \in 1..Len(slots') :
            slots'[i] = IF i = offset + 1 THEN v
                        ELSE IF i > offset + 1 /\ i <= mListSize + 1 THEN Room[i - 1]
                        ELSE Room[i]
      /\ \A i \in 1..Len(slots') :
            Room[i] = IF i <= mListSize \/ Room = slots THEN slots[i] ELSE Default
      /\ mListSize' = mListSize + 1
  BY <1>3, InsertedSlots
<1>5. /\ Elements \in Seq(Slots) /\ Len(Elements) = mListSize
      /\ \A i \in 1..mListSize : Elements[i] = slots[i]
  BY <1>1, ElementsAre
<1>6. /\ Elements' \in Seq(Slots) /\ Len(Elements') = mListSize + 1
      /\ \A i \in 1..(mListSize + 1) : Elements'[i] = slots'[i]
  BY <1>4, NextElementsAre
<1>7. PICK p \in 1..(Len(Elements) + 1) : p = offset + 1  BY <1>2, <1>5
<1> DEFINE t == InsertAt(Elements, p, v)
<1>8. /\ t \in Seq(Slots) /\ Len(t) = mListSize + 1
      /\ \A k \in 1..(mListSize + 1) :
            t[k] = IF k < offset + 1 THEN Elements[k]
                   ELSE IF k = offset + 1 THEN v ELSE Elements[k - 1]
  <2>1. v \in Slots  OBVIOUS
  <2>2. t \in Seq(Slots) /\ InsertedAt(t, Elements, p, v)  BY <1>5, <2>1, InsertAtIs
  <2> HIDE DEF t
  <2> QED  BY <1>5, <1>7, <2>2 DEF InsertedAt
<1> HIDE DEF t
<1>9. ASSUME NEW i \in 1..(mListSize + 1) PROVE Elements'[i] = t[i]
  <2>1. i \in 1..Len(slots') /\ i \in Nat /\ i >= 1 /\ i <= mListSize + 1  BY <1>2, <1>4
  <2>2. CASE i < offset + 1
    <3>1. i \in 1..mListSize  BY <1>2, <2>1, <2>2
    <3>2. ~(i = offset + 1) /\ ~(i > offset + 1) /\ i <= mListSize  BY <1>2, <2>1, <2>2, <3>1
    <3>3. slots'[i] = Room[i] /\ Room[i] = slots[i]  BY <1>4, <2>1, <3>2
    <3> QED  BY <1>5, <1>6, <1>8, <2>2, <3>1, <3>3
  <2>3. CASE i = offset + 1  BY <1>2, <1>4, <1>6, <1>8, <2>1, <2>3
  <2>4. CASE i > offset + 1
    <3>1. i - 1 \in 1..mListSize /\ i - 1 \in 1..Len(slots')  BY <1>2, <1>4, <2>1, <2>4
    <3>2. ~(i = offset + 1) /\ ~(i < offset + 1)  BY <1>2, <2>1, <2>4
    <3>3. slots'[i] = Room[i - 1]  BY <1>4, <2>1, <2>4, <3>2
    <3>4. Room[i - 1] = slots[i - 1]  BY <1>4, <3>1
    <3>5. t[i] = Elements[i - 1]  BY <1>8, <3>2
    <3>6. Elements[i - 1] = slots[i - 1] /\ Elements'[i] = slots'[i]  BY <1>5, <1>6, <3>1
    <3> QED  BY <3>3, <3>4, <3>5, <3>6
  <2>5. i < offset + 1 \/ i = offset + 1 \/ i > offset + 1  BY <1>2
  <2> QED  BY <2>2, <2>3, <2>4, <2>5
<1> QED  BY <1>6, <1>7, <1>8, <1>9, SeqEqual DEF t

LEMMA ErasureFollows ==
    ASSUME ListInv, ListInv', NEW offset \in 0..mListSize, Erase(offset)
    PROVE  Elements' = RemoveAt(Elements, offset + 1)
<1>1. /\ listState = "live" /\ listState' = "live"
      /\ mListSize \in Nat /\ offset < mListSize
      /\ mListSize' = mListSize - 1
      /\ \A i \in 1..Len(slots) :
            slots'[i] = IF i > offset /\ i < mListSize THEN slots[i + 1] ELSE slots[i]
  BY ErasedSlots
<1>2. Len(slots) \in Nat /\ mListSize <= Len(slots)  BY <1>1 DEF ListInv, SizeWithin
<1>3. /\ Elements \in Seq(Slots) /\ Len(Elements) = mListSize
      /\ \A i \in 1..mListSize : Elements[i] = slots[i]
  BY <1>1, ElementsAre
<1>4. /\ Elements' \in Seq(Slots) /\ Len(Elements') = mListSize - 1
      /\ \A i \in 1..(mListSize - 1) : Elements'[i] = slots'[i]
  BY <1>1, NextElementsAre
<1> DEFINE t == RemoveAt(Elements, offset + 1)
<1>5. offset + 1 \in 1..Len(Elements)  BY <1>1, <1>3
<1>6. /\ t \in Seq(Slots) /\ Len(t) = mListSize - 1
      /\ \A k \in 1..(mListSize - 1) :
            t[k] = IF k < offset + 1 THEN Elements[k] ELSE Elements[k + 1]
  BY <1>3, <1>5, RemoveAtIs
<1> HIDE DEF t
<1>7. ASSUME NEW i \in 1..(mListSize - 1) PROVE Elements'[i] = t[i]
  <2>1. i \in 1..mListSize /\ i + 1 \in 1..mListSize /\ i \in 1..Len(slots)  BY <1>1, <1>2
  <2>2. slots'[i] = IF i > offset THEN slots[i + 1] ELSE slots[i]  BY <1>1, <2>1
  <2>3. t[i] = IF i > offset THEN Elements[i + 1] ELSE Elements[i]  BY <1>1, <1>6
  <2> QED  BY <1>3, <1>4, <2>1, <2>2, <2>3
<1> QED  BY <1>4, <1>6, <1>7, SeqEqual DEF t

LEMMA CopyFollows ==
    ASSUME ListInv, ListInv', NEW k \in ListKinds, CopyList(k), mListSize < k.limit
    PROVE  Elements' = Elements
<1>0. k.static \in BOOLEAN /\ k.slots \in Nat /\ k.limit \in Nat  BY ListAssumption
<1>1. /\ listState = "live" /\ listState' = "live" /\ mListSize' = mListSize % k.limit
      /\ k.static => mListSize <= k.slots
      /\ slots' = Elements \o Filled(IF k.static THEN k.slots - mListSize ELSE 0, Raw)
  BY DEF CopyList
<1>2. mListSize \in Nat  BY <1>1 DEF ListInv, SizeWithin
<1>3. mListSize' = mListSize
  <2>1. ASSUME NEW i \in Nat, NEW m \in Nat, i < m PROVE i % m = i  BY <2>1, SMTT(30)
  <2> QED  BY <1>0, <1>1, <1>2, <2>1
<1>4. Elements \in Seq(Slots) /\ Len(Elements) = mListSize  BY <1>1, ElementsAre
<1>5. /\ Elements' \in Seq(Slots) /\ Len(Elements') = mListSize
      /\ \A i \in 1..mListSize : Elements'[i] = slots'[i]
  BY <1>1, <1>3, NextElementsAre
<1> DEFINE n == IF k.static THEN k.slots - mListSize ELSE 0
<1>6. n \in Nat /\ Raw \in Slots  BY <1>0, <1>1, <1>2 DEF Slots
<1>7. slots' = Elements \o Filled(n, Raw)  BY <1>1
<1> HIDE DEF n
<1>8. Filled(n, Raw) \in Seq(Slots)  BY <1>6, FilledIs
<1>9. \A i \in 1..mListSize : slots'[i] = Elements[i]  BY <1>2, <1>4, <1>7, <1>8
<1> QED  BY <1>4, <1>5, <1>9, SeqEqual

(* What one step of the list promises. *)
FollowsSequence ==
    listState' = "live" /\ listState = "live" =>
      /\ \A offset \in 0..mListSize :
           /\ \A v \in ListValues : InsertValue(offset, v) /\ ~CountWraps =>
                Elements' = InsertAt(Elements, offset + 1, v)
           /\ Erase(offset) => Elements' = RemoveAt(Elements, offset + 1)
      /\ \A k \in ListKinds : CopyList(k) /\ mListSize < k.limit => Elements' = Elements

PredecessorInserted ==
    \A offset, j \in 0..mListSize :
      /\ InsertElement(offset, j) /\ j > offset
      /\ listState' = "live" /\ ~CountWraps
      => Elements' = InsertAt(Elements, offset + 1, Elements[j])

LEMMA FollowsSequenceHolds ==
    ASSUME ListInv, ListInv'
    PROVE  FollowsSequence
<1> SUFFICES ASSUME listState' = "live", listState = "live"
             PROVE  /\ \A offset \in 0..mListSize :
                         /\ \A v \in ListValues : InsertValue(offset, v) /\ ~CountWraps =>
                              Elements' = InsertAt(Elements, offset + 1, v)
                         /\ Erase(offset) => Elements' = RemoveAt(Elements, offset + 1)
                    /\ \A k \in ListKinds :
                         CopyList(k) /\ mListSize < k.limit => Elements' = Elements
  BY DEF FollowsSequence
<1>1. ASSUME NEW offset \in 0..mListSize, NEW v \in ListValues,
             InsertValue(offset, v), ~CountWraps
      PROVE  Elements' = InsertAt(Elements, offset + 1, v)
  <2>1. v \in Slots \ {Raw}  BY ListAssumption DEF Slots
  <2> QED  BY <1>1, <2>1, InsertionFollows
<1>2. ASSUME NEW offset \in 0..mListSize, Erase(offset)
      PROVE  Elements' = RemoveAt(Elements, offset + 1)
  BY <1>2, ErasureFollows
<1> QED  BY <1>1, <1>2, CopyFollows

LEMMA PredecessorIsInserted ==
    ASSUME ListInv, ListInv'
    PROVE  PredecessorInserted
<1> SUFFICES ASSUME NEW offset \in 0..mListSize, NEW j \in 0..mListSize,
                    InsertElement(offset, j), j > offset, listState' = "live", ~CountWraps
             PROVE  Elements' = InsertAt(Elements, offset + 1, Elements[j])
  BY DEF PredecessorInserted
<1>1. ~EndList("undefined")  BY DEF EndList
<1>2. PICK v \in Slots \ {Raw} : InsertValue(offset, v) /\ v = slots[j]
  BY <1>1, InsertElementIs
<1>3. listState = "live"  BY <1>2 DEF InsertValue
<1>4. mListSize \in Nat  BY <1>3 DEF ListInv, SizeWithin
<1>5. j \in 1..mListSize  BY <1>4
<1>6. Elements[j] = v  BY <1>2, <1>3, <1>5, ElementsAre
<1>7. Elements' = InsertAt(Elements, offset + 1, v)  BY <1>2, InsertionFollows
<1> QED  BY <1>6, <1>7

(* The invariant of the list. *)
LEMMA ListInvariant == ListSpec => []ListInv
<1>1. ListInit => ListInv  BY ListInvInit
<1>2. ListInv /\ [ListNext]_listVars => ListInv'  BY ListInvStep
<1> QED  BY <1>1, <1>2, PTL DEF ListSpec

(* Every slot of a heap list holds a T from the construction of the list to *)
(* its destructor, and of a static one those below the size.  Of T's that   *)
(* are not trivial a static list holds none unless a copy made it, and only *)
(* one that a copy filled is destroyed: to insert into any other, or to     *)
(* destroy it, is undefined (array_list.hpp:91, 118, 131).                  *)
THEOREM ListsAreBuilt == ListSpec => [](ListTypeOK /\ ListLifetime)
<1>1. ListInv => ListTypeOK
  BY DEF ListInv, ListTypeOK, SizeWithin, Slots, Capacity
<1>2. ListInv => ListLifetime  BY DEF ListInv, ListLifetime
<1> QED  BY <1>1, <1>2, ListInvariant, PTL

(* push_back, insert, erase and copies do to the elements what they do to a *)
(* sequence, through every growth and shift, until the count wraps; and an  *)
(* element inserted in front of itself is its predecessor.                  *)
THEOREM ListsFollowSequences == ListSpec => ListSteps
<1>1. ListInv /\ ListInv' => [FollowsSequence]_listVars  BY FollowsSequenceHolds
<1>2. ListInv /\ ListInv' => [PredecessorInserted]_listVars  BY PredecessorIsInserted
<1>3. ListSpec => [][FollowsSequence]_listVars  BY <1>1, ListInvariant, PTL
<1>4. ListSpec => [][PredecessorInserted]_listVars  BY <1>2, ListInvariant, PTL
<1>5. ListSpec => ListFollowsSequence  BY <1>3 DEF ListFollowsSequence, FollowsSequence
<1>6. ListSpec => InsertsThePredecessor  BY <1>4 DEF InsertsThePredecessor, PredecessorInserted
<1> QED  BY <1>5, <1>6 DEF ListSteps

------------------------------------------------------------------------------
(* integer_map                                                             *)

Entries == [first : Nat, second : MapValues]

MapInv ==
    /\ mapKind \in MapKinds
    /\ mElements \in Seq(Entries)
    /\ \A i \in 1..Len(mElements) : mElements[i].first < mapKind.kLimit
    /\ emplaced \in 0..Len(mElements)
    /\ misread \in BOOLEAN
    /\ KeysAscend

(* A key as an element keeps it is one that K has; one that a T holds and a *)
(* K does not is above them all.                                            *)
LEMMA KeysNarrowed ==
    ASSUME MapInv, NEW k \in CallerKeys
    PROVE  /\ AsT(k) \in Nat /\ AsK(k) \in Nat /\ AsK(k) < mapKind.kLimit
           /\ AsK(k) = AsT(k) \/ AsT(k) >= mapKind.kLimit
           /\ KeyFits(k) => AsT(k) = k /\ AsK(k) = k
<1>1. k \in Nat /\ mapKind.tLimit \in Nat \ {0} /\ mapKind.kLimit \in Nat \ {0}
  BY MapAssumption DEF MapInv
<1>2. ASSUME NEW n \in Nat, NEW m \in Nat \ {0}
      PROVE  n % m \in Nat /\ n % m < m /\ (n < m => n % m = n)
  BY <1>2, SMTT(30)
<1>3. AsT(k) \in Nat /\ (k < mapKind.tLimit => AsT(k) = k)  BY <1>1, <1>2 DEF AsT
<1>4. /\ AsK(k) \in Nat /\ AsK(k) < mapKind.kLimit
      /\ AsT(k) < mapKind.kLimit => AsK(k) = AsT(k)
  BY <1>1, <1>2, <1>3 DEF AsK
<1> QED  BY <1>1, <1>3, <1>4 DEF KeyFits

(* The elements in order. *)
LEMMA ElementsAscend ==
    ASSUME MapInv
    PROVE  /\ Len(mElements) \in Nat /\ DOMAIN mElements = 1..Len(mElements)
           /\ \A i \in 1..Len(mElements) :
                 /\ mElements[i] \in Entries /\ mElements[i].first \in Nat
                 /\ mElements[i].first < mapKind.kLimit
           /\ \A i \in 1..Len(mElements) : \A j \in 1..Len(mElements) :
                 i < j => mElements[i].first < mElements[j].first
<1>1. Len(mElements) \in Nat /\ DOMAIN mElements = 1..Len(mElements)
      /\ \A i \in 1..Len(mElements) : mElements[i] \in Entries
  BY DEF MapInv
<1>2. \A e \in Entries : e.first \in Nat  BY DEF Entries
<1> QED  BY <1>1, <1>2 DEF MapInv, KeysAscend

(* Intervals from one have as many members as their end. *)
LEMMA UpTo ==
    ASSUME NEW n \in Nat
    PROVE  IsFiniteSet(1..n) /\ Cardinality(1..n) = n
<1>1. IsFiniteSet(1..n) /\ Cardinality(1..n) = IF 1 > n THEN 0 ELSE n - 1 + 1
  BY FS_Interval
<1> QED  BY <1>1

(* lower_bound: the keys before the place are smaller, those from it on are *)
(* not.                                                                     *)
LEMMA LowerBoundIs ==
    ASSUME MapInv, NEW k \in CallerKeys
    PROVE  /\ LowerBound(k) \in 1..(Len(mElements) + 1)
           /\ \A i \in 1..Len(mElements) :
                 mElements[i].first < AsK(k) <=> i < LowerBound(k)
<1> DEFINE S == {i \in DOMAIN mElements : mElements[i].first < AsK(k)}
           n == Len(mElements)
<1>1. /\ n \in Nat /\ DOMAIN mElements = 1..n /\ AsK(k) \in Nat
      /\ \A i \in 1..n : mElements[i].first \in Nat
      /\ \A i \in 1..n : \A j \in 1..n : i < j => mElements[i].first < mElements[j].first
  BY ElementsAscend, KeysNarrowed
<1>2. S \subseteq 1..n /\ \A i \in 1..n : i \in S <=> mElements[i].first < AsK(k)  BY <1>1
<1>3. \A i \in S : \A j \in 1..n : j < i => j \in S  BY <1>1, <1>2
<1> HIDE DEF S, n
<1>4. IsFiniteSet(1..n) /\ Cardinality(1..n) = n  BY <1>1, UpTo
<1>5. IsFiniteSet(S) /\ Cardinality(S) \in Nat /\ Cardinality(S) <= n
  BY <1>2, <1>4, FS_Subset, FS_CardinalityType
<1>6. ASSUME NEW i \in S PROVE i <= Cardinality(S)
  <2>1. i \in Nat /\ 1..i \subseteq S  BY <1>1, <1>2, <1>3
  <2>2. Cardinality(1..i) <= Cardinality(S)  BY <1>5, <2>1, FS_Subset
  <2> QED  BY <2>1, <2>2, UpTo
<1>7. ASSUME NEW i \in 1..n, i \notin S PROVE Cardinality(S) < i
  <2>1. i - 1 \in Nat /\ S \subseteq 1..(i - 1)
    <3>1. ASSUME NEW j \in S PROVE j \in 1..(i - 1)
      <4>1. j \in 1..n /\ j # i /\ ~(i < j)  BY <1>2, <1>3, <1>7
      <4> QED  BY <1>1, <4>1
    <3> QED  BY <1>1, <3>1
  <2>2. IsFiniteSet(1..(i - 1)) /\ Cardinality(1..(i - 1)) = i - 1  BY <2>1, UpTo
  <2>3. Cardinality(S) <= i - 1  BY <2>1, <2>2, FS_Subset
  <2> QED  BY <1>1, <1>5, <2>3
<1>8. LowerBound(k) = Cardinality(S) + 1  BY DEF LowerBound, S
<1>9. ASSUME NEW i \in 1..n PROVE mElements[i].first < AsK(k) <=> i < LowerBound(k)
  <2>1. i \in S => i < LowerBound(k)  BY <1>1, <1>5, <1>6, <1>8
  <2>2. i \notin S => ~(i < LowerBound(k))  BY <1>1, <1>5, <1>7, <1>8
  <2> QED  BY <1>2, <2>1, <2>2
<1> QED  BY <1>1, <1>5, <1>8, <1>9 DEF n

(* find: the place of lower_bound when the key there is not above the one   *)
(* asked for, and the end otherwise.                                        *)
LEMMA FindIs ==
    ASSUME MapInv, NEW k \in CallerKeys
    PROVE  /\ ~IsEnd(Find(k)) => /\ Find(k) = LowerBound(k) /\ Find(k) \in 1..Len(mElements)
                                 /\ AsT(k) >= mElements[Find(k)].first
           /\ IsEnd(Find(k)) /\ LowerBound(k) <= Len(mElements) =>
                 AsT(k) < mElements[LowerBound(k)].first
<1>1. LowerBound(k) \in 1..(Len(mElements) + 1) /\ Len(mElements) \in Nat /\ AsT(k) \in Nat
  BY LowerBoundIs, ElementsAscend, KeysNarrowed
<1>2. CASE LowerBound(k) <= Len(mElements) /\ AsT(k) >= mElements[LowerBound(k)].first
  <2>1. Find(k) = LowerBound(k)  BY <1>2 DEF Find
  <2> QED  BY <1>1, <1>2, <2>1 DEF IsEnd
<1>3. CASE ~(LowerBound(k) <= Len(mElements) /\ AsT(k) >= mElements[LowerBound(k)].first)
  <2>1. Find(k) = Len(mElements) + 1  BY <1>3 DEF Find
  <2>2. LowerBound(k) <= Len(mElements) => mElements[LowerBound(k)].first \in Nat
    BY <1>1, ElementsAscend
  <2> QED  BY <1>1, <1>3, <2>1, <2>2 DEF IsEnd
<1> QED  BY <1>2, <1>3

(* Where emplace puts a key that was not found: all keys before the place   *)
(* are smaller than it is kept as, all from it on are larger.               *)
LEMMA PlaceIs ==
    ASSUME MapInv, NEW k \in CallerKeys, IsEnd(Find(k))
    PROVE  /\ Place(k) \in 1..(Len(mElements) + 1)
           /\ Larger(k) = {} <=> Place(k) = Len(mElements) + 1
           /\ \A i \in 1..Len(mElements) :
                 IF i < Place(k) THEN mElements[i].first < AsK(k) ELSE mElements[i].first > AsK(k)
<1> DEFINE n == Len(mElements)
           lb == LowerBound(k)
<1>1. /\ n \in Nat /\ DOMAIN mElements = 1..n
      /\ \A i \in 1..n : mElements[i].first \in Nat /\ mElements[i].first < mapKind.kLimit
      /\ \A i \in 1..n : \A j \in 1..n : i < j => mElements[i].first < mElements[j].first
  BY ElementsAscend
<1>2. /\ AsT(k) \in Nat /\ AsK(k) \in Nat /\ AsK(k) < mapKind.kLimit
      /\ AsK(k) = AsT(k) \/ AsT(k) >= mapKind.kLimit
      /\ mapKind.kLimit \in Nat
  BY KeysNarrowed, MapAssumption DEF MapInv
<1>3. /\ lb \in 1..(n + 1)
      /\ \A i \in 1..n : mElements[i].first < AsK(k) <=> i < lb
      /\ lb <= n => AsT(k) < mElements[lb].first
  BY LowerBoundIs, FindIs
<1> HIDE DEF lb
<1>4. \A i : i \in Larger(k) <=> i \in 1..n /\ mElements[i].first > AsT(k)
  BY <1>1 DEF Larger
<1> HIDE DEF n
<1>5. CASE Larger(k) = {}
  <2>1. Place(k) = n + 1  BY <1>5 DEF Place, n
  <2>2. lb = n + 1
    <3>1. lb <= n => lb \in Larger(k)  BY <1>1, <1>2, <1>3, <1>4
    <3> QED  BY <1>1, <1>3, <1>5, <3>1
  <2> QED  BY <1>1, <1>3, <1>5, <2>1, <2>2 DEF n
<1>6. CASE Larger(k) # {}
  <2>1. PICK m \in Larger(k) : m \in 1..n /\ mElements[m].first > AsT(k)  BY <1>4, <1>6
  <2>2. AsK(k) = AsT(k)  BY <1>1, <1>2, <2>1
  <2>3. lb <= m  BY <1>1, <1>2, <1>3, <2>1, <2>2
  <2>4. lb \in Larger(k) /\ lb \in 1..n  BY <1>1, <1>2, <1>3, <1>4, <2>1, <2>3
  <2>5. \A j \in Larger(k) : lb <= j  BY <1>1, <1>2, <1>3, <1>4, <2>2
  <2>6. Place(k) = CHOOSE i \in Larger(k) : \A j \in Larger(k) : i <= j
    BY <1>6 DEF Place
  <2>7. Place(k) \in Larger(k) /\ \A j \in Larger(k) : Place(k) <= j  BY <2>4, <2>5, <2>6
  <2>8. Place(k) = lb
    <3>1. Place(k) \in 1..n /\ lb \in 1..n  BY <1>4, <2>4, <2>7
    <3>2. Place(k) <= lb /\ lb <= Place(k)  BY <2>4, <2>5, <2>7
    <3> QED  BY <1>1, <3>1, <3>2
  <2>9. ASSUME NEW i \in 1..n
        PROVE  IF i < lb THEN mElements[i].first < AsK(k) ELSE mElements[i].first > AsK(k)
    <3>1. mElements[lb].first > AsK(k)  BY <1>1, <1>2, <1>4, <2>2, <2>4
    <3>2. CASE i < lb  BY <1>3, <3>2
    <3>3. CASE i = lb  BY <1>1, <1>2, <2>4, <3>1, <3>3
    <3>4. CASE i > lb
      <4>1. mElements[lb].first < mElements[i].first  BY <1>1, <2>4, <3>4
      <4> QED  BY <1>1, <1>2, <2>4, <3>1, <3>4, <4>1
    <3>5. i < lb \/ i = lb \/ i > lb  BY <1>1, <2>4
    <3> QED  BY <3>2, <3>3, <3>4, <3>5
  <2> QED  BY <1>1, <1>3, <1>6, <2>4, <2>8, <2>9 DEF n
<1> QED  BY <1>5, <1>6

(* What an insertion and an overwriting leave. *)
LEMMA InsertNewIs ==
    ASSUME MapInv, NEW k \in CallerKeys, NEW v \in MapValues, InsertNew(k, v)
    PROVE  /\ IsEnd(Find(k)) /\ mapKind' = mapKind
           /\ mElements' \in Seq(Entries) /\ Len(mElements') = Len(mElements) + 1
           /\ \A i \in 1..(Len(mElements) + 1) :
                 mElements'[i] = IF i < Place(k) THEN mElements[i]
                                 ELSE IF i = Place(k) THEN [first |-> AsK(k), second |-> v]
                                 ELSE mElements[i - 1]
           /\ emplaced' \in 1..(Len(mElements) + 1)
           /\ emplaced' = IF Larger(k) = {} THEN Place(k) ELSE Len(mElements) - Place(k) + 2
<1> DEFINE e == [first |-> AsK(k), second |-> v]
<1>1. /\ IsEnd(Find(k)) /\ mapKind' = mapKind
      /\ mElements' = InsertAt(mElements, Place(k), e)
      /\ emplaced' = IF Larger(k) = {} THEN Place(k) ELSE Len(mElements) - Place(k) + 2
  BY DEF InsertNew
<1>2. e \in Entries  BY KeysNarrowed DEF Entries
<1>3. Place(k) \in 1..(Len(mElements) + 1) /\ Len(mElements) \in Nat
      /\ (Larger(k) = {} <=> Place(k) = Len(mElements) + 1)
  BY <1>1, PlaceIs, ElementsAscend
<1>4. mElements \in Seq(Entries)  BY DEF MapInv
<1> HIDE DEF e
<1>5. mElements' \in Seq(Entries) /\ InsertedAt(mElements', mElements, Place(k), e)
  BY <1>1, <1>2, <1>3, <1>4, InsertAtIs
<1>6. emplaced' \in 1..(Len(mElements) + 1)  BY <1>1, <1>3
<1> QED  BY <1>1, <1>5, <1>6 DEF InsertedAt, e

LEMMA OverwriteIs ==
    ASSUME MapInv, NEW k \in CallerKeys, NEW v \in MapValues, Overwrite(k, v)
    PROVE  /\ ~IsEnd(Find(k)) /\ mapKind' = mapKind
           /\ Find(k) \in 1..Len(mElements) /\ emplaced' = Find(k)
           /\ mElements' \in Seq(Entries) /\ Len(mElements') = Len(mElements)
           /\ \A i \in 1..Len(mElements) :
                 /\ mElements'[i].first = mElements[i].first
                 /\ mElements'[i].second = IF i = Find(k) THEN v ELSE mElements[i].second
<1> DEFINE f == Find(k)
           e == [mElements[f] EXCEPT !.second = v]
<1>1. /\ ~IsEnd(Find(k)) /\ mapKind' = mapKind
      /\ emplaced' = Find(k)
      /\ mElements' = [mElements EXCEPT ![f] = e]
  BY DEF Overwrite
<1>2. f \in 1..Len(mElements)  BY <1>1, FindIs
<1>3. mElements \in Seq(Entries) /\ mElements[f] \in Entries  BY <1>2, ElementsAscend DEF MapInv
<1>4. e \in Entries /\ e.first = mElements[f].first /\ e.second = v  BY <1>3 DEF Entries
<1> HIDE DEF e, f
<1>5. /\ mElements' \in Seq(Entries) /\ Len(mElements') = Len(mElements)
      /\ \A i \in 1..Len(mElements) : mElements'[i] = IF i = f THEN e ELSE mElements[i]
  BY <1>1, <1>2, <1>3, <1>4
<1>6. ASSUME NEW i \in 1..Len(mElements)
      PROVE  /\ mElements'[i].first = mElements[i].first
             /\ mElements'[i].second = IF i = f THEN v ELSE mElements[i].second
  BY <1>4, <1>5
<1> QED  BY <1>1, <1>2, <1>5, <1>6 DEF f

LEMMA MapInvInit == MapInit => MapInv
<1> SUFFICES ASSUME MapInit PROVE MapInv
  OBVIOUS
<1>1. mElements = <<>> /\ mapKind \in MapKinds /\ emplaced = 0 /\ misread = FALSE
  BY DEF MapInit
<1>2. mElements \in Seq(Entries) /\ Len(mElements) = 0 /\ DOMAIN mElements = {}  BY <1>1
<1>3. KeysAscend  BY <1>2 DEF KeysAscend
<1>4. emplaced \in 0..Len(mElements) /\ 1..Len(mElements) = {}  BY <1>1, <1>2
<1>5. misread \in BOOLEAN  BY <1>1
<1>6. \A i \in 1..Len(mElements) : mElements[i].first < mapKind.kLimit  BY <1>4
<1> QED  BY <1>1, <1>2, <1>3, <1>4, <1>5, <1>6, Zenon DEF MapInv

LEMMA MapInvStep ==
    ASSUME MapInv, [MapNext]_mapVars
    PROVE  MapInv'
<1>0. /\ Len(mElements) \in Nat /\ DOMAIN mElements = 1..Len(mElements)
      /\ \A i \in 1..Len(mElements) :
            mElements[i].first \in Nat /\ mElements[i].first < mapKind.kLimit
      /\ \A i \in 1..Len(mElements) : \A j \in 1..Len(mElements) :
            i < j => mElements[i].first < mElements[j].first
  BY ElementsAscend
<1>1. ASSUME NEW k \in CallerKeys, NEW v \in MapValues, InsertNew(k, v) PROVE MapInv'
  <2> DEFINE n == Len(mElements)
             p == Place(k)
             e == [first |-> AsK(k), second |-> v]
  <2>1. /\ IsEnd(Find(k)) /\ mapKind' = mapKind
        /\ mElements' \in Seq(Entries) /\ Len(mElements') = n + 1
        /\ \A i \in 1..(n + 1) :
              mElements'[i] = IF i < p THEN mElements[i] ELSE IF i = p THEN e ELSE mElements[i - 1]
        /\ emplaced' \in 1..(n + 1)
    BY <1>1, InsertNewIs
  <2>2. /\ p \in 1..(n + 1)
        /\ \A i \in 1..n :
              IF i < p THEN mElements[i].first < AsK(k) ELSE mElements[i].first > AsK(k)
    BY <2>1, PlaceIs
  <2>3. AsK(k) \in Nat /\ AsK(k) < mapKind.kLimit /\ e.first = AsK(k)  BY KeysNarrowed
  <2> HIDE DEF e, n, p
  <2>4. ASSUME NEW i \in 1..(n + 1)
        PROVE  mElements'[i].first = IF i < p THEN mElements[i].first
                                     ELSE IF i = p THEN AsK(k) ELSE mElements[i - 1].first
    BY <2>1, <2>3
  <2>5. n \in Nat  BY <1>0 DEF n
  <2>6. ASSUME NEW i \in 1..(n + 1) PROVE mElements'[i].first < mapKind.kLimit
    <3>1. CASE i < p
      <4>1. i \in 1..n  BY <2>2, <2>5, <3>1
      <4> QED  BY <1>0, <2>4, <3>1, <4>1 DEF n
    <3>2. CASE i = p  BY <2>2, <2>3, <2>4, <2>5, <3>2
    <3>3. CASE i > p
      <4>1. i - 1 \in 1..n /\ ~(i < p) /\ i # p  BY <2>2, <2>5, <3>3
      <4> QED  BY <1>0, <2>4, <4>1 DEF n
    <3>4. i < p \/ i = p \/ i > p  BY <2>2, <2>5
    <3> QED  BY <3>1, <3>2, <3>3, <3>4
  <2>7. ASSUME NEW i \in 1..(n + 1), NEW j \in 1..(n + 1), i < j
        PROVE  mElements'[i].first < mElements'[j].first
    <3> DEFINE x == mElements'[i].first
               y == mElements'[j].first
    <3>1. CASE j < p
      <4>1. i \in 1..n /\ j \in 1..n /\ i < p  BY <2>2, <2>5, <2>7, <3>1
      <4>2. x = mElements[i].first /\ y = mElements[j].first  BY <2>4, <3>1, <4>1
      <4> QED  BY <1>0, <2>7, <4>1, <4>2 DEF n
    <3>2. CASE j = p
      <4>1. i \in 1..n /\ i < p  BY <2>2, <2>5, <2>7, <3>2
      <4>2. x = mElements[i].first /\ y = AsK(k)  BY <2>2, <2>4, <2>5, <3>2, <4>1
      <4> QED  BY <2>2, <4>1, <4>2
    <3>3. CASE j > p
      <4>1. j - 1 \in 1..n /\ ~(j - 1 < p) /\ ~(j < p) /\ j # p  BY <2>2, <2>5, <3>3
      <4>2. y = mElements[j - 1].first  BY <2>4, <4>1
      <4>3. mElements[j - 1].first > AsK(k) /\ mElements[j - 1].first \in Nat
        BY <1>0, <2>2, <4>1 DEF n
      <4>4. CASE i < p
        <5>1. i \in 1..n  BY <2>2, <2>5, <4>4
        <5>2. x = mElements[i].first /\ mElements[i].first < AsK(k) /\ mElements[i].first \in Nat
          BY <1>0, <2>2, <2>4, <4>4, <5>1 DEF n
        <5> QED  BY <2>3, <4>2, <4>3, <5>2
      <4>5. CASE i = p
        <5>1. x = AsK(k)  BY <2>2, <2>4, <2>5, <4>5
        <5> QED  BY <2>3, <4>2, <4>3, <5>1
      <4>6. CASE i > p
        <5>1. i - 1 \in 1..n /\ ~(i < p) /\ i # p /\ i - 1 < j - 1  BY <2>2, <2>5, <2>7, <4>6
        <5>2. x = mElements[i - 1].first  BY <2>4, <5>1
        <5> QED  BY <1>0, <4>1, <4>2, <5>1, <5>2 DEF n
      <4>7. i < p \/ i = p \/ i > p  BY <2>2, <2>5
      <4> QED  BY <4>4, <4>5, <4>6, <4>7
    <3>4. j < p \/ j = p \/ j > p  BY <2>2, <2>5
    <3> QED  BY <3>1, <3>2, <3>3, <3>4
  <2>8. /\ mapKind' \in MapKinds /\ emplaced' \in 0..Len(mElements') /\ misread' \in BOOLEAN
    BY <1>1, <2>1, <2>5 DEF MapInv, InsertNew
  <2>9. DOMAIN mElements' = 1..(n + 1)  BY <2>1
  <2> QED  BY <2>1, <2>6, <2>7, <2>8, <2>9 DEF MapInv, KeysAscend
<1>2. ASSUME NEW k \in CallerKeys, NEW v \in MapValues, Overwrite(k, v) PROVE MapInv'
  <2>1. /\ mapKind' = mapKind
        /\ Find(k) \in 1..Len(mElements) /\ emplaced' = Find(k)
        /\ mElements' \in Seq(Entries) /\ Len(mElements') = Len(mElements)
        /\ \A i \in 1..Len(mElements) : mElements'[i].first = mElements[i].first
    BY <1>2, OverwriteIs
  <2>2. misread' = misread  BY <1>2 DEF Overwrite
  <2>3. KeysAscend'
    <3>1. DOMAIN mElements' = 1..Len(mElements)  BY <2>1
    <3> QED  BY <1>0, <2>1, <3>1 DEF KeysAscend
  <2>4. emplaced' \in 0..Len(mElements')  BY <1>0, <2>1
  <2>5. \A i \in 1..Len(mElements') : mElements'[i].first < mapKind'.kLimit  BY <1>0, <2>1
  <2> QED  BY <2>1, <2>2, <2>3, <2>4, <2>5 DEF MapInv
<1>3. ASSUME NEW k \in CallerKeys, IndexMissing(k) PROVE MapInv'
  BY <1>3 DEF IndexMissing, MapInv, KeysAscend
<1>4. CASE UNCHANGED mapVars  BY <1>4 DEF mapVars, MapInv, KeysAscend
<1> QED  BY <1>1, <1>2, <1>3, <1>4 DEF MapNext, Emplace

LEMMA MapInvariant == MapSpec => []MapInv
<1>1. MapInit => MapInv  BY MapInvInit
<1>2. MapInv /\ [MapNext]_mapVars => MapInv'  BY MapInvStep
<1> QED  BY <1>1, <1>2, PTL DEF MapSpec

(* What the map holds at the key of an element is the element's value.      *)
ContentOf(m, c) ==
    /\ DOMAIN c = {m[i].first : i \in 1..Len(m)}
    /\ \A i \in 1..Len(m) : c[m[i].first] = m[i].second

LEMMA ContentIs ==
    ASSUME MapInv
    PROVE  ContentOf(mElements, Content) /\ Content = [q \in DOMAIN Content |-> Content[q]]
<1> DEFINE n == Len(mElements)
           keys == {mElements[i].first : i \in DOMAIN mElements}
<1>1. /\ n \in Nat /\ DOMAIN mElements = 1..n
      /\ \A i \in 1..n : mElements[i].first \in Nat
      /\ \A i \in 1..n : \A j \in 1..n : i < j => mElements[i].first < mElements[j].first
  BY ElementsAscend
<1>2. keys = {mElements[i].first : i \in 1..n}  BY <1>1
<1>3. DOMAIN Content = keys /\ Content = [q \in DOMAIN Content |-> Content[q]]  BY DEF Content
<1>4. ASSUME NEW i \in 1..n PROVE Content[mElements[i].first] = mElements[i].second
  <2>1. \A j \in DOMAIN mElements : mElements[j].first = mElements[i].first => j = i
    <3>1. ASSUME NEW j \in 1..n, mElements[j].first = mElements[i].first PROVE j = i
      <4>1. ~(i < j) /\ ~(j < i)  BY <1>1, <3>1
      <4> QED  BY <1>1, <4>1
    <3> QED  BY <1>1, <3>1
  <2> DEFINE c == CHOOSE j \in DOMAIN mElements : mElements[j].first = mElements[i].first
  <2>2. c = i  BY <1>1, <2>1
  <2>3. mElements[i].first \in keys  BY <1>1
  <2>4. Content[mElements[i].first] = mElements[c].second  BY <2>3 DEF Content
  <2> QED  BY <2>2, <2>4
<1> QED  BY <1>2, <1>3, <1>4 DEF ContentOf, n

LEMMA NextContentIs ==
    MapInv' => (ContentOf(mElements, Content) /\ Content = [q \in DOMAIN Content |-> Content[q]])'
<1>1. MapInv => ContentOf(mElements, Content) /\ Content = [q \in DOMAIN Content |-> Content[q]]
  BY ContentIs
<1> QED  BY <1>1, PTL

(* The two sides of MapPutAt are the same when they agree at every key.     *)
LEMMA PutIs ==
    ASSUME NEW f, NEW g, NEW k, NEW v,
           g = [q \in DOMAIN g |-> g[q]],
           DOMAIN g = DOMAIN f \cup {k},
           g[k] = v,
           \A q \in DOMAIN f : q # k => g[q] = f[q]
    PROVE  g = [q \in DOMAIN f \cup {k} |-> IF q = k THEN v ELSE f[q]]
<1>1. \A q \in DOMAIN f \cup {k} : g[q] = IF q = k THEN v ELSE f[q]  OBVIOUS
<1>2. g = [q \in DOMAIN f \cup {k} |-> g[q]]  OBVIOUS
<1> QED  BY <1>1, <1>2

(* emplace of a key that fits is that of a map.                             *)
LEMMA EmplacePuts ==
    ASSUME MapInv, MapInv', NEW k \in CallerKeys, NEW v \in MapValues, Emplace(k, v), KeyFits(k)
    PROVE  Map!MapPutAt(k, v)
<1> DEFINE n == Len(mElements)
           f == Content
           g == Content'
<1>1. ContentOf(mElements, f)  BY ContentIs
<1>2. ContentOf(mElements', g) /\ g = [q \in DOMAIN g |-> g[q]]  BY NextContentIs
<1>3. AsT(k) = k /\ AsK(k) = k /\ k \in Nat  BY KeysNarrowed
<1>4. /\ n \in Nat
      /\ \A i \in 1..n : mElements[i].first \in Nat
      /\ \A i \in 1..n : \A j \in 1..n : i < j => mElements[i].first < mElements[j].first
  BY ElementsAscend
<1>5. CASE InsertNew(k, v)
  <2> DEFINE p == Place(k)
             e == [first |-> AsK(k), second |-> v]
  <2>1. /\ IsEnd(Find(k)) /\ Len(mElements') = n + 1
        /\ \A i \in 1..(n + 1) :
              mElements'[i] = IF i < p THEN mElements[i] ELSE IF i = p THEN e ELSE mElements[i - 1]
    BY <1>5, InsertNewIs
  <2>2. /\ p \in 1..(n + 1)
        /\ \A i \in 1..n :
              IF i < p THEN mElements[i].first < AsK(k) ELSE mElements[i].first > AsK(k)
    BY <2>1, PlaceIs
  <2>3. e.first = k /\ e.second = v  BY <1>3
  <2> HIDE DEF f, g, n, p, e
  <2>4. mElements'[p] = e  BY <1>4, <2>1, <2>2
  <2>5. g[k] = v /\ k \in DOMAIN g
    <3>1. p \in 1..Len(mElements')  BY <2>1, <2>2
    <3> QED  BY <1>2, <2>3, <2>4, <3>1 DEF ContentOf
  <2>6. ASSUME NEW i \in 1..n
        PROVE  mElements[i].first # k /\ mElements[i].first \in DOMAIN g
               /\ g[mElements[i].first] = mElements[i].second
    <3>1. mElements[i].first # k  BY <1>3, <1>4, <2>2
    <3>2. PICK j \in 1..(n + 1) : mElements'[j] = mElements[i]
      <4>1. CASE i < p  BY <1>4, <2>1, <2>2, <4>1
      <4>2. CASE ~(i < p)
        <5>1. i + 1 \in 1..(n + 1) /\ ~(i + 1 < p) /\ i + 1 # p /\ (i + 1) - 1 = i
          BY <1>4, <2>2, <4>2
        <5> QED  BY <2>1, <5>1
      <4> QED  BY <4>1, <4>2
    <3>3. j \in 1..Len(mElements')  BY <2>1
    <3> QED  BY <1>2, <3>1, <3>2, <3>3 DEF ContentOf
  <2>7. ASSUME NEW j \in 1..(n + 1)
        PROVE  mElements'[j].first = k \/ \E i \in 1..n : mElements'[j] = mElements[i]
    <3>1. CASE j < p
      <4>1. j \in 1..n  BY <1>4, <2>2, <3>1
      <4> QED  BY <2>1, <3>1, <4>1
    <3>2. CASE j = p  BY <2>3, <2>4, <3>2
    <3>3. CASE j > p
      <4>1. j - 1 \in 1..n /\ ~(j < p) /\ j # p  BY <1>4, <2>2, <3>3
      <4> QED  BY <2>1, <4>1
    <3>4. j < p \/ j = p \/ j > p  BY <1>4, <2>2
    <3> QED  BY <3>1, <3>2, <3>3, <3>4
  <2>8. DOMAIN g = DOMAIN f \cup {k}
    <3>1. DOMAIN f = {mElements[i].first : i \in 1..n}  BY <1>1 DEF ContentOf, n
    <3>2. DOMAIN g = {mElements'[j].first : j \in 1..(n + 1)}  BY <1>2, <2>1 DEF ContentOf
    <3>3. DOMAIN g \subseteq DOMAIN f \cup {k}  BY <2>7, <3>1, <3>2
    <3>4. DOMAIN f \cup {k} \subseteq DOMAIN g  BY <2>5, <2>6, <3>1
    <3> QED  BY <3>3, <3>4
  <2>9. ASSUME NEW q \in DOMAIN f PROVE g[q] = f[q]
    <3>1. PICK i \in 1..n : q = mElements[i].first  BY <1>1 DEF ContentOf, n
    <3>2. f[q] = mElements[i].second  BY <1>1, <3>1 DEF ContentOf, n
    <3> QED  BY <2>6, <3>1, <3>2
  <2>10. g = [q \in DOMAIN f \cup {k} |-> IF q = k THEN v ELSE f[q]]  BY <1>2, <2>5, <2>8, <2>9, PutIs
  <2> QED  BY <2>10 DEF Map!MapPutAt, f, g
<1>6. CASE Overwrite(k, v)
  <2> DEFINE p == Find(k)
  <2>1. /\ ~IsEnd(p) /\ p \in 1..n /\ Len(mElements') = n
        /\ \A i \in 1..n :
              /\ mElements'[i].first = mElements[i].first
              /\ mElements'[i].second = IF i = p THEN v ELSE mElements[i].second
    BY <1>6, OverwriteIs
  <2>2. p = LowerBound(k) /\ AsT(k) >= mElements[p].first  BY <2>1, FindIs
  <2>3. ~(mElements[p].first < AsK(k))  BY <2>1, <2>2, LowerBoundIs, <1>4
  <2>4. mElements[p].first = k  BY <1>3, <1>4, <2>1, <2>2, <2>3
  <2> HIDE DEF f, g, n, p
  <2>5. DOMAIN g = DOMAIN f /\ k \in DOMAIN f
    <3>1. DOMAIN f = {mElements[i].first : i \in 1..n}  BY <1>1 DEF ContentOf, n
    <3>2. DOMAIN g = {mElements'[i].first : i \in 1..n}  BY <1>2, <2>1 DEF ContentOf
    <3> QED  BY <2>1, <2>4, <3>1, <3>2
  <2>6. g[k] = v  BY <1>2, <2>1, <2>4 DEF ContentOf
  <2>7. ASSUME NEW q \in DOMAIN f, q # k PROVE g[q] = f[q]
    <3>1. PICK i \in 1..n : q = mElements[i].first  BY <1>1 DEF ContentOf, n
    <3>2. i # p  BY <2>4, <2>7, <3>1
    <3>3. f[q] = mElements[i].second  BY <1>1, <3>1 DEF ContentOf, n
    <3>4. mElements'[i].first = q /\ mElements'[i].second = mElements[i].second
      BY <2>1, <3>1, <3>2
    <3> QED  BY <1>2, <2>1, <3>3, <3>4 DEF ContentOf
  <2>8. g = [q \in DOMAIN f \cup {k} |-> IF q = k THEN v ELSE f[q]]
    <3>1. DOMAIN g = DOMAIN f \cup {k}  BY <2>5
    <3> QED  BY <1>2, <2>6, <2>7, <3>1, PutIs
  <2> QED  BY <2>8 DEF Map!MapPutAt, f, g
<1> QED  BY <1>5, <1>6 DEF Emplace

(* The iterator of emplace points at the element, but for a key inserted    *)
(* neither at the end nor in the exact middle.                              *)
LEMMA EmplacedWhere ==
    ASSUME MapInv, MapInv', NEW k \in CallerKeys, NEW v \in MapValues, Emplace(k, v), KeyFits(k)
    PROVE  mElements'[emplaced'].first = k
             <=> \/ ~IsEnd(Find(k))
                 \/ Larger(k) = {}
                 \/ 2 * (Place(k) - 1) = Len(mElements)
<1> DEFINE n == Len(mElements)
<1>1. AsT(k) = k /\ AsK(k) = k /\ k \in Nat  BY KeysNarrowed
<1>2. n \in Nat /\ \A i \in 1..n : mElements[i].first \in Nat  BY ElementsAscend
<1>3. CASE InsertNew(k, v)
  <2> DEFINE p == Place(k)
             q == emplaced'
  <2>1. /\ IsEnd(Find(k))
        /\ \A i \in 1..(n + 1) :
              mElements'[i] = IF i < p THEN mElements[i]
                              ELSE IF i = p THEN [first |-> AsK(k), second |-> v]
                              ELSE mElements[i - 1]
        /\ q \in 1..(n + 1)
        /\ q = IF Larger(k) = {} THEN p ELSE n - p + 2
    BY <1>3, InsertNewIs
  <2>2. /\ p \in 1..(n + 1)
        /\ \A i \in 1..n :
              IF i < p THEN mElements[i].first < AsK(k) ELSE mElements[i].first > AsK(k)
    BY <2>1, PlaceIs
  <2> HIDE DEF n, p, q
  <2>3. mElements'[q].first = k <=> q = p
    <3>1. CASE q = p  BY <1>1, <2>1, <3>1
    <3>2. CASE q < p
      <4>1. q \in 1..n  BY <1>2, <2>1, <2>2, <3>2
      <4>2. mElements'[q] = mElements[q]  BY <2>1, <3>2
      <4>3. mElements[q].first < k  BY <1>1, <2>2, <3>2, <4>1
      <4> QED  BY <1>1, <1>2, <2>1, <2>2, <3>2, <4>1, <4>2, <4>3
    <3>3. CASE q > p
      <4>1. q - 1 \in 1..n /\ ~(q < p) /\ q # p /\ ~(q - 1 < p)  BY <1>2, <2>1, <2>2, <3>3
      <4>2. mElements'[q] = mElements[q - 1]  BY <2>1, <4>1
      <4>3. mElements[q - 1].first > k  BY <1>1, <2>2, <4>1
      <4> QED  BY <1>1, <1>2, <4>1, <4>2, <4>3
    <3>4. q < p \/ q = p \/ q > p  BY <1>2, <2>1, <2>2
    <3> QED  BY <3>1, <3>2, <3>3, <3>4
  <2>4. q = p <=> Larger(k) = {} \/ 2 * (p - 1) = n  BY <1>2, <2>1, <2>2
  <2> QED  BY <2>1, <2>3, <2>4 DEF n, p, q
<1>4. CASE Overwrite(k, v)
  <2>1. /\ ~IsEnd(Find(k)) /\ Find(k) \in 1..n /\ emplaced' = Find(k)
        /\ mElements'[Find(k)].first = mElements[Find(k)].first
    BY <1>4, OverwriteIs
  <2>2. Find(k) = LowerBound(k) /\ AsT(k) >= mElements[Find(k)].first  BY <2>1, FindIs
  <2>3. ~(mElements[Find(k)].first < AsK(k))  BY <2>1, <2>2, LowerBoundIs, <1>2
  <2>4. mElements[Find(k)].first = k  BY <1>1, <1>2, <2>1, <2>2, <2>3
  <2> QED  BY <2>1, <2>4
<1> QED  BY <1>3, <1>4 DEF Emplace

(* What one step of the map promises. *)
EmplacePutsAll ==
    \A k \in CallerKeys, v \in MapValues : Emplace(k, v) /\ KeyFits(k) => Map!MapPutAt(k, v)

EmplacedIsRight ==
    \A k \in CallerKeys, v \in MapValues : Emplace(k, v) /\ KeyFits(k) =>
       (mElements'[emplaced'].first = k
          <=> \/ ~IsEnd(Find(k))
              \/ Larger(k) = {}
              \/ 2 * (Place(k) - 1) = Len(mElements))

(* The keys of the map ascend, whatever keys it was asked for, those that   *)
(* its types cannot hold included.                                          *)
THEOREM KeysStayInOrder == MapSpec => [](MapTypeOK /\ KeysAscend)
<1>1. ASSUME MapInv PROVE MapTypeOK
  <2>1. \A i \in DOMAIN mElements : mElements[i] \in Entries /\ mElements[i].first < mapKind.kLimit
    BY <1>1, ElementsAscend
  <2>2. \A e \in Entries : e.first \in Nat /\ e.second \in MapValues  BY DEF Entries
  <2>3. mapKind.kLimit \in Nat  BY <1>1, MapAssumption DEF MapInv
  <2>4. \A i \in DOMAIN mElements :
          mElements[i].first \in 0..(mapKind.kLimit - 1) /\ mElements[i].second \in MapValues
    BY <2>1, <2>2, <2>3
  <2> QED  BY <1>1, <2>4 DEF MapInv, MapTypeOK
<1>2. MapInv => MapTypeOK /\ KeysAscend  BY <1>1 DEF MapInv
<1> QED  BY <1>2, MapInvariant, PTL

(* emplace of keys that a T and a K hold implements that of a map, and the  *)
(* iterator it returns is the element's exactly when the key was found, was *)
(* put at the end or in the middle.                                         *)
THEOREM EmplaceImplementsMap == MapSpec => MapSteps
<1>1. MapInv /\ MapInv' => [EmplacePutsAll]_mapVars  BY EmplacePuts DEF EmplacePutsAll
<1>2. MapInv /\ MapInv' => [EmplacedIsRight]_mapVars  BY EmplacedWhere DEF EmplacedIsRight
<1>3. MapSpec => [][EmplacePutsAll]_mapVars  BY <1>1, MapInvariant, PTL
<1>4. MapSpec => [][EmplacedIsRight]_mapVars  BY <1>2, MapInvariant, PTL
<1>5. MapSpec => ImplementsMap  BY <1>3 DEF ImplementsMap, EmplacePutsAll
<1>6. MapSpec => EmplacedInTheMiddle  BY <1>4 DEF EmplacedInTheMiddle, EmplacedIsRight
<1> QED  BY <1>5, <1>6 DEF MapSteps

------------------------------------------------------------------------------
(* fast_stack                                                              *)

(* The index is within the array until it goes below zero. *)
WithinArray == ~outOfRange => mStackSize <= CAPACITY

StackInv == StackTypeOK /\ WithinArray /\ StackHoldsPushed

(* What is in its range is not changed by narrowing, and one below zero     *)
(* becomes the largest.                                                     *)
LEMMA NarrowKeeps == \A n \in StackIndices : n % IndexLimit = n
BY StackAssumption, SMTT(30) DEF StackIndices

LEMMA NarrowBelowZero == (0 - 1) % IndexLimit = IndexLimit - 1
<1>1. IndexLimit \in Nat /\ IndexLimit > 1  BY StackAssumption
<1> QED  BY <1>1, SMTT(30)

(* The index can count to the capacity. *)
Countable == CAPACITY < IndexLimit

LEMMA StackInvInit == FastStackInit => StackInv
<1> SUFFICES ASSUME FastStackInit PROVE StackInv
  OBVIOUS
<1> USE DEF FastStackInit
<1>1. StackTypeOK
  <2>1. 0 \in StackIndices  BY StackAssumption DEF StackIndices
  <2>2. mValues \in [StackSlots -> StackValues \cup {Unset}]  OBVIOUS
  <2> QED  BY <2>1, <2>2 DEF StackTypeOK
<1>2. WithinArray  BY StackAssumption DEF WithinArray
<1>3. StackHoldsPushed
  <2>1. \A i \in StackSlots : ~(i < 0)  BY StackAssumption DEF StackSlots
  <2> QED  BY <2>1 DEF StackHoldsPushed
<1> QED  BY <1>1, <1>2, <1>3 DEF StackInv

(* What a push does to the index. *)
LEMMA PushCounts ==
    ASSUME Countable, StackInv, NEW v \in StackValues, Push(v)
    PROVE  /\ mStackSize \in StackSlots
           /\ mStackSize' = mStackSize + 1
<1>1. mStackSize \in Nat /\ mStackSize < CAPACITY
  BY DEF StackInv, StackTypeOK, StackIndices, Push
<1>2. mStackSize + 1 \in StackIndices
  BY <1>1, StackAssumption DEF Countable, StackIndices
<1>3. mStackSize' = (mStackSize + 1) % IndexLimit  BY DEF Push
<1>4. mStackSize' = mStackSize + 1  BY <1>2, <1>3, NarrowKeeps
<1> QED  BY <1>1, <1>4, StackAssumption DEF StackSlots

(* What a pop does to the index of a stack that is not empty, and of one    *)
(* that is.                                                                 *)
LEMMA PopCounts ==
    ASSUME Countable, StackInv, Pop
    PROVE  /\ mStackSize # 0 => mStackSize' = mStackSize - 1 /\ outOfRange' = FALSE
           /\ mStackSize = 0 => mStackSize' = IndexLimit - 1 /\ outOfRange' = TRUE
<1>1. mStackSize \in StackIndices /\ mStackSize <= CAPACITY
  BY DEF StackInv, StackTypeOK, WithinArray, Pop
<1>2. /\ mStackSize' = (mStackSize - 1) % IndexLimit
      /\ outOfRange' = ((mStackSize - 1) % IndexLimit \notin StackSlots)
  BY DEF Pop
<1>3. CASE mStackSize # 0
  <2>1. mStackSize - 1 \in StackIndices /\ mStackSize - 1 \in StackSlots
    BY <1>1, <1>3, StackAssumption DEF StackIndices, StackSlots
  <2>2. (mStackSize - 1) % IndexLimit = mStackSize - 1  BY <2>1, NarrowKeeps
  <2> QED  BY <1>2, <1>3, <2>1, <2>2
<1>4. CASE mStackSize = 0
  <2>1. (mStackSize - 1) % IndexLimit = IndexLimit - 1  BY <1>4, NarrowBelowZero
  <2>2. IndexLimit - 1 \notin StackSlots
    BY StackAssumption DEF Countable, StackSlots
  <2> QED  BY <1>2, <1>4, <2>1, <2>2
<1> QED  BY <1>3, <1>4

(* What fast_erase does: the offset is that of an element. *)
LEMMA EraseCounts ==
    ASSUME Countable, StackInv, NEW offset \in 0..CAPACITY, FastErase(offset)
    PROVE  /\ offset \in StackSlots /\ offset < mStackSize
           /\ mStackSize - 1 \in StackSlots
           /\ mValues' = [mValues EXCEPT ![offset] = mValues[mStackSize - 1]]
           /\ mStackSize' = mStackSize - 1
<1>1. mStackSize \in StackIndices /\ mStackSize <= CAPACITY
  BY DEF StackInv, StackTypeOK, WithinArray, FastErase
<1>2. offset \in StackIndices  BY StackAssumption DEF Countable, StackIndices
<1>3. offset % IndexLimit = offset  BY <1>2, NarrowKeeps
<1>4. offset < mStackSize  BY <1>3 DEF FastErase
<1>5. offset \in StackSlots /\ mStackSize - 1 \in StackSlots
  BY <1>1, <1>4, StackAssumption DEF StackSlots, StackIndices
<1>6. mValues' = [mValues EXCEPT ![offset] = mValues[mStackSize - 1]]
  BY <1>3 DEF FastErase
<1> QED  BY <1>4, <1>5, <1>6 DEF FastErase

LEMMA StackInvStep ==
    ASSUME Countable, StackInv, [FastStackNext]_stackVars
    PROVE  StackInv'
<1> USE StackAssumption DEF StackInv, StackTypeOK, WithinArray, StackHoldsPushed, StackSlots, StackIndices
<1>1. ASSUME NEW v \in StackValues, Push(v) PROVE StackInv'
  <2>1. mStackSize \in StackSlots /\ mStackSize' = mStackSize + 1
    BY <1>1, PushCounts
  <2> QED  BY <1>1, <2>1 DEF Push, Countable
<1>2. CASE Pop
  <2>1. CASE mStackSize # 0
    <3>1. mStackSize' = mStackSize - 1 /\ outOfRange' = FALSE  BY <1>2, <2>1, PopCounts
    <3> QED  BY <1>2, <2>1, <3>1 DEF Pop
  <2>2. CASE mStackSize = 0
    <3>1. mStackSize' = IndexLimit - 1 /\ outOfRange' = TRUE  BY <1>2, <2>2, PopCounts
    <3> QED  BY <1>2, <3>1 DEF Pop
  <2> QED  BY <2>1, <2>2
<1>3. ASSUME NEW offset \in 0..CAPACITY, FastErase(offset) PROVE StackInv'
  <2>1. /\ offset \in StackSlots /\ offset < mStackSize
        /\ mStackSize - 1 \in StackSlots
        /\ mValues' = [mValues EXCEPT ![offset] = mValues[mStackSize - 1]]
        /\ mStackSize' = mStackSize - 1
    BY <1>3, EraseCounts
  <2> QED  BY <1>3, <2>1 DEF FastErase
<1>4. CASE ClearStack  BY <1>4 DEF ClearStack
<1>5. CASE UNCHANGED stackVars  BY <1>5 DEF stackVars
<1> QED  BY <1>1, <1>2, <1>3, <1>4, <1>5 DEF FastStackNext

(* Each call is that of the bounded stack.                                  *)
LEMMA StackStepHolds ==
    ASSUME Countable, StackInv
    PROVE  StackStep
<1> USE StackAssumption DEF StackContent
<1>1. ASSUME NEW v \in StackValues, Push(v) PROVE Stack!Pushed(v)
  <2>1. mStackSize \in StackSlots /\ mStackSize' = mStackSize + 1
    BY <1>1, PushCounts
  <2>2. mStackSize \in Nat /\ mStackSize < CAPACITY  BY <2>1 DEF StackSlots
  <2>3. mValues' = [mValues EXCEPT ![mStackSize] = v]  BY <1>1 DEF Push
  <2>4. StackContent \in Seq(StackValues)
    BY <1>1, <2>2 DEF StackInv, StackHoldsPushed, StackTypeOK, StackSlots, Push
  <2>5. Len(StackContent) = mStackSize  BY <2>2, <2>4
  <2>6. StackContent' = Append(StackContent, v)
    BY <2>1, <2>2, <2>3, <2>4, <2>5 DEF StackInv, StackTypeOK, StackSlots
  <2> QED  BY <2>2, <2>5, <2>6 DEF Stack!Pushed
<1>2. ASSUME Pop, mStackSize # 0 PROVE Stack!Popped
  <2>1. mStackSize' = mStackSize - 1 /\ mValues' = mValues  BY <1>2, PopCounts DEF Pop
  <2>2. mStackSize \in Nat /\ mStackSize <= CAPACITY
    BY <1>2 DEF Pop, StackInv, StackTypeOK, WithinArray, StackIndices
  <2>4. StackContent \in Seq(StackValues)
    BY <1>2, <2>2 DEF StackInv, StackHoldsPushed, StackTypeOK, StackSlots, Pop
  <2>5. Len(StackContent) = mStackSize  BY <2>2, <2>4
  <2>6. StackContent' = SubSeq(StackContent, 1, Len(StackContent) - 1)
    BY <1>2, <2>1, <2>2, <2>4, <2>5
  <2> QED  BY <1>2, <2>2, <2>5, <2>6 DEF Stack!Popped
<1>3. ASSUME NEW offset \in 0..CAPACITY, FastErase(offset) PROVE Stack!Taken(offset + 1)
  <2>1. /\ offset \in StackSlots /\ offset < mStackSize
        /\ mStackSize - 1 \in StackSlots
        /\ mValues' = [mValues EXCEPT ![offset] = mValues[mStackSize - 1]]
        /\ mStackSize' = mStackSize - 1
    BY <1>3, EraseCounts
  <2>2. mStackSize \in Nat /\ mStackSize <= CAPACITY
    BY <1>3 DEF FastErase, StackInv, StackTypeOK, WithinArray, StackIndices
  <2>4. StackContent \in Seq(StackValues)
    BY <1>3, <2>2 DEF StackInv, StackHoldsPushed, StackTypeOK, StackSlots, FastErase
  <2>5. Len(StackContent) = mStackSize  BY <2>2, <2>4
  <2>6. StackContent' = [j \in 1..(mStackSize - 1) |-> mValues'[j - 1]]  BY <2>1
  <2>7. \A j \in 1..(mStackSize - 1) :
          mValues'[j - 1] = IF j = offset + 1 THEN StackContent[mStackSize] ELSE StackContent[j]
    BY <2>1, <2>2 DEF StackInv, StackTypeOK, StackSlots
  <2>8. StackContent' = [j \in 1..(mStackSize - 1) |->
                           IF j = offset + 1 THEN StackContent[mStackSize] ELSE StackContent[j]]
    BY <2>6, <2>7
  <2>9. offset + 1 \in 1..Len(StackContent)  BY <2>1, <2>2, <2>5
  <2> HIDE DEF StackContent
  <2> QED  BY <2>5, <2>8, <2>9 DEF Stack!Taken
<1>4. ASSUME ClearStack PROVE Stack!Cleared
  <2>1. mStackSize' = 0  BY <1>4 DEF ClearStack
  <2> QED  BY <2>1 DEF Stack!Cleared
<1> QED  BY <1>1, <1>2, <1>3, <1>4 DEF StackStep

(* The invariant of the stack: its types, its index within the array until  *)
(* it goes below zero, and nothing below the index that was not pushed.     *)
THEOREM StackInvariant ==
    ASSUME Countable
    PROVE  FastStackSpec => []StackInv
<1>1. FastStackInit => StackInv  BY StackInvInit
<1>2. StackInv /\ [FastStackNext]_stackVars => StackInv'  BY StackInvStep
<1> QED  BY <1>1, <1>2, PTL DEF FastStackSpec

(* push, pop, fast_erase and clear do what a bounded stack does, for every  *)
(* capacity the index can count to, until nothing is popped.                *)
THEOREM StackImplementsBounded ==
    ASSUME Countable
    PROVE  FastStackSpec => ImplementsStack
<1>1. FastStackSpec => []StackInv  BY StackInvariant
<1>2. StackInv => StackStep  BY StackStepHolds
<1>3. StackInv => [StackStep]_stackVars  BY <1>2
<1> QED  BY <1>1, <1>3, PTL DEF ImplementsStack

------------------------------------------------------------------------------
(* tree_node: parents and children agree, and no node goes from one parent  *)
(* to another but by way of none.                                           *)

(* The type and the links of a forest, of any two functions, because an     *)
(* append that prunes first goes through a forest in between.               *)
IsForest(ch, pa) ==
    /\ ch \in [Nodes -> Seq(Nodes)]
    /\ \A n \in Nodes : Len(ch[n]) <= CHILDREN
    /\ pa \in [Nodes -> Nodes \cup {NoNode}]

Listed(ch, pa) == \A n \in Nodes : \A i \in DOMAIN ch[n] : pa[ch[n][i]] = n

ListedOnce(ch) == \A n \in Nodes : \A i, j \in DOMAIN ch[n] : ch[n][i] = ch[n][j] => i = j

IsChild(ch, p, c) == \E i \in DOMAIN ch[p] : ch[p][i] = c

ParentsList(ch, pa) == \A c \in Nodes : pa[c] # NoNode => IsChild(ch, pa[c], c)

Linked(ch, pa) == IsForest(ch, pa) /\ Listed(ch, pa) /\ ListedOnce(ch) /\ ParentsList(ch, pa)

TreeInv == Linked(mChildren, mParent)

(* A list without one of its entries. *)
LEMMA WithoutEntry ==
    ASSUME NEW s \in Seq(Nodes), NEW i \in DOMAIN s
    PROVE  /\ Without(s, i) \in Seq(Nodes)
           /\ Len(Without(s, i)) = Len(s) - 1
           /\ DOMAIN Without(s, i) = 1..(Len(s) - 1)
           /\ \A j \in 1..(Len(s) - 1) :
                Without(s, i)[j] = IF j < i THEN s[j] ELSE s[j + 1]
<1>1. /\ Len(s) \in Nat /\ DOMAIN s = 1..Len(s)
      /\ \A j \in 1..Len(s) : s[j] \in Nodes
  OBVIOUS
<1>2. Len(s) - 1 \in Nat  BY <1>1
<1>3. \A j \in 1..(Len(s) - 1) : (IF j < i THEN s[j] ELSE s[j + 1]) \in Nodes
  BY <1>1
<1> QED  BY <1>1, <1>2, <1>3 DEF Without

(* An entry that is not the one taken out stays, and nothing else comes.    *)
LEMMA WithoutKeeps ==
    ASSUME NEW s \in Seq(Nodes), NEW i \in DOMAIN s
    PROVE  /\ \A j \in DOMAIN s : j # i =>
                \E k \in DOMAIN Without(s, i) : Without(s, i)[k] = s[j]
           /\ \A k \in DOMAIN Without(s, i) :
                \E j \in DOMAIN s : j # i /\ Without(s, i)[k] = s[j]
<1>1. /\ DOMAIN Without(s, i) = 1..(Len(s) - 1)
      /\ \A j \in 1..(Len(s) - 1) :
           Without(s, i)[j] = IF j < i THEN s[j] ELSE s[j + 1]
  BY WithoutEntry
<1>2. Len(s) \in Nat /\ DOMAIN s = 1..Len(s) /\ i \in 1..Len(s)
  OBVIOUS
<1>3. ASSUME NEW j \in DOMAIN s, j # i
      PROVE  \E k \in DOMAIN Without(s, i) : Without(s, i)[k] = s[j]
  <2>1. CASE j < i
    <3>1. j \in 1..(Len(s) - 1)  BY <1>2, <2>1
    <3> QED  BY <1>1, <2>1, <3>1
  <2>2. CASE j > i
    <3>1. j - 1 \in 1..(Len(s) - 1) /\ ~(j - 1 < i) /\ (j - 1) + 1 = j  BY <1>2, <2>2
    <3> QED  BY <1>1, <3>1
  <2> QED  BY <1>2, <1>3, <2>1, <2>2
<1>4. ASSUME NEW k \in DOMAIN Without(s, i)
      PROVE  \E j \in DOMAIN s : j # i /\ Without(s, i)[k] = s[j]
  <2>1. CASE k < i
    <3>1. k \in DOMAIN s /\ k # i  BY <1>1, <1>2, <2>1
    <3> QED  BY <1>1, <2>1, <3>1
  <2>2. CASE ~(k < i)
    <3>1. k + 1 \in DOMAIN s /\ k + 1 # i  BY <1>1, <1>2, <2>2
    <3> QED  BY <1>1, <2>2, <3>1
  <2> QED  BY <2>1, <2>2
<1> QED  BY <1>3, <1>4

(* Nor does an entry come twice. *)
LEMMA WithoutOnce ==
    ASSUME NEW s \in Seq(Nodes), NEW i \in DOMAIN s,
           \A j, k \in DOMAIN s : s[j] = s[k] => j = k
    PROVE  \A j, k \in DOMAIN Without(s, i) :
              Without(s, i)[j] = Without(s, i)[k] => j = k
<1>1. /\ DOMAIN Without(s, i) = 1..(Len(s) - 1)
      /\ \A j \in 1..(Len(s) - 1) :
           Without(s, i)[j] = IF j < i THEN s[j] ELSE s[j + 1]
  BY WithoutEntry
<1>2. Len(s) \in Nat /\ DOMAIN s = 1..Len(s) /\ i \in 1..Len(s)
  OBVIOUS
<1> SUFFICES ASSUME NEW j \in 1..(Len(s) - 1), NEW k \in 1..(Len(s) - 1),
                    Without(s, i)[j] = Without(s, i)[k]
             PROVE  j = k
  BY <1>1
<1> DEFINE at(x) == IF x < i THEN x ELSE x + 1
<1>3. at(j) \in DOMAIN s /\ at(k) \in DOMAIN s  BY <1>2
<1>4. s[at(j)] = s[at(k)]  BY <1>1
<1>5. at(j) = at(k)  BY <1>3, <1>4
<1> QED  BY <1>2, <1>5

(* prune(index) leaves the forest linked, and the child without a parent.   *)
LEMMA PruneLinked ==
    ASSUME NEW ch, NEW pa, Linked(ch, pa),
           NEW n \in Nodes, NEW i \in DOMAIN ch[n]
    PROVE  Linked([ch EXCEPT ![n] = Without(@, i)], [pa EXCEPT ![ch[n][i]] = NoNode])
<1> DEFINE c == ch[n][i]
           ch2 == [ch EXCEPT ![n] = Without(@, i)]
           pa2 == [pa EXCEPT ![c] = NoNode]
           w == Without(ch[n], i)
<1>1. /\ ch \in [Nodes -> Seq(Nodes)]
      /\ \A m \in Nodes : Len(ch[m]) <= CHILDREN
      /\ pa \in [Nodes -> Nodes \cup {NoNode}]
  BY DEF Linked, IsForest
<1>2. ch[n] \in Seq(Nodes) /\ c \in Nodes /\ Len(ch[n]) \in Nat  BY <1>1
<1>3. w \in Seq(Nodes) /\ Len(w) = Len(ch[n]) - 1  BY <1>2, WithoutEntry
<1>4. ch2[n] = w /\ \A m \in Nodes : m # n => ch2[m] = ch[m]  BY <1>1
<1>5. pa2[c] = NoNode /\ \A m \in Nodes : m # c => pa2[m] = pa[m]  BY <1>1, <1>2
<1>6. pa[c] = n  BY DEF Linked, Listed
<1>7. \A k \in DOMAIN w : \E j \in DOMAIN ch[n] : j # i /\ w[k] = ch[n][j]
  BY <1>2, WithoutKeeps
<1>8. \A j \in DOMAIN ch[n] : j # i => \E k \in DOMAIN w : w[k] = ch[n][j]
  BY <1>2, WithoutKeeps
<1>9. \A j \in DOMAIN ch[n] : j # i => ch[n][j] # c  BY DEF Linked, ListedOnce
<1> HIDE DEF c, ch2, pa2, w
<1>10. IsForest(ch2, pa2)
  <2>1. ch2 \in [Nodes -> Seq(Nodes)]  BY <1>1, <1>3 DEF ch2, w
  <2>2. pa2 \in [Nodes -> Nodes \cup {NoNode}]  BY <1>1 DEF pa2
  <2>3. Len(ch[n]) <= CHILDREN /\ CHILDREN \in Nat  BY <1>1, TreeAssumption
  <2>4. Len(ch2[n]) <= CHILDREN  BY <1>2, <1>3, <1>4, <2>3
  <2>5. \A m \in Nodes : Len(ch2[m]) <= CHILDREN  BY <1>1, <1>4, <2>4
  <2> QED  BY <2>1, <2>2, <2>5 DEF IsForest
<1>11. Listed(ch2, pa2)
  <2> SUFFICES ASSUME NEW m \in Nodes, NEW k \in DOMAIN ch2[m] PROVE pa2[ch2[m][k]] = m
    BY DEF Listed
  <2>1. CASE m = n
    <3>1. PICK j \in DOMAIN ch[n] : j # i /\ w[k] = ch[n][j]  BY <1>4, <1>7, <2>1
    <3>2. w[k] # c /\ w[k] \in Nodes  BY <1>2, <1>9, <3>1
    <3>3. pa[w[k]] = n  BY <3>1 DEF Linked, Listed
    <3> QED  BY <1>4, <1>5, <2>1, <3>2, <3>3
  <2>2. CASE m # n
    <3>1. ch2[m] = ch[m] /\ pa[ch[m][k]] = m  BY <1>4, <2>2 DEF Linked, Listed
    <3>2. ch[m][k] \in Nodes  BY <1>1, <3>1
    <3>3. ch[m][k] # c  BY <1>6, <2>2, <3>1
    <3> QED  BY <1>5, <3>1, <3>2, <3>3
  <2> QED  BY <2>1, <2>2
<1>12. ListedOnce(ch2)
  <2>1. \A j, k \in DOMAIN w : w[j] = w[k] => j = k
    <3>1. \A j, k \in DOMAIN ch[n] : ch[n][j] = ch[n][k] => j = k  BY DEF Linked, ListedOnce
    <3> QED  BY <1>2, <3>1, WithoutOnce DEF w
  <2>2. ASSUME NEW m \in Nodes, NEW j \in DOMAIN ch2[m], NEW k \in DOMAIN ch2[m],
               ch2[m][j] = ch2[m][k]
        PROVE  j = k
    <3>1. CASE m = n  BY <1>4, <2>1, <2>2, <3>1
    <3>2. CASE m # n  BY <1>4, <2>2, <3>2 DEF Linked, ListedOnce
    <3> QED  BY <3>1, <3>2
  <2> QED  BY <2>2 DEF ListedOnce
<1>13. ParentsList(ch2, pa2)
  <2> SUFFICES ASSUME NEW d \in Nodes, pa2[d] # NoNode PROVE IsChild(ch2, pa2[d], d)
    BY DEF ParentsList
  <2>1. d # c /\ pa2[d] = pa[d] /\ pa[d] \in Nodes  BY <1>1, <1>5
  <2>2. PICK j \in DOMAIN ch[pa[d]] : ch[pa[d]][j] = d
    BY <2>1, <1>5 DEF Linked, ParentsList, IsChild
  <2>3. CASE pa[d] = n
    <3>1. j # i  BY <2>1, <2>2, <2>3 DEF c
    <3>2. \E k \in DOMAIN w : w[k] = d  BY <1>8, <2>2, <2>3, <3>1
    <3> QED  BY <1>4, <2>1, <2>3, <3>2 DEF IsChild
  <2>4. CASE pa[d] # n  BY <1>4, <2>1, <2>2, <2>4 DEF IsChild
  <2> QED  BY <2>3, <2>4
<1> QED  BY <1>10, <1>11, <1>12, <1>13 DEF Linked, c, ch2, pa2

(* append of a node without a parent leaves the forest linked. *)
LEMMA AppendLinked ==
    ASSUME NEW ch, NEW pa, Linked(ch, pa),
           NEW n \in Nodes, NEW c \in Nodes,
           pa[c] = NoNode, Len(ch[n]) < CHILDREN
    PROVE  Linked([ch EXCEPT ![n] = Append(@, c)], [pa EXCEPT ![c] = n])
<1> DEFINE ch2 == [ch EXCEPT ![n] = Append(@, c)]
           pa2 == [pa EXCEPT ![c] = n]
           w == Append(ch[n], c)
<1>1. /\ ch \in [Nodes -> Seq(Nodes)]
      /\ \A m \in Nodes : Len(ch[m]) <= CHILDREN
      /\ pa \in [Nodes -> Nodes \cup {NoNode}]
  BY DEF Linked, IsForest
<1>2. ch[n] \in Seq(Nodes) /\ Len(ch[n]) \in Nat /\ DOMAIN ch[n] = 1..Len(ch[n])  BY <1>1
<1>3. /\ w \in Seq(Nodes) /\ Len(w) = Len(ch[n]) + 1
      /\ DOMAIN w = 1..(Len(ch[n]) + 1)
      /\ w[Len(ch[n]) + 1] = c
      /\ \A j \in 1..Len(ch[n]) : w[j] = ch[n][j]
  BY <1>2
<1>4. ch2[n] = w /\ \A m \in Nodes : m # n => ch2[m] = ch[m]  BY <1>1
<1>5. pa2[c] = n /\ \A m \in Nodes : m # c => pa2[m] = pa[m]  BY <1>1
<1>6. \A m \in Nodes : \A k \in DOMAIN ch[m] : ch[m][k] \in Nodes /\ ch[m][k] # c
  <2>1. \A m \in Nodes : m # NoNode  BY TreeAssumption
  <2> QED  BY <1>1, <2>1 DEF Linked, Listed
<1> HIDE DEF ch2, pa2, w
<1>7. IsForest(ch2, pa2)
  <2>1. ch2 \in [Nodes -> Seq(Nodes)]  BY <1>1, <1>3 DEF ch2, w
  <2>2. pa2 \in [Nodes -> Nodes \cup {NoNode}]  BY <1>1 DEF pa2
  <2>3. Len(ch2[n]) <= CHILDREN  BY <1>2, <1>3, <1>4, TreeAssumption
  <2>4. \A m \in Nodes : Len(ch2[m]) <= CHILDREN  BY <1>1, <1>4, <2>3
  <2> QED  BY <2>1, <2>2, <2>4 DEF IsForest
<1>8. Listed(ch2, pa2)
  <2> SUFFICES ASSUME NEW m \in Nodes, NEW k \in DOMAIN ch2[m] PROVE pa2[ch2[m][k]] = m
    BY DEF Listed
  <2>1. CASE m = n /\ k = Len(ch[n]) + 1  BY <1>3, <1>4, <1>5, <2>1
  <2>2. CASE m = n /\ k # Len(ch[n]) + 1
    <3>1. k \in 1..Len(ch[n])  BY <1>2, <1>3, <1>4, <2>2
    <3>2. ch2[m][k] = ch[n][k] /\ k \in DOMAIN ch[n]  BY <1>2, <1>3, <1>4, <2>2, <3>1
    <3>3. pa[ch[n][k]] = n  BY <3>2 DEF Linked, Listed
    <3> QED  BY <1>5, <1>6, <2>2, <3>2, <3>3
  <2>3. CASE m # n
    <3>1. ch2[m] = ch[m]  BY <1>4, <2>3
    <3>2. pa[ch[m][k]] = m  BY <3>1 DEF Linked, Listed
    <3> QED  BY <1>5, <1>6, <3>1, <3>2
  <2> QED  BY <2>1, <2>2, <2>3
<1>9. ListedOnce(ch2)
  <2>1. ASSUME NEW m \in Nodes, NEW j \in DOMAIN ch2[m], NEW k \in DOMAIN ch2[m],
               ch2[m][j] = ch2[m][k]
        PROVE  j = k
    <3>1. CASE m = n
      <4>1. \A x, y \in 1..Len(ch[n]) : ch[n][x] = ch[n][y] => x = y
        BY <1>2 DEF Linked, ListedOnce
      <4>2. \A x \in 1..Len(ch[n]) : ch[n][x] # c  BY <1>2, <1>6
      <4>3. j \in 1..(Len(ch[n]) + 1) /\ k \in 1..(Len(ch[n]) + 1) /\ w[j] = w[k]
        BY <1>3, <1>4, <2>1, <3>1
      <4>4. CASE j = Len(ch[n]) + 1  BY <1>2, <1>3, <4>2, <4>3, <4>4
      <4>5. CASE k = Len(ch[n]) + 1  BY <1>2, <1>3, <4>2, <4>3, <4>5
      <4>6. CASE j # Len(ch[n]) + 1 /\ k # Len(ch[n]) + 1
        <5>1. j \in 1..Len(ch[n]) /\ k \in 1..Len(ch[n])  BY <1>2, <4>3, <4>6
        <5> QED  BY <1>3, <4>1, <4>3, <5>1
      <4> QED  BY <4>4, <4>5, <4>6
    <3>2. CASE m # n  BY <1>4, <2>1, <3>2 DEF Linked, ListedOnce
    <3> QED  BY <3>1, <3>2
  <2> QED  BY <2>1 DEF ListedOnce
<1>10. ParentsList(ch2, pa2)
  <2> SUFFICES ASSUME NEW d \in Nodes, pa2[d] # NoNode PROVE IsChild(ch2, pa2[d], d)
    BY DEF ParentsList
  <2>1. CASE d = c
    <3>1. Len(ch[n]) + 1 \in DOMAIN w  BY <1>2, <1>3
    <3> QED  BY <1>3, <1>4, <1>5, <2>1, <3>1 DEF IsChild
  <2>2. CASE d # c
    <3>1. pa2[d] = pa[d] /\ pa[d] \in Nodes  BY <1>1, <1>5, <2>2
    <3>2. PICK j \in DOMAIN ch[pa[d]] : ch[pa[d]][j] = d
      BY <3>1 DEF Linked, ParentsList, IsChild
    <3>3. CASE pa[d] = n
      <4>1. j \in 1..Len(ch[n]) /\ w[j] = d  BY <1>2, <1>3, <3>2, <3>3
      <4>2. j \in DOMAIN w  BY <1>2, <1>3, <4>1
      <4> QED  BY <1>4, <3>1, <3>3, <4>1, <4>2 DEF IsChild
    <3>4. CASE pa[d] # n  BY <1>4, <3>1, <3>2, <3>4 DEF IsChild
    <3> QED  BY <3>3, <3>4
  <2> QED  BY <2>1, <2>2
<1> QED  BY <1>7, <1>8, <1>9, <1>10 DEF Linked, ch2, pa2

LEMMA TreeInvInit == TreeInit => TreeInv
<1> SUFFICES ASSUME TreeInit PROVE TreeInv
  OBVIOUS
<1>1. /\ mChildren = [n \in Nodes |-> <<>>]
      /\ mParent = [n \in Nodes |-> NoNode]
  BY DEF TreeInit
<1>2. IsForest(mChildren, mParent)  BY <1>1, TreeAssumption DEF IsForest
<1>3. \A n \in Nodes : DOMAIN mChildren[n] = {}
  <2>1. \A n \in Nodes : mChildren[n] = <<>>  BY <1>1
  <2>2. DOMAIN <<>> = {}  OBVIOUS
  <2> QED  BY <2>1, <2>2, Zenon
<1>4. Listed(mChildren, mParent) /\ ListedOnce(mChildren)  BY <1>3 DEF Listed, ListedOnce
<1>5. ParentsList(mChildren, mParent)  BY <1>1 DEF ParentsList
<1> QED  BY <1>2, <1>4, <1>5 DEF TreeInv, Linked

(* What append does to a node that is its own parent: it is pruned, and     *)
(* appended where there is room.                                            *)
LEMMA AppendOwnLinked ==
    ASSUME TreeInv, NEW n \in Nodes, NEW c \in Nodes, AppendOwn(n, c)
    PROVE  TreeInv'
<1>1. PICK i \in DOMAIN mChildren[c] :
        /\ mChildren[c][i] = c
        /\ LET pruned == [mChildren EXCEPT ![c] = Without(@, i)]
           IN IF Len(pruned[n]) < CHILDREN
              THEN /\ mChildren' = [pruned EXCEPT ![n] = Append(@, c)]
                   /\ mParent' = [mParent EXCEPT ![c] = n]
              ELSE /\ mChildren' = pruned
                   /\ mParent' = [mParent EXCEPT ![c] = NoNode]
  BY DEF AppendOwn
<1> DEFINE ch == [mChildren EXCEPT ![c] = Without(@, i)]
           pa == [mParent EXCEPT ![c] = NoNode]
<1>2. Linked(ch, pa)
  <2>1. Linked(ch, [mParent EXCEPT ![mChildren[c][i]] = NoNode])  BY PruneLinked DEF TreeInv
  <2>2. mChildren[c][i] = c  BY <1>1
  <2>3. [mParent EXCEPT ![mChildren[c][i]] = NoNode] = pa  BY <2>2
  <2> QED  BY <2>1, <2>3
<1>3. mParent \in [Nodes -> Nodes \cup {NoNode}]  BY DEF TreeInv, Linked, IsForest
<1>4. pa[c] = NoNode  BY <1>3
<1>5. [pa EXCEPT ![c] = n] = [mParent EXCEPT ![c] = n]  BY <1>3
<1> HIDE DEF ch, pa
<1>6. CASE Len(ch[n]) < CHILDREN
  <2>1. mChildren' = [ch EXCEPT ![n] = Append(@, c)] /\ mParent' = [pa EXCEPT ![c] = n]
    BY <1>1, <1>5, <1>6 DEF ch
  <2>2. Linked([ch EXCEPT ![n] = Append(@, c)], [pa EXCEPT ![c] = n])
    BY <1>2, <1>4, <1>6, AppendLinked
  <2> QED  BY <2>1, <2>2 DEF TreeInv
<1>7. CASE ~(Len(ch[n]) < CHILDREN)
  <2>1. mChildren' = ch /\ mParent' = pa  BY <1>1, <1>7 DEF ch, pa
  <2> QED  BY <1>2, <2>1 DEF TreeInv
<1> QED  BY <1>6, <1>7

LEMMA TreeInvStep ==
    ASSUME TreeInv, [TreeNext]_treeVars
    PROVE  TreeInv'
<1>1. ASSUME NEW n \in Nodes, NEW i \in DOMAIN mChildren[n], PruneAt(n, i)
      PROVE  TreeInv'
  <2>1. Linked([mChildren EXCEPT ![n] = Without(@, i)], [mParent EXCEPT ![mChildren[n][i]] = NoNode])
    BY PruneLinked DEF TreeInv
  <2> QED  BY <1>1, <2>1 DEF PruneAt, TreeInv
<1>2. ASSUME NEW n \in Nodes, NEW c \in Nodes, Prune(n, c) PROVE TreeInv'
  BY <1>1, <1>2 DEF Prune
<1>3. ASSUME NEW n \in Nodes, NEW c \in Nodes, AppendFree(n, c) PROVE TreeInv'
  <2>1. Linked([mChildren EXCEPT ![n] = Append(@, c)], [mParent EXCEPT ![c] = n])
    BY <1>3, AppendLinked DEF TreeInv, AppendFree
  <2> QED  BY <1>3, <2>1 DEF AppendFree, TreeInv
<1>4. ASSUME NEW n \in Nodes, NEW c \in Nodes, AppendOwn(n, c) PROVE TreeInv'
  BY <1>4, AppendOwnLinked
<1>5. CASE UNCHANGED treeVars  BY <1>5 DEF treeVars, TreeInv
<1> QED  BY <1>1, <1>2, <1>3, <1>4, <1>5 DEF TreeNext, AppendChild

(* What LinksAgree says of the nodes. *)
LEMMA TreeInvLinks == TreeInv => TreeTypeOK /\ LinksAgree
BY DEF TreeInv, Linked, IsForest, Listed, ListedOnce, ParentsList, IsChild, TreeTypeOK, LinksAgree

LEMMA TreeInvariant == TreeSpec => []TreeInv
<1>1. TreeInit => TreeInv  BY TreeInvInit
<1>2. TreeInv /\ [TreeNext]_treeVars => TreeInv'  BY TreeInvStep
<1> QED  BY <1>1, <1>2, PTL DEF TreeSpec

(* Parents and children agree after any prune and append, for any forest.   *)
THEOREM LinksAlwaysAgree == TreeSpec => []LinksAgree
<1>1. TreeSpec => []TreeInv  BY TreeInvariant
<1>2. TreeInv => LinksAgree  BY TreeInvLinks
<1> QED  BY <1>1, <1>2, PTL

(* A node with a parent that is not itself keeps it until it is pruned.     *)
LEMMA NodesNeverMove == TreeSpec => NeverMoves
<1> DEFINE Stays == \A c \in Nodes : mParent'[c] \in {mParent[c], NoNode}
                                     \/ mParent[c] \in {NoNode, c}
<1>1. ASSUME TreeInv, TreeNext PROVE Stays
  <2> SUFFICES ASSUME NEW d \in Nodes
               PROVE  mParent'[d] \in {mParent[d], NoNode} \/ mParent[d] \in {NoNode, d}
    OBVIOUS
  <2>1. mParent \in [Nodes -> Nodes \cup {NoNode}] /\ mChildren \in [Nodes -> Seq(Nodes)]
    BY <1>1 DEF TreeInv, Linked, IsForest
  <2>2. ASSUME NEW n \in Nodes, NEW i \in DOMAIN mChildren[n], PruneAt(n, i)
        PROVE  mParent'[d] \in {mParent[d], NoNode}
    <3>1. mChildren[n][i] \in Nodes  BY <2>1
    <3> QED  BY <2>1, <2>2, <3>1 DEF PruneAt
  <2>3. ASSUME NEW n \in Nodes, NEW c \in Nodes, Prune(n, c)
        PROVE  mParent'[d] \in {mParent[d], NoNode}
    BY <2>2, <2>3 DEF Prune
  <2>4. ASSUME NEW n \in Nodes, NEW c \in Nodes, AppendFree(n, c)
        PROVE  mParent'[d] = mParent[d] \/ mParent[d] = NoNode
    BY <2>1, <2>4 DEF AppendFree
  <2>5. ASSUME NEW n \in Nodes, NEW c \in Nodes, AppendOwn(n, c)
        PROVE  mParent'[d] = mParent[d] \/ mParent[d] = d
    <3>1. mParent[c] = c  BY <1>1, <2>5 DEF AppendOwn, TreeInv, Linked, Listed
    <3>2. mParent' = [mParent EXCEPT ![c] = n] \/ mParent' = [mParent EXCEPT ![c] = NoNode]
      BY <2>5 DEF AppendOwn
    <3> QED  BY <2>1, <3>1, <3>2
  <2> QED  BY <1>1, <2>2, <2>3, <2>4, <2>5 DEF TreeNext, AppendChild
<1>2. TreeInv /\ [TreeNext]_treeVars => [Stays]_treeVars  BY <1>1
<1>3. TreeSpec => []TreeInv  BY TreeInvariant
<1> QED  BY <1>2, <1>3, PTL DEF TreeSpec, NeverMoves

(* prune makes no cycle: whatever never ended before it, never ended.       *)
LEMMA PruneMakesNoCycle ==
    ASSUME TreeInv, NEW c \in Nodes, mParent' = [mParent EXCEPT ![c] = NoNode], Cyclic'
    PROVE  Cyclic
<1>1. mParent \in [Nodes -> Nodes \cup {NoNode}]  BY DEF TreeInv, Linked, IsForest
<1>2. PICK S \in SUBSET Nodes : Endless(S)'  BY DEF Cyclic
<1>3. \A n \in S : mParent'[n] \in Nodes /\ n \in Nodes  BY <1>2 DEF Endless
<1>4. \A n \in S : mParent[n] = mParent'[n]  BY <1>1, <1>3, TreeAssumption
<1>5. Endless(S)  BY <1>2, <1>4 DEF Endless
<1> QED  BY <1>5 DEF Cyclic

(* The endless nodes that an append makes hold the child, and so its new    *)
(* parent; were the child not above that, those of them above the parent    *)
(* would have been endless before.                                          *)
LEMMA AppendMakesCycleBelow ==
    ASSUME TreeInv, NEW n \in Nodes, NEW c \in Nodes, mParent' = [mParent EXCEPT ![c] = n],
           ~Cyclic, Cyclic'
    PROVE  AtOrAbove(c, n)
<1>1. mParent \in [Nodes -> Nodes \cup {NoNode}]  BY DEF TreeInv, Linked, IsForest
<1>2. PICK S \in SUBSET Nodes : Endless(S)'  BY DEF Cyclic
<1>3. mParent'[c] = n /\ \A m \in Nodes : m # c => mParent'[m] = mParent[m]  BY <1>1
<1>4. c \in S
  <2>1. c \notin S => Endless(S)  BY <1>2, <1>3 DEF Endless
  <2> QED  BY <2>1 DEF Cyclic
<1>5. n \in S  BY <1>2, <1>3, <1>4 DEF Endless
<1> SUFFICES ASSUME NEW T \in SUBSET Nodes, n \in T, c \notin T,
                    \A m \in T : mParent[m] \in T \cup {NoNode}
             PROVE  FALSE
  BY DEF AtOrAbove
<1>6. ASSUME NEW m \in S \cap T PROVE mParent[m] \in S \cap T
  <2>1. m # c /\ mParent[m] \in S  BY <1>2, <1>3 DEF Endless
  <2> QED  BY <2>1, TreeAssumption
<1>7. Endless(S \cap T)  BY <1>5, <1>6 DEF Endless
<1> QED  BY <1>7 DEF Cyclic

(* No append takes a node from a parent other than itself, and the only     *)
(* step that makes a cycle appends a root to a node below it.               *)
THEOREM OnlyAppendsMakeCycles == TreeSpec => TreeSteps
<1> DEFINE Below == ~Cyclic /\ Cyclic' =>
                       \E n, c \in Nodes : AppendFree(n, c) /\ AtOrAbove(c, n)
<1>1. ASSUME TreeInv, TreeNext PROVE Below
  <2> SUFFICES ASSUME ~Cyclic, Cyclic'
               PROVE  \E n, c \in Nodes : AppendFree(n, c) /\ AtOrAbove(c, n)
    OBVIOUS
  <2>1. ASSUME NEW n \in Nodes, NEW i \in DOMAIN mChildren[n], PruneAt(n, i) PROVE FALSE
    <3>1. mChildren[n][i] \in Nodes  BY <1>1 DEF TreeInv, Linked, IsForest
    <3> QED  BY <1>1, <2>1, <3>1, PruneMakesNoCycle DEF PruneAt
  <2>2. ASSUME NEW n \in Nodes, NEW c \in Nodes, Prune(n, c) PROVE FALSE
    BY <2>1, <2>2 DEF Prune
  <2>3. ASSUME NEW n \in Nodes, NEW c \in Nodes, AppendFree(n, c) PROVE AtOrAbove(c, n)
    BY <1>1, <2>3, AppendMakesCycleBelow DEF AppendFree
  <2>4. ASSUME NEW n \in Nodes, NEW c \in Nodes, AppendOwn(n, c) PROVE FALSE
    <3>1. mParent[c] = c  BY <1>1, <2>4 DEF AppendOwn, TreeInv, Linked, Listed
    <3>2. Endless({c})  BY <3>1 DEF Endless
    <3> QED  BY <3>2 DEF Cyclic
  <2> QED  BY <1>1, <2>1, <2>2, <2>3, <2>4 DEF TreeNext, AppendChild
<1>2. TreeInv /\ [TreeNext]_treeVars => [Below]_treeVars  BY <1>1
<1>3. TreeSpec => []TreeInv  BY TreeInvariant
<1>4. TreeSpec => CyclesAreAppended  BY <1>2, <1>3, PTL DEF TreeSpec, CyclesAreAppended
<1> QED  BY <1>4, NodesNeverMove, PTL DEF TreeSteps
==============================================================================
