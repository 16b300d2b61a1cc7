--------------------------- MODULE ValueHeapProofs ---------------------------
(***************************************************************************)
(* Proofs about ValueHeap, for any addresses, any programs and a word of   *)
(* any size that holds the digits.                                         *)
(*                                                                         *)
(* A memory is sound if each payload is what its kind says, each value     *)
(* that owns owns a payload of its kind that no other value owns, and each *)
(* payload in use is owned.  Ownership may still go in circles: a move can *)
(* put a value into what it owns.  But nothing that the program can reach  *)
(* from its stack is on such a circle, because each payload has one owner  *)
(* only, and that is what every operation needs.                           *)
(***************************************************************************)
EXTENDS ValueHeap, FiniteSetTheorems, TLAPS

Pages == {0} \cup Addresses

(* Item k of the payload at p, and whether it owns the payload at b. *)
Has(m, p, k) == p \in Pages /\ k \in DOMAIN m[p].items
Word(m, p, k) == m[p].items[k]
Holds(m, p, k, b) ==
    Has(m, p, k) /\ Word(m, p, k).type \in OwnerTypes /\ Word(m, p, k).bits = b

(* Each page is a payload, and the words in it are words of the program. *)
Shaped(m) ==
    /\ DOMAIN m = Pages
    /\ \A p \in Pages : m[p] = [kind |-> m[p].kind, front |-> m[p].front, items |-> m[p].items]

Typed(m) ==
    /\ \A p \in Pages : m[p].front \in 0..127
    /\ \A p, k : Has(m, p, k) => IsWord(Word(m, p, k))

Kinds(m) ==
    /\ m[0].kind = "stack"
    /\ \A p \in Addresses : m[p].kind \in OwnerTypes \cup {"free"}
    /\ \A p \in Addresses : m[p].kind = "free" => DOMAIN m[p].items = {}
    /\ \A p \in Addresses : m[p].kind = "array" => \E n \in Nat : DOMAIN m[p].items = 1..n

NothingDangles(m) ==
    \A p, k : Has(m, p, k) /\ Word(m, p, k).type \in OwnerTypes =>
        /\ Word(m, p, k).bits \in Addresses
        /\ m[Word(m, p, k).bits].kind = Word(m, p, k).type

SingleOwners(m) ==
    \A p, k, q, j, b : Holds(m, p, k, b) /\ Holds(m, q, j, b) => p = q /\ k = j

AllOwned(m) ==
    \A b \in Addresses : m[b].kind # "free" => \E p, k : Holds(m, p, k, b)

Sound(m) ==
    /\ Shaped(m)
    /\ Typed(m)
    /\ Kinds(m)
    /\ NothingDangles(m)
    /\ SingleOwners(m)
    /\ AllOwned(m)

(* No address is 0, and the types are apart. *)
LEMMA AddressesApart == 0 \notin Addresses
BY ValueHeapAssumption

(* What is at a location, and what a page owns, in terms of words. *)
LEMMA LocationIs ==
    ASSUME NEW m, NEW ps \in SUBSET Pages, NEW l \in LocationsIn(m, ps)
    PROVE  /\ l = <<l[1], l[2]>> /\ l[1] \in ps /\ Has(m, l[1], l[2])
           /\ At(m, l) = Word(m, l[1], l[2])
<1>1. PICK p \in ps : l \in {<<p, k>> : k \in DOMAIN m[p].items}  BY DEF LocationsIn
<1>2. PICK k \in DOMAIN m[p].items : l = <<p, k>>  BY <1>1
<1> QED  BY <1>1, <1>2 DEF Has, At, Word

LEMMA LocationsAre ==
    ASSUME NEW m, NEW ps \in SUBSET Pages, NEW p \in ps, NEW k \in DOMAIN m[p].items
    PROVE  <<p, k>> \in LocationsIn(m, ps)
BY DEF LocationsIn

LEMMA OwnsIs ==
    ASSUME NEW v, NEW b
    PROVE  b \in Owns(v) <=> v.type \in OwnerTypes /\ v.bits = b
BY DEF Owns

LEMMA OwnedByIs ==
    ASSUME NEW m, NEW p \in Pages, NEW b
    PROVE  b \in OwnedBy(m, p) <=> \E k : Holds(m, p, k, b)
<1>1. b \in OwnedBy(m, p) <=> \E k \in DOMAIN m[p].items : b \in Owns(m[p].items[k])
  BY DEF OwnedBy, Range
<1>2. \A k : b \in Owns(m[p].items[k]) <=>
               m[p].items[k].type \in OwnerTypes /\ m[p].items[k].bits = b
  BY OwnsIs
<1> QED  BY <1>1, <1>2 DEF Holds, Has, Word

------------------------------------------------------------------------------
(* What a value owns                                                       *)

(* A set of payloads that holds what its members own. *)
Whole(m, S) == \A p, k, b : Holds(m, p, k, b) /\ p \in S => b \in S

LEMMA ClosedIsWhole ==
    ASSUME NEW m, NEW S \in SUBSET Addresses
    PROVE  S \in ClosedIn(m) <=> Whole(m, S)
<1>1. S \subseteq Pages  BY DEF Pages
<1>2. S \in ClosedIn(m) <=> \A p \in S : OwnedBy(m, p) \subseteq S  BY DEF ClosedIn
<1>3. \A p \in S : OwnedBy(m, p) \subseteq S <=> \A k, b : Holds(m, p, k, b) => b \in S
  BY <1>1, OwnedByIs
<1> QED  BY <1>2, <1>3 DEF Whole

LEMMA ClosureIsLeast ==
    ASSUME NEW m, NEW v, NEW S \in SUBSET Addresses, Owns(v) \subseteq S, Whole(m, S)
    PROVE  Closure(m, v) \subseteq S
<1>1. S \in ClosedIn(m)  BY ClosedIsWhole
<1> QED  BY <1>1 DEF Closure

LEMMA ClosureIs ==
    ASSUME NEW m, NEW v, NothingDangles(m), Owns(v) \subseteq Addresses
    PROVE  /\ Closure(m, v) \subseteq Addresses
           /\ Owns(v) \subseteq Closure(m, v)
           /\ Whole(m, Closure(m, v))
           /\ \A b \in Closure(m, v) :
                 b \in Owns(v) \/ \E p, k : p \in Closure(m, v) /\ Holds(m, p, k, b)
<1> DEFINE C == Closure(m, v)
<1>1. C \subseteq Addresses /\ Owns(v) \subseteq C  BY DEF Closure
<1>2. Whole(m, C)
  <2>1. SUFFICES ASSUME NEW p, NEW k, NEW b, Holds(m, p, k, b), p \in C PROVE b \in C
    BY DEF Whole
  <2>2. b \in Addresses  BY <2>1 DEF NothingDangles, Holds
  <2>3. ASSUME NEW S \in ClosedIn(m), Owns(v) \subseteq S PROVE b \in S
    <3>1. S \in SUBSET Addresses  BY DEF ClosedIn
    <3>2. Whole(m, S)  BY <3>1, ClosedIsWhole
    <3>3. p \in S  BY <2>1, <2>3 DEF Closure
    <3> QED  BY <2>1, <3>2, <3>3 DEF Whole
  <2> QED  BY <2>2, <2>3 DEF Closure
<1> DEFINE R == {b \in C : b \in Owns(v) \/ \E p, k : p \in C /\ Holds(m, p, k, b)}
<1>3. C \subseteq R
  <2>1. R \in SUBSET Addresses /\ Owns(v) \subseteq R  BY <1>1
  <2>2. Whole(m, R)  BY <1>2 DEF Whole
  <2> HIDE DEF R
  <2> QED  BY <2>1, <2>2, ClosureIsLeast
<1> QED  BY <1>1, <1>2, <1>3

(* What hangs below a location the program can reach does not reach back. *)
LEMMA ReachableIsNoCircle ==
    ASSUME NEW m, Sound(m), NEW p, NEW k, Has(m, p, k), p \in {0} \cup FromStack(m)
    PROVE  p \notin Closure(m, Word(m, p, k))
<1> DEFINE v == Word(m, p, k)
           C == Closure(m, v)
<1>0. SUFFICES ASSUME p \in C PROVE FALSE
  OBVIOUS
<1>1. Owns(v) \subseteq Addresses
  BY OwnsIs DEF Sound, NothingDangles
<1>2. /\ C \subseteq Addresses /\ Whole(m, C)
      /\ \A b \in C : b \in Owns(v) \/ \E q, j : q \in C /\ Holds(m, q, j, b)
  BY <1>1, ClosureIs DEF Sound
<1>3. \A b \in C : \E q, j : q \in C /\ Holds(m, q, j, b)
  <2>1. \A b : b \in Owns(v) => Holds(m, p, k, b)  BY OwnsIs DEF Holds
  <2> HIDE DEF v, C
  <2> QED  BY <1>0, <1>2, <2>1
<1>4. \A q, j, b : Holds(m, q, j, b) /\ b \in C => q \in C
  BY <1>3 DEF Sound, SingleOwners
<1> HIDE DEF C
<1>5. p # 0  BY <1>0, <1>2, AddressesApart
<1>6. PICK j \in DOMAIN m[0].items : p \in Closure(m, m[0].items[j])
  BY <1>5 DEF FromStack, Below, Range
<1> DEFINE w == m[0].items[j]
           S == Closure(m, w) \ C
<1>7. Has(m, 0, j) /\ w = Word(m, 0, j)  BY DEF Has, Word, Pages
<1>8. Owns(w) \subseteq Addresses
  BY <1>7, OwnsIs DEF Sound, NothingDangles
<1>9. Closure(m, w) \subseteq Addresses /\ Owns(w) \subseteq Closure(m, w) /\ Whole(m, Closure(m, w))
  BY <1>8, ClosureIs DEF Sound
<1>10. Owns(w) \subseteq S
  <2>1. \A b : b \in Owns(w) => Holds(m, 0, j, b)  BY <1>7, OwnsIs DEF Holds
  <2>2. 0 \notin C  BY <1>2, AddressesApart
  <2> HIDE DEF w
  <2> QED  BY <1>4, <1>9, <2>1, <2>2
<1>11. Whole(m, S)
  <2> HIDE DEF w
  <2> QED  BY <1>4, <1>9 DEF Whole
<1>12. Closure(m, w) \subseteq S
  <2> S \in SUBSET Addresses  BY <1>9
  <2> HIDE DEF S, w
  <2> QED  BY <1>10, <1>11, ClosureIsLeast
<1> QED  BY <1>0, <1>6, <1>12

------------------------------------------------------------------------------
(* Writing to a location                                                   *)

(* n is m with v as item k of the payload at p. *)
Written(n, m, p, k, v) ==
    /\ Shaped(n)
    /\ \A q \in Pages : /\ n[q].kind = m[q].kind /\ n[q].front = m[q].front
                        /\ DOMAIN n[q].items = DOMAIN m[q].items
    /\ \A q, j : Has(m, q, j) =>
          Word(n, q, j) = IF q = p /\ j = k THEN v ELSE Word(m, q, j)

LEMMA PutIs ==
    ASSUME NEW m, Shaped(m), NEW p \in Pages, NEW k, NEW v
    PROVE  Written(Put(m, <<p, k>>, v), m, p, k, v)
<1> DEFINE r == [m[p] EXCEPT !.items = [m[p].items EXCEPT ![k] = v]]
           n == [m EXCEPT ![p] = r]
<1>1. Put(m, <<p, k>>, v) = n  BY DEF Put
<1>2. m[p] = [kind |-> m[p].kind, front |-> m[p].front, items |-> m[p].items]
  BY DEF Shaped
<1>3. r = [kind |-> m[p].kind, front |-> m[p].front, items |-> [m[p].items EXCEPT ![k] = v]]
  BY <1>2
<1>4. DOMAIN n = Pages /\ \A q \in Pages : n[q] = IF q = p THEN r ELSE m[q]  BY DEF Shaped
<1>5. /\ r.kind = m[p].kind /\ r.front = m[p].front
      /\ r = [kind |-> r.kind, front |-> r.front, items |-> r.items]
      /\ DOMAIN r.items = DOMAIN m[p].items
      /\ \A j \in DOMAIN m[p].items : r.items[j] = IF j = k THEN v ELSE m[p].items[j]
  BY <1>3
<1> HIDE DEF n, r
<1>6. Shaped(n)  BY <1>4, <1>5 DEF Shaped
<1>7. \A q \in Pages : /\ n[q].kind = m[q].kind /\ n[q].front = m[q].front
                       /\ DOMAIN n[q].items = DOMAIN m[q].items
  BY <1>4, <1>5
<1>8. \A q, j : Has(m, q, j) => Word(n, q, j) = IF q = p /\ j = k THEN v ELSE Word(m, q, j)
  BY <1>4, <1>5 DEF Has, Word
<1> QED  BY <1>1, <1>6, <1>7, <1>8 DEF Written

(* One value that owns nothing for another. *)
LEMMA ScalarWrittenSound ==
    ASSUME NEW m, Sound(m), NEW n, NEW p, NEW k, NEW v, Written(n, m, p, k, v),
           IsWord(v), v.type \notin OwnerTypes,
           Has(m, p, k) => Word(m, p, k).type \notin OwnerTypes
    PROVE  Sound(n)
<1>1. \A q, j : Has(n, q, j) <=> Has(m, q, j)  BY DEF Written, Has
<1>2. \A q, j, b : Holds(n, q, j, b) <=> Holds(m, q, j, b)  BY <1>1 DEF Written, Holds
<1>3. Shaped(n)  BY DEF Written
<1>4. Typed(n)  BY <1>1 DEF Written, Sound, Typed
<1>5. Kinds(n)  BY DEF Written, Sound, Kinds, Pages
<1>6. NothingDangles(n)
  <2>1. SUFFICES ASSUME NEW q, NEW j, Has(n, q, j), Word(n, q, j).type \in OwnerTypes
                 PROVE  /\ Word(n, q, j).bits \in Addresses
                        /\ n[Word(n, q, j).bits].kind = Word(n, q, j).type
    BY DEF NothingDangles
  <2>2. Has(m, q, j) /\ Word(n, q, j) = Word(m, q, j)  BY <1>1, <2>1 DEF Written
  <2>3. /\ Word(m, q, j).bits \in Addresses
        /\ m[Word(m, q, j).bits].kind = Word(m, q, j).type
    BY <2>1, <2>2 DEF Sound, NothingDangles
  <2> QED  BY <2>2, <2>3 DEF Written, Pages
<1>7. SingleOwners(n)  BY <1>2 DEF Sound, SingleOwners
<1>8. AllOwned(n)  BY <1>2 DEF Written, Sound, AllOwned, Pages
<1> QED  BY <1>3, <1>4, <1>5, <1>6, <1>7, <1>8 DEF Sound

------------------------------------------------------------------------------
(* Deleting what a location owns                                           *)

(* n is m without the payloads gone, and with void as item k of that at p.  *)
Voided(n, m, gone, p, k) ==
    /\ Shaped(n)
    /\ \A q \in Pages :
          IF q \in gone THEN n[q].kind = "free" /\ n[q].front = 0 /\ DOMAIN n[q].items = {}
          ELSE /\ n[q].kind = m[q].kind /\ n[q].front = m[q].front
               /\ DOMAIN n[q].items = DOMAIN m[q].items
    /\ \A q, j : Has(n, q, j) =>
          Word(n, q, j) = IF q = p /\ j = k THEN Void ELSE Word(m, q, j)

LEMMA SetVoidIs ==
    ASSUME NEW m, Shaped(m), NEW p \in Pages, NEW k
    PROVE  Voided(SetVoid(m, <<p, k>>), m, Closure(m, Word(m, p, k)), p, k)
<1> DEFINE gone == Closure(m, Word(m, p, k))
           e == [q \in DOMAIN m |-> IF q \in gone THEN Unused ELSE m[q]]
           n == Put(e, <<p, k>>, Void)
<1>1. SetVoid(m, <<p, k>>) = n  BY DEF SetVoid, At, Word
<1> HIDE DEF gone
<1>2. Unused = [kind |-> "free", front |-> 0, items |-> <<>>] /\ DOMAIN Unused.items = {}
  BY DEF Unused, Payload
<1>3. DOMAIN e = Pages /\ \A q \in Pages : e[q] = IF q \in gone THEN Unused ELSE m[q]
  BY DEF Shaped
<1> HIDE DEF e
<1>4. Shaped(e)  BY <1>2, <1>3 DEF Shaped
<1>5. Written(n, e, p, k, Void)  BY <1>4, PutIs
<1> HIDE DEF n
<1>6. \A q \in Pages :
        IF q \in gone THEN n[q].kind = "free" /\ n[q].front = 0 /\ DOMAIN n[q].items = {}
        ELSE /\ n[q].kind = m[q].kind /\ n[q].front = m[q].front
             /\ DOMAIN n[q].items = DOMAIN m[q].items
  BY <1>2, <1>3, <1>5 DEF Written
<1>7. ASSUME NEW q, NEW j, Has(n, q, j)
      PROVE  Word(n, q, j) = IF q = p /\ j = k THEN Void ELSE Word(m, q, j)
  <2>1. q \in Pages /\ j \in DOMAIN n[q].items  BY <1>7 DEF Has
  <2>2. q \notin gone  BY <1>6, <2>1
  <2>3. Has(e, q, j) /\ Word(e, q, j) = Word(m, q, j)
    BY <1>3, <1>5, <2>1, <2>2 DEF Has, Word, Written
  <2> QED  BY <1>5, <2>3 DEF Written
<1> QED  BY <1>1, <1>5, <1>6, <1>7 DEF Voided, Written, gone

(* The void owns nothing and is a word. *)
LEMMA VoidIsWord == IsWord(Void) /\ Void.type = "void" /\ Void.type \notin OwnerTypes
BY DEF IsWord, IsScalar, Void, Value, Scalars, OwnerTypes

LEMMA SetVoidHolds ==
    ASSUME NEW m, NEW n, NEW gone \in SUBSET Addresses, NEW p \in Pages, NEW k,
           Voided(n, m, gone, p, k)
    PROVE  \A q, j, b : Holds(n, q, j, b) <=>
              q \notin gone /\ ~(q = p /\ j = k) /\ Holds(m, q, j, b)
<1> TAKE q, j, b
<1>1. Has(n, q, j) <=> q \notin gone /\ Has(m, q, j)  BY DEF Voided, Has
<1>2. CASE Has(n, q, j)
  <2>1. Word(n, q, j) = IF q = p /\ j = k THEN Void ELSE Word(m, q, j)  BY <1>2 DEF Voided
  <2> QED  BY <1>1, <1>2, <2>1, VoidIsWord DEF Holds
<1>3. CASE ~Has(n, q, j)  BY <1>1, <1>3 DEF Holds
<1> QED  BY <1>2, <1>3

LEMMA SetVoidSound ==
    ASSUME NEW m, Sound(m), NEW p, NEW k, Has(m, p, k)
    PROVE  Sound(SetVoid(m, <<p, k>>))
<1> DEFINE v == Word(m, p, k)
           gone == Closure(m, v)
           n == SetVoid(m, <<p, k>>)
<1>0. p \in Pages  BY DEF Has
<1>1. Voided(n, m, gone, p, k)  BY <1>0, SetVoidIs DEF Sound
<1>2. /\ gone \subseteq Addresses /\ Owns(v) \subseteq gone /\ Whole(m, gone)
      /\ \A b \in gone : b \in Owns(v) \/ \E q, j : q \in gone /\ Holds(m, q, j, b)
  <2>1. Owns(v) \subseteq Addresses  BY OwnsIs DEF Sound, NothingDangles
  <2> QED  BY <2>1, ClosureIs DEF Sound
<1>3. \A b : b \in Owns(v) <=> Holds(m, p, k, b)  BY OwnsIs DEF Holds
<1>4. \A q, j, b : Holds(m, q, j, b) /\ b \in gone => q \in gone \/ (q = p /\ j = k)
  <2> HIDE DEF v, gone
  <2> QED  BY <1>2, <1>3 DEF Sound, SingleOwners
<1>5. \A q, j, b : Holds(n, q, j, b) <=>
              q \notin gone /\ ~(q = p /\ j = k) /\ Holds(m, q, j, b)
  BY <1>0, <1>1, <1>2, SetVoidHolds
<1> HIDE DEF n, gone
<1>6. Shaped(n)  BY <1>1 DEF Voided
<1>7. \A q, j : Has(n, q, j) => q \notin gone /\ Has(m, q, j)  BY <1>1 DEF Voided, Has
<1>8. Typed(n)
  <2>1. \A q \in Pages : n[q].front \in 0..127
    <3>1. 0 \in 0..127  OBVIOUS
    <3> QED  BY <1>1, <3>1 DEF Voided, Sound, Typed
  <2>2. \A q, j : Has(n, q, j) => IsWord(Word(n, q, j))
    BY <1>1, <1>7, VoidIsWord DEF Voided, Sound, Typed
  <2> QED  BY <2>1, <2>2 DEF Typed
<1>9. Kinds(n)
  <2>1. 0 \notin gone  BY <1>2, AddressesApart
  <2> QED  BY <1>1, <2>1 DEF Voided, Sound, Kinds, Pages
<1>10. NothingDangles(n)
  <2>1. SUFFICES ASSUME NEW q, NEW j, Has(n, q, j), Word(n, q, j).type \in OwnerTypes
                 PROVE  /\ Word(n, q, j).bits \in Addresses
                        /\ n[Word(n, q, j).bits].kind = Word(n, q, j).type
    BY DEF NothingDangles
  <2> DEFINE b == Word(n, q, j).bits
  <2>2. Holds(n, q, j, b)  BY <2>1 DEF Holds
  <2>3. q \notin gone /\ ~(q = p /\ j = k) /\ Holds(m, q, j, b)  BY <1>5, <2>2
  <2>4. Word(n, q, j) = Word(m, q, j)  BY <1>1, <2>1, <2>3 DEF Voided
  <2>5. b \in Addresses /\ m[b].kind = Word(m, q, j).type
    BY <2>1, <2>3, <2>4 DEF Holds, Sound, NothingDangles
  <2>6. b \notin gone  BY <1>4, <2>3
  <2> QED  BY <1>1, <2>4, <2>5, <2>6 DEF Voided, Pages
<1>11. SingleOwners(n)  BY <1>5 DEF Sound, SingleOwners
<1>12. AllOwned(n)
  <2>1. SUFFICES ASSUME NEW b \in Addresses, n[b].kind # "free" PROVE \E q, j : Holds(n, q, j, b)
    BY DEF AllOwned
  <2>2. b \notin gone /\ m[b].kind # "free"  BY <1>1, <2>1 DEF Voided, Pages
  <2>3. PICK q, j : Holds(m, q, j, b)  BY <2>2 DEF Sound, AllOwned
  <2>4. q \notin gone  BY <1>2, <2>2, <2>3 DEF Whole
  <2>5. ~(q = p /\ j = k)  BY <1>2, <1>3, <2>2, <2>3
  <2> QED  BY <1>5, <2>3, <2>4, <2>5
<1> QED  BY <1>6, <1>8, <1>9, <1>10, <1>11, <1>12 DEF Sound, n

------------------------------------------------------------------------------
(* A new owner                                                             *)

(* n is m with a new payload at a, and its owner as item k of that at p. *)
WithOwner(n, m, p, k, kind, a) ==
    /\ Shaped(n)
    /\ \A q \in Pages :
          IF q = a THEN n[q].kind = kind /\ n[q].front = 0 /\ DOMAIN n[q].items = {}
          ELSE /\ n[q].kind = m[q].kind /\ n[q].front = m[q].front
               /\ DOMAIN n[q].items = DOMAIN m[q].items
    /\ \A q, j : Has(n, q, j) =>
          Word(n, q, j) = IF q = p /\ j = k THEN Value(kind, a) ELSE Word(m, q, j)

LEMMA WithOwnerIs ==
    ASSUME NEW m, Shaped(m), NEW p \in Pages, NEW k, NEW kind, NEW a \in Addresses
    PROVE  WithOwner(Put([m EXCEPT ![a] = Payload(kind, <<>>)], <<p, k>>, Value(kind, a)),
                     m, p, k, kind, a)
<1> DEFINE r == Payload(kind, <<>>)
           e == [m EXCEPT ![a] = r]
           n == Put(e, <<p, k>>, Value(kind, a))
<1>1. r = [kind |-> kind, front |-> 0, items |-> <<>>] /\ DOMAIN r.items = {}
  BY DEF Payload
<1>2. DOMAIN e = Pages /\ \A q \in Pages : e[q] = IF q = a THEN r ELSE m[q]  BY DEF Shaped
<1>3. a \in Pages  BY DEF Pages
<1> HIDE DEF e, r
<1>4. Shaped(e)  BY <1>1, <1>2 DEF Shaped
<1>5. Written(n, e, p, k, Value(kind, a))  BY <1>4, PutIs
<1> HIDE DEF n
<1>6. \A q \in Pages :
        IF q = a THEN n[q].kind = kind /\ n[q].front = 0 /\ DOMAIN n[q].items = {}
        ELSE /\ n[q].kind = m[q].kind /\ n[q].front = m[q].front
             /\ DOMAIN n[q].items = DOMAIN m[q].items
  BY <1>1, <1>2, <1>5 DEF Written
<1>7. ASSUME NEW q, NEW j, Has(n, q, j)
      PROVE  Word(n, q, j) = IF q = p /\ j = k THEN Value(kind, a) ELSE Word(m, q, j)
  <2>1. q \in Pages /\ j \in DOMAIN n[q].items  BY <1>7 DEF Has
  <2>2. q # a  BY <1>6, <2>1
  <2>3. Has(e, q, j) /\ Word(e, q, j) = Word(m, q, j)
    BY <1>2, <1>5, <2>1, <2>2 DEF Has, Word, Written
  <2> QED  BY <1>5, <2>3 DEF Written
<1> QED  BY <1>5, <1>6, <1>7 DEF WithOwner, Written, n, e, r

LEMMA WithOwnerHolds ==
    ASSUME NEW m, Sound(m), NEW n, NEW p, NEW k, Has(m, p, k),
           Word(m, p, k).type \notin OwnerTypes,
           NEW kind \in OwnerTypes, NEW a \in Addresses, m[a].kind = "free",
           WithOwner(n, m, p, k, kind, a)
    PROVE  /\ \A q, j : Has(n, q, j) <=> Has(m, q, j)
           /\ \A q, j, b : Holds(n, q, j, b) <=> Holds(m, q, j, b) \/ (q = p /\ j = k /\ b = a)
           /\ \A q, j : ~Holds(m, q, j, a)
           /\ p # a
<1>1. DOMAIN m[a].items = {}  BY DEF Sound, Kinds
<1>2. p # a  BY <1>1 DEF Has
<1>3. \A q, j : Has(n, q, j) <=> Has(m, q, j)  BY <1>1 DEF WithOwner, Has
<1>4. Value(kind, a).type = kind /\ Value(kind, a).bits = a  BY DEF Value
<1>5. \A q, j, b : Holds(n, q, j, b) <=> Holds(m, q, j, b) \/ (q = p /\ j = k /\ b = a)
  <2> TAKE q, j, b
  <2>1. CASE q = p /\ j = k
    <3>1. Word(n, q, j) = Value(kind, a)  BY <1>3, <2>1 DEF WithOwner
    <3>2. ~Holds(m, q, j, b)  BY <2>1 DEF Holds
    <3> QED  BY <1>3, <1>4, <2>1, <3>1, <3>2 DEF Holds
  <2>2. CASE ~(q = p /\ j = k)
    <3>1. Has(n, q, j) => Word(n, q, j) = Word(m, q, j)  BY <2>2 DEF WithOwner
    <3> QED  BY <1>3, <2>2, <3>1 DEF Holds
  <2> QED  BY <2>1, <2>2
<1>6. \A q, j : ~Holds(m, q, j, a)
  <2>1. SUFFICES ASSUME NEW q, NEW j, Holds(m, q, j, a) PROVE FALSE
    OBVIOUS
  <2>2. m[a].kind \in OwnerTypes  BY <2>1 DEF Holds, Sound, NothingDangles
  <2> QED  BY <2>2 DEF OwnerTypes
<1> QED  BY <1>2, <1>3, <1>5, <1>6

LEMMA WithOwnerSound ==
    ASSUME NEW m, Sound(m), NEW n, NEW p, NEW k, Has(m, p, k),
           Word(m, p, k).type \notin OwnerTypes,
           NEW kind \in OwnerTypes, NEW a \in Addresses, m[a].kind = "free",
           WithOwner(n, m, p, k, kind, a)
    PROVE  Sound(n)
<1>1. /\ \A q, j : Has(n, q, j) <=> Has(m, q, j)
      /\ \A q, j, b : Holds(n, q, j, b) <=> Holds(m, q, j, b) \/ (q = p /\ j = k /\ b = a)
      /\ \A q, j : ~Holds(m, q, j, a)
  BY WithOwnerHolds
<1>2. Shaped(n)  BY DEF WithOwner
<1>3. Value(kind, a).type = kind /\ Value(kind, a).bits = a  BY DEF Value
<1>4. Typed(n)
  <2>1. \A q \in Pages : n[q].front \in 0..127
    <3>1. 0 \in 0..127  OBVIOUS
    <3> QED  BY <3>1 DEF WithOwner, Sound, Typed
  <2>2. IsWord(Value(kind, a))  BY <1>3 DEF IsWord
  <2>3. \A q, j : Has(n, q, j) => IsWord(Word(n, q, j))
    BY <1>1, <2>2 DEF WithOwner, Sound, Typed
  <2> QED  BY <2>1, <2>3 DEF Typed
<1>5. Kinds(n)
  <2>1. n[0].kind = "stack"  BY AddressesApart DEF WithOwner, Sound, Kinds, Pages
  <2>2. 1..0 = {} /\ 0 \in Nat  OBVIOUS
  <2>3. kind # "free"  BY DEF OwnerTypes
  <2>4. \A q \in Addresses :
          /\ n[q].kind \in OwnerTypes \cup {"free"}
          /\ n[q].kind = "free" => DOMAIN n[q].items = {}
          /\ n[q].kind = "array" => \E i \in Nat : DOMAIN n[q].items = 1..i
    <3> TAKE q \in Addresses
    <3>1. q \in Pages  BY DEF Pages
    <3>2. CASE q = a
      <4>1. n[q].kind = kind /\ DOMAIN n[q].items = {}  BY <3>1, <3>2 DEF WithOwner
      <4> QED  BY <2>2, <2>3, <4>1
    <3>3. CASE q # a
      <4>1. n[q].kind = m[q].kind /\ DOMAIN n[q].items = DOMAIN m[q].items
        BY <3>1, <3>3 DEF WithOwner
      <4>2. Kinds(m)  BY DEF Sound
      <4> QED  BY <4>1, <4>2 DEF Kinds
    <3> QED  BY <3>2, <3>3
  <2> QED  BY <2>1, <2>4 DEF Kinds
<1>6. NothingDangles(n)
  <2>1. SUFFICES ASSUME NEW q, NEW j, Has(n, q, j), Word(n, q, j).type \in OwnerTypes
                 PROVE  /\ Word(n, q, j).bits \in Addresses
                        /\ n[Word(n, q, j).bits].kind = Word(n, q, j).type
    BY DEF NothingDangles
  <2>2. CASE q = p /\ j = k
    <3>1. Word(n, q, j) = Value(kind, a)  BY <2>1, <2>2 DEF WithOwner
    <3> QED  BY <1>3, <3>1 DEF WithOwner, Pages
  <2>3. CASE ~(q = p /\ j = k)
    <3> DEFINE w == Word(m, q, j)
    <3>1. Word(n, q, j) = w /\ Has(m, q, j)  BY <1>1, <2>1, <2>3 DEF WithOwner
    <3>2. w.bits \in Addresses /\ m[w.bits].kind = w.type
      BY <2>1, <3>1 DEF Sound, NothingDangles
    <3>3. w.bits # a
      <4>1. Holds(m, q, j, w.bits)  BY <2>1, <3>1 DEF Holds
      <4> QED  BY <1>1, <4>1
    <3> QED  BY <3>1, <3>2, <3>3 DEF WithOwner, Pages
  <2> QED  BY <2>2, <2>3
<1>7. SingleOwners(n)  BY <1>1 DEF Sound, SingleOwners
<1>8. AllOwned(n)
  <2>1. SUFFICES ASSUME NEW b \in Addresses, n[b].kind # "free" PROVE \E q, j : Holds(n, q, j, b)
    BY DEF AllOwned
  <2>2. CASE b = a  BY <1>1, <2>2
  <2>3. CASE b # a
    <3>1. m[b].kind # "free"  BY <2>1, <2>3 DEF WithOwner, Pages
    <3> QED  BY <1>1, <3>1 DEF Sound, AllOwned
  <2> QED  BY <2>2, <2>3
<1> QED  BY <1>2, <1>4, <1>5, <1>6, <1>7, <1>8 DEF Sound

(* set_string, set_array and set_object, of a value not inside of itself: *)
(* the memory without what the value owned, and a new payload for it.     *)
LEMMA SetOwnerIs ==
    ASSUME NEW m, Sound(m), NEW p, NEW k, Has(m, p, k), p \notin Closure(m, Word(m, p, k)),
           NEW kind \in OwnerTypes,
           Word(m, p, k).type = kind \/ FreeIn(SetVoid(m, <<p, k>>)) # {}
    PROVE  LET c == SetVoid(m, <<p, k>>)
           IN  /\ Sound(c) /\ Has(c, p, k) /\ Word(c, p, k) = Void
               /\ Voided(c, m, Closure(m, Word(m, p, k)), p, k)
               /\ \E a \in Addresses :
                     c[a].kind = "free" /\ WithOwner(SetOwner(m, <<p, k>>, kind), c, p, k, kind, a)
<1> DEFINE v == Word(m, p, k)
           gone == Closure(m, v)
           c == SetVoid(m, <<p, k>>)
           a == IF v.type = kind THEN v.bits ELSE Fresh(c)
<1>0. p \in Pages  BY DEF Has
<1>1. Voided(c, m, gone, p, k)  BY <1>0, SetVoidIs DEF Sound
<1>2. Sound(c)  BY SetVoidSound
<1>3. Has(c, p, k)  BY <1>1 DEF Voided, Has
<1>4. Word(c, p, k) = Void  BY <1>1, <1>3 DEF Voided
<1>5. a \in Addresses /\ c[a].kind = "free"
  <2>1. CASE v.type = kind
    <3>1. v.bits \in Addresses  BY <2>1 DEF Sound, NothingDangles
    <3>2. v.bits \in gone  BY <3>1, <2>1, OwnsIs DEF Closure
    <3> HIDE DEF v, gone, c
    <3> QED  BY <1>1, <2>1, <3>1, <3>2 DEF Voided, Pages
  <2>2. CASE v.type # kind
    <3>1. FreeIn(c) # {}  BY <2>2
    <3>2. Fresh(c) \in FreeIn(c)  BY <3>1 DEF Fresh
    <3> QED  BY <2>2, <3>2 DEF FreeIn
  <2> QED  BY <2>1, <2>2
<1>6. SetOwner(m, <<p, k>>, kind) = Put([c EXCEPT ![a] = Payload(kind, <<>>)], <<p, k>>, Value(kind, a))
  BY DEF SetOwner, At, Word
<1>7. Shaped(c)  BY <1>2 DEF Sound
<1> HIDE DEF a, c
<1>8. WithOwner(SetOwner(m, <<p, k>>, kind), c, p, k, kind, a)  BY <1>0, <1>5, <1>6, <1>7, WithOwnerIs
<1> QED  BY <1>1, <1>2, <1>3, <1>4, <1>5, <1>8 DEF c

LEMMA SetOwnerSound ==
    ASSUME NEW m, Sound(m), NEW p, NEW k, Has(m, p, k), p \notin Closure(m, Word(m, p, k)),
           NEW kind \in OwnerTypes,
           Word(m, p, k).type = kind \/ FreeIn(SetVoid(m, <<p, k>>)) # {}
    PROVE  Sound(SetOwner(m, <<p, k>>, kind))
<1> DEFINE c == SetVoid(m, <<p, k>>)
<1>1. /\ Sound(c) /\ Has(c, p, k) /\ Word(c, p, k) = Void
      /\ \E a \in Addresses :
            c[a].kind = "free" /\ WithOwner(SetOwner(m, <<p, k>>, kind), c, p, k, kind, a)
  BY SetOwnerIs
<1>2. PICK a \in Addresses :
        c[a].kind = "free" /\ WithOwner(SetOwner(m, <<p, k>>, kind), c, p, k, kind, a)
  BY <1>1
<1> HIDE DEF c
<1> QED  BY <1>1, <1>2, VoidIsWord, WithOwnerSound

------------------------------------------------------------------------------
(* Exchanging two locations                                                *)

LEMMA SwapSound ==
    ASSUME NEW m, Sound(m), NEW p, NEW k, NEW q, NEW j, Has(m, p, k), Has(m, q, j)
    PROVE  Sound(Put(Put(m, <<p, k>>, Word(m, q, j)), <<q, j>>, Word(m, p, k)))
<1> DEFINE e == Put(m, <<p, k>>, Word(m, q, j))
           n == Put(e, <<q, j>>, Word(m, p, k))
<1>0. p \in Pages /\ q \in Pages  BY DEF Has
<1>1. Written(e, m, p, k, Word(m, q, j))  BY <1>0, PutIs DEF Sound
<1>2. Written(n, e, q, j, Word(m, p, k))
  <2>1. Shaped(e)  BY <1>1 DEF Written
  <2> HIDE DEF e
  <2> QED  BY <1>0, <2>1, PutIs
<1> HIDE DEF e, n
<1>3. Shaped(n)  BY <1>2 DEF Written
<1>4. \A r \in Pages : /\ n[r].kind = m[r].kind /\ n[r].front = m[r].front
                       /\ DOMAIN n[r].items = DOMAIN m[r].items
  BY <1>1, <1>2 DEF Written
<1>5. \A r, i : Has(n, r, i) <=> Has(m, r, i)  BY <1>4 DEF Has
<1>6. \A r, i : Has(m, r, i) =>
        Word(n, r, i) = IF r = q /\ i = j THEN Word(m, p, k)
                        ELSE IF r = p /\ i = k THEN Word(m, q, j) ELSE Word(m, r, i)
  <2>1. \A r, i : Has(e, r, i) <=> Has(m, r, i)  BY <1>1 DEF Written, Has
  <2> QED  BY <1>1, <1>2, <2>1 DEF Written
<1>7. Typed(n)
  <2>1. \A r \in Pages : n[r].front \in 0..127  BY <1>4 DEF Sound, Typed
  <2>2. \A r, i : Has(n, r, i) => IsWord(Word(n, r, i))  BY <1>5, <1>6 DEF Sound, Typed
  <2> QED  BY <2>1, <2>2 DEF Typed
<1>8. Kinds(n)  BY <1>4 DEF Sound, Kinds, Pages
<1>9. NothingDangles(n)
  <2>1. SUFFICES ASSUME NEW r, NEW i, Has(n, r, i), Word(n, r, i).type \in OwnerTypes
                 PROVE  /\ Word(n, r, i).bits \in Addresses
                        /\ n[Word(n, r, i).bits].kind = Word(n, r, i).type
    BY DEF NothingDangles
  <2>2. PICK s, t : Has(m, s, t) /\ Word(n, r, i) = Word(m, s, t)  BY <1>5, <1>6, <2>1
  <2>3. Word(m, s, t).bits \in Addresses /\ m[Word(m, s, t).bits].kind = Word(m, s, t).type
    BY <2>1, <2>2 DEF Sound, NothingDangles
  <2> QED  BY <1>4, <2>2, <2>3 DEF Pages
<1>10. \A r, i, b : Holds(n, r, i, b) <=>
         IF r = q /\ i = j THEN Holds(m, p, k, b)
         ELSE IF r = p /\ i = k THEN Holds(m, q, j, b) ELSE Holds(m, r, i, b)
  BY <1>5, <1>6 DEF Holds
<1>11. SingleOwners(n)
  <2>1. \A r, i, s, t, b : Holds(m, r, i, b) /\ Holds(m, s, t, b) => r = s /\ i = t
    BY DEF Sound, SingleOwners
  <2>2. SUFFICES ASSUME NEW r, NEW i, NEW s, NEW t, NEW b, Holds(n, r, i, b), Holds(n, s, t, b)
                 PROVE  r = s /\ i = t
    BY DEF SingleOwners
  <2> QED  BY <1>10, <2>1, <2>2
<1>12. AllOwned(n)
  <2>1. SUFFICES ASSUME NEW b \in Addresses, n[b].kind # "free" PROVE \E r, i : Holds(n, r, i, b)
    BY DEF AllOwned
  <2>2. m[b].kind # "free"  BY <1>4, <2>1 DEF Pages
  <2>3. PICK r, i : Holds(m, r, i, b)  BY <2>2 DEF Sound, AllOwned
  <2> QED  BY <1>10, <2>3
<1> QED  BY <1>3, <1>7, <1>8, <1>9, <1>11, <1>12 DEF Sound, n, e

------------------------------------------------------------------------------
(* Scalars                                                                 *)

LEMMA ScalarOwnsNothing ==
    ASSUME NEW v, IsScalar(v)
    PROVE  v.type \notin OwnerTypes /\ IsWord(v)
<1>1. v.type \in {"void", "bool", "unsigned", "signed", "pointer", "char", "float"}
  BY DEF IsScalar
<1> QED  BY <1>1 DEF IsWord, OwnerTypes

(* Words of the types that fit are scalars. *)
LEMMA ScalarsMade ==
    /\ \A b \in {0, 1} : IsScalar(Value("bool", b))
    /\ \A c \in 0..127 : IsScalar(Value("char", c))
    /\ \A u \in Unsigneds : IsScalar(Value("unsigned", u))
    /\ \A s \in Signeds : IsScalar(Value("signed", s))
    /\ \A f \in Int : IsScalar(Value("float", f))
<1>0. \A t, b : Value(t, b).type = t /\ Value(t, b).bits = b  BY DEF Value
<1>2. \A b \in {0, 1} : Value("bool", b) \in Scalars  BY DEF Scalars, False, True
<1>3. \A u \in Unsigneds : Value("unsigned", u) \in Scalars  BY DEF Scalars
<1>4. \A s \in Signeds : Value("signed", s) \in Scalars  BY DEF Scalars
<1>5. \A b \in {0, 1} : IsScalar(Value("bool", b))  BY <1>0, <1>2 DEF IsScalar
<1>6. \A c \in 0..127 : IsScalar(Value("char", c))  BY <1>0 DEF IsScalar
<1>7. \A u \in Unsigneds : IsScalar(Value("unsigned", u))  BY <1>0, <1>3 DEF IsScalar
<1>8. \A s \in Signeds : IsScalar(Value("signed", s))  BY <1>0, <1>4 DEF IsScalar
<1>9. \A f \in Int : IsScalar(Value("float", f))  BY <1>0 DEF IsScalar
<1> QED  BY <1>5, <1>6, <1>7, <1>8, <1>9

(* And the words of each type are in its range. *)
LEMMA ScalarsRead ==
    ASSUME NEW v, IsWord(v)
    PROVE  /\ v.type \notin OwnerTypes => IsScalar(v)
           /\ v.type = "bool" => v.bits \in {0, 1}
           /\ v.type = "char" => v.bits \in 0..127
           /\ v.type = "unsigned" => v.bits \in Unsigneds
           /\ v.type = "signed" => v.bits \in Signeds
           /\ v.type = "float" => v.bits \in Int
<1>1. v.type \notin OwnerTypes => IsScalar(v)  BY DEF IsWord
<1>2. \A w \in Scalars : /\ w.type = "bool" => w.bits \in {0, 1}
                         /\ w.type = "unsigned" => w.bits \in Unsigneds
                         /\ w.type = "signed" => w.bits \in Signeds
  BY DEF Scalars, Value, Void, False, True
<1>3. IsScalar(v) => /\ v.type \in {"bool", "unsigned", "signed"} => v \in Scalars
                     /\ v.type = "char" => v.bits \in 0..127
                     /\ v.type = "float" => v.bits \in Int
  BY DEF IsScalar
<1>4. IsScalar(v) => /\ v.type = "bool" => v.bits \in {0, 1}
                     /\ v.type = "unsigned" => v.bits \in Unsigneds
                     /\ v.type = "signed" => v.bits \in Signeds
  BY <1>2, <1>3
<1>5. CASE IsScalar(v)  BY <1>5, <1>3, <1>4
<1>6. CASE ~IsScalar(v)  BY <1>1, <1>6 DEF OwnerTypes
<1> QED  BY <1>5, <1>6

LEMMA ScalarsAreScalar ==
    ASSUME NEW v \in Scalars
    PROVE  IsScalar(v)
<1>1. \/ v.type \in {"void", "bool", "unsigned", "signed", "pointer"}
      \/ v.type = "char" /\ v.bits \in Chars
      \/ v.type = "float" /\ v.bits \in Floats
  BY DEF Scalars, Value, Void, False, True
<1> QED  BY <1>1, VariantAssumption DEF IsScalar

(* What a getter answers, unless it throws or answers nothing. *)
Answer(r) == r = Throws \/ r = Undefined \/ IsScalar(r)

LEMMA CharNumberIs ==
    ASSUME NEW c \in 0..127, NEW n \in CharNumber(c)
    PROVE  n \in Unsigneds /\ n \in Signeds /\ n \in Int
<1>1. n \in 0..9  BY DEF CharNumber, Digit, Affirmative, Negative
<1> QED  BY <1>1, VariantAssumption DEF Unsigneds, Signeds

LEMMA GetBoolIs ==
    ASSUME NEW v, IsWord(v), NEW r \in GetBool(v)
    PROVE  Answer(r)
<1>1. (r = v /\ v.type = "bool") \/ r = True \/ r = False \/ r = Throws  BY DEF GetBool, Bool
<1>2. v.type = "bool" => IsScalar(v)  BY ScalarsRead DEF OwnerTypes
<1>3. IsScalar(True) /\ IsScalar(False)  BY ScalarsMade DEF True, False
<1> QED  BY <1>1, <1>2, <1>3 DEF Answer

LEMMA GetCharIs ==
    ASSUME NEW v, IsWord(v), NEW front \in 0..127, NEW r \in GetChar(v, front)
    PROVE  Answer(r)
<1>1. v.type = "bool" => v.bits \in {0, 1}  BY ScalarsRead
<1>2. \/ r = Throws \/ r = Undefined
      \/ \E c \in 0..127 : r = Value("char", c)
  BY <1>1 DEF GetChar
<1> QED  BY <1>2, ScalarsMade DEF Answer

LEMMA InWidthIs ==
    ASSUME NEW type, NEW range, NEW f, NEW r \in InWidth(type, range, f)
    PROVE  \E x \in range : r = Value(type, x)
BY DEF InWidth

LEMMA GetUnsignedIs ==
    ASSUME NEW v, IsWord(v), NEW r \in GetUnsigned(v)
    PROVE  Answer(r)
<1>1. /\ v.type = "bool" => v.bits \in {0, 1}
      /\ v.type = "char" => v.bits \in 0..127
      /\ v.type = "unsigned" => v.bits \in Unsigneds /\ IsScalar(v)
      /\ v.type = "signed" => v.bits \in Signeds
  BY ScalarsRead DEF OwnerTypes
<1>2. {0, 1} \subseteq Unsigneds  BY VariantAssumption DEF Unsigneds
<1>3. \A s \in Signeds : s >= 0 => s \in Unsigneds  BY VariantAssumption DEF Signeds, Unsigneds
<1>4. \/ r = Throws
      \/ r = v /\ v.type = "unsigned"
      \/ \E u \in Unsigneds : r = Value("unsigned", u)
  <2>1. CASE v.type = "bool"
    <3>1. r = Value("unsigned", 1 - v.bits)  BY <2>1 DEF GetUnsigned
    <3> QED  BY <1>1, <1>2, <2>1, <3>1
  <2>2. CASE v.type = "char"
    <3>1. PICK n \in IF CharNumber(v.bits) = {} THEN Unsigneds ELSE CharNumber(v.bits) :
            r = Value("unsigned", n)
      BY <2>2 DEF GetUnsigned
    <3> QED  BY <1>1, <2>2, <3>1, CharNumberIs
  <2>3. CASE v.type = "unsigned"  BY <2>3 DEF GetUnsigned
  <2>4. CASE v.type = "signed"
    <3>0. v.bits \in Int  BY <1>1, <2>4, VariantAssumption DEF Signeds
    <3>1. (v.bits >= 0 /\ ~(v.bits < 0)) \/ (v.bits < 0 /\ ~(v.bits >= 0))  BY <3>0
    <3>2. v.bits >= 0 => r = Value("unsigned", v.bits)  BY <2>4, <3>1 DEF GetUnsigned
    <3>3. v.bits < 0 => r = Throws \/ r = Value("unsigned", 0)  BY <2>4, <3>1 DEF GetUnsigned
    <3> QED  BY <1>1, <1>2, <1>3, <2>4, <3>1, <3>2, <3>3
  <2>5. CASE v.type = "float"
    <3>1. r = Throws \/ r \in InWidth("unsigned", Unsigneds, v.bits)  BY <2>5 DEF GetUnsigned
    <3> QED  BY <3>1, InWidthIs
  <2>6. CASE v.type \notin {"bool", "char", "unsigned", "signed", "float"}
    BY <2>6 DEF GetUnsigned
  <2> QED  BY <2>1, <2>2, <2>3, <2>4, <2>5, <2>6
<1> QED  BY <1>1, <1>4, ScalarsMade DEF Answer

LEMMA GetSignedIs ==
    ASSUME NEW v, IsWord(v), NEW r \in GetSigned(v)
    PROVE  Answer(r)
<1>1. /\ v.type = "bool" => v.bits \in {0, 1}
      /\ v.type = "char" => v.bits \in 0..127
      /\ v.type = "unsigned" => v.bits \in Unsigneds
      /\ v.type = "signed" => IsScalar(v)
  BY ScalarsRead DEF OwnerTypes
<1>2. {0, 1} \subseteq Signeds  BY VariantAssumption DEF Signeds
<1>3. \A u \in Unsigneds : u \notin Signeds => u - 2 * SignBit \in Signeds
  BY VariantAssumption DEF Signeds, Unsigneds
<1>4. \/ r = Throws
      \/ r = v /\ v.type = "signed"
      \/ \E s \in Signeds : r = Value("signed", s)
  <2>1. CASE v.type = "bool"
    <3>1. r = Value("signed", 1 - v.bits)  BY <2>1 DEF GetSigned
    <3> QED  BY <1>1, <1>2, <2>1, <3>1
  <2>2. CASE v.type = "char"
    <3>1. PICK n \in IF CharNumber(v.bits) = {} THEN Signeds ELSE CharNumber(v.bits) :
            r = Value("signed", n)
      BY <2>2 DEF GetSigned
    <3> QED  BY <1>1, <2>2, <3>1, CharNumberIs
  <2>3. CASE v.type = "signed"  BY <2>3 DEF GetSigned
  <2>4. CASE v.type = "unsigned"
    <3>1. v.bits \in Signeds => r = Value("signed", v.bits)  BY <2>4 DEF GetSigned
    <3>2. v.bits \notin Signeds => r = Value("signed", v.bits - 2 * SignBit)  BY <2>4 DEF GetSigned
    <3> QED  BY <1>1, <1>3, <2>4, <3>1, <3>2
  <2>5. CASE v.type = "float"
    <3>1. r \in InWidth("signed", Signeds, v.bits)  BY <2>5 DEF GetSigned
    <3> QED  BY <3>1, InWidthIs
  <2>6. CASE v.type \notin {"bool", "char", "unsigned", "signed", "float"}
    BY <2>6 DEF GetSigned
  <2> QED  BY <2>1, <2>2, <2>3, <2>4, <2>5, <2>6
<1> QED  BY <1>1, <1>4, ScalarsMade DEF Answer

LEMMA GetFloatIs ==
    ASSUME NEW v, IsWord(v), NEW r \in GetFloat(v)
    PROVE  Answer(r)
<1>1. /\ v.type = "bool" => v.bits \in {0, 1}
      /\ v.type = "char" => v.bits \in 0..127
      /\ v.type = "float" => IsScalar(v)
  BY ScalarsRead DEF OwnerTypes
<1>2. \/ r = Throws
      \/ r = v /\ v.type = "float"
      \/ \E f \in Int : r = Value("float", f)
  <2>1. CASE v.type = "bool"
    <3>1. r = Value("float", 1 - v.bits)  BY <2>1 DEF GetFloat
    <3> QED  BY <1>1, <2>1, <3>1
  <2>2. CASE v.type = "char" /\ CharNumber(v.bits) # {}
    <3>1. PICK n \in CharNumber(v.bits) : r = Value("float", n)  BY <2>2 DEF GetFloat
    <3> QED  BY <1>1, <2>2, <3>1, CharNumberIs
  <2>3. CASE v.type \in {"unsigned", "signed"} \/ (v.type = "char" /\ CharNumber(v.bits) = {})
    <3>1. PICK f \in Floats : r = Value("float", f)  BY <2>3 DEF GetFloat
    <3> QED  BY <3>1, VariantAssumption
  <2>4. CASE v.type = "float"  BY <2>4 DEF GetFloat
  <2>5. CASE v.type \notin {"bool", "char", "unsigned", "signed", "float"}
    BY <2>5 DEF GetFloat
  <2> QED  BY <2>1, <2>2, <2>3, <2>4, <2>5
<1> QED  BY <1>1, <1>2, ScalarsMade DEF Answer

LEMMA GetIs ==
    ASSUME NEW v, IsWord(v), NEW front \in 0..127, NEW type \in ScalarTypes \ {"void"},
           NEW r \in GetInPlace(v, front, type)
    PROVE  Answer(r)
<1>1. CASE v.type = type
  <2>1. r = v  BY <1>1 DEF GetInPlace
  <2>2. IsScalar(v)  BY <1>1, ScalarsRead DEF ScalarTypes, OwnerTypes
  <2> QED  BY <2>1, <2>2 DEF Answer
<1>2. CASE v.type # type
  <2>1. r \in Get(v, front, type)  BY <1>2 DEF GetInPlace
  <2>2. CASE type = "bool"  BY <2>1, <2>2, GetBoolIs DEF Get
  <2>3. CASE type = "char"  BY <2>1, <2>3, GetCharIs DEF Get
  <2>4. CASE type = "unsigned"  BY <2>1, <2>4, GetUnsignedIs DEF Get
  <2>5. CASE type = "signed"  BY <2>1, <2>5, GetSignedIs DEF Get
  <2>6. CASE type = "float"  BY <2>1, <2>6, GetFloatIs DEF Get
  <2>7. CASE type = "pointer"
    <3>1. v.type # "pointer" /\ r = Throws  BY <1>2, <2>1, <2>7 DEF Get, GetPointer
    <3> QED  BY <3>1 DEF Answer
  <2> QED  BY <2>2, <2>3, <2>4, <2>5, <2>6, <2>7 DEF ScalarTypes
<1> QED  BY <1>1, <1>2

(* A scalar instead of what a location had. *)
LEMMA ScalarSetSound ==
    ASSUME NEW m, Sound(m), NEW p, NEW k, Has(m, p, k), NEW w, IsScalar(w)
    PROVE  Sound(Put(SetVoid(m, <<p, k>>), <<p, k>>, w))
<1> DEFINE c == SetVoid(m, <<p, k>>)
<1>0. p \in Pages  BY DEF Has
<1>1. Sound(c)  BY SetVoidSound
<1>2. Voided(c, m, Closure(m, Word(m, p, k)), p, k)  BY <1>0, SetVoidIs DEF Sound
<1>3. Has(c, p, k) => Word(c, p, k) = Void  BY <1>2 DEF Voided
<1> HIDE DEF c
<1>4. Written(Put(c, <<p, k>>, w), c, p, k, w)  BY <1>0, <1>1, PutIs DEF Sound
<1>5. w.type \notin OwnerTypes /\ IsWord(w)  BY ScalarOwnsNothing
<1> QED  BY <1>1, <1>3, <1>4, <1>5, VoidIsWord, ScalarWrittenSound DEF c

(* A readable character of a copy, and the other words of copies. *)
Readable(v) == ~(v.type = "char" /\ GetChar(v, 0) = {Throws})

LEMMA CopyOfIs ==
    ASSUME NEW v, IsWord(v), NEW f
    PROVE  /\ v.type \in OwnerTypes =>
                CopyOf(v, f).type = v.type /\ CopyOf(v, f).bits = f[v.bits]
           /\ v.type \notin OwnerTypes /\ Readable(v) => IsScalar(CopyOf(v, f))
<1>1. CASE v.type \in OwnerTypes
  <2>1. v.type # "char"  BY <1>1 DEF OwnerTypes
  <2>2. CopyOf(v, f) = Value(v.type, f[v.bits])  BY <1>1, <2>1 DEF CopyOf
  <2> QED  BY <1>1, <2>2 DEF Value
<1>2. CASE v.type \notin OwnerTypes /\ v.type = "char" /\ Readable(v)
  <2>1. GetChar(v, 0) \in {{Throws}, {Value("char", 1)}, {Value("char", 0)}}  BY <1>2 DEF GetChar
  <2>2. PICK c \in {0, 1} : GetChar(v, 0) = {Value("char", c)}  BY <1>2, <2>1 DEF Readable
  <2>3. CopyOf(v, f) = CHOOSE r \in GetChar(v, 0) : TRUE  BY <1>2 DEF CopyOf
  <2>4. CopyOf(v, f) = Value("char", c)  BY <2>2, <2>3
  <2>5. c \in 0..127  OBVIOUS
  <2> QED  BY <1>2, <2>4, <2>5, ScalarsMade
<1>3. CASE v.type \notin OwnerTypes /\ v.type # "char"
  <2>1. CopyOf(v, f) = v  BY <1>3 DEF CopyOf
  <2> QED  BY <1>3, <2>1, ScalarsRead
<1> QED  BY <1>1, <1>2, <1>3

------------------------------------------------------------------------------
(* Copies                                                                  *)

(* w owns what v owns, at b instead. *)
Like(w, v, b) ==
    /\ w.type \in OwnerTypes <=> v.type \in OwnerTypes
    /\ v.type \in OwnerTypes => w.type = v.type /\ w.bits = b

(* n is m with other scalars. *)
Alike(n, m) ==
    /\ Shaped(n) /\ Typed(n)
    /\ \A q \in Pages : n[q].kind = m[q].kind /\ DOMAIN n[q].items = DOMAIN m[q].items
    /\ \A q, j : Has(m, q, j) => Like(Word(n, q, j), Word(m, q, j), Word(m, q, j).bits)

LEMMA AlikeHolds ==
    ASSUME NEW m, NEW n, Alike(n, m)
    PROVE  /\ \A q, j : Has(n, q, j) <=> Has(m, q, j)
           /\ \A q, j, b : Holds(n, q, j, b) <=> Holds(m, q, j, b)
<1>1. \A q, j : Has(n, q, j) <=> Has(m, q, j)  BY DEF Alike, Has
<1> QED  BY <1>1 DEF Alike, Holds, Like

LEMMA AlikeSound ==
    ASSUME NEW m, Sound(m), NEW n, Alike(n, m)
    PROVE  Sound(n)
<1>1. /\ \A q, j : Has(n, q, j) <=> Has(m, q, j)
      /\ \A q, j, b : Holds(n, q, j, b) <=> Holds(m, q, j, b)
  BY AlikeHolds
<1>2. Shaped(n) /\ Typed(n)  BY DEF Alike
<1>3. Kinds(n)  BY DEF Alike, Sound, Kinds, Pages
<1>4. NothingDangles(n)
  <2>1. SUFFICES ASSUME NEW q, NEW j, Has(n, q, j), Word(n, q, j).type \in OwnerTypes
                 PROVE  /\ Word(n, q, j).bits \in Addresses
                        /\ n[Word(n, q, j).bits].kind = Word(n, q, j).type
    BY DEF NothingDangles
  <2> DEFINE w == Word(m, q, j)
  <2>2. /\ Has(m, q, j) /\ w.type \in OwnerTypes
        /\ Word(n, q, j).type = w.type /\ Word(n, q, j).bits = w.bits
    BY <1>1, <2>1 DEF Alike, Like
  <2>3. w.bits \in Addresses /\ m[w.bits].kind = w.type  BY <2>2 DEF Sound, NothingDangles
  <2> QED  BY <2>2, <2>3 DEF Alike, Pages
<1>5. SingleOwners(n)  BY <1>1 DEF Sound, SingleOwners
<1>6. AllOwned(n)  BY <1>1 DEF Alike, Sound, AllOwned, Pages
<1> QED  BY <1>2, <1>3, <1>4, <1>5, <1>6 DEF Sound

LEMMA FrontSetSound ==
    ASSUME NEW m, Sound(m), NEW a \in Addresses, NEW front \in 0..127
    PROVE  Sound([m EXCEPT ![a].front = front])
<1> DEFINE r == [m[a] EXCEPT !.front = front]
           n == [m EXCEPT ![a] = r]
<1>1. m[a] = [kind |-> m[a].kind, front |-> m[a].front, items |-> m[a].items]
  BY DEF Sound, Shaped, Pages
<1>2. r = [kind |-> m[a].kind, front |-> front, items |-> m[a].items]  BY <1>1
<1>3. /\ r.kind = m[a].kind /\ r.front = front /\ r.items = m[a].items
      /\ r = [kind |-> r.kind, front |-> r.front, items |-> r.items]
  BY <1>2
<1> HIDE DEF r
<1>4. DOMAIN n = Pages /\ \A q \in Pages : n[q] = IF q = a THEN r ELSE m[q]
  BY DEF Sound, Shaped
<1> HIDE DEF n
<1>5. \A q \in Pages : n[q].kind = m[q].kind /\ n[q].items = m[q].items  BY <1>3, <1>4
<1>6. \A q, j : Has(n, q, j) <=> Has(m, q, j)  BY <1>5 DEF Has
<1>7. \A q, j : Has(m, q, j) => Word(n, q, j) = Word(m, q, j)  BY <1>5 DEF Has, Word
<1>8. Shaped(n)  BY <1>3, <1>4 DEF Sound, Shaped
<1>9. Typed(n)  BY <1>3, <1>4, <1>6, <1>7 DEF Sound, Typed
<1>10. Alike(n, m)  BY <1>5, <1>7, <1>8, <1>9 DEF Alike, Like
<1> QED  BY <1>10, AlikeSound DEF n, r

(* n has copies of the payloads of B in e at the addresses g, and is         *)
(* otherwise e with other scalars.                                          *)
Target(B, g, a) == \E q \in B : a = g[q]

Grafted(n, e, B, g) ==
    /\ Shaped(n) /\ Typed(n)
    /\ \A q \in B :
         /\ n[g[q]].kind = e[q].kind
         /\ DOMAIN n[g[q]].items = DOMAIN e[q].items
    /\ \A q, j : q \in B /\ Has(e, q, j) =>
         Like(Word(n, g[q], j), Word(e, q, j), g[Word(e, q, j).bits])
    /\ \A a \in Pages : ~Target(B, g, a) =>
         /\ n[a].kind = e[a].kind
         /\ DOMAIN n[a].items = DOMAIN e[a].items
    /\ \A a, j : ~Target(B, g, a) /\ Has(e, a, j) =>
         Like(Word(n, a, j), Word(e, a, j), Word(e, a, j).bits)

(* Where copies can be put: the payloads of B are those below the ones of X, *)
(* which nothing in B owns, and the addresses are apart and free, except     *)
(* that a copy of one of X may replace an empty payload of its kind.         *)
Graft(e, B, g, X) ==
    /\ B \subseteq Addresses /\ X \subseteq B /\ Whole(e, B)
    /\ \A q \in B : g[q] \in Addresses /\ DOMAIN e[g[q]].items = {}
    /\ \A p, q \in B : g[p] = g[q] => p = q
    /\ \A q \in B : e[g[q]].kind = "free" \/ (q \in X /\ e[g[q]].kind = e[q].kind)
    /\ \A p, k, q : p \in B /\ Holds(e, p, k, q) => q \notin X
    /\ \A q \in B \ X : \E p, k : p \in B /\ Holds(e, p, k, q)

(* The copy of q owns the copies of what q owns. *)
OwnsCopies(n, e, B, g, q, j, b) ==
    Holds(n, g[q], j, b) <=> \E c \in B : Holds(e, q, j, c) /\ b = g[c]

LEMMA GraftedHolds ==
    ASSUME NEW e, NEW n, NEW B, NEW g, NEW X, Graft(e, B, g, X), Grafted(n, e, B, g)
    PROVE  /\ \A q \in B : \A j, b : OwnsCopies(n, e, B, g, q, j, b)
           /\ \A a, j, b : ~Target(B, g, a) => (Holds(n, a, j, b) <=> Holds(e, a, j, b))
<1>1. ASSUME NEW q \in B, NEW j, NEW b
      PROVE  OwnsCopies(n, e, B, g, q, j, b)
  <2>1. q \in Pages /\ g[q] \in Pages  BY DEF Graft, Pages
  <2>2. Has(n, g[q], j) <=> Has(e, q, j)  BY <2>1 DEF Grafted, Has
  <2> DEFINE v == Word(e, q, j)
             w == Word(n, g[q], j)
  <2>3. Has(e, q, j) => Like(w, v, g[v.bits])  BY DEF Grafted
  <2>4. Has(e, q, j) /\ v.type \in OwnerTypes => Holds(e, q, j, v.bits) /\ v.bits \in B
    BY DEF Holds, Graft, Whole
  <2>5. \A c : Holds(e, q, j, c) <=> Has(e, q, j) /\ v.type \in OwnerTypes /\ c = v.bits
    BY DEF Holds
  <2>6. Holds(n, g[q], j, b) <=> Has(n, g[q], j) /\ w.type \in OwnerTypes /\ w.bits = b
    BY DEF Holds
  <2> HIDE DEF v, w
  <2>7. Holds(n, g[q], j, b) <=> \E c \in B : Holds(e, q, j, c) /\ b = g[c]
    BY <2>2, <2>3, <2>4, <2>5, <2>6 DEF Like
  <2> QED  BY <2>7 DEF OwnsCopies
<1>2. ASSUME NEW a, NEW j, NEW b, ~Target(B, g, a)
      PROVE  Holds(n, a, j, b) <=> Holds(e, a, j, b)
  <2>1. Has(n, a, j) <=> Has(e, a, j)  BY <1>2 DEF Grafted, Has
  <2>2. Has(e, a, j) => Like(Word(n, a, j), Word(e, a, j), Word(e, a, j).bits)
    BY <1>2 DEF Grafted
  <2> QED  BY <2>1, <2>2 DEF Holds, Like
<1> QED  BY <1>1, <1>2

(* A sound memory, but for the payloads of R, which are there for an owner *)
(* that has still to be written.                                           *)
SoundBut(m, R) ==
    /\ Shaped(m)
    /\ Typed(m)
    /\ Kinds(m)
    /\ NothingDangles(m)
    /\ SingleOwners(m)
    /\ \A b \in Addresses \ R : m[b].kind # "free" => \E p, k : Holds(m, p, k, b)
    /\ \A b \in R : \A p, k : ~Holds(m, p, k, b)

LEMMA GraftedSound ==
    ASSUME NEW e, Sound(e), NEW n, NEW B, NEW g, NEW X, Graft(e, B, g, X), Grafted(n, e, B, g)
    PROVE  SoundBut(n, {g[x] : x \in {y \in X : e[g[y]].kind = "free"}})
<1>1. /\ \A q \in B : \A j, b : OwnsCopies(n, e, B, g, q, j, b)
      /\ \A a, j, b : ~Target(B, g, a) => (Holds(n, a, j, b) <=> Holds(e, a, j, b))
  BY GraftedHolds
<1>2. ASSUME NEW q \in B, NEW j, NEW b, Holds(n, g[q], j, b)
      PROVE  \E c \in B : Holds(e, q, j, c) /\ b = g[c]
  <2>1. OwnsCopies(n, e, B, g, q, j, b)  BY <1>1
  <2> QED  BY <1>2, <2>1 DEF OwnsCopies
<1>3. \A a : Target(B, g, a) => a \in Addresses /\ DOMAIN e[a].items = {}
  BY DEF Graft, Target
<1>4. Shaped(n) /\ Typed(n)  BY DEF Grafted
<1>5. Kinds(n)
  <2>1. n[0].kind = "stack"
    BY <1>3, AddressesApart DEF Grafted, Sound, Kinds, Pages
  <2>2. ASSUME NEW a \in Addresses
        PROVE  /\ n[a].kind \in OwnerTypes \cup {"free"}
               /\ n[a].kind = "free" => DOMAIN n[a].items = {}
               /\ n[a].kind = "array" => \E i \in Nat : DOMAIN n[a].items = 1..i
    <3>1. CASE Target(B, g, a)
      <4>1. PICK q \in B : a = g[q]  BY <3>1 DEF Target
      <4>2. q \in Addresses  BY DEF Graft
      <4>3. n[a].kind = e[q].kind /\ DOMAIN n[a].items = DOMAIN e[q].items
        BY <4>1 DEF Grafted
      <4> QED  BY <4>2, <4>3 DEF Sound, Kinds
    <3>2. CASE ~Target(B, g, a)
      <4>1. n[a].kind = e[a].kind /\ DOMAIN n[a].items = DOMAIN e[a].items
        BY <3>2 DEF Grafted, Pages
      <4> QED  BY <4>1 DEF Sound, Kinds
    <3> QED  BY <3>1, <3>2
  <2> QED  BY <2>1, <2>2 DEF Kinds
<1>6. \A a, j, b : Holds(e, a, j, b) => ~Target(B, g, a)  BY <1>3 DEF Holds, Has
<1>7. NothingDangles(n)
  <2>1. SUFFICES ASSUME NEW a, NEW j, Has(n, a, j), Word(n, a, j).type \in OwnerTypes
                 PROVE  /\ Word(n, a, j).bits \in Addresses
                        /\ n[Word(n, a, j).bits].kind = Word(n, a, j).type
    BY DEF NothingDangles
  <2> DEFINE w == Word(n, a, j)
  <2>2. CASE Target(B, g, a)
    <3>1. PICK q \in B : a = g[q]  BY <2>2 DEF Target
    <3>2. Holds(n, g[q], j, w.bits)  BY <2>1, <3>1 DEF Holds
    <3>3. PICK c \in B : Holds(e, q, j, c) /\ w.bits = g[c]  BY <1>2, <3>2
    <3>4. w.type = Word(e, q, j).type
      <4>1. Has(e, q, j) /\ Word(e, q, j).type \in OwnerTypes  BY <3>3 DEF Holds
      <4> QED  BY <3>1, <4>1 DEF Grafted, Like
    <3>5. e[c].kind = Word(e, q, j).type  BY <3>3 DEF Holds, Sound, NothingDangles
    <3> QED  BY <3>3, <3>4, <3>5 DEF Grafted, Graft
  <2>3. CASE ~Target(B, g, a)
    <3>1. Holds(n, a, j, w.bits)  BY <2>1 DEF Holds
    <3>2. Holds(e, a, j, w.bits)  BY <1>1, <2>3, <3>1
    <3>3. w.type = Word(e, a, j).type /\ w.bits \in Addresses /\ e[w.bits].kind = Word(e, a, j).type
      <4>1. Has(e, a, j) /\ Word(e, a, j).type \in OwnerTypes /\ Word(e, a, j).bits = w.bits
        BY <3>2 DEF Holds
      <4> QED  BY <2>3, <4>1 DEF Grafted, Like, Sound, NothingDangles
    <3>4. CASE Target(B, g, w.bits)
      <4>1. PICK q \in B : w.bits = g[q]  BY <3>4 DEF Target
      <4>2. e[g[q]].kind # "free"  BY <2>1, <3>3, <4>1 DEF OwnerTypes
      <4>3. e[g[q]].kind = e[q].kind  BY <4>2 DEF Graft
      <4> QED  BY <3>3, <4>1, <4>3 DEF Grafted
    <3>5. CASE ~Target(B, g, w.bits)  BY <3>3, <3>5 DEF Grafted, Pages
    <3> QED  BY <3>4, <3>5
  <2> QED  BY <2>2, <2>3
<1>8. \A q \in B : \A p, k : Holds(e, p, k, g[q]) => q \in X /\ e[g[q]].kind # "free"
  <2>1. SUFFICES ASSUME NEW q \in B, NEW p, NEW k, Holds(e, p, k, g[q])
                 PROVE  q \in X /\ e[g[q]].kind # "free"
    OBVIOUS
  <2>2. e[g[q]].kind \in OwnerTypes  BY <2>1 DEF Holds, Sound, NothingDangles
  <2> QED  BY <2>2 DEF Graft, OwnerTypes
<1>9. SingleOwners(n)
  <2>1. SUFFICES ASSUME NEW a, NEW j, NEW d, NEW i, NEW b, Holds(n, a, j, b), Holds(n, d, i, b)
                 PROVE  a = d /\ j = i
    BY DEF SingleOwners
  <2>2. CASE Target(B, g, a) /\ Target(B, g, d)
    <3>1. PICK q \in B : a = g[q]  BY <2>2 DEF Target
    <3>2. PICK r \in B : d = g[r]  BY <2>2 DEF Target
    <3>3. Holds(n, g[q], j, b)  BY <2>1, <3>1
    <3>4. PICK c \in B : Holds(e, q, j, c) /\ b = g[c]  BY <1>2, <3>3
    <3>5. Holds(n, g[r], i, b)  BY <2>1, <3>2
    <3>6. PICK x \in B : Holds(e, r, i, x) /\ b = g[x]  BY <1>2, <3>5
    <3>7. c = x  BY <3>4, <3>6 DEF Graft
    <3> QED  BY <3>1, <3>2, <3>4, <3>6, <3>7 DEF Sound, SingleOwners
  <2>3. ASSUME NEW a2, NEW j2, NEW d2, NEW i2, Holds(n, a2, j2, b), Holds(n, d2, i2, b),
               Target(B, g, a2), ~Target(B, g, d2)
        PROVE  FALSE
    <3>1. PICK q \in B : a2 = g[q]  BY <2>3 DEF Target
    <3>2. Holds(n, g[q], j2, b)  BY <2>3, <3>1
    <3>3. PICK c \in B : Holds(e, q, j2, c) /\ b = g[c]  BY <1>2, <3>2
    <3>4. Holds(e, d2, i2, g[c])  BY <1>1, <2>3, <3>3
    <3>5. c \in X  BY <1>8, <3>4
    <3> QED  BY <3>3, <3>5 DEF Graft
  <2>4. CASE ~Target(B, g, a) /\ ~Target(B, g, d)
    BY <1>1, <2>1, <2>4 DEF Sound, SingleOwners
  <2> QED  BY <2>1, <2>2, <2>3, <2>4
<1> DEFINE R == {g[x] : x \in {y \in X : e[g[y]].kind = "free"}}
<1>10. ASSUME NEW b \in Addresses \ R, n[b].kind # "free"
       PROVE  \E p, k : Holds(n, p, k, b)
  <2>1. CASE Target(B, g, b)
    <3>1. PICK q \in B : b = g[q]  BY <2>1 DEF Target
    <3>2. CASE q \in X
      <4>1. e[b].kind # "free"  BY <1>10, <3>1, <3>2
      <4>2. PICK p, k : Holds(e, p, k, b)  BY <4>1 DEF Sound, AllOwned
      <4> QED  BY <1>1, <1>6, <4>2
    <3>3. CASE q \notin X
      <4>1. PICK p, k : p \in B /\ Holds(e, p, k, q)  BY <3>3 DEF Graft
      <4>2. OwnsCopies(n, e, B, g, p, k, b)  BY <1>1, <4>1
      <4>3. Holds(n, g[p], k, b)  BY <3>1, <4>1, <4>2 DEF OwnsCopies
      <4> QED  BY <4>3
    <3> QED  BY <3>2, <3>3
  <2>2. CASE ~Target(B, g, b)
    <3>1. e[b].kind # "free"  BY <1>10, <2>2 DEF Grafted, Pages
    <3>2. PICK p, k : Holds(e, p, k, b)  BY <3>1 DEF Sound, AllOwned
    <3> QED  BY <1>1, <1>6, <3>2
  <2> QED  BY <2>1, <2>2
<1>11. ASSUME NEW b \in R, NEW p, NEW k, Holds(n, p, k, b)
       PROVE  FALSE
  <2>1. PICK x \in X : b = g[x] /\ e[g[x]].kind = "free"  OBVIOUS
  <2>2. x \in B  BY DEF Graft
  <2>3. CASE Target(B, g, p)
    <3>1. PICK q \in B : p = g[q]  BY <2>3 DEF Target
    <3>2. Holds(n, g[q], k, b)  BY <1>11, <3>1
    <3>3. PICK c \in B : Holds(e, q, k, c) /\ b = g[c]  BY <1>2, <3>2
    <3>4. c = x  BY <2>1, <2>2, <3>3 DEF Graft
    <3> QED  BY <3>3, <3>4 DEF Graft
  <2>4. CASE ~Target(B, g, p)
    <3>1. Holds(e, p, k, g[x])  BY <1>1, <1>11, <2>1, <2>4
    <3> QED  BY <1>8, <2>1, <2>2, <3>1
  <2> QED  BY <2>3, <2>4
<1> HIDE DEF R
<1> QED  BY <1>4, <1>5, <1>7, <1>9, <1>10, <1>11 DEF SoundBut, R

(* What Planted makes of a payload. *)
CopyOfPage(m, q, g) ==
    [kind |-> m[q].kind, front |-> m[q].front,
     items |-> [k \in DOMAIN m[q].items |-> CopyOf(m[q].items[k], g)]]

(* Copies at addresses that are apart, and the memory they are put into. *)
Apart(B, g) ==
    /\ \A q \in B : g[q] \in Addresses
    /\ \A p, q \in B : g[p] = g[q] => p = q

HasCopies(n, m, B, g) ==
    /\ DOMAIN n = Pages
    /\ \A q \in B : n[g[q]] = CopyOfPage(m, q, g)
    /\ \A a \in Pages : ~Target(B, g, a) => n[a] = m[a]

LEMMA PlantedIs ==
    ASSUME NEW m, Shaped(m), NEW B \in SUBSET Addresses, NEW g, Apart(B, g)
    PROVE  HasCopies(Planted(m, B, g), m, B, g)
<1> DEFINE original(a) == CHOOSE p \in B : g[p] = a
           copy(q) == [m[q] EXCEPT !.items = [k \in DOMAIN @ |-> CopyOf(@[k], g)]]
           new == {g[p] : p \in B}
           n == [a \in DOMAIN m |-> IF a \in new THEN copy(original(a)) ELSE m[a]]
<1>1. Planted(m, B, g) = n  BY DEF Planted
<1>2. DOMAIN m = Pages  BY DEF Shaped
<1>3. DOMAIN n = Pages  BY <1>2
<1>4. ASSUME NEW q \in B
      PROVE  n[g[q]] = CopyOfPage(m, q, g)
  <2>1. g[q] \in Pages /\ g[q] \in new /\ q \in Pages  BY DEF Pages, Apart
  <2>2. original(g[q]) = q  BY DEF Apart
  <2>3. n[g[q]] = copy(original(g[q]))  BY <1>2, <2>1
  <2>4. n[g[q]] = copy(q)  BY <2>2, <2>3
  <2>5. m[q] = [kind |-> m[q].kind, front |-> m[q].front, items |-> m[q].items]
    BY <2>1 DEF Shaped
  <2>6. copy(q) = CopyOfPage(m, q, g)
    BY <2>5 DEF CopyOfPage
  <2> HIDE DEF n, copy, original
  <2> QED  BY <2>4, <2>6
<1>5. ASSUME NEW a \in Pages, ~Target(B, g, a)
      PROVE  n[a] = m[a]
  <2>1. a \notin new  BY <1>5 DEF Target
  <2> HIDE DEF new
  <2> QED  BY <1>2, <2>1
<1> HIDE DEF n
<1> QED  BY <1>1, <1>3, <1>4, <1>5 DEF HasCopies

(* Nothing that the payloads of B hold throws when it is copied. *)
Readables(m, B) == \A q, j : q \in B /\ Has(m, q, j) => Readable(Word(m, q, j))

LEMMA ReadableIs ==
    ASSUME NEW m, NEW v, NothingDangles(m), Owns(v) \subseteq Addresses, ~Unreadable(m, v)
    PROVE  Readable(v) /\ Readables(m, Closure(m, v))
<1>1. Readable(v)  BY DEF Unreadable, Readable
<1>2. ASSUME NEW q, NEW j, q \in Closure(m, v), Has(m, q, j)
      PROVE  Readable(Word(m, q, j))
  <2>1. Closure(m, v) \subseteq Pages  BY ClosureIs DEF Pages
  <2>2. <<q, j>> \in LocationsIn(m, Closure(m, v))  BY <1>2, <2>1, LocationsAre DEF Has
  <2>3. At(m, <<q, j>>) = Word(m, q, j)  BY DEF At, Word
  <2> QED  BY <2>2, <2>3 DEF Unreadable, Readable
<1> QED  BY <1>1, <1>2 DEF Readables

(* Copies put into a memory whose scalars may have changed meanwhile. *)
LEMMA PlantedGrafted ==
    ASSUME NEW e, Sound(e), NEW h, Alike(h, e), NEW B, NEW g, NEW X, Graft(e, B, g, X),
           Readables(e, B), NEW n, DOMAIN n = Pages,
           \A a \in Pages : n[a] = IF Target(B, g, a) THEN Planted(e, B, g)[a] ELSE h[a]
    PROVE  Grafted(n, e, B, g)
<1>1. ASSUME NEW q \in B
      PROVE  /\ q \in Pages /\ g[q] \in Pages
             /\ n[g[q]] = CopyOfPage(e, q, g)
  <2>1. q \in Pages /\ g[q] \in Pages /\ Target(B, g, g[q])  BY DEF Graft, Pages, Target
  <2>2. n[g[q]] = Planted(e, B, g)[g[q]]  BY <2>1
  <2>3. Shaped(e) /\ B \in SUBSET Addresses  BY DEF Sound, Graft
  <2>4. Apart(B, g)  BY DEF Graft, Apart
  <2>5. HasCopies(Planted(e, B, g), e, B, g)  BY <2>3, <2>4, PlantedIs
  <2> QED  BY <2>1, <2>2, <2>5 DEF HasCopies
<1>2. ASSUME NEW q \in B
      PROVE  /\ n[g[q]].kind = e[q].kind /\ n[g[q]].front = e[q].front
             /\ n[g[q]] = [kind |-> n[g[q]].kind, front |-> n[g[q]].front, items |-> n[g[q]].items]
             /\ DOMAIN n[g[q]].items = DOMAIN e[q].items
             /\ \A j \in DOMAIN e[q].items : n[g[q]].items[j] = CopyOf(e[q].items[j], g)
  <2>1. n[g[q]] = CopyOfPage(e, q, g)
    BY <1>1
  <2> QED  BY <2>1 DEF CopyOfPage
<1>3. ASSUME NEW q, NEW j, q \in B, Has(e, q, j)
      PROVE  /\ Like(Word(n, g[q], j), Word(e, q, j), g[Word(e, q, j).bits])
             /\ IsWord(Word(n, g[q], j))
  <2> DEFINE v == Word(e, q, j)
             w == Word(n, g[q], j)
  <2>1. w = CopyOf(v, g)  BY <1>2, <1>3 DEF Word, Has
  <2>2. IsWord(v) /\ Readable(v)  BY <1>3 DEF Sound, Typed, Readables
  <2>3. v.type \in OwnerTypes => v.bits \in B  BY <1>3 DEF Graft, Whole, Holds
  <2> HIDE DEF v, w
  <2>4. CASE v.type \in OwnerTypes
    <3>1. w.type = v.type /\ w.bits = g[v.bits]  BY <2>1, <2>2, <2>4, CopyOfIs
    <3>2. g[v.bits] \in Addresses  BY <2>3, <2>4 DEF Graft
    <3> QED  BY <2>4, <3>1, <3>2 DEF Like, IsWord, v, w
  <2>5. CASE v.type \notin OwnerTypes
    <3>1. IsScalar(w)  BY <2>1, <2>2, <2>5, CopyOfIs
    <3>2. w.type \notin OwnerTypes /\ IsWord(w)  BY <3>1, ScalarOwnsNothing
    <3> QED  BY <2>5, <3>2 DEF Like, v, w
  <2> QED  BY <2>4, <2>5
<1>4. ASSUME NEW a \in Pages, ~Target(B, g, a)
      PROVE  /\ n[a] = h[a] /\ n[a].kind = e[a].kind
             /\ DOMAIN n[a].items = DOMAIN e[a].items
  BY <1>4 DEF Alike
<1>5. Shaped(n)
  <2>1. ASSUME NEW a \in Pages
        PROVE  n[a] = [kind |-> n[a].kind, front |-> n[a].front, items |-> n[a].items]
    <3>1. CASE Target(B, g, a)  BY <1>2, <3>1 DEF Target
    <3>2. CASE ~Target(B, g, a)  BY <1>4, <3>2 DEF Alike, Shaped
    <3> QED  BY <3>1, <3>2
  <2> QED  BY <2>1 DEF Shaped
<1>6. Typed(n)
  <2>1. ASSUME NEW a \in Pages
        PROVE  n[a].front \in 0..127
    <3>1. CASE Target(B, g, a)
      <4>1. PICK q \in B : a = g[q]  BY <3>1 DEF Target
      <4>2. n[a].front = e[q].front /\ q \in Pages  BY <1>1, <1>2, <4>1
      <4> QED  BY <4>2 DEF Sound, Typed
    <3>2. CASE ~Target(B, g, a)  BY <1>4, <3>2 DEF Alike, Typed
    <3> QED  BY <3>1, <3>2
  <2>2. ASSUME NEW a, NEW j, Has(n, a, j)
        PROVE  IsWord(Word(n, a, j))
    <3>0. a \in Pages  BY <2>2 DEF Has
    <3>1. CASE Target(B, g, a)
      <4>1. PICK q \in B : a = g[q]  BY <3>1 DEF Target
      <4>2. Has(e, q, j)  BY <1>1, <1>2, <2>2, <4>1 DEF Has
      <4> QED  BY <1>3, <4>1, <4>2
    <3>2. CASE ~Target(B, g, a)
      <4>1. n[a] = h[a]  BY <1>4, <3>0, <3>2
      <4> QED  BY <2>2, <4>1 DEF Alike, Typed, Has, Word
    <3> QED  BY <3>1, <3>2
  <2> QED  BY <2>1, <2>2 DEF Typed
<1>7. ASSUME NEW a, NEW j, ~Target(B, g, a), Has(e, a, j)
      PROVE  Like(Word(n, a, j), Word(e, a, j), Word(e, a, j).bits)
  <2>1. n[a] = h[a]  BY <1>4, <1>7 DEF Has
  <2>2. Word(n, a, j) = Word(h, a, j)  BY <2>1 DEF Word
  <2> QED  BY <1>7, <2>2 DEF Alike
<1> QED  BY <1>2, <1>3, <1>4, <1>5, <1>6, <1>7 DEF Grafted

LEMMA AlikeItself ==
    ASSUME NEW m, Sound(m)
    PROVE  Alike(m, m)
BY DEF Alike, Sound, Like

(* Storage that is exchanged for longer storage: copies in the same places. *)
InPlace(B, g) == \A q \in B : g[q] = q

LEMMA GrownAlike ==
    ASSUME NEW m, Sound(m), NEW B \in SUBSET Addresses, Whole(m, B), Readables(m, B),
           NEW g, InPlace(B, g)
    PROVE  Alike(Planted(m, B, g), m)
<1> DEFINE n == Planted(m, B, g)
<1>1. \A q \in B : g[q] = q  BY DEF InPlace
<1>2. \A a : Target(B, g, a) <=> a \in B  BY <1>1 DEF Target
<1>3. HasCopies(n, m, B, g)
  <2>1. Apart(B, g)  BY <1>1 DEF Apart
  <2> QED  BY <2>1, PlantedIs DEF Sound
<1> HIDE DEF n
<1>4. ASSUME NEW q \in B
      PROVE  /\ n[q].kind = m[q].kind /\ n[q].front = m[q].front
             /\ n[q] = [kind |-> n[q].kind, front |-> n[q].front, items |-> n[q].items]
             /\ DOMAIN n[q].items = DOMAIN m[q].items
             /\ \A j \in DOMAIN m[q].items : n[q].items[j] = CopyOf(m[q].items[j], g)
  <2>1. n[q] = CopyOfPage(m, q, g)  BY <1>1, <1>3 DEF HasCopies
  <2> QED  BY <2>1 DEF CopyOfPage
<1>5. \A a \in Pages : a \notin B => n[a] = m[a]  BY <1>2, <1>3 DEF HasCopies
<1>6. \A a \in Pages : /\ n[a].kind = m[a].kind /\ n[a].front = m[a].front
                       /\ n[a] = [kind |-> n[a].kind, front |-> n[a].front, items |-> n[a].items]
                       /\ DOMAIN n[a].items = DOMAIN m[a].items
  BY <1>4, <1>5 DEF Sound, Shaped
<1>7. \A a, j : Has(n, a, j) <=> Has(m, a, j)  BY <1>6 DEF Has
<1>8. ASSUME NEW a, NEW j, Has(m, a, j)
      PROVE  /\ Like(Word(n, a, j), Word(m, a, j), Word(m, a, j).bits)
             /\ IsWord(Word(n, a, j))
  <2> DEFINE v == Word(m, a, j)
             w == Word(n, a, j)
  <2>1. IsWord(v)  BY <1>8 DEF Sound, Typed
  <2>2. CASE a \in B
    <3>1. w = CopyOf(v, g) /\ Readable(v)  BY <1>4, <1>8, <2>2 DEF Word, Has, Readables
    <3>2. v.type \in OwnerTypes => v.bits \in B  BY <1>8, <2>2 DEF Whole, Holds
    <3> HIDE DEF v, w
    <3>3. CASE v.type \in OwnerTypes
      <4>1. w.type = v.type /\ w.bits = v.bits  BY <1>1, <2>1, <3>1, <3>2, <3>3, CopyOfIs
      <4> QED  BY <3>2, <3>3, <4>1 DEF Like, IsWord, v, w
    <3>4. CASE v.type \notin OwnerTypes
      <4>1. IsScalar(w)  BY <2>1, <3>1, <3>4, CopyOfIs
      <4>2. w.type \notin OwnerTypes /\ IsWord(w)  BY <4>1, ScalarOwnsNothing
      <4> QED  BY <3>4, <4>2 DEF Like, v, w
    <3> QED  BY <3>3, <3>4
  <2>3. CASE a \notin B
    <3>1. w = v  BY <1>5, <1>8, <2>3 DEF Word, Has
    <3> QED  BY <2>1, <3>1 DEF Like
  <2> QED  BY <2>2, <2>3
<1>9. Shaped(n)  BY <1>3, <1>6 DEF Shaped, HasCopies
<1>10. Typed(n)  BY <1>6, <1>7, <1>8 DEF Sound, Typed
<1> QED  BY <1>6, <1>8, <1>9, <1>10 DEF Alike, n

------------------------------------------------------------------------------
(* operator=(const value&)                                                 *)

(* A location the program can reach is an item, and not below itself. *)
LEMMA ReachedIs ==
    ASSUME Sound(memory), NEW l \in Locations
    PROVE  /\ l = <<l[1], l[2]>> /\ Has(memory, l[1], l[2]) /\ l[1] \in Pages
           /\ l[1] \in {0} \cup FromStack(memory)
           /\ At(memory, l) = Word(memory, l[1], l[2])
           /\ l[1] \notin Closure(memory, Word(memory, l[1], l[2]))
<1> DEFINE ps == {0} \cup FromStack(memory)
<1>1. ps \subseteq Pages  BY DEF FromStack, Below, Closure, Pages
<1>2. l \in LocationsIn(memory, ps)  BY DEF Locations
<1> HIDE DEF ps
<1>3. /\ l = <<l[1], l[2]>> /\ l[1] \in ps /\ Has(memory, l[1], l[2])
      /\ At(memory, l) = Word(memory, l[1], l[2])
  BY <1>1, <1>2, LocationIs
<1>4. l[1] \notin Closure(memory, Word(memory, l[1], l[2]))
  BY <1>3, ReachableIsNoCircle DEF ps
<1> QED  BY <1>1, <1>3, <1>4 DEF ps

(* The copies of what an owner owns go to free addresses, its own payload *)
(* to an empty one of its kind.                                           *)
LEMMA GraftOfOwner ==
    ASSUME NEW e, Sound(e), NEW q, NEW j, NEW b, Holds(e, q, j, b),
           q \notin Closure(e, Word(e, q, j)),
           NEW root \in Addresses, DOMAIN e[root].items = {},
           e[root].kind = Word(e, q, j).type,
           NEW h \in Places(e, Closure(e, Word(e, q, j)) \ {b}),
           NEW g, \A r \in Closure(e, Word(e, q, j)) : g[r] = IF r = b THEN root ELSE h[r]
    PROVE  Graft(e, Closure(e, Word(e, q, j)), g, {b})
<1> DEFINE v == Word(e, q, j)
           B == Closure(e, v)
<1>1. v.type \in OwnerTypes /\ v.bits = b /\ Has(e, q, j)  BY DEF Holds
<1>2. Owns(v) = {b}  BY <1>1 DEF Owns
<1>3. b \in Addresses /\ e[b].kind = v.type  BY <1>1 DEF Sound, NothingDangles
<1>4. /\ B \subseteq Addresses /\ b \in B /\ Whole(e, B)
      /\ \A r \in B : r = b \/ \E p, k : p \in B /\ Holds(e, p, k, r)
  <2>1. Owns(v) \subseteq Addresses  BY <1>2, <1>3
  <2>2. NothingDangles(e)  BY DEF Sound
  <2> HIDE DEF v
  <2> QED  BY <1>2, <2>1, <2>2, ClosureIs
<1>5. \A r \in B \ {b} : h[r] \in Addresses /\ e[h[r]].kind = "free"
  BY DEF Places, FreeIn
<1>6. \A r, t \in B \ {b} : h[r] = h[t] => r = t  BY DEF Places
<1>7. \A r \in B \ {b} : h[r] # root  BY <1>1, <1>5 DEF OwnerTypes
<1>8. \A p, k, r : p \in B /\ Holds(e, p, k, r) => r # b
  <2>1. SUFFICES ASSUME NEW p, NEW k, p \in B, Holds(e, p, k, b) PROVE FALSE
    OBVIOUS
  <2>2. p = q  BY <2>1 DEF Sound, SingleOwners
  <2> QED  BY <2>1, <2>2
<1>9. \A r \in B : g[r] = IF r = b THEN root ELSE h[r]  OBVIOUS
<1>10. \A r \in B : g[r] \in Addresses /\ DOMAIN e[g[r]].items = {}
  BY <1>5, <1>9 DEF Sound, Kinds
<1>11. \A r, t \in B : g[r] = g[t] => r = t  BY <1>6, <1>7, <1>9
<1>12. \A r \in B : e[g[r]].kind = "free" \/ (r \in {b} /\ e[g[r]].kind = e[r].kind)
  BY <1>3, <1>5, <1>9
<1> HIDE DEF B
<1> QED  BY <1>4, <1>8, <1>10, <1>11, <1>12 DEF Graft, B

LEMMA SoundButNothing ==
    ASSUME NEW m
    PROVE  SoundBut(m, {}) <=> Sound(m)
BY DEF SoundBut, Sound, AllOwned

(* What is owned below s stays, but for what the new owner at d takes. *)
LEMMA BelowAfterEmptied ==
    ASSUME NEW m, Sound(m), NEW p, NEW k, Has(m, p, k), NEW q, NEW j, Has(m, q, j),
           q \notin Closure(m, Word(m, p, k)), q \notin Closure(m, Word(m, q, j)),
           ~(p = q /\ k = j), Word(m, q, j).type \in OwnerTypes,
           NEW c, Sound(c), Has(c, p, k), Word(c, p, k) = Void,
           Voided(c, m, Closure(m, Word(m, p, k)), p, k),
           NEW kind \in OwnerTypes, NEW a \in Addresses, c[a].kind = "free",
           NEW e, WithOwner(e, c, p, k, kind, a)
    PROVE  /\ Word(e, q, j) = Word(m, q, j) /\ Holds(e, q, j, Word(m, q, j).bits)
           /\ q \notin Closure(e, Word(e, q, j))
           /\ Word(e, p, k) = Value(kind, a)
<1> DEFINE v == Word(m, q, j)
           gone == Closure(m, Word(m, p, k))
<1>1. /\ \A x, y : Has(e, x, y) <=> Has(c, x, y)
      /\ \A x, y, b : Holds(e, x, y, b) <=> Holds(c, x, y, b) \/ (x = p /\ y = k /\ b = a)
      /\ p # a
  BY VoidIsWord, WithOwnerHolds
<1>2. gone \in SUBSET Addresses /\ p \in Pages  BY DEF Closure, Has
<1>3. \A x, y, b : Holds(c, x, y, b) <=>
            x \notin gone /\ ~(x = p /\ y = k) /\ Holds(m, x, y, b)
  BY <1>2, SetVoidHolds
<1>4. Has(c, q, j) /\ Word(c, q, j) = v  BY DEF Voided, Has
<1>5. Word(e, q, j) = v  BY <1>1, <1>4 DEF WithOwner
<1>6. Holds(e, q, j, v.bits)  BY <1>1, <1>4, <1>5 DEF Holds
<1>7. Word(e, p, k) = Value(kind, a)  BY <1>1 DEF WithOwner
<1> DEFINE S == Closure(m, v) \cup {a}
<1>8. Owns(v) \subseteq Closure(m, v) /\ Whole(m, Closure(m, v)) /\ Closure(m, v) \subseteq Addresses
  <2>1. Owns(v) \subseteq Addresses  BY OwnsIs DEF Sound, NothingDangles
  <2>2. NothingDangles(m)  BY DEF Sound
  <2> HIDE DEF v
  <2> QED  BY <2>1, <2>2, ClosureIs
<1>9. Whole(e, S)
  <2>1. SUFFICES ASSUME NEW x, NEW y, NEW b, Holds(e, x, y, b), x \in S PROVE b \in S
    BY DEF Whole
  <2>2. CASE x = p /\ y = k /\ b = a  BY <2>2
  <2>3. CASE Holds(c, x, y, b)
    <3>1. Holds(m, x, y, b)  BY <1>3, <2>3
    <3>2. x # a
      <4>1. DOMAIN c[a].items = {}  BY DEF Sound, Kinds
      <4> QED  BY <2>3, <4>1 DEF Holds, Has
    <3> QED  BY <1>8, <2>1, <3>1, <3>2 DEF Whole
  <2> QED  BY <1>1, <2>1, <2>2, <2>3
<1>10. Closure(e, v) \subseteq S
  <2>1. S \in SUBSET Addresses /\ Owns(v) \subseteq S  BY <1>8
  <2> HIDE DEF v, S
  <2> QED  BY <1>9, <2>1, ClosureIsLeast
<1>11. q # a
  <2>1. DOMAIN c[a].items = {}  BY DEF Sound, Kinds
  <2> QED  BY <1>4, <2>1 DEF Has
<1> QED  BY <1>5, <1>6, <1>7, <1>10, <1>11

(* What a copy of the owner at s to d leaves: d is emptied (c), gets a new    *)
(* owner of an empty payload at a (e), and that is all if the source holds   *)
(* a character that throws; else the payloads of the source are copied.     *)
MakesCopy(n, e, v, a) ==
    \E g : /\ Graft(e, Closure(e, v), g, {v.bits})
           /\ v.bits \in Closure(e, v) /\ g[v.bits] = a
           /\ HasCopies(n, e, Closure(e, v), g)

CopiesBy(n, d, s, c, e, a) ==
    LET v == Word(memory, s[1], s[2])
    IN  /\ Sound(c) /\ Has(c, d[1], d[2]) /\ Word(c, d[1], d[2]) = Void
        /\ Voided(c, memory, Closure(memory, Word(memory, d[1], d[2])), d[1], d[2])
        /\ c[a].kind = "free" /\ WithOwner(e, c, d[1], d[2], v.type, a)
        /\ Sound(e)
        /\ Unreadable(e, v) => n = e
        /\ ~Unreadable(e, v) => MakesCopy(n, e, v, a)

LEMMA CopiedOwnerIs ==
    ASSUME Sound(memory), NEW d \in Locations, NEW s \in Locations, d # s,
           ~Inside(memory, s, d), At(memory, s).type \in OwnerTypes, NEW n \in CopiedOwner(d, s)
    PROVE  \E c, e : \E a \in Addresses : CopiesBy(n, d, s, c, e, a)
<1> DEFINE p == d[1]
           k == d[2]
           q == s[1]
           j == s[2]
           v == Word(memory, q, j)
           c == SetVoid(memory, d)
           e == SetOwner(memory, d, v.type)
           gone == Closure(memory, Word(memory, p, k))
           B == Closure(e, v)
           below == B \ {v.bits}
           root == At(e, d).bits
           g == [r \in {v.bits} \cup below |->
                   IF r = v.bits THEN root ELSE FreshFor(e, below)[r]]
<1>1. /\ d = <<p, k>> /\ Has(memory, p, k) /\ p \in Pages /\ p \notin gone
      /\ At(memory, d) = Word(memory, p, k)
  BY ReachedIs
<1>2. /\ s = <<q, j>> /\ Has(memory, q, j) /\ q \in Pages /\ At(memory, s) = v
      /\ q \notin Closure(memory, v)
  BY ReachedIs
<1>3. v.type \in OwnerTypes  BY <1>2
<1>4. q \notin gone /\ ~(p = q /\ k = j)  BY <1>1, <1>2 DEF Inside
<1>5. n \in IF At(memory, d).type # v.type /\ FreeIn(c) = {} THEN {}
            ELSE IF Unreadable(e, v) THEN {e}
            ELSE IF Places(e, below) = {} THEN {}
            ELSE {Planted(e, {v.bits} \cup below, g)}
  BY <1>2 DEF CopiedOwner
<1> HIDE DEF g, root, below
<1>6. Word(memory, p, k).type = v.type \/ FreeIn(SetVoid(memory, <<p, k>>)) # {}
  BY <1>1, <1>5
<1>7. Sound(SetOwner(memory, <<p, k>>, v.type))  BY <1>1, <1>3, <1>6, SetOwnerSound
<1>8. Sound(e)  BY <1>1, <1>7
<1>9. /\ Sound(c) /\ Has(c, p, k) /\ Word(c, p, k) = Void /\ Voided(c, memory, gone, p, k)
      /\ \E a \in Addresses : c[a].kind = "free" /\ WithOwner(e, c, p, k, v.type, a)
  <2> HIDE DEF v
  <2> QED  BY <1>1, <1>3, <1>6, SetOwnerIs
<1>10. PICK a \in Addresses : c[a].kind = "free" /\ WithOwner(e, c, p, k, v.type, a)
  BY <1>9
<1>11. /\ Word(e, q, j) = v /\ Holds(e, q, j, v.bits)
       /\ q \notin Closure(e, v)
       /\ Word(e, p, k) = Value(v.type, a)
  <2> HIDE DEF c, e
  <2> QED  BY <1>1, <1>2, <1>3, <1>4, <1>9, <1>10, BelowAfterEmptied
<1> HIDE DEF c, e
<1>12. Unreadable(e, v) => n = e  BY <1>5
<1>13. ASSUME ~Unreadable(e, v) PROVE MakesCopy(n, e, v, a)
  <2> HIDE DEF v
  <2>1. Places(e, below) # {} /\ n = Planted(e, {v.bits} \cup below, g)  BY <1>5, <1>13
  <2>2. root = a  BY <1>1, <1>11 DEF root, At, Word, Value
  <2>3. DOMAIN e[a].items = {} /\ e[a].kind = v.type  BY <1>10 DEF WithOwner, Pages
  <2>4. v.bits \in B
    <3>1. Owns(v) = {v.bits}  BY <1>3 DEF Owns
    <3>2. v.bits \in Addresses  BY <1>3, <1>8, <1>11 DEF Sound, NothingDangles, Holds
    <3> QED  BY <3>1, <3>2 DEF Closure
  <2>5. {v.bits} \cup below = B  BY <2>4 DEF below
  <2>6. FreshFor(e, below) \in Places(e, below)  BY <2>1 DEF FreshFor
  <2>7. \A r \in B : g[r] = IF r = v.bits THEN a ELSE FreshFor(e, below)[r]
    BY <2>2, <2>5 DEF g
  <2>8. Graft(e, B, g, {v.bits})
    <3>1. FreshFor(e, below) \in Places(e, Closure(e, v) \ {v.bits})  BY <2>6 DEF below
    <3> DEFINE h == FreshFor(e, below)
    <3>2. \A r \in Closure(e, v) : g[r] = IF r = v.bits THEN a ELSE h[r]  BY <2>7
    <3>3. h \in Places(e, Closure(e, v) \ {v.bits})  BY <3>1
    <3> HIDE DEF h, v, e
    <3>4. Word(e, q, j) = v  BY <1>11
    <3>5. Sound(e) /\ Holds(e, q, j, v.bits) /\ a \in Addresses
          /\ DOMAIN e[a].items = {} /\ e[a].kind = Word(e, q, j).type
          /\ q \notin Closure(e, Word(e, q, j))
      BY <1>8, <1>11, <2>3, <3>4
    <3>6. /\ h \in Places(e, Closure(e, Word(e, q, j)) \ {v.bits})
          /\ \A r \in Closure(e, Word(e, q, j)) : g[r] = IF r = v.bits THEN a ELSE h[r]
      BY <3>2, <3>3, <3>4
    <3>7. Graft(e, Closure(e, Word(e, q, j)), g, {v.bits})
      BY <3>5, <3>6, GraftOfOwner
    <3> QED  BY <3>4, <3>7
  <2>9. HasCopies(n, e, B, g)
    <3>1. Shaped(e) /\ B \in SUBSET Addresses /\ Apart(B, g)
      BY <1>8, <2>8 DEF Sound, Graft, Apart
    <3>2. n = Planted(e, B, g)  BY <2>1, <2>5
    <3> HIDE DEF B
    <3> QED  BY <3>1, <3>2, PlantedIs
  <2>10. g[v.bits] = a  BY <2>4, <2>7
  <2> QED  BY <2>4, <2>8, <2>9, <2>10 DEF MakesCopy
<1>14. CopiesBy(n, d, s, c, e, a)  BY <1>8, <1>9, <1>10, <1>12, <1>13 DEF CopiesBy
<1> QED  BY <1>14

LEMMA MadeCopySound ==
    ASSUME NEW e, Sound(e), NEW q, NEW j, Has(e, q, j), Word(e, q, j).type \in OwnerTypes,
           ~Unreadable(e, Word(e, q, j)), NEW a, e[a].kind = Word(e, q, j).type,
           NEW n, MakesCopy(n, e, Word(e, q, j), a)
    PROVE  Sound(n)
<1> DEFINE v == Word(e, q, j)
           B == Closure(e, v)
<1>1. PICK g : /\ Graft(e, B, g, {v.bits})
               /\ v.bits \in B /\ g[v.bits] = a
               /\ HasCopies(n, e, B, g)
  BY DEF MakesCopy
<1>2. Owns(v) \subseteq Addresses /\ NothingDangles(e)  BY OwnsIs DEF Sound, NothingDangles
<1>3. Readables(e, B)
  <2> HIDE DEF v
  <2> QED  BY <1>2, ReadableIs DEF v
<1>4. Shaped(e) /\ B \in SUBSET Addresses /\ Apart(B, g)  BY <1>1 DEF Sound, Graft, Apart
<1> HIDE DEF B
<1>5. HasCopies(Planted(e, B, g), e, B, g)  BY <1>4, PlantedIs
<1>6. DOMAIN n = Pages  BY <1>1 DEF HasCopies
<1>7. \A x \in Pages : n[x] = IF Target(B, g, x) THEN Planted(e, B, g)[x] ELSE e[x]
  BY <1>1, <1>5 DEF HasCopies, Target
<1>8. Grafted(n, e, B, g)  BY <1>1, <1>3, <1>6, <1>7, AlikeItself, PlantedGrafted
<1>9. SoundBut(n, {g[x] : x \in {y \in {v.bits} : e[g[y]].kind = "free"}})
  BY <1>1, <1>8, GraftedSound
<1>10. e[g[v.bits]].kind # "free"  BY <1>1 DEF OwnerTypes
<1>11. {g[x] : x \in {y \in {v.bits} : e[g[y]].kind = "free"}} = {}  BY <1>10
<1> QED  BY <1>9, <1>11, SoundButNothing

LEMMA CopiedOwnerSound ==
    ASSUME Sound(memory), NEW d \in Locations, NEW s \in Locations,
           At(memory, s).type \in OwnerTypes, NEW n \in CopiedOwner(d, s), n # Broken
    PROVE  Sound(n)
<1> DEFINE p == d[1]
           k == d[2]
           q == s[1]
           j == s[2]
           v == Word(memory, q, j)
           gone == Closure(memory, Word(memory, p, k))
<1>1. /\ d = <<p, k>> /\ Has(memory, p, k) /\ p \in Pages /\ p \notin gone
      /\ At(memory, d) = Word(memory, p, k)
  BY ReachedIs
<1>2. /\ s = <<q, j>> /\ Has(memory, q, j) /\ q \in Pages /\ At(memory, s) = v
      /\ q \notin Closure(memory, v)
  BY ReachedIs
<1>3. ~Inside(memory, s, d)
  <2>1. SUFFICES ASSUME Inside(memory, s, d) PROVE n = Broken
    OBVIOUS
  <2>2. q \in gone  BY <1>1, <2>1 DEF Inside
  <2>3. d # s  BY <1>1, <2>2
  <2> QED  BY <2>1, <2>3 DEF CopiedOwner
<1>4. CASE d = s
  <2>1. n = SetOwner(memory, d, v.type)  BY <1>2, <1>3, <1>4 DEF CopiedOwner
  <2>2. Word(memory, p, k).type = v.type  BY <1>4
  <2>3. Sound(SetOwner(memory, <<p, k>>, v.type))  BY <1>1, <1>2, <2>2, SetOwnerSound
  <2> QED  BY <1>1, <2>1, <2>3
<1>5. CASE d # s
  <2>1. PICK c, e : \E a \in Addresses : CopiesBy(n, d, s, c, e, a)
    BY <1>3, <1>5, CopiedOwnerIs
  <2>2. PICK a \in Addresses : CopiesBy(n, d, s, c, e, a)  BY <2>1
  <2>3. /\ Sound(c) /\ Has(c, p, k) /\ Word(c, p, k) = Void /\ Voided(c, memory, gone, p, k)
        /\ c[a].kind = "free" /\ WithOwner(e, c, p, k, v.type, a) /\ Sound(e)
        /\ Unreadable(e, v) => n = e
        /\ ~Unreadable(e, v) => MakesCopy(n, e, v, a)
    BY <2>2 DEF CopiesBy
  <2>4. CASE Unreadable(e, v)  BY <2>3, <2>4
  <2>5. CASE ~Unreadable(e, v)
    <3>1. q \notin gone /\ ~(p = q /\ k = j)  BY <1>1, <1>2, <1>3, <1>5 DEF Inside
    <3>2. Word(e, q, j) = v /\ Has(e, q, j)
      BY <1>1, <1>2, <2>3, <3>1, BelowAfterEmptied DEF Holds
    <3>3. e[a].kind = v.type  BY <2>3 DEF WithOwner, Pages
    <3> HIDE DEF v
    <3> QED  BY <1>2, <2>3, <2>5, <3>2, <3>3, MadeCopySound
  <2> QED  BY <2>4, <2>5
<1> QED  BY <1>4, <1>5

LEMMA CopiedScalarSound ==
    ASSUME Sound(memory), setting \in Settings, NEW d \in Locations, NEW s \in Locations,
           At(memory, s).type \notin OwnerTypes, NEW n \in CopiedScalar(d, s), n # Broken
    PROVE  Sound(n)
<1> DEFINE v == At(memory, s)
           r == CHOOSE x \in (IF v.type = "char" THEN GetChar(v, 0) ELSE {v}) : TRUE
<1>1. d = <<d[1], d[2]>> /\ Has(memory, d[1], d[2])  BY ReachedIs
<1>2. IsWord(v)  BY ReachedIs DEF Sound, Typed
<1>3. \A w : IsScalar(w) => Sound(Put(SetVoid(memory, d), d, w))  BY <1>1, ScalarSetSound
<1>4. r # Throws => IsScalar(r)
  <2>1. CASE v.type = "char"
    <3>1. GetChar(v, 0) \in {{Throws}, {Value("char", 1)}, {Value("char", 0)}}
      BY <2>1 DEF GetChar
    <3>2. r = CHOOSE x \in GetChar(v, 0) : TRUE  BY <2>1
    <3> HIDE DEF r, v
    <3>3. r \in {Throws, Value("char", 1), Value("char", 0)}  BY <3>1, <3>2
    <3>4. 0 \in 0..127 /\ 1 \in 0..127  OBVIOUS
    <3> QED  BY <3>3, <3>4, ScalarsMade
  <2>2. CASE v.type # "char"
    <3>1. r = v  BY <2>2
    <3> QED  BY <1>2, <3>1, ScalarsRead
  <2> QED  BY <2>1, <2>2
<1>5. \A w \in setting.scalars : IsScalar(w)  BY ValueHeapAssumption, ScalarsAreScalar
<1>6. \/ n = memory
      \/ r # Throws /\ n = Put(SetVoid(memory, d), d, r)
      \/ \E w \in setting.scalars : n = Put(SetVoid(memory, d), d, w)
  <2> HIDE DEF r
  <2> QED  BY DEF CopiedScalar, r
<1> HIDE DEF r
<1> QED  BY <1>3, <1>4, <1>5, <1>6

LEMMA CopiedSound ==
    ASSUME Sound(memory), setting \in Settings, NEW d \in Locations, NEW s \in Locations,
           NEW n \in Copied(d, s), n # Broken
    PROVE  Sound(n)
<1>1. CASE At(memory, s).type \in OwnerTypes
  BY <1>1, CopiedOwnerSound DEF Copied
<1>2. CASE At(memory, s).type \notin OwnerTypes
  BY <1>2, CopiedScalarSound DEF Copied
<1> QED  BY <1>1, <1>2

------------------------------------------------------------------------------
(* push_back and emplace                                                   *)

(* n is m with w as a new item k of the payload at p. *)
Appended(n, m, p, k, w) ==
    /\ Shaped(n)
    /\ \A q \in Pages : /\ n[q].kind = m[q].kind /\ n[q].front = m[q].front
                        /\ DOMAIN n[q].items = DOMAIN m[q].items \cup
                                                  (IF q = p THEN {k} ELSE {})
    /\ \A q, j : Has(n, q, j) =>
          Word(n, q, j) = IF q = p /\ j = k THEN w ELSE Word(m, q, j)

LEMMA AppendedIs ==
    ASSUME NEW m, Shaped(m), NEW p \in Pages, NEW k, NEW w
    PROVE  Appended([m EXCEPT ![p].items =
                       [x \in DOMAIN @ \cup {k} |-> IF x = k THEN w ELSE @[x]]], m, p, k, w)
<1> DEFINE items == [x \in DOMAIN m[p].items \cup {k} |-> IF x = k THEN w ELSE m[p].items[x]]
           r == [m[p] EXCEPT !.items = items]
           n == [m EXCEPT ![p] = r]
<1>1. [m EXCEPT ![p].items = [x \in DOMAIN @ \cup {k} |-> IF x = k THEN w ELSE @[x]]] = n
  OBVIOUS
<1>2. m[p] = [kind |-> m[p].kind, front |-> m[p].front, items |-> m[p].items]
  BY DEF Shaped
<1>3. /\ DOMAIN items = DOMAIN m[p].items \cup {k}
      /\ \A x \in DOMAIN items : items[x] = IF x = k THEN w ELSE m[p].items[x]
  OBVIOUS
<1> HIDE DEF items
<1>4. r = [kind |-> m[p].kind, front |-> m[p].front, items |-> items]  BY <1>2
<1>5. /\ r.kind = m[p].kind /\ r.front = m[p].front /\ r.items = items
      /\ r = [kind |-> r.kind, front |-> r.front, items |-> r.items]
  BY <1>4
<1> HIDE DEF r
<1>6. DOMAIN n = Pages /\ \A q \in Pages : n[q] = IF q = p THEN r ELSE m[q]  BY DEF Shaped
<1> HIDE DEF n
<1>7. Shaped(n)  BY <1>5, <1>6 DEF Shaped
<1>8. \A q \in Pages : /\ n[q].kind = m[q].kind /\ n[q].front = m[q].front
                       /\ DOMAIN n[q].items = DOMAIN m[q].items \cup
                                                 (IF q = p THEN {k} ELSE {})
  BY <1>3, <1>5, <1>6
<1>9. \A q, j : Has(n, q, j) =>
        Word(n, q, j) = IF q = p /\ j = k THEN w ELSE Word(m, q, j)
  BY <1>3, <1>5, <1>6 DEF Has, Word
<1>10. Appended(n, m, p, k, w)  BY <1>7, <1>8, <1>9 DEF Appended
<1> QED  BY <1>1, <1>10

(* The next index of an array, and any name of an object. *)
NextKey(m, p, k) ==
    /\ m[p].kind \in {"array", "object"} /\ k \notin DOMAIN m[p].items
    /\ m[p].kind = "array" => \E i \in Nat : DOMAIN m[p].items = 1..i /\ k = i + 1

LEMMA AppendedSound ==
    ASSUME NEW m, NEW R, SoundBut(m, R), NEW p \in Addresses, NEW k, NextKey(m, p, k),
           NEW w, IsWord(w), NEW n, Appended(n, m, p, k, w),
           R = IF w.type \in OwnerTypes THEN {w.bits} ELSE {},
           w.type \in OwnerTypes => m[w.bits].kind = w.type
    PROVE  Sound(n)
<1>0. p \in Pages /\ p # 0  BY AddressesApart DEF Pages
<1>1. \A q, j : Has(n, q, j) <=> Has(m, q, j) \/ (q = p /\ j = k)  BY <1>0 DEF Appended, Has
<1>2. ~Has(m, p, k)  BY DEF NextKey, Has
<1>3. \A q, j, b : Holds(n, q, j, b) <=>
         Holds(m, q, j, b) \/ (q = p /\ j = k /\ w.type \in OwnerTypes /\ b = w.bits)
  <2> TAKE q, j, b
  <2>1. CASE q = p /\ j = k
    <3>1. Has(n, q, j) /\ Word(n, q, j) = w  BY <1>1, <2>1 DEF Appended
    <3> QED  BY <1>2, <2>1, <3>1 DEF Holds
  <2>2. CASE ~(q = p /\ j = k)
    <3>1. Has(n, q, j) => Word(n, q, j) = Word(m, q, j)  BY <2>2 DEF Appended
    <3> QED  BY <1>1, <2>2, <3>1 DEF Holds
  <2> QED  BY <2>1, <2>2
<1>4. Shaped(n)  BY DEF Appended
<1>5. Typed(n)
  <2>1. \A q \in Pages : n[q].front \in 0..127  BY DEF Appended, SoundBut, Typed
  <2>2. \A q, j : Has(n, q, j) => IsWord(Word(n, q, j))
    BY <1>1 DEF Appended, SoundBut, Typed
  <2> QED  BY <2>1, <2>2 DEF Typed
<1>6. Kinds(n)
  <2>1. n[0].kind = "stack"  BY DEF Appended, SoundBut, Kinds, Pages
  <2>2. ASSUME NEW q \in Addresses
        PROVE  /\ n[q].kind \in OwnerTypes \cup {"free"}
               /\ n[q].kind = "free" => DOMAIN n[q].items = {}
               /\ n[q].kind = "array" => \E i \in Nat : DOMAIN n[q].items = 1..i
    <3>1. n[q].kind = m[q].kind  BY DEF Appended, Pages
    <3>2. CASE q = p
      <4>1. n[q].kind # "free"  BY <3>1, <3>2 DEF NextKey
      <4>2. DOMAIN n[q].items = DOMAIN m[q].items \cup {k}  BY <3>2 DEF Appended, Pages
      <4>3. ASSUME n[q].kind = "array" PROVE \E i \in Nat : DOMAIN n[q].items = 1..i
        <5>1. PICK i \in Nat : DOMAIN m[q].items = 1..i /\ k = i + 1
          BY <3>1, <3>2, <4>3 DEF NextKey
        <5>2. DOMAIN n[q].items = 1..(i + 1) /\ i + 1 \in Nat  BY <4>2, <5>1
        <5> QED  BY <5>2
      <4> QED  BY <3>1, <4>1, <4>3 DEF SoundBut, Kinds
    <3>3. CASE q # p
      <4>1. DOMAIN n[q].items = DOMAIN m[q].items  BY <3>3 DEF Appended, Pages
      <4> QED  BY <3>1, <4>1 DEF SoundBut, Kinds
    <3> QED  BY <3>2, <3>3
  <2> QED  BY <2>1, <2>2 DEF Kinds
<1>7. NothingDangles(n)
  <2>1. SUFFICES ASSUME NEW q, NEW j, Has(n, q, j), Word(n, q, j).type \in OwnerTypes
                 PROVE  /\ Word(n, q, j).bits \in Addresses
                        /\ n[Word(n, q, j).bits].kind = Word(n, q, j).type
    BY DEF NothingDangles
  <2>2. CASE q = p /\ j = k
    <3>1. Word(n, q, j) = w  BY <2>1, <2>2 DEF Appended
    <3>2. w.bits \in Addresses
      BY <2>1, <3>1, ScalarOwnsNothing DEF IsWord
    <3> QED  BY <2>1, <3>1, <3>2 DEF Appended, Pages
  <2>3. CASE ~(q = p /\ j = k)
    <3>1. Word(n, q, j) = Word(m, q, j) /\ Has(m, q, j)  BY <1>1, <2>1, <2>3 DEF Appended
    <3>2. /\ Word(m, q, j).bits \in Addresses
          /\ m[Word(m, q, j).bits].kind = Word(m, q, j).type
      BY <2>1, <3>1 DEF SoundBut, NothingDangles
    <3> QED  BY <3>1, <3>2 DEF Appended, Pages
  <2> QED  BY <2>2, <2>3
<1>8. w.type \in OwnerTypes => \A q, j : ~Holds(m, q, j, w.bits)  BY DEF SoundBut
<1>9. SingleOwners(n)
  <2>1. \A q, j, r, i, b : Holds(m, q, j, b) /\ Holds(m, r, i, b) => q = r /\ j = i
    BY DEF SoundBut, SingleOwners
  <2>2. SUFFICES ASSUME NEW q, NEW j, NEW r, NEW i, NEW b, Holds(n, q, j, b), Holds(n, r, i, b)
                 PROVE  q = r /\ j = i
    BY DEF SingleOwners
  <2> QED  BY <1>3, <1>8, <2>1, <2>2
<1>10. AllOwned(n)
  <2>1. SUFFICES ASSUME NEW b \in Addresses, n[b].kind # "free" PROVE \E q, j : Holds(n, q, j, b)
    BY DEF AllOwned
  <2>2. m[b].kind # "free"  BY <2>1 DEF Appended, Pages
  <2>3. CASE b \in R
    <3>1. w.type \in OwnerTypes /\ b = w.bits  BY <2>3
    <3> QED  BY <1>3, <3>1
  <2>4. CASE b \notin R
    <3>1. PICK q, j : Holds(m, q, j, b)  BY <2>2, <2>4 DEF SoundBut
    <3> QED  BY <1>3, <3>1
  <2> QED  BY <2>3, <2>4
<1> QED  BY <1>4, <1>5, <1>6, <1>7, <1>9, <1>10 DEF Sound

(* Places for copies of all that v owns. *)
LEMMA GraftOfCopy ==
    ASSUME NEW m, Sound(m), NEW q, NEW j, Has(m, q, j), q \notin Closure(m, Word(m, q, j)),
           NEW g \in Places(m, Closure(m, Word(m, q, j)))
    PROVE  Graft(m, Closure(m, Word(m, q, j)), g, Owns(Word(m, q, j)))
<1> DEFINE v == Word(m, q, j)
           B == Closure(m, v)
<1>1. Owns(v) \subseteq Addresses  BY OwnsIs DEF Sound, NothingDangles
<1>2. \A b : b \in Owns(v) => Holds(m, q, j, b)  BY OwnsIs DEF Holds
<1> HIDE DEF v
<1>3. NothingDangles(m)  BY DEF Sound
<1>4. /\ B \subseteq Addresses /\ Owns(v) \subseteq B /\ Whole(m, B)
      /\ \A b \in B : b \in Owns(v) \/ \E p, k : p \in B /\ Holds(m, p, k, b)
  BY <1>1, <1>3, ClosureIs
<1>5. \A r \in B : g[r] \in Addresses /\ m[g[r]].kind = "free"  BY DEF Places, FreeIn, v
<1>6. \A r, t \in B : g[r] = g[t] => r = t  BY DEF Places, v
<1>7. \A r \in B : DOMAIN m[g[r]].items = {}  BY <1>5 DEF Sound, Kinds
<1>8. \A p, k, r : p \in B /\ Holds(m, p, k, r) => r \notin Owns(v)
  <2>1. SUFFICES ASSUME NEW p, NEW k, NEW r, p \in B, Holds(m, p, k, r), r \in Owns(v)
                 PROVE  FALSE
    OBVIOUS
  <2>2. p = q  BY <1>2, <2>1 DEF Sound, SingleOwners
  <2> QED  BY <2>1, <2>2 DEF v
<1> HIDE DEF B
<1> QED  BY <1>4, <1>5, <1>6, <1>7, <1>8 DEF Graft, B, v

LEMMA AppendCopySound ==
    ASSUME Sound(memory), NEW l \in Locations, NEW s \in Locations, NEW key, NEW full \in BOOLEAN,
           At(memory, l).type \in OwnerTypes, NextKey(memory, At(memory, l).bits, key),
           AppendCopy(l, s, key, full), UNCHANGED memory => FALSE
    PROVE  Sound(memory')
<1> DEFINE q == s[1]
           j == s[2]
           v == At(memory, s)
           a == At(memory, l)
           B == Closure(memory, v)
           f == FreshFor(memory, B)
           old == Closure(memory, a)
           g == [p \in old |-> p]
           grown == IF full THEN Planted(memory, old, g) ELSE memory
           copied == Planted(memory, B, f)
           both == [p \in DOMAIN memory |->
                      IF p \in {f[r] : r \in B} THEN copied[p] ELSE grown[p]]
           w == CopyOf(v, f)
           n == [both EXCEPT ![a.bits].items =
                   [k \in DOMAIN @ \cup {key} |-> IF k = key THEN w ELSE @[k]]]
<1>1. /\ Has(memory, q, j) /\ v = Word(memory, q, j) /\ q \notin B /\ IsWord(v)
  BY ReachedIs DEF Sound, Typed
<1>2. /\ ~Unreadable(memory, v)
      /\ full => ~Unreadable(memory, a)
      /\ Places(memory, B) # {}
      /\ memory' = n
  <2>1. ~(HasChar(memory, v) \/ (full /\ Unreadable(memory, a)))
    BY DEF AppendCopy, heapVars
  <2>2. Places(memory, B) # {} /\ Become(n)  BY <2>1 DEF AppendCopy
  <2>3. ~Unreadable(memory, v)  BY <2>1 DEF HasChar, Unreadable
  <2> HIDE DEF n, B
  <2>4. memory' = n \/ memory' = memory  BY <2>2 DEF Become, Leave
  <2> QED  BY <2>1, <2>2, <2>3, <2>4
<1>3. NothingDangles(memory) /\ Shaped(memory)  BY DEF Sound
<1>4. Owns(v) \subseteq Addresses  BY <1>1, <1>3, OwnsIs DEF NothingDangles
<1>5. a.bits \in Addresses /\ memory[a.bits].kind = a.type /\ Owns(a) = {a.bits}
  <2>1. Has(memory, l[1], l[2]) /\ a = Word(memory, l[1], l[2])  BY ReachedIs
  <2> QED  BY <1>3, <2>1 DEF NothingDangles, Owns
<1>6. f \in Places(memory, B)
  <2> HIDE DEF B
  <2> QED  BY <1>2 DEF FreshFor
<1> HIDE DEF f
<1>7. Graft(memory, B, f, Owns(v))
  <2> HIDE DEF v
  <2> QED  BY <1>1, <1>6, GraftOfCopy
<1>8. Readable(v) /\ Readables(memory, B)
  <2> HIDE DEF v
  <2> QED  BY <1>2, <1>3, <1>4, ReadableIs
<1>9. Alike(grown, memory)
  <2>1. CASE full
    <3>1. /\ old \in SUBSET Addresses /\ Whole(memory, old) /\ Readables(memory, old)
      <4> HIDE DEF a
      <4> QED  BY <1>2, <1>3, <1>5, <2>1, ClosureIs, ReadableIs
    <3> HIDE DEF old
    <3>2. InPlace(old, g)  BY DEF InPlace
    <3> HIDE DEF g
    <3>3. Alike(Planted(memory, old, g), memory)  BY <3>1, <3>2, GrownAlike
    <3> QED  BY <2>1, <3>3
  <2>2. CASE ~full  BY <2>2, AlikeItself
  <2> QED  BY <2>1, <2>2
<1> HIDE DEF grown
<1>10. /\ DOMAIN both = Pages
       /\ \A p \in Pages : both[p] = IF Target(B, f, p) THEN Planted(memory, B, f)[p] ELSE grown[p]
  <2>1. \A p : p \in {f[r] : r \in B} <=> Target(B, f, p)  BY DEF Target
  <2>2. DOMAIN memory = Pages  BY <1>3 DEF Shaped
  <2> HIDE DEF B, copied
  <2>3. DOMAIN both = Pages  BY <2>2
  <2>4. \A p \in Pages : both[p] = IF Target(B, f, p) THEN copied[p] ELSE grown[p]
    BY <2>1, <2>2
  <2> HIDE DEF both
  <2> QED  BY <2>3, <2>4 DEF copied
<1> HIDE DEF both, B
<1>11. Grafted(both, memory, B, f)  BY <1>7, <1>8, <1>9, <1>10, PlantedGrafted
<1>12. \A r \in B : f[r] \in Addresses /\ memory[f[r]].kind = "free"
  BY <1>6 DEF Places, FreeIn
<1>13. Owns(v) \subseteq B  BY <1>7 DEF Graft
<1> DEFINE R == {f[x] : x \in Owns(v)}
<1>14. SoundBut(both, R)
  <2>1. SoundBut(both, {f[x] : x \in {y \in Owns(v) : memory[f[y]].kind = "free"}})
    BY <1>7, <1>11, GraftedSound
  <2>2. {y \in Owns(v) : memory[f[y]].kind = "free"} = Owns(v)  BY <1>12, <1>13
  <2> QED  BY <2>1, <2>2
<1>15. /\ IsWord(w)
       /\ R = IF w.type \in OwnerTypes THEN {w.bits} ELSE {}
       /\ w.type \in OwnerTypes => both[w.bits].kind = w.type
  <2> HIDE DEF v, w
  <2>1. CASE v.type \in OwnerTypes
    <3>1. w.type = v.type /\ w.bits = f[v.bits]  BY <1>1, <2>1, CopyOfIs DEF w
    <3>2. Owns(v) = {v.bits}  BY <2>1 DEF Owns
    <3>3. R = {w.bits}  BY <3>1, <3>2
    <3>4. v.bits \in B  BY <1>13, <3>2
    <3>5. w.bits \in Addresses  BY <1>12, <3>1, <3>4
    <3>6. both[w.bits].kind = memory[v.bits].kind  BY <1>11, <3>1, <3>4 DEF Grafted
    <3>7. memory[v.bits].kind = v.type  BY <1>1, <1>3, <2>1 DEF NothingDangles
    <3> QED  BY <2>1, <3>1, <3>3, <3>5, <3>6, <3>7 DEF IsWord
  <2>2. CASE v.type \notin OwnerTypes
    <3>1. IsScalar(w)  BY <1>1, <1>8, <2>2, CopyOfIs DEF w
    <3>2. w.type \notin OwnerTypes /\ IsWord(w)  BY <3>1, ScalarOwnsNothing
    <3>3. Owns(v) = {}  BY <2>2 DEF Owns
    <3> QED  BY <3>2, <3>3
  <2> QED  BY <2>1, <2>2
<1>16. NextKey(both, a.bits, key)
  <2>1. ~Target(B, f, a.bits)
    <3>1. memory[a.bits].kind # "free"  BY <1>5 DEF OwnerTypes
    <3> QED  BY <1>12, <3>1 DEF Target
  <2>2. both[a.bits].kind = memory[a.bits].kind
        /\ DOMAIN both[a.bits].items = DOMAIN memory[a.bits].items
    BY <1>5, <1>11, <2>1 DEF Grafted, Pages
  <2> QED  BY <2>2 DEF NextKey
<1>17. Appended(n, both, a.bits, key, w)
  <2>1. Shaped(both) /\ a.bits \in Pages  BY <1>5, <1>11 DEF Grafted, Pages
  <2> HIDE DEF a, w
  <2> QED  BY <2>1, AppendedIs
<1> HIDE DEF n, R, w
<1>18. Sound(n)
  <2> HIDE DEF a
  <2> QED  BY <1>5, <1>14, <1>15, <1>16, <1>17, AppendedSound
<1> QED  BY <1>2, <1>18

------------------------------------------------------------------------------
(* The operations                                                          *)

LEMMA LeaveIs ==
    ASSUME NEW outcomes, Leave(outcomes)
    PROVE  /\ setting' = setting /\ undefined' \in {TRUE, undefined}
           /\ memory' = memory \/ \E n \in outcomes : n # Broken /\ memory' = n
<1>1. PICK m \in outcomes :
        IF m = Broken THEN undefined' = TRUE /\ UNCHANGED <<memory, setting>>
        ELSE /\ Cardinality(Addresses \ FreeIn(m)) <= setting.payloads
             /\ memory' = m
             /\ UNCHANGED <<undefined, setting>>
  BY DEF Leave
<1>2. CASE m = Broken  BY <1>1, <1>2
<1>3. CASE m # Broken  BY <1>1, <1>3
<1> QED  BY <1>2, <1>3

LEMMA SettingScalars ==
    ASSUME setting \in Settings
    PROVE  \A w \in setting.scalars : IsScalar(w)
BY ValueHeapAssumption, ScalarsAreScalar

(* The inductive invariant. *)
HeapInv == Sound(memory) /\ undefined \in BOOLEAN /\ setting \in Settings

LEMMA LeaveKeeps ==
    ASSUME HeapInv, NEW outcomes, Leave(outcomes), \A n \in outcomes : n # Broken => Sound(n)
    PROVE  HeapInv'
<1>1. /\ setting' = setting /\ undefined' \in {TRUE, undefined}
      /\ memory' = memory \/ \E n \in outcomes : n # Broken /\ memory' = n
  BY LeaveIs
<1>2. Sound(memory')
  <2>1. CASE memory' = memory  BY <2>1 DEF HeapInv
  <2>2. CASE \E n \in outcomes : n # Broken /\ memory' = n
    <3>1. PICK n \in outcomes : n # Broken /\ memory' = n  BY <2>2
    <3>2. Sound(n)  BY <3>1
    <3> QED  BY <3>1, <3>2
  <2> QED  BY <1>1, <2>1, <2>2
<1>3. undefined' \in BOOLEAN /\ setting' \in Settings  BY <1>1 DEF HeapInv
<1> QED  BY <1>2, <1>3 DEF HeapInv

LEMMA BecomeKeeps ==
    ASSUME HeapInv, NEW n, Become(n), n # Broken => Sound(n)
    PROVE  HeapInv'
<1>1. Leave({n})  BY DEF Become
<1> QED  BY <1>1, LeaveKeeps

LEMMA SetScalarKeeps ==
    ASSUME HeapInv, NEW l \in Locations, NEW v \in setting.scalars, SetScalar(l, v)
    PROVE  HeapInv'
<1>1. l = <<l[1], l[2]>> /\ Has(memory, l[1], l[2])  BY ReachedIs DEF HeapInv
<1>2. IsScalar(v)  BY SettingScalars DEF HeapInv
<1>3. Sound(Put(SetVoid(memory, l), l, v))  BY <1>1, <1>2, ScalarSetSound DEF HeapInv
<1>4. Become(Put(SetVoid(memory, l), l, v))  BY DEF SetScalar
<1> QED  BY <1>3, <1>4, BecomeKeeps

LEMMA SetPayloadKeeps ==
    ASSUME HeapInv, NEW l \in Locations, NEW kind \in OwnerTypes, NEW front \in {0} \cup Chars,
           SetPayload(l, kind, front)
    PROVE  HeapInv'
<1> DEFINE p == l[1]
           k == l[2]
           c == SetVoid(memory, l)
           m == SetOwner(memory, l, kind)
           a == At(m, l).bits
<1>1. /\ l = <<p, k>> /\ Has(memory, p, k) /\ At(memory, l) = Word(memory, p, k)
      /\ p \notin Closure(memory, Word(memory, p, k))
  BY ReachedIs DEF HeapInv
<1>2. Word(memory, p, k).type = kind \/ FreeIn(SetVoid(memory, <<p, k>>)) # {}
  BY <1>1 DEF SetPayload
<1>3. Sound(SetOwner(memory, <<p, k>>, kind))  BY <1>1, <1>2, SetOwnerSound DEF HeapInv
<1>4. Sound(m)  BY <1>1, <1>3
<1>5. /\ Sound(c) /\ Has(c, p, k) /\ Word(c, p, k) = Void
      /\ \E b \in Addresses : c[b].kind = "free" /\ WithOwner(m, c, p, k, kind, b)
  BY <1>1, <1>2, SetOwnerIs DEF HeapInv
<1> HIDE DEF c, m
<1>6. a \in Addresses
  <2>1. PICK b \in Addresses : c[b].kind = "free" /\ WithOwner(m, c, p, k, kind, b)  BY <1>5
  <2>2. Has(m, p, k)  BY <1>5, <2>1, VoidIsWord, WithOwnerHolds
  <2>3. Word(m, p, k) = Value(kind, b)  BY <2>1, <2>2 DEF WithOwner
  <2>4. At(m, l) = Word(m, p, k)  BY <1>1 DEF At, Word
  <2> QED  BY <2>3, <2>4 DEF Value
<1>7. front \in 0..127  BY VariantAssumption
<1>8. Become([m EXCEPT ![a].front = front])  BY DEF SetPayload, m
<1> HIDE DEF a
<1>9. Sound([m EXCEPT ![a].front = front])  BY <1>4, <1>6, <1>7, FrontSetSound
<1> QED  BY <1>8, <1>9, BecomeKeeps

LEMMA ConvertInPlaceKeeps ==
    ASSUME HeapInv, NEW l \in Locations, NEW type \in setting.converted, ConvertInPlace(l, type)
    PROVE  HeapInv'
<1> DEFINE v == At(memory, l)
           front == IF v.type = "string" THEN memory[v.bits].front ELSE 0
           left(r) == CASE r = Undefined -> Broken
                        [] r = Throws -> memory
                        [] OTHER -> Put(SetVoid(memory, l), l, r)
<1>1. /\ l = <<l[1], l[2]>> /\ Has(memory, l[1], l[2]) /\ v = Word(memory, l[1], l[2])
      /\ IsWord(v)
  BY ReachedIs DEF HeapInv, Sound, Typed
<1>2. front \in 0..127
  <2>1. CASE v.type = "string"
    <3>1. v.bits \in Addresses
      BY <1>1, <2>1 DEF HeapInv, Sound, NothingDangles, OwnerTypes
    <3> QED  BY <2>1, <3>1 DEF HeapInv, Sound, Typed, Pages
  <2>2. CASE v.type # "string"
    <3>1. 0 \in 0..127  OBVIOUS
    <3> QED  BY <2>2, <3>1
  <2> QED  BY <2>1, <2>2
<1>3. type \in ScalarTypes \ {"void"}  BY ValueHeapAssumption DEF HeapInv
<1>4. Leave({left(r) : r \in GetInPlace(v, front, type)})  BY DEF ConvertInPlace
<1>5. ASSUME NEW r \in GetInPlace(v, front, type), left(r) # Broken
      PROVE  Sound(left(r))
  <2>1. Answer(r)
    <3> HIDE DEF v, front
    <3> QED  BY <1>1, <1>2, <1>3, GetIs
  <2>2. r # Undefined
    <3>1. Undefined # Throws  BY DEF Undefined, Throws, Value
    <3>2. r = Undefined => left(r) = Broken  BY <3>1
    <3> HIDE DEF left
    <3> QED  BY <1>5, <3>2
  <2>3. CASE r = Throws
    <3>1. left(r) = memory  BY <2>2, <2>3
    <3> QED  BY <3>1 DEF HeapInv
  <2>4. CASE r # Throws
    <3>1. left(r) = Put(SetVoid(memory, l), l, r)  BY <2>2, <2>4
    <3>2. IsScalar(r)  BY <2>1, <2>2, <2>4 DEF Answer
    <3>3. Sound(Put(SetVoid(memory, l), l, r))  BY <1>1, <3>2, ScalarSetSound DEF HeapInv
    <3> QED  BY <3>1, <3>3
  <2> QED  BY <2>3, <2>4
<1>6. \A n \in {left(r) : r \in GetInPlace(v, front, type)} : n # Broken => Sound(n)
  <2> HIDE DEF left, v, front
  <2> QED  BY <1>5
<1> HIDE DEF left, v, front
<1> QED  BY <1>4, <1>6, LeaveKeeps

LEMMA CopyAssignKeeps ==
    ASSUME HeapInv, NEW d \in Locations, NEW s \in Locations, CopyAssign(d, s)
    PROVE  HeapInv'
<1>1. Leave(Copied(d, s))  BY DEF CopyAssign
<1>2. \A n \in Copied(d, s) : n # Broken => Sound(n)  BY CopiedSound DEF HeapInv
<1> QED  BY <1>1, <1>2, LeaveKeeps

LEMMA MoveAssignKeeps ==
    ASSUME HeapInv, NEW d \in Locations, NEW s \in Locations, MoveAssign(d, s)
    PROVE  HeapInv'
<1> DEFINE n == Put(Put(memory, d, At(memory, s)), s, At(memory, d))
<1>1. d = <<d[1], d[2]>> /\ Has(memory, d[1], d[2]) /\ At(memory, d) = Word(memory, d[1], d[2])
  BY ReachedIs DEF HeapInv
<1>2. s = <<s[1], s[2]>> /\ Has(memory, s[1], s[2]) /\ At(memory, s) = Word(memory, s[1], s[2])
  BY ReachedIs DEF HeapInv
<1>3. Sound(n)  BY <1>1, <1>2, SwapSound DEF HeapInv
<1>4. Become(n)  BY DEF MoveAssign
<1> HIDE DEF n
<1> QED  BY <1>3, <1>4, BecomeKeeps

(* An append changes nothing but the memory. *)
LEMMA AppendCopyKeeps ==
    ASSUME HeapInv, NEW l \in Locations, NEW s \in Locations, NEW key, NEW full \in BOOLEAN,
           At(memory, l).type \in OwnerTypes, NextKey(memory, At(memory, l).bits, key),
           AppendCopy(l, s, key, full)
    PROVE  HeapInv'
<1>1. UNCHANGED heapVars \/ \E n : Become(n)  BY DEF AppendCopy
<1>2. setting' = setting /\ undefined' \in {TRUE, undefined}
  <2>1. CASE UNCHANGED heapVars  BY <2>1 DEF heapVars
  <2>2. CASE \E n : Become(n)  BY <2>2, LeaveIs DEF Become
  <2> QED  BY <1>1, <2>1, <2>2
<1>3. CASE memory' = memory  BY <1>2, <1>3 DEF HeapInv
<1>4. CASE memory' # memory
  <2>1. Sound(memory')  BY <1>4, AppendCopySound DEF HeapInv
  <2> QED  BY <1>2, <2>1 DEF HeapInv
<1> QED  BY <1>3, <1>4

LEMMA ItemsOf ==
    ASSUME Sound(memory), NEW l \in Locations, At(memory, l).type \in OwnerTypes
    PROVE  /\ At(memory, l).bits \in Addresses
           /\ memory[At(memory, l).bits].kind = At(memory, l).type
<1>1. Has(memory, l[1], l[2]) /\ At(memory, l) = Word(memory, l[1], l[2])  BY ReachedIs
<1> QED  BY <1>1 DEF Sound, NothingDangles

LEMMA PushBackKeeps ==
    ASSUME HeapInv, NEW l \in Locations, NEW s \in Locations, NEW full \in BOOLEAN,
           PushBack(l, s, full)
    PROVE  HeapInv'
<1> DEFINE a == At(memory, l)
           key == Len(memory[a.bits].items) + 1
<1>1. a.type = "array" /\ AppendCopy(l, s, key, full)  BY DEF PushBack
<1>2. a.type \in OwnerTypes  BY <1>1 DEF OwnerTypes
<1>3. a.bits \in Addresses /\ memory[a.bits].kind = "array"
  BY <1>1, <1>2, ItemsOf DEF HeapInv
<1>4. PICK i \in Nat : DOMAIN memory[a.bits].items = 1..i  BY <1>3 DEF HeapInv, Sound, Kinds
<1>5. Len(memory[a.bits].items) = i  BY <1>4
<1>6. NextKey(memory, a.bits, key)
  <2>1. key = i + 1 /\ key \notin 1..i  BY <1>5
  <2> HIDE DEF key
  <2> QED  BY <1>3, <1>4, <2>1 DEF NextKey
<1> HIDE DEF key
<1> QED  BY <1>1, <1>2, <1>6, AppendCopyKeeps

LEMMA AddKeeps ==
    ASSUME HeapInv, NEW l \in Locations, NEW s \in Locations, NEW name \in Names, Add(l, s, name)
    PROVE  HeapInv'
<1> DEFINE a == At(memory, l)
<1>1. /\ a.type = "object" /\ name \notin DOMAIN memory[a.bits].items
      /\ AppendCopy(l, s, name, FALSE)
  BY DEF Add
<1>2. a.type \in OwnerTypes  BY <1>1 DEF OwnerTypes
<1>3. memory[a.bits].kind = "object"  BY <1>1, <1>2, ItemsOf DEF HeapInv
<1>4. NextKey(memory, a.bits, name)  BY <1>1, <1>3 DEF NextKey
<1> QED  BY <1>1, <1>2, <1>4, AppendCopyKeeps

LEMMA AssignSelectedKeeps ==
    ASSUME HeapInv, NEW l \in Locations, NEW byName \in BOOLEAN, NEW key \in Names,
           NEW v \in setting.scalars, AssignSelected(l, byName, key, v)
    PROVE  HeapInv'
<1> DEFINE a == At(memory, l).bits
           chosen == Selected(memory, l, byName, key)
<1>1. At(memory, l).type \in {"array", "object"}  BY DEF AssignSelected, Indexable
<1>2. a \in Addresses  BY <1>1, ItemsOf DEF HeapInv, OwnerTypes
<1>3. chosen \subseteq DOMAIN memory[a].items
  <2>1. Indexable(l, byName)  BY DEF AssignSelected
  <2> QED  BY <2>1 DEF Selected, Indexable
<1>4. \/ Become(Broken)
      \/ \E k \in chosen : Become(Put(SetVoid(memory, <<a, k>>), <<a, k>>, v))
  BY DEF AssignSelected
<1> HIDE DEF chosen
<1>5. CASE Become(Broken)  BY <1>5, BecomeKeeps
<1>6. CASE \E k \in chosen : Become(Put(SetVoid(memory, <<a, k>>), <<a, k>>, v))
  <2>1. PICK k \in chosen : Become(Put(SetVoid(memory, <<a, k>>), <<a, k>>, v))
    BY <1>6
  <2>2. Has(memory, a, k)  BY <1>2, <1>3 DEF Has, Pages
  <2>3. IsScalar(v)  BY SettingScalars DEF HeapInv
  <2>4. Sound(Put(SetVoid(memory, <<a, k>>), <<a, k>>, v))
    BY <2>2, <2>3, ScalarSetSound DEF HeapInv
  <2> QED  BY <2>1, <2>4, BecomeKeeps
<1> QED  BY <1>4, <1>5, <1>6

LEMMA HeapStart == HeapInit => HeapInv
<1>1. SUFFICES ASSUME HeapInit PROVE HeapInv
  OBVIOUS
<1> DEFINE vs == [x \in 1..setting.variables |-> Void]
<1>2. /\ setting \in Settings /\ undefined \in BOOLEAN /\ DOMAIN memory = Pages
      /\ \A p \in Pages : memory[p] = IF p = 0 THEN Payload("stack", vs) ELSE Unused
  BY <1>1 DEF HeapInit, Pages
<1>3. /\ DOMAIN vs = 1..setting.variables /\ \A x \in DOMAIN vs : vs[x] = Void
  OBVIOUS
<1> HIDE DEF vs
<1>4. \A p \in Pages :
        /\ memory[p] = [kind |-> memory[p].kind, front |-> memory[p].front, items |-> memory[p].items]
        /\ memory[p].kind = IF p = 0 THEN "stack" ELSE "free"
        /\ memory[p].front = 0
        /\ p # 0 => DOMAIN memory[p].items = {}
        /\ p = 0 => memory[p].items = vs
  BY <1>2 DEF Unused, Payload
<1>5. \A p, k : Has(memory, p, k) => Word(memory, p, k) = Void
  BY <1>3, <1>4 DEF Has, Word
<1>6. \A p, k, b : ~Holds(memory, p, k, b)  BY <1>5, VoidIsWord DEF Holds
<1>7. Shaped(memory)  BY <1>2, <1>4 DEF Shaped
<1>8. Typed(memory)
  <2>1. 0 \in 0..127  OBVIOUS
  <2>2. \A p \in Pages : memory[p].front \in 0..127  BY <1>4, <2>1
  <2>3. \A p, k : Has(memory, p, k) => IsWord(Word(memory, p, k))  BY <1>5, VoidIsWord
  <2> QED  BY <2>2, <2>3 DEF Typed
<1>9. Kinds(memory)  BY <1>4, AddressesApart DEF Kinds, Pages
<1>10. NothingDangles(memory)  BY <1>5, VoidIsWord DEF NothingDangles
<1>11. SingleOwners(memory)  BY <1>6 DEF SingleOwners
<1>12. AllOwned(memory)  BY <1>4, AddressesApart DEF AllOwned, Pages
<1> QED  BY <1>2, <1>7, <1>8, <1>9, <1>10, <1>11, <1>12 DEF HeapInv, Sound

LEMMA HeapSteps == HeapInv /\ [HeapNext]_heapVars => HeapInv'
<1>1. SUFFICES ASSUME HeapInv, [HeapNext]_heapVars PROVE HeapInv'
  OBVIOUS
<1>2. CASE UNCHANGED heapVars  BY <1>1, <1>2 DEF heapVars, HeapInv
<1>3. CASE HeapNext
  <2>1. PICK l \in Locations :
           \/ \E v \in setting.scalars : SetScalar(l, v)
           \/ \E kind \in OwnerTypes, front \in {0} \cup Chars : SetPayload(l, kind, front)
           \/ \E type \in setting.converted : ConvertInPlace(l, type)
           \/ \E s \in Locations : CopyAssign(l, s)
           \/ \E s \in Locations : MoveAssign(l, s)
           \/ \E s \in Locations, full \in BOOLEAN : PushBack(l, s, full)
           \/ \E s \in Locations, name \in Names : Add(l, s, name)
           \/ \E byName \in BOOLEAN, key \in Names, v \in setting.scalars :
                AssignSelected(l, byName, key, v)
    BY <1>3 DEF HeapNext
  <2>2. CASE \E v \in setting.scalars : SetScalar(l, v)  BY <1>1, <2>2, SetScalarKeeps
  <2>3. CASE \E kind \in OwnerTypes, front \in {0} \cup Chars : SetPayload(l, kind, front)
    BY <1>1, <2>3, SetPayloadKeeps
  <2>4. CASE \E type \in setting.converted : ConvertInPlace(l, type)
    BY <1>1, <2>4, ConvertInPlaceKeeps
  <2>5. CASE \E s \in Locations : CopyAssign(l, s)  BY <1>1, <2>5, CopyAssignKeeps
  <2>6. CASE \E s \in Locations : MoveAssign(l, s)  BY <1>1, <2>6, MoveAssignKeeps
  <2>7. CASE \E s \in Locations, full \in BOOLEAN : PushBack(l, s, full)
    BY <1>1, <2>7, PushBackKeeps
  <2>8. CASE \E s \in Locations, name \in Names : Add(l, s, name)  BY <1>1, <2>8, AddKeeps
  <2>9. CASE \E byName \in BOOLEAN, key \in Names, v \in setting.scalars :
               AssignSelected(l, byName, key, v)
    BY <1>1, <2>9, AssignSelectedKeeps
  <2> QED  BY <2>1, <2>2, <2>3, <2>4, <2>5, <2>6, <2>7, <2>8, <2>9
<1> QED  BY <1>1, <1>2, <1>3

LEMMA HeapInvHolds == HeapSpec => []HeapInv
BY HeapStart, HeapSteps, PTL DEF HeapSpec

(* The words are of their types, each payload of its kind, in every state. *)
THEOREM PayloadsStayTyped == HeapSpec => []HeapTypeOK
<1>1. HeapInv => HeapTypeOK
  <2>1. SUFFICES ASSUME HeapInv PROVE HeapTypeOK
    OBVIOUS
  <2>2. DOMAIN memory = {0} \cup Addresses  BY <2>1 DEF HeapInv, Sound, Shaped, Pages
  <2>3. ASSUME NEW p \in DOMAIN memory
        PROVE  /\ memory[p].kind \in IF p = 0 THEN {"stack"} ELSE OwnerTypes \cup {"free"}
               /\ memory[p].front \in 0..127
               /\ \A v \in Range(memory[p].items) : IsWord(v)
    <3>1. p \in Pages  BY <2>2 DEF Pages
    <3>2. memory[p].kind \in IF p = 0 THEN {"stack"} ELSE OwnerTypes \cup {"free"}
      BY <2>1, <3>1 DEF HeapInv, Sound, Kinds, Pages
    <3>3. memory[p].front \in 0..127  BY <2>1, <3>1 DEF HeapInv, Sound, Typed
    <3>4. \A v \in Range(memory[p].items) : IsWord(v)
      BY <2>1, <3>1 DEF HeapInv, Sound, Typed, Has, Word, Range
    <3> QED  BY <3>2, <3>3, <3>4
  <2> QED  BY <2>1, <2>2, <2>3 DEF HeapInv, HeapTypeOK
<1> QED  BY <1>1, HeapInvHolds, PTL

(* Each owner has a payload of its kind and no payload two owners, through    *)
(* every order of assignments, conversions, moves, appends and exceptions,  *)
(* of a value and what is inside of it as well.                             *)
THEOREM OwnersStaySound == HeapSpec => []OwnersAreSound
<1>1. HeapInv => OwnersAreSound
  <2>1. SUFFICES ASSUME HeapInv PROVE OwnersAreSound
    OBVIOUS
  <2>2. DOMAIN memory = Pages  BY <2>1 DEF HeapInv, Sound, Shaped
  <2>3. \A l \in LocationsIn(memory, DOMAIN memory) :
          /\ l = <<l[1], l[2]>> /\ Has(memory, l[1], l[2])
          /\ At(memory, l) = Word(memory, l[1], l[2])
    BY <2>2, LocationIs
  <2>4. NoDangling(memory)
    BY <2>1, <2>3 DEF NoDangling, HeapInv, Sound, NothingDangles
  <2>5. OneOwner(memory)
    <3>1. SUFFICES ASSUME NEW l \in LocationsIn(memory, DOMAIN memory),
                          NEW o \in LocationsIn(memory, DOMAIN memory),
                          NEW b \in Owns(At(memory, l)), b \in Owns(At(memory, o))
                   PROVE  l = o
      BY DEF OneOwner
    <3>2. Holds(memory, l[1], l[2], b)  BY <2>3, <3>1, OwnsIs DEF Holds
    <3>3. Holds(memory, o[1], o[2], b)  BY <2>3, <3>1, OwnsIs DEF Holds
    <3>4. l[1] = o[1] /\ l[2] = o[2]
      BY <2>1, <3>2, <3>3 DEF HeapInv, Sound, SingleOwners
    <3>5. l = <<l[1], l[2]>> /\ o = <<o[1], o[2]>>  BY <2>3
    <3> QED  BY <3>4, <3>5
  <2> QED  BY <2>4, <2>5 DEF OwnersAreSound
<1> QED  BY <1>1, HeapInvHolds, PTL

------------------------------------------------------------------------------
(* What the program can no longer reach                                    *)

LEMMA BelowIs ==
    ASSUME NEW m, NEW p \in Pages, NEW b
    PROVE  b \in Below(m, p) <=> \E k : Has(m, p, k) /\ b \in Closure(m, Word(m, p, k))
BY DEF Below, Range, Has, Word

LEMMA OwnedIsBelow ==
    ASSUME NEW m, Sound(m), NEW p, NEW k, NEW b, Holds(m, p, k, b)
    PROVE  b \in Below(m, p)
<1>1. Has(m, p, k) /\ p \in Pages  BY DEF Holds, Has
<1>2. b \in Owns(Word(m, p, k))  BY OwnsIs DEF Holds
<1>3. Owns(Word(m, p, k)) \subseteq Addresses  BY <1>1, OwnsIs DEF Sound, NothingDangles
<1>4. b \in Closure(m, Word(m, p, k))  BY <1>2, <1>3 DEF Closure
<1> QED  BY <1>1, <1>4, BelowIs

LEMMA BelowIsTransitive ==
    ASSUME NEW m, Sound(m), NEW r \in Pages, NEW q \in Below(m, r), NEW b \in Below(m, q)
    PROVE  b \in Below(m, r)
<1>1. PICK k : Has(m, r, k) /\ q \in Closure(m, Word(m, r, k))  BY BelowIs
<1> DEFINE v == Word(m, r, k)
           C == Closure(m, v)
<1>2. Owns(v) \subseteq Addresses  BY <1>1, OwnsIs DEF Sound, NothingDangles
<1>3. C \subseteq Addresses /\ Whole(m, C)
  <2>1. NothingDangles(m)  BY DEF Sound
  <2> HIDE DEF v
  <2> QED  BY <1>2, <2>1, ClosureIs
<1>4. q \in C /\ q \in Pages  BY <1>1, <1>3 DEF Pages
<1>5. PICK j : Has(m, q, j) /\ b \in Closure(m, Word(m, q, j))  BY <1>4, BelowIs
<1> DEFINE w == Word(m, q, j)
<1>6. \A x : x \in Owns(w) => Holds(m, q, j, x)  BY <1>5, OwnsIs DEF Holds
<1>7. Owns(w) \subseteq C
  <2> HIDE DEF w, C
  <2> QED  BY <1>3, <1>4, <1>6 DEF Whole
<1>8. Closure(m, w) \subseteq C
  <2> HIDE DEF w, C
  <2> QED  BY <1>3, <1>7, ClosureIsLeast
<1> QED  BY <1>1, <1>5, <1>8, BelowIs

(* A payload that is not below the stack is below a cycle: of its owners and  *)
(* their owners, take one that has the fewest, as sets, above it.           *)
LEMMA SoundLeaksAreCycles ==
    ASSUME NEW m, Sound(m), NEW p \in Addresses, m[p].kind # "free", p \notin Below(m, 0)
    PROVE  \E q \in Addresses : q \in Below(m, q) /\ p \in Below(m, q)
<1>0. SUFFICES ASSUME \A q \in Addresses : ~(q \in Below(m, q) /\ p \in Below(m, q))
               PROVE  FALSE
  OBVIOUS
<1> DEFINE above(q) == {r \in Addresses : q \in Below(m, r)}
           W == {q \in Addresses : m[q].kind # "free" /\ (q = p \/ p \in Below(m, q))}
           T == {above(q) : q \in W}
           S == FiniteSubsetsOf(Addresses)
           R == StrictSubsetOrdering(Addresses)
<1>1. T \subseteq S
  <2>1. \A U \in SUBSET Addresses : U \in S
    BY ValueHeapAssumption, FS_Subset DEF FiniteSubsetsOf
  <2> QED  BY <2>1
<1>2. T # {}  BY DEF W
<1>3. PICK x \in T : \A y \in T : <<y, x>> \notin R
  <2>1. IsWellFoundedOn(R, S)  BY FS_StrictSubsetOrderingWellFounded
  <2> HIDE DEF R, S, T
  <2> QED  BY <1>1, <1>2, <2>1, WFMin
<1>4. PICK q \in W : x = above(q)  OBVIOUS
<1>5. PICK r, k : Holds(m, r, k, q)  BY <1>4 DEF Sound, AllOwned
<1>6. q \in Below(m, r) /\ r \in Pages  BY <1>5, OwnedIsBelow DEF Holds, Has
<1>7. p \in Below(m, r)  BY <1>4, <1>6, BelowIsTransitive
<1>8. r # 0  BY <1>7
<1>9. r \in Addresses  BY <1>6, <1>8 DEF Pages
<1>10. m[r].kind # "free"  BY <1>5, <1>9 DEF Sound, Kinds, Holds, Has
<1>11. above(r) \in T  BY <1>7, <1>9, <1>10
<1>12. above(r) \subseteq above(q)
  <2>1. SUFFICES ASSUME NEW t \in above(r) PROVE t \in above(q)
    OBVIOUS
  <2>2. t \in Addresses /\ t \in Pages /\ r \in Below(m, t)  BY DEF Pages
  <2>3. q \in Below(m, t)  BY <1>6, <2>2, BelowIsTransitive
  <2> QED  BY <2>2, <2>3
<1>13. r \in above(q) /\ r \notin above(r)  BY <1>0, <1>6, <1>7, <1>9
<1>14. <<above(r), above(q)>> \in R  BY <1>12, <1>13 DEF StrictSubsetOrdering
<1> QED  BY <1>3, <1>4, <1>11, <1>14

(* Nothing leaks but what a move has put into itself: each payload in use   *)
(* hangs from the stack or from a cycle of owners.                          *)
THEOREM OnlyCyclesLeak == HeapSpec => []LeaksAreCycles
<1>1. HeapInv => LeaksAreCycles
  BY SoundLeaksAreCycles DEF HeapInv, LeaksAreCycles, FromStack
<1> QED  BY <1>1, HeapInvHolds, PTL

------------------------------------------------------------------------------
(* Conversions                                                             *)

LEMMA ModuloWidth ==
    ASSUME NEW n \in Nat, n > 0, NEW x \in Int, 0 <= x, x < n
    PROVE  (x - n) % n = x % n
<1>1. x % n = x  OBVIOUS
<1>2. (x - n) % n = x  OBVIOUS
<1> QED  BY <1>1, <1>2

LEMMA NumberIs ==
    ASSUME NEW t, NEW b
    PROVE  Number(Value(t, b)) = (IF t = "char" THEN b - 48 ELSE b) % (2 * SignBit)
BY DEF Number, Value

LEMMA NumberOfDigit ==
    ASSUME NEW b \in 0..9
    PROVE  Number(Value("char", 48 + b)) = b % (2 * SignBit)
<1>1. PICK c : c = 48 + b  OBVIOUS
<1>2. c - 48 = b  BY <1>1
<1>3. Number(Value("char", c)) = (c - 48) % (2 * SignBit)  BY NumberIs
<1> QED  BY <1>1, <1>2, <1>3

(* A getter that computes its answer computes the number of the value. *)
LEMMA ComputedIsNumber ==
    ASSUME NEW v, IsWord(v), NEW type \in ScalarTypes \ {"void"}, Computed(v, type),
           NEW r \in GetInPlace(v, 0, type)
    PROVE  r.type = type /\ Number(r) = Number(v)
<1>1. /\ v.type = "char" => v.bits \in 0..127
      /\ v.type = "unsigned" => v.bits \in Unsigneds
      /\ v.type = "signed" => v.bits \in Signeds
      /\ v.type = "float" => v.bits \in Int
  BY ScalarsRead
<1>2. \A t, b : Value(t, b).type = t  BY DEF Value
<1>3. CASE v.type = type
  <2>1. r = v  BY <1>3 DEF GetInPlace
  <2> QED  BY <1>3, <2>1
<1>4. CASE v.type # type
  <2>1. r \in Get(v, 0, type)  BY <1>4 DEF GetInPlace
  <2>2. CASE v.type = "unsigned"
    <3>1. type = "signed" \/ (type = "char" /\ v.bits \in 0..9)
      BY <1>4, <2>2 DEF Computed
    <3>2. CASE type = "signed"
      <4>1. r \in GetSigned(v)  BY <2>1, <3>2 DEF Get
      <4>2. CASE v.bits \in Signeds
        <5>1. r = Value("signed", v.bits)  BY <2>2, <4>1, <4>2 DEF GetSigned
        <5> QED  BY <1>2, <2>2, <3>2, <5>1, NumberIs DEF Number
      <4>3. CASE v.bits \notin Signeds
        <5>1. r = Value("signed", v.bits - 2 * SignBit)  BY <2>2, <4>1, <4>3 DEF GetSigned
        <5>2. PICK n \in Nat : n = 2 * SignBit /\ n > 0  BY VariantAssumption
        <5>3. v.bits \in Int /\ 0 <= v.bits /\ v.bits < n
          BY <1>1, <2>2, <5>2, VariantAssumption DEF Unsigneds
        <5>4. (v.bits - n) % n = v.bits % n  BY <5>2, <5>3, ModuloWidth
        <5>5. Number(r) = (v.bits - n) % n  BY <5>1, <5>2, NumberIs
        <5>6. Number(v) = v.bits % n  BY <2>2, <5>2 DEF Number
        <5> QED  BY <1>2, <3>2, <5>1, <5>4, <5>5, <5>6
      <4> QED  BY <4>2, <4>3
    <3>3. CASE type = "char" /\ v.bits \in 0..9
      <4>1. r \in GetChar(v, 0)  BY <2>1, <3>3 DEF Get
      <4>2. r = Value("char", 48 + v.bits)  BY <2>2, <3>3, <4>1 DEF GetChar
      <4>3. Number(r) = v.bits % (2 * SignBit)  BY <3>3, <4>2, NumberOfDigit
      <4> QED  BY <1>2, <2>2, <3>3, <4>2, <4>3 DEF Number
    <3> QED  BY <3>1, <3>2, <3>3
  <2>3. CASE v.type = "signed"
    <3>1. v.bits >= 0 /\ (type = "unsigned" \/ (type = "char" /\ v.bits \in 0..9))
      BY <2>3 DEF Computed
    <3>2. CASE type = "unsigned"
      <4>1. r \in GetUnsigned(v)  BY <2>1, <3>2 DEF Get
      <4>2. v.bits >= 0 /\ ~(v.bits < 0)  BY <1>1, <2>3, <3>1, VariantAssumption DEF Signeds
      <4>3. r = Value("unsigned", v.bits)  BY <2>3, <4>1, <4>2 DEF GetUnsigned
      <4> QED  BY <1>2, <2>3, <3>2, <4>3, NumberIs DEF Number
    <3>3. CASE type = "char" /\ v.bits \in 0..9
      <4>1. r \in GetChar(v, 0)  BY <2>1, <3>3 DEF Get
      <4>2. r = Value("char", 48 + v.bits)  BY <2>3, <3>3, <4>1 DEF GetChar
      <4>3. Number(r) = v.bits % (2 * SignBit)  BY <3>3, <4>2, NumberOfDigit
      <4> QED  BY <1>2, <2>3, <3>3, <4>2, <4>3 DEF Number
    <3> QED  BY <3>1, <3>2, <3>3
  <2>4. CASE v.type = "float"
    <3>1. \/ type = "unsigned" /\ v.bits \in Unsigneds
          \/ type = "signed" /\ v.bits \in Signeds
          \/ type = "char" /\ v.bits \in 0..9
      BY <2>4 DEF Computed
    <3>2. CASE type = "unsigned" /\ v.bits \in Unsigneds
      <4>1. r \in GetUnsigned(v)  BY <2>1, <3>2 DEF Get
      <4>2. v.bits >= 0  BY <3>2, VariantAssumption DEF Unsigneds
      <4>3. r \in InWidth("unsigned", Unsigneds, v.bits)  BY <2>4, <4>1, <4>2 DEF GetUnsigned
      <4>4. r = Value("unsigned", v.bits)  BY <3>2, <4>3 DEF InWidth
      <4> QED  BY <1>2, <2>4, <3>2, <4>4, NumberIs DEF Number
    <3>3. CASE type = "signed" /\ v.bits \in Signeds
      <4>1. r \in GetSigned(v)  BY <2>1, <3>3 DEF Get
      <4>2. r \in InWidth("signed", Signeds, v.bits)  BY <2>4, <4>1 DEF GetSigned
      <4>3. r = Value("signed", v.bits)  BY <3>3, <4>2 DEF InWidth
      <4> QED  BY <1>2, <2>4, <3>3, <4>3, NumberIs DEF Number
    <3>4. CASE type = "char" /\ v.bits \in 0..9
      <4>1. r \in GetChar(v, 0)  BY <2>1, <3>4 DEF Get
      <4>2. r = Value("char", 48 + v.bits)  BY <2>4, <3>4, <4>1 DEF GetChar
      <4>3. Number(r) = v.bits % (2 * SignBit)  BY <3>4, <4>2, NumberOfDigit
      <4> QED  BY <1>2, <2>4, <3>4, <4>2, <4>3 DEF Number
    <3> QED  BY <3>1, <3>2, <3>3, <3>4
  <2>5. CASE v.type = "char"
    <3>1. Digit(v.bits) /\ type \in {"unsigned", "signed", "float"}  BY <2>5 DEF Computed
    <3>2. CharNumber(v.bits) = {v.bits - 48}
      BY <3>1 DEF CharNumber, Digit, Affirmative, Negative
    <3>3. r = Value(type, v.bits - 48)
      <4> HIDE DEF CharNumber
      <4>1. CASE type = "unsigned"  BY <2>1, <2>5, <3>2, <4>1 DEF Get, GetUnsigned
      <4>2. CASE type = "signed"  BY <2>1, <2>5, <3>2, <4>2 DEF Get, GetSigned
      <4>3. CASE type = "float"  BY <2>1, <2>5, <3>2, <4>3 DEF Get, GetFloat
      <4> QED  BY <3>1, <4>1, <4>2, <4>3
    <3>4. type # "char"  BY <3>1
    <3> QED  BY <1>2, <2>5, <3>3, <3>4, NumberIs DEF Number
  <2>6. v.type \in {"unsigned", "signed", "float", "char"}  BY DEF Computed
  <2> QED  BY <2>2, <2>3, <2>4, <2>5, <2>6
<1> QED  BY <1>3, <1>4

(* Each conversion in place that the code computes keeps the number a value *)
(* stands for, for words of any width.                                      *)
THEOREM ConversionsKeepNumbers == HeapSpec => []ConversionKeepsNumber
<1>1. HeapInv => ConversionKeepsNumber
  <2>1. SUFFICES ASSUME HeapInv, NEW l \in Locations, NEW type \in setting.converted,
                        Computed(At(memory, l), type),
                        NEW r \in GetInPlace(At(memory, l), 0, type)
                 PROVE  r.type = type /\ Number(r) = Number(At(memory, l))
    BY DEF ConversionKeepsNumber
  <2>2. IsWord(At(memory, l))  BY <2>1, ReachedIs DEF HeapInv, Sound, Typed
  <2>3. type \in ScalarTypes \ {"void"}  BY <2>1, ValueHeapAssumption DEF HeapInv
  <2> QED  BY <2>1, <2>2, <2>3, ComputedIsNumber
<1> QED  BY <1>1, HeapInvHolds, PTL

------------------------------------------------------------------------------
(* Copies are faithful                                                     *)

LEMMA NoCharIs ==
    ASSUME NEW m, NEW v, ~HasChar(m, v)
    PROVE  /\ v.type # "char"
           /\ \A x, y : x \in Closure(m, v) /\ Has(m, x, y) => Word(m, x, y).type # "char"
<1>1. v.type # "char"  BY DEF HasChar
<1>2. ASSUME NEW x, NEW y, x \in Closure(m, v), Has(m, x, y)
      PROVE  Word(m, x, y).type # "char"
  <2>1. Closure(m, v) \subseteq Pages  BY DEF Closure, Pages
  <2>2. <<x, y>> \in LocationsIn(m, Closure(m, v))  BY <1>2, <2>1, LocationsAre DEF Has
  <2>3. At(m, <<x, y>>) = Word(m, x, y)  BY DEF At, Word
  <2> QED  BY <2>2, <2>3 DEF HasChar
<1> QED  BY <1>1, <1>2

(* Nothing is both below s and below d, when neither is below the other. *)
LEMMA BelowApart ==
    ASSUME NEW m, Sound(m), NEW p, NEW k, Has(m, p, k), NEW q, NEW j, Has(m, q, j),
           q \notin Closure(m, Word(m, p, k)), p \notin Closure(m, Word(m, q, j)),
           ~(p = q /\ k = j)
    PROVE  \A x \in Closure(m, Word(m, q, j)) : x \notin Closure(m, Word(m, p, k))
<1> DEFINE v == Word(m, q, j)
           C == Closure(m, v)
           u == Word(m, p, k)
           gone == Closure(m, u)
           S == C \ gone
<1>1. Owns(v) \subseteq Addresses /\ Owns(u) \subseteq Addresses /\ NothingDangles(m)
  BY OwnsIs DEF Sound, NothingDangles
<1>2. \A b : b \in Owns(v) <=> Holds(m, q, j, b)  BY OwnsIs DEF Holds
<1>3. \A b : b \in Owns(u) <=> Holds(m, p, k, b)  BY OwnsIs DEF Holds
<1> HIDE DEF v, u
<1>4. C \subseteq Addresses /\ Owns(v) \subseteq C /\ Whole(m, C)  BY <1>1, ClosureIs
<1>5. \A b \in gone : b \in Owns(u) \/ \E x, y : x \in gone /\ Holds(m, x, y, b)
  BY <1>1, ClosureIs
<1>6. p \notin C /\ q \notin gone  BY DEF v, u
<1> HIDE DEF C, gone
<1>7. \A x, y, b : Holds(m, x, y, b) /\ b \in gone => x \in gone \/ (x = p /\ y = k)
  BY <1>3, <1>5 DEF Sound, SingleOwners
<1>8. Owns(v) \subseteq S  BY <1>2, <1>4, <1>6, <1>7
<1>9. Whole(m, S)  BY <1>4, <1>6, <1>7 DEF Whole
<1>10. S \in SUBSET Addresses  BY <1>4
<1>11. Closure(m, v) \subseteq S
  <2> HIDE DEF S
  <2> QED  BY <1>8, <1>9, <1>10, ClosureIsLeast
<1> QED  BY <1>11 DEF C, gone, v, u

(* Payload x is in n what it is in m. *)
Kept(n, m, x) ==
    /\ n[x].kind = m[x].kind /\ n[x].front = m[x].front
    /\ DOMAIN n[x].items = DOMAIN m[x].items
    /\ \A y \in DOMAIN m[x].items : n[x].items[y] = m[x].items[y]

(* What the source owns is not touched by emptying the destination. *)
LEMMA SourceIsKept ==
    ASSUME NEW m, Sound(m), NEW p, NEW k, Has(m, p, k), NEW q, NEW j, Has(m, q, j),
           q \notin Closure(m, Word(m, p, k)), p \notin Closure(m, Word(m, q, j)),
           ~(p = q /\ k = j), Word(m, q, j).type \in OwnerTypes,
           NEW c, Sound(c), Has(c, p, k), Word(c, p, k) = Void,
           Voided(c, m, Closure(m, Word(m, p, k)), p, k),
           NEW kind \in OwnerTypes, NEW a \in Addresses, c[a].kind = "free",
           NEW e, WithOwner(e, c, p, k, kind, a)
    PROVE  /\ Closure(e, Word(m, q, j)) = Closure(m, Word(m, q, j))
           /\ \A x \in Closure(m, Word(m, q, j)) :
                 Kept(e, m, x) /\ x # a /\ m[x].kind \in OwnerTypes
<1> DEFINE v == Word(m, q, j)
           C == Closure(m, v)
           gone == Closure(m, Word(m, p, k))
<1>1. Owns(v) \subseteq Addresses /\ NothingDangles(m)
  BY OwnsIs DEF Sound, NothingDangles
<1>2. \A b : b \in Owns(v) <=> Holds(m, q, j, b)  BY OwnsIs DEF Holds
<1>3. /\ \A x, y : Has(e, x, y) <=> Has(c, x, y)
      /\ \A x, y, b : Holds(e, x, y, b) <=> Holds(c, x, y, b) \/ (x = p /\ y = k /\ b = a)
      /\ p # a
  <2>1. Word(c, p, k).type \notin OwnerTypes  BY VoidIsWord
  <2> HIDE DEF v, C, gone
  <2> QED  BY <2>1, WithOwnerHolds
<1>4. gone \in SUBSET Addresses /\ p \in Pages  BY DEF Closure, Has
<1>5. \A x, y, b : Holds(c, x, y, b) <=>
            x \notin gone /\ ~(x = p /\ y = k) /\ Holds(m, x, y, b)
  BY <1>4, SetVoidHolds
<1>6. \A x \in C : x \notin gone  BY BelowApart
<1>7. p \notin C  OBVIOUS
<1> HIDE DEF v, gone
<1>8. /\ C \subseteq Addresses /\ Owns(v) \subseteq C /\ Whole(m, C)
      /\ \A b \in C : b \in Owns(v) \/ \E x, y : x \in C /\ Holds(m, x, y, b)
  BY <1>1, ClosureIs
<1> HIDE DEF C
<1>9. \A b \in C : \E x, y : Holds(m, x, y, b)  BY <1>2, <1>8
<1>10. \A b \in C : m[b].kind \in OwnerTypes
  BY <1>9 DEF Holds, Sound, NothingDangles
<1>11. \A x \in C : x # a
  <2>1. SUFFICES ASSUME a \in C PROVE FALSE
    OBVIOUS
  <2>2. c[a].kind = m[a].kind  BY <1>6, <2>1 DEF Voided, Pages, gone
  <2> QED  BY <1>10, <2>1, <2>2 DEF OwnerTypes
<1>12. ASSUME NEW x \in C PROVE Kept(e, m, x)
  <2>1. x \in Pages /\ x \notin gone /\ x # a /\ x # p  BY <1>6, <1>7, <1>8, <1>11 DEF Pages
  <2>2. /\ c[x].kind = m[x].kind /\ c[x].front = m[x].front
        /\ DOMAIN c[x].items = DOMAIN m[x].items
    BY <2>1 DEF Voided, gone
  <2>3. /\ e[x].kind = c[x].kind /\ e[x].front = c[x].front
        /\ DOMAIN e[x].items = DOMAIN c[x].items
    BY <2>1 DEF WithOwner
  <2>4. ASSUME NEW y \in DOMAIN m[x].items PROVE e[x].items[y] = m[x].items[y]
    <3>1. Has(c, x, y) /\ Has(e, x, y)  BY <2>1, <2>2, <2>3 DEF Has
    <3>2. Word(c, x, y) = Word(m, x, y)  BY <2>1, <3>1 DEF Voided
    <3>3. Word(e, x, y) = Word(c, x, y)  BY <2>1, <3>1 DEF WithOwner
    <3> QED  BY <3>2, <3>3 DEF Word
  <2> QED  BY <2>2, <2>3, <2>4 DEF Kept
<1>13. \A x \in C : \A y, b : Holds(e, x, y, b) <=> Holds(m, x, y, b)
  BY <1>3, <1>5, <1>6, <1>7
<1>14. Closure(e, v) \subseteq C
  <2>1. Whole(e, C)  BY <1>8, <1>13 DEF Whole
  <2> QED  BY <1>8, <2>1, ClosureIsLeast
<1>15. C \subseteq Closure(e, v)
  <2> DEFINE S == {x \in C : x \in Closure(e, v)}
  <2>1. \A U \in ClosedIn(e) : Whole(e, U)  BY ClosedIsWhole DEF ClosedIn
  <2>2. Owns(v) \subseteq S
    BY <1>1, <1>8 DEF Closure
  <2>3. Whole(m, S)
    <3>1. SUFFICES ASSUME NEW x, NEW y, NEW b, Holds(m, x, y, b), x \in S PROVE b \in S
      BY DEF Whole
    <3>2. b \in C  BY <1>8, <3>1 DEF Whole
    <3>3. Holds(e, x, y, b)  BY <1>13, <3>1
    <3>4. ASSUME NEW U \in ClosedIn(e), Owns(v) \subseteq U PROVE b \in U
      <4>1. x \in U  BY <3>1, <3>4 DEF Closure
      <4> QED  BY <2>1, <3>3, <4>1 DEF Whole
    <3>5. b \in Closure(e, v)  BY <1>8, <3>2, <3>4 DEF Closure
    <3> QED  BY <3>2, <3>5
  <2>4. S \in SUBSET Addresses  BY <1>8
  <2>5. Closure(m, v) \subseteq S
    <3> HIDE DEF S
    <3> QED  BY <2>2, <2>3, <2>4, ClosureIsLeast
  <2> QED  BY <2>5 DEF C
<1> QED  BY <1>10, <1>11, <1>12, <1>14, <1>15 DEF C, v

(* The words below v that own, own what is below v. *)
LEMMA WordsBelow ==
    ASSUME NEW m, Sound(m), NEW q, NEW j, Has(m, q, j), NEW v, v = Word(m, q, j)
    PROVE  /\ Closure(m, v) \subseteq Addresses
           /\ v.type \in OwnerTypes => v.bits \in Closure(m, v)
           /\ \A x, y : x \in Closure(m, v) /\ Has(m, x, y) /\ Word(m, x, y).type \in OwnerTypes
                          => Word(m, x, y).bits \in Closure(m, v)
<1>1. Owns(v) \subseteq Addresses /\ NothingDangles(m)
  BY OwnsIs DEF Sound, NothingDangles
<1>2. /\ Closure(m, v) \subseteq Addresses /\ Owns(v) \subseteq Closure(m, v)
      /\ Whole(m, Closure(m, v))
  BY <1>1, ClosureIs
<1>3. v.type \in OwnerTypes => v.bits \in Closure(m, v)  BY <1>2, OwnsIs
<1>4. \A x, y : x \in Closure(m, v) /\ Has(m, x, y) /\ Word(m, x, y).type \in OwnerTypes
                  => Word(m, x, y).bits \in Closure(m, v)
  BY <1>2 DEF Whole, Holds
<1> QED  BY <1>2, <1>3, <1>4

(* The source has its content after copies of it were put elsewhere. *)
LEMMA SourceIsSame ==
    ASSUME NEW m, Sound(m), NEW q, NEW j, Has(m, q, j), NEW v, v = Word(m, q, j), NEW n,
           \A x \in Closure(m, v) : Kept(n, m, x)
    PROVE  Same(m, v, n, v)
<1> DEFINE C == Closure(m, v)
           f == [x \in C |-> x]
<1>1. /\ C \subseteq Addresses
      /\ v.type \in OwnerTypes => v.bits \in C
      /\ \A x, y : x \in C /\ Has(m, x, y) /\ Word(m, x, y).type \in OwnerTypes
                     => Word(m, x, y).bits \in C
  BY WordsBelow
<1> HIDE DEF C
<1>2. f \in [C -> Addresses] /\ \A x \in C : f[x] = x  BY <1>1
<1> HIDE DEF f
<1>3. SameWord(v, v, f)  BY <1>1, <1>2 DEF SameWord
<1>4. ASSUME NEW x \in C PROVE SamePayload(m[x], n[f[x]], f)
  <2>1. Kept(n, m, x) /\ f[x] = x /\ x \in Pages  BY <1>1, <1>2 DEF C, Pages
  <2>2. ASSUME NEW y \in DOMAIN m[x].items PROVE SameWord(m[x].items[y], n[x].items[y], f)
    <3> DEFINE w == m[x].items[y]
    <3>1. n[x].items[y] = w  BY <2>1 DEF Kept
    <3>2. w.type \in OwnerTypes => w.bits \in C  BY <1>1, <2>1 DEF Has, Word
    <3> HIDE DEF w
    <3>3. SameWord(w, w, f)  BY <1>2, <3>2 DEF SameWord
    <3> QED  BY <3>1, <3>3 DEF w
  <2> QED  BY <2>1, <2>2 DEF SamePayload, Kept
<1> QED  BY <1>2, <1>3, <1>4 DEF Same, C

(* A copy without characters has the content of the source. *)
LEMMA CopyIsSame ==
    ASSUME NEW m, Sound(m), NEW q, NEW j, Has(m, q, j), NEW v, v = Word(m, q, j),
           ~HasChar(m, v), v.type \in OwnerTypes,
           NEW e, \A x \in Closure(m, v) : Kept(e, m, x),
           NEW g, \A x \in Closure(m, v) : g[x] \in Addresses,
           NEW n, HasCopies(n, e, Closure(m, v), g)
    PROVE  Same(m, v, n, Value(v.type, g[v.bits]))
<1> DEFINE C == Closure(m, v)
           f == [x \in C |-> g[x]]
<1>1. /\ C \subseteq Addresses
      /\ v.bits \in C
      /\ \A x, y : x \in C /\ Has(m, x, y) /\ Word(m, x, y).type \in OwnerTypes
                     => Word(m, x, y).bits \in C
  BY WordsBelow
<1>2. \A x, y : x \in C /\ Has(m, x, y) => Word(m, x, y).type # "char"  BY NoCharIs
<1>3. /\ \A x \in C : g[x] \in Addresses
      /\ \A x \in C : Kept(e, m, x) /\ n[g[x]] = CopyOfPage(e, x, g)
  BY DEF HasCopies
<1> HIDE DEF C
<1>4. f \in [C -> Addresses] /\ \A x \in C : f[x] = g[x]  BY <1>3
<1> HIDE DEF f
<1>5. SameWord(v, Value(v.type, g[v.bits]), f)  BY <1>1, <1>4 DEF SameWord, Value
<1>6. ASSUME NEW x \in C PROVE SamePayload(m[x], n[f[x]], f)
  <2>1. f[x] = g[x] /\ x \in Pages /\ Kept(e, m, x) /\ n[g[x]] = CopyOfPage(e, x, g)
    BY <1>1, <1>3, <1>4 DEF Pages
  <2>2. /\ n[g[x]].kind = m[x].kind /\ n[g[x]].front = m[x].front
        /\ DOMAIN n[g[x]].items = DOMAIN m[x].items
    BY <2>1 DEF CopyOfPage, Kept
  <2>3. ASSUME NEW y \in DOMAIN m[x].items PROVE SameWord(m[x].items[y], n[g[x]].items[y], f)
    <3> DEFINE w == m[x].items[y]
    <3>1. n[g[x]].items[y] = CopyOf(w, g)  BY <2>1 DEF CopyOfPage, Kept
    <3>2. Has(m, x, y) /\ w = Word(m, x, y)  BY <2>1 DEF Has, Word
    <3>3. IsWord(w) /\ w.type # "char"  BY <1>2, <3>2 DEF Sound, Typed
    <3>4. w.type \in OwnerTypes => w.bits \in C  BY <1>1, <3>2
    <3> HIDE DEF w
    <3>5. CASE w.type \in OwnerTypes
      <4>1. CopyOf(w, g).type = w.type /\ CopyOf(w, g).bits = g[w.bits]
        BY <3>3, <3>5, CopyOfIs
      <4>2. f[w.bits] = g[w.bits]  BY <1>4, <3>4, <3>5
      <4>3. SameWord(w, CopyOf(w, g), f)  BY <3>5, <4>1, <4>2 DEF SameWord
      <4> QED  BY <3>1, <4>3 DEF w
    <3>6. CASE w.type \notin OwnerTypes
      <4>1. CopyOf(w, g) = w  BY <3>3, <3>6 DEF CopyOf
      <4>2. SameWord(w, CopyOf(w, g), f)  BY <3>6, <4>1 DEF SameWord
      <4> QED  BY <3>1, <4>2 DEF w
    <3> QED  BY <3>5, <3>6
  <2> QED  BY <2>1, <2>2, <2>3 DEF SamePayload
<1> QED  BY <1>4, <1>5, <1>6 DEF Same, C

(* Nothing without a character throws when it is copied. *)
LEMMA NoCharIsReadable ==
    ASSUME NEW m, Sound(m), NEW v, Owns(v) \subseteq Addresses, ~HasChar(m, v),
           NEW e, Closure(e, v) = Closure(m, v), \A x \in Closure(m, v) : Kept(e, m, x)
    PROVE  ~Unreadable(e, v)
<1> DEFINE C == Closure(m, v)
<1>1. v.type # "char" /\ \A x, y : x \in C /\ Has(m, x, y) => Word(m, x, y).type # "char"
  BY NoCharIs
<1>2. C \subseteq Pages  BY DEF Closure, Pages
<1>3. ASSUME NEW l \in LocationsIn(e, C) PROVE At(e, l).type # "char"
  <2>1. l[1] \in C /\ Has(e, l[1], l[2]) /\ At(e, l) = Word(e, l[1], l[2])
    BY <1>2, LocationIs
  <2>2. Kept(e, m, l[1])  BY <2>1
  <2>3. Has(m, l[1], l[2]) /\ Word(e, l[1], l[2]) = Word(m, l[1], l[2])
    BY <2>1, <2>2 DEF Kept, Has, Word
  <2> QED  BY <1>1, <2>1, <2>3
<1> QED  BY <1>1, <1>3 DEF Unreadable

(* What the copies leave as it is: all that is neither free nor at a, where  *)
(* the copy of the source's own payload goes.                               *)
Undisturbed(n, e, a) ==
    /\ \A x, y : Has(e, x, y) => n[x] = e[x]
    /\ \A x \in Pages : e[x].kind \in OwnerTypes /\ x # a => n[x] = e[x]

LEMMA OthersStay ==
    ASSUME NEW e, NEW B, NEW g, NEW b, Graft(e, B, g, {b}), NEW a, g[b] = a,
           NEW n, HasCopies(n, e, B, g)
    PROVE  Undisturbed(n, e, a)
<1>1. \A x : Target(B, g, x) => DOMAIN e[x].items = {} /\ (e[x].kind = "free" \/ x = a)
  BY DEF Target, Graft
<1>2. \A x \in Pages : ~Target(B, g, x) => n[x] = e[x]  BY DEF HasCopies
<1>3. \A x, y : Has(e, x, y) => n[x] = e[x]  BY <1>1, <1>2 DEF Has
<1>4. \A x \in Pages : e[x].kind \in OwnerTypes /\ x # a => n[x] = e[x]
  BY <1>1, <1>2 DEF OwnerTypes
<1> QED  BY <1>3, <1>4 DEF Undisturbed

LEMMA OwnerCopyIsFaithful ==
    ASSUME Sound(memory), NEW d \in Locations, NEW s \in Locations, d # s,
           ~Inside(memory, d, s), ~Inside(memory, s, d), ~HasChar(memory, At(memory, s)),
           At(memory, s).type \in OwnerTypes, NEW n \in CopiedOwner(d, s)
    PROVE  /\ Same(memory, At(memory, s), n, At(n, d))
           /\ Same(memory, At(memory, s), n, At(n, s))
<1> DEFINE p == d[1]
           k == d[2]
           q == s[1]
           j == s[2]
           v == Word(memory, q, j)
           C == Closure(memory, v)
           gone == Closure(memory, Word(memory, p, k))
<1>1. /\ d = <<p, k>> /\ Has(memory, p, k) /\ At(memory, d) = Word(memory, p, k)
      /\ s = <<q, j>> /\ Has(memory, q, j) /\ At(memory, s) = v /\ q \notin C
  BY ReachedIs
<1>2. q \notin gone /\ p \notin C /\ ~(p = q /\ k = j)  BY <1>1 DEF Inside
<1>3. v.type \in OwnerTypes /\ ~HasChar(memory, v)  BY <1>1
<1>4. PICK c, e : \E x \in Addresses : CopiesBy(n, d, s, c, e, x)  BY CopiedOwnerIs
<1>5. PICK a \in Addresses : CopiesBy(n, d, s, c, e, a)  BY <1>4
<1>6. /\ Sound(c) /\ Has(c, p, k) /\ Word(c, p, k) = Void /\ Voided(c, memory, gone, p, k)
      /\ c[a].kind = "free" /\ WithOwner(e, c, p, k, v.type, a) /\ Sound(e)
      /\ ~Unreadable(e, v) => MakesCopy(n, e, v, a)
  BY <1>5 DEF CopiesBy
<1>7. Owns(v) \subseteq Addresses  BY <1>1, OwnsIs DEF Sound, NothingDangles
<1>8. /\ Word(e, q, j) = v /\ Holds(e, q, j, v.bits) /\ Word(e, p, k) = Value(v.type, a)
  BY <1>1, <1>2, <1>3, <1>6, BelowAfterEmptied
<1>9. Has(e, p, k) /\ Has(e, q, j)
  <2>1. Has(e, q, j)  BY <1>8 DEF Holds
  <2>2. DOMAIN c[a].items = {}  BY <1>6 DEF Sound, Kinds
  <2>3. Has(e, p, k)  BY <1>6, <2>2 DEF WithOwner, Has
  <2> QED  BY <2>1, <2>3
<1>10. /\ Closure(e, v) = C
       /\ \A x \in C : Kept(e, memory, x) /\ x # a /\ memory[x].kind \in OwnerTypes
  BY <1>1, <1>2, <1>3, <1>6, SourceIsKept
<1> HIDE DEF v
<1>11. ~Unreadable(e, v)  BY <1>3, <1>7, <1>10, NoCharIsReadable
<1>12. PICK g : /\ Graft(e, C, g, {v.bits})
                /\ g[v.bits] = a
                /\ HasCopies(n, e, C, g)
  BY <1>6, <1>10, <1>11 DEF MakesCopy
<1>13. Undisturbed(n, e, a)  BY <1>12, OthersStay
<1>14. At(n, d) = Value(v.type, a) /\ At(n, s) = v
  BY <1>1, <1>8, <1>9, <1>13 DEF At, Word, Undisturbed
<1>15. ASSUME NEW x \in C PROVE Kept(n, memory, x)
  <2>1. Kept(e, memory, x) /\ x # a /\ memory[x].kind \in OwnerTypes  BY <1>10
  <2>2. x \in Pages  BY DEF Closure, Pages
  <2>3. n[x] = e[x]  BY <1>13, <2>1, <2>2 DEF Kept, Undisturbed
  <2> QED  BY <2>1, <2>3 DEF Kept
<1>16. Same(memory, v, n, Value(v.type, g[v.bits]))
  <2>1. \A x \in C : g[x] \in Addresses  BY <1>12 DEF Graft
  <2> QED  BY <1>1, <1>3, <1>10, <1>12, <2>1, CopyIsSame DEF v
<1>17. Same(memory, v, n, v)
  BY <1>1, <1>15, SourceIsSame DEF v
<1> QED  BY <1>1, <1>12, <1>14, <1>16, <1>17

LEMMA ScalarCopyIsFaithful ==
    ASSUME Sound(memory), NEW d \in Locations, NEW s \in Locations, d # s,
           ~Inside(memory, s, d), ~HasChar(memory, At(memory, s)),
           At(memory, s).type \notin OwnerTypes, NEW n \in CopiedScalar(d, s)
    PROVE  /\ Same(memory, At(memory, s), n, At(n, d))
           /\ Same(memory, At(memory, s), n, At(n, s))
<1> DEFINE p == d[1]
           k == d[2]
           q == s[1]
           j == s[2]
           v == At(memory, s)
           c == SetVoid(memory, d)
           gone == Closure(memory, Word(memory, p, k))
<1>1. /\ d = <<p, k>> /\ Has(memory, p, k) /\ At(memory, d) = Word(memory, p, k)
      /\ s = <<q, j>> /\ Has(memory, q, j) /\ v = Word(memory, q, j)
      /\ p \notin gone /\ p \in Pages
  BY ReachedIs
<1>2. q \notin gone /\ ~(p = q /\ k = j)  BY <1>1 DEF Inside
<1>3. v.type # "char"  BY DEF HasChar
<1>4. v # Throws
  <2>1. IsWord(v)  BY <1>1 DEF Sound, Typed
  <2>2. v.type # "throws"
    <3> HIDE DEF v
    <3> QED  BY <2>1 DEF IsWord, IsScalar, OwnerTypes
  <2>3. Throws.type = "throws"  BY DEF Throws, Value
  <2> QED  BY <2>2, <2>3
<1>5. n = Put(c, d, v)  BY <1>3, <1>4 DEF CopiedScalar
<1>6. Voided(c, memory, gone, p, k) /\ Sound(c)
  BY <1>1, SetVoidIs, SetVoidSound DEF Sound
<1>7. Written(n, c, p, k, v)
  <2> HIDE DEF v, c
  <2> QED  BY <1>1, <1>5, <1>6, PutIs DEF Sound
<1> HIDE DEF c
<1>8. Has(c, p, k) /\ Has(c, q, j)  BY <1>1, <1>2, <1>6 DEF Voided, Has
<1>9. Word(n, p, k) = v /\ Word(n, q, j) = v
  BY <1>1, <1>2, <1>6, <1>7, <1>8 DEF Voided, Written
<1>10. At(n, d) = v /\ At(n, s) = v  BY <1>1, <1>9 DEF At, Word
<1> HIDE DEF v
<1>11. Closure(memory, v) = {}
  <2>1. Owns(v) = {}  BY DEF v, Owns
  <2>2. Whole(memory, {})  BY DEF Whole
  <2> QED  BY <2>1, <2>2, ClosureIsLeast
<1>12. Same(memory, v, n, v)
  <2> DEFINE f == [x \in {} |-> x]
  <2>1. f \in [{} -> Addresses]  OBVIOUS
  <2>2. SameWord(v, v, f)  BY DEF SameWord, v
  <2> HIDE DEF f
  <2> QED  BY <1>11, <2>1, <2>2 DEF Same
<1> QED  BY <1>10, <1>12 DEF v

(* A copy has the content of its source, at every depth, and the source      *)
(* keeps it, in every state the operations lead to.                         *)
THEOREM CopiesAreFaithful == HeapSpec => []CopyIsFaithful
<1>1. HeapInv => CopyIsFaithful
  <2>1. SUFFICES ASSUME HeapInv,
                        NEW d \in Locations, NEW s \in Locations, d # s,
                        ~Inside(memory, d, s), ~Inside(memory, s, d),
                        ~HasChar(memory, At(memory, s)), NEW n \in Copied(d, s)
                 PROVE  /\ Same(memory, At(memory, s), n, At(n, d))
                        /\ Same(memory, At(memory, s), n, At(n, s))
    BY DEF CopyIsFaithful
  <2>2. Sound(memory)  BY <2>1 DEF HeapInv
  <2>3. CASE At(memory, s).type \in OwnerTypes
    BY <2>1, <2>2, <2>3, OwnerCopyIsFaithful DEF Copied
  <2>4. CASE At(memory, s).type \notin OwnerTypes
    BY <2>1, <2>2, <2>4, ScalarCopyIsFaithful DEF Copied
  <2> QED  BY <2>3, <2>4
<1> QED  BY <1>1, HeapInvHolds, PTL
==============================================================================
