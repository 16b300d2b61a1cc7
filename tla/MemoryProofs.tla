----------------------------- MODULE MemoryProofs ----------------------------
(***************************************************************************)
(* Theorems about memory pools and their users, for every number of pools  *)
(* and allocator objects, every heap and every choice of sizes.            *)
(***************************************************************************)
EXTENDS MemoryUsers, SequenceTheorems, TLAPS

ElementsOf(s) == {s[i] : i \in DOMAIN s}
Distinct(s) == \A i, j \in DOMAIN s : s[i] = s[j] => i = j

LEMMA RemoveAtFacts ==
    ASSUME NEW S, NEW s \in Seq(S), NEW i \in 1..Len(s)
    PROVE  /\ RemoveAt(s, i) \in Seq(S)
           /\ Len(RemoveAt(s, i)) = Len(s) - 1
           /\ \A k \in 1..(Len(s) - 1) :
                 RemoveAt(s, i)[k] = IF k < i THEN s[k] ELSE s[k + 1]
<1> DEFINE a == SubSeq(s, 1, i - 1)
           b == SubSeq(s, i + 1, Len(s))
<1>1. a \in Seq(S) /\ Len(a) = i - 1 /\ \A k \in 1..(i - 1) : a[k] = s[k]
  OBVIOUS
<1>2. b \in Seq(S) /\ Len(b) = Len(s) - i /\ \A k \in 1..(Len(s) - i) : b[k] = s[i + k]
  OBVIOUS
<1>3. RemoveAt(s, i) = a \o b
  BY DEF RemoveAt
<1> HIDE DEF a, b
<1>4. /\ a \o b \in Seq(S)
      /\ Len(a \o b) = Len(a) + Len(b)
      /\ \A k \in 1..(Len(a) + Len(b)) :
            (a \o b)[k] = IF k <= Len(a) THEN a[k] ELSE b[k - Len(a)]
  BY <1>1, <1>2, ConcatProperties
<1>5. Len(s) \in Nat
  OBVIOUS
<1>6. ASSUME NEW k \in 1..(Len(s) - 1)
      PROVE  (a \o b)[k] = IF k < i THEN s[k] ELSE s[k + 1]
  <2>1. CASE k < i
    BY <2>1, <1>1, <1>2, <1>4, <1>5
  <2>2. CASE ~(k < i)
    <3>1. (a \o b)[k] = b[k - (i - 1)]
      BY <2>2, <1>1, <1>2, <1>4, <1>5
    <3>2. k - (i - 1) \in 1..(Len(s) - i) /\ i + (k - (i - 1)) = k + 1
      BY <2>2, <1>5
    <3> QED
      BY <2>2, <3>1, <3>2, <1>2
  <2> QED
    BY <2>1, <2>2
<1>7. Len(a) + Len(b) = Len(s) - 1
  BY <1>1, <1>2, <1>5
<1> QED
  BY <1>3, <1>4, <1>6, <1>7

(* The three changes of a sequence without repetitions, seen on its set. *)
LEMMA RemovedElement ==
    ASSUME NEW S, NEW s \in Seq(S), NEW i \in DOMAIN s, Distinct(s)
    PROVE  /\ RemoveAt(s, i) \in Seq(S)
           /\ Distinct(RemoveAt(s, i))
           /\ ElementsOf(RemoveAt(s, i)) = ElementsOf(s) \ {s[i]}
<1> DEFINE n == Len(s)
           t == RemoveAt(s, i)
<1>1. n \in Nat /\ DOMAIN s = 1..n
  BY LenProperties
<1>2. /\ t \in Seq(S)
      /\ Len(t) = n - 1
      /\ \A k \in 1..(n - 1) : t[k] = IF k < i THEN s[k] ELSE s[k + 1]
  BY <1>1, RemoveAtFacts
<1>3. DOMAIN t = 1..(n - 1)
  BY <1>2, LenProperties
<1> HIDE DEF t, n
<1>4. Distinct(t)
  <2> SUFFICES ASSUME NEW j \in 1..(n - 1), NEW k \in 1..(n - 1), t[j] = t[k]
               PROVE  j = k
    BY <1>3 DEF Distinct
  <2> DEFINE old(m) == IF m < i THEN m ELSE m + 1
  <2>1. \A m \in 1..(n - 1) : old(m) \in 1..n /\ t[m] = s[old(m)]
    BY <1>1, <1>2
  <2>2. old(j) = old(k)
    <3> HIDE DEF old
    <3> QED
      BY <1>1, <2>1 DEF Distinct
  <2> QED
    BY <1>1, <2>2
<1>5. ElementsOf(t) = ElementsOf(s) \ {s[i]}
  <2>1. ASSUME NEW k \in 1..(n - 1)
        PROVE  t[k] \in ElementsOf(s) \ {s[i]}
    <3> DEFINE old == IF k < i THEN k ELSE k + 1
    <3>1. old \in 1..n /\ old # i /\ t[k] = s[old]
      BY <1>1, <1>2
    <3> HIDE DEF old
    <3> QED
      BY <1>1, <3>1 DEF Distinct, ElementsOf
  <2>2. ASSUME NEW j \in 1..n, s[j] # s[i]
        PROVE  \E k \in DOMAIN t : t[k] = s[j]
    <3>1. CASE j < i
      <4>1. j \in 1..(n - 1) /\ t[j] = s[j]
        BY <3>1, <1>1, <1>2
      <4> QED
        BY <4>1, <1>3
    <3>2. CASE j > i
      <4>1. j - 1 \in 1..(n - 1) /\ t[j - 1] = s[j]
        BY <3>2, <1>1, <1>2
      <4> QED
        BY <4>1, <1>3
    <3> QED
      BY <2>2, <3>1, <3>2, <1>1
  <2> QED
    BY <1>1, <1>3, <2>1, <2>2 DEF ElementsOf
<1> QED
  BY <1>2, <1>4, <1>5 DEF t, n

LEMMA AppendedElement ==
    ASSUME NEW S, NEW s \in Seq(S), NEW x \in S, Distinct(s), x \notin ElementsOf(s)
    PROVE  /\ Append(s, x) \in Seq(S)
           /\ Distinct(Append(s, x))
           /\ ElementsOf(Append(s, x)) = ElementsOf(s) \cup {x}
<1> DEFINE n == Len(s)
           t == Append(s, x)
<1>1. n \in Nat /\ DOMAIN s = 1..n
  BY LenProperties
<1>2. /\ t \in Seq(S)
      /\ Len(t) = n + 1
      /\ \A k \in 1..n : t[k] = s[k]
      /\ t[n + 1] = x
  BY AppendProperties
<1>3. DOMAIN t = 1..(n + 1)
  BY <1>2, LenProperties
<1> HIDE DEF t, n
<1>4. Distinct(t)
  BY <1>1, <1>2, <1>3 DEF Distinct, ElementsOf
<1>5. ElementsOf(t) = ElementsOf(s) \cup {x}
  BY <1>1, <1>2, <1>3 DEF ElementsOf
<1> QED
  BY <1>2, <1>4, <1>5 DEF t

Exchanged(s, t, i, x) ==
    \A y : y \in ElementsOf(t) <=> (y \in ElementsOf(s) /\ y # s[i]) \/ y = x

LEMMA ReplacedElement ==
    ASSUME NEW S, NEW s \in Seq(S), NEW i \in DOMAIN s, NEW x \in S, Distinct(s),
           x \in ElementsOf(s) => x = s[i],
           NEW t, t = [s EXCEPT ![i] = x]
    PROVE  /\ t \in Seq(S)
           /\ Distinct(t)
           /\ Exchanged(s, t, i, x)
<1>1. t \in Seq(S) /\ DOMAIN t = DOMAIN s
  BY ExceptSeq, LenProperties
<1>2. \A k \in DOMAIN s : t[k] = IF k = i THEN x ELSE s[k]
  OBVIOUS
<1>3. Distinct(t)
  BY <1>1, <1>2 DEF Distinct, ElementsOf
<1>4. Exchanged(s, t, i, x)
  BY <1>1, <1>2 DEF Distinct, ElementsOf, Exchanged
<1> QED
  BY <1>1, <1>3, <1>4

------------------------------------------------------------------------------
(* Blocks and what they cover. *)

Covered(S) == UNION {Bytes(b) : b \in S}
Reserved(S) == UNION {Footprint(b) : b \in S}
Apart(S, T) == \A b \in S, c \in T : Footprint(b) \cap Footprint(c) # {} => b = c

(* The pieces are cut out of the real blocks. *)
Tiling(real, pieces) ==
    /\ real \subseteq Block
    /\ pieces \subseteq Block
    /\ \A b \in real \cup pieces : End(b) <= HeapSize
    /\ Apart(pieces, pieces)
    /\ Reserved(pieces) \subseteq Reserved(real)
    /\ Covered(pieces) = Covered(real)

LEMMA BlockFacts ==
    ASSUME NEW b \in Block
    PROVE  /\ b.first \in Heap /\ b.first \in Int
           /\ b.size \in 0..HeapSize /\ b.size \in Nat
           /\ b = [first |-> b.first, size |-> b.size]
           /\ b.first \in Footprint(b)
           /\ \A x : x \in Bytes(b) <=> x \in Int /\ b.first <= x /\ x < b.first + b.size
           /\ \A x : x \in Footprint(b) <=> x \in Bytes(b) \/ x = b.first
           /\ End(b) = b.first + b.size
BY HeapAssumption DEF Block, Heap, Footprint, Bytes, End

LEMMA TilingGrows ==
    ASSUME NEW real, NEW pieces, Tiling(real, pieces),
           NEW b \in Block, End(b) <= HeapSize, Footprint(b) \cap Reserved(real) = {}
    PROVE  Tiling(real \cup {b}, pieces \cup {b}) /\ b \notin pieces
<1>1. \A c \in pieces : Footprint(b) \cap Footprint(c) = {}
  BY DEF Tiling, Reserved
<1>2. b \notin pieces
  BY <1>1, BlockFacts
<1>3. Apart(pieces \cup {b}, pieces \cup {b})
  BY <1>1 DEF Tiling, Apart
<1>4. Reserved(pieces \cup {b}) \subseteq Reserved(real \cup {b})
  BY DEF Tiling, Reserved
<1>5. Covered(pieces \cup {b}) = Covered(pieces) \cup Bytes(b)
  BY DEF Covered
<1>6. Covered(real \cup {b}) = Covered(real) \cup Bytes(b)
  BY DEF Covered
<1> QED
  BY <1>2, <1>3, <1>4, <1>5, <1>6 DEF Tiling

(* Two adjacent pieces become one. *)
LEMMA TilingMerges ==
    ASSUME NEW real, NEW pieces, Tiling(real, pieces),
           NEW b \in pieces, NEW c \in pieces, b # c, End(b) = c.first
    PROVE  LET m == [first |-> b.first, size |-> b.size + c.size]
               others == pieces \ {b, c}
           IN  /\ m \in Block
               /\ m \notin others
               /\ Tiling(real, others \cup {m})
<1> DEFINE m == [first |-> b.first, size |-> b.size + c.size]
           others == pieces \ {b, c}
<1>1. b \in Block /\ c \in Block /\ End(c) <= HeapSize
  BY DEF Tiling
<1>2. m \in Block /\ End(m) <= HeapSize
  <2>1. m.first + m.size = c.first + c.size /\ m.size \in Nat /\ m.first \in Heap
    BY <1>1, BlockFacts
  <2>2. m.size <= HeapSize
    BY <1>1, <2>1, BlockFacts, HeapAssumption DEF Heap
  <2> QED
    BY <1>1, <2>1, <2>2, BlockFacts, HeapAssumption DEF Block, End
<1>3. Bytes(m) = Bytes(b) \cup Bytes(c)
  <2>1. \A x : x \in Bytes(m) <=> x \in Int /\ b.first <= x /\ x < b.first + (b.size + c.size)
    BY <1>2, BlockFacts
  <2> HIDE DEF m
  <2> QED
    BY <1>1, <2>1, BlockFacts
<1>4. Footprint(m) \subseteq Footprint(b) \cup Footprint(c)
  BY <1>3 DEF Footprint
<1>m. m.first \in Footprint(m)
  BY <1>2, BlockFacts
<1> HIDE DEF m
<1>5. \A d \in others : Footprint(m) \cap Footprint(d) = {}
  BY <1>4 DEF Tiling, Apart
<1>6. m \notin others
  BY <1>5, <1>m
<1>7. Apart(others \cup {m}, others \cup {m})
  BY <1>5 DEF Tiling, Apart
<1>8. Reserved(others \cup {m}) \subseteq Reserved(real)
  BY <1>4 DEF Tiling, Reserved
<1>9. Covered(others \cup {m}) = Covered(pieces)
  BY <1>3 DEF Covered
<1> QED
  BY <1>2, <1>6, <1>7, <1>8, <1>9 DEF Tiling, m

(* One pool, by its three lists. *)
SoundPool(real, open, closed) ==
    /\ open \in Seq(Block)
    /\ Distinct(open)
    /\ ElementsOf(open) \cap closed = {}
    /\ Tiling(real, ElementsOf(open) \cup closed)

(* The blocks of operator new belong to one pool each. *)
RealApart ==
    \A p, q \in Pools : p # q => Reserved(mRealBlocks[p]) \cap Reserved(mRealBlocks[q]) = {}

PoolInv ==
    /\ PoolTypeOK
    /\ \A p \in Pools : SoundPool(mRealBlocks[p], mOpenBlocks[p], mClosedBlocks[p])
    /\ RealApart

LEMMA SoundReuse ==
    ASSUME NEW real, NEW open, NEW closed, SoundPool(real, open, closed), NEW i \in DOMAIN open
    PROVE  SoundPool(real, RemoveAt(open, i), closed \cup {open[i]})
<1>1. /\ RemoveAt(open, i) \in Seq(Block)
      /\ Distinct(RemoveAt(open, i))
      /\ ElementsOf(RemoveAt(open, i)) = ElementsOf(open) \ {open[i]}
  BY RemovedElement DEF SoundPool
<1>2. open[i] \in ElementsOf(open)
  BY DEF ElementsOf
<1>3. (ElementsOf(open) \ {open[i]}) \cup (closed \cup {open[i]}) = ElementsOf(open) \cup closed
  BY <1>2
<1> QED
  BY <1>1, <1>3 DEF SoundPool

LEMMA SoundObtain ==
    ASSUME NEW real, NEW open, NEW closed, SoundPool(real, open, closed),
           NEW b \in Block, End(b) <= HeapSize, Footprint(b) \cap Reserved(real) = {}
    PROVE  SoundPool(real \cup {b}, open, closed \cup {b})
<1>1. Tiling(real \cup {b}, (ElementsOf(open) \cup closed) \cup {b}) /\ b \notin ElementsOf(open)
  BY TilingGrows DEF SoundPool
<1>2. (ElementsOf(open) \cup closed) \cup {b} = ElementsOf(open) \cup (closed \cup {b})
  OBVIOUS
<1> QED
  BY <1>1, <1>2 DEF SoundPool

LEMMA SoundRelease ==
    ASSUME NEW real, NEW open, NEW closed, SoundPool(real, open, closed), NEW b \in closed
    PROVE  SoundPool(real, Append(open, b), closed \ {b})
<1>1. b \in Block /\ b \notin ElementsOf(open)
  BY DEF SoundPool, Tiling
<1>2. /\ Append(open, b) \in Seq(Block)
      /\ Distinct(Append(open, b))
      /\ ElementsOf(Append(open, b)) = ElementsOf(open) \cup {b}
  BY <1>1, AppendedElement DEF SoundPool
<1>3. (ElementsOf(open) \cup {b}) \cup (closed \ {b}) = ElementsOf(open) \cup closed
  OBVIOUS
<1> QED
  BY <1>2, <1>3 DEF SoundPool

LEMMA SoundMerge ==
    ASSUME NEW real, NEW open, NEW closed, SoundPool(real, open, closed),
           NEW tmp \in closed, NEW i \in DOMAIN open, NEW b, NEW c,
           {b, c} = {tmp, open[i]}, End(b) = c.first
    PROVE  SoundPool(real,
                     [open EXCEPT ![i] = [first |-> b.first, size |-> b.size + c.size]],
                     closed \ {tmp})
<1> DEFINE m == [first |-> b.first, size |-> b.size + c.size]
           pieces == ElementsOf(open) \cup closed
<1>1. open[i] \in ElementsOf(open) /\ open[i] \notin closed /\ tmp \notin ElementsOf(open)
  BY DEF SoundPool, ElementsOf
<1>2. b \in pieces /\ c \in pieces /\ b # c /\ pieces \ {b, c} = pieces \ {tmp, open[i]}
  BY <1>1
<1>3. m \in Block /\ m \notin pieces \ {b, c} /\ Tiling(real, (pieces \ {b, c}) \cup {m})
  BY <1>2, TilingMerges DEF SoundPool
<1> HIDE DEF m
<1>4. (m \in ElementsOf(open) => m = open[i]) /\ m \notin closed \ {tmp}
  BY <1>1, <1>2, <1>3
<1> DEFINE merged == [open EXCEPT ![i] = m]
<1>5. /\ merged \in Seq(Block)
      /\ Distinct(merged)
      /\ Exchanged(open, merged, i, m)
  <2>1. open \in Seq(Block) /\ Distinct(open)
    BY DEF SoundPool
  <2>2. merged = [open EXCEPT ![i] = m]
    OBVIOUS
  <2>3. m \in Block
    BY <1>3
  <2> HIDE DEF merged
  <2> QED
    BY <1>4, <2>1, <2>2, <2>3, ReplacedElement
<1> HIDE DEF merged
<1>6. ElementsOf(merged) \cup (closed \ {tmp}) = (pieces \ {b, c}) \cup {m}
  BY <1>1, <1>2, <1>5 DEF Exchanged
<1>7. ElementsOf(merged) \cap (closed \ {tmp}) = {}
  BY <1>1, <1>4, <1>5 DEF SoundPool, Exchanged
<1> QED
  BY <1>3, <1>5, <1>6, <1>7 DEF SoundPool, merged, m
------------------------------------------------------------------------------
(* The operations of a pool keep all pools sound. *)

LEMMA OpenIsElements == \A p : Open(p) = ElementsOf(mOpenBlocks[p])
BY DEF Open, ElementsOf

LEMMA PoolInvInit == PoolInit => PoolInv
<1> SUFFICES ASSUME PoolInit
             PROVE  PoolInv
  OBVIOUS
<1>1. << >> \in Seq(Block) /\ ElementsOf(<< >>) = {} /\ Distinct(<< >>)
  BY DEF ElementsOf, Distinct
<1>2. PoolTypeOK
  BY <1>1 DEF PoolInit, PoolTypeOK
<1>3. Tiling({}, {})
  BY DEF Tiling, Apart, Reserved, Covered
<1>4. ASSUME NEW p \in Pools
      PROVE  SoundPool(mRealBlocks[p], mOpenBlocks[p], mClosedBlocks[p])
  BY <1>1, <1>3 DEF PoolInit, SoundPool
<1>5. RealApart
  BY DEF PoolInit, RealApart, Reserved
<1> QED
  BY <1>2, <1>4, <1>5 DEF PoolInv

(* A step of one pool that takes no real block from another one. *)
LEMMA OnePoolStep ==
    ASSUME PoolInv, NEW p \in Pools,
           NEW real \in SUBSET Block, NEW open \in Seq(Block), NEW closed \in SUBSET Block,
           mRealBlocks' = [mRealBlocks EXCEPT ![p] = real],
           mOpenBlocks' = [mOpenBlocks EXCEPT ![p] = open],
           mClosedBlocks' = [mClosedBlocks EXCEPT ![p] = closed],
           SoundPool(real, open, closed),
           \A q \in Pools : q # p => Reserved(real) \cap Reserved(mRealBlocks[q]) = {}
    PROVE  PoolInv'
<1>1. PoolTypeOK'
  BY DEF PoolInv, PoolTypeOK
<1>2. ASSUME NEW q \in Pools
      PROVE  SoundPool(mRealBlocks'[q], mOpenBlocks'[q], mClosedBlocks'[q])
  BY DEF PoolInv, PoolTypeOK
<1>3. RealApart'
  BY DEF PoolInv, PoolTypeOK, RealApart
<1> QED
  BY <1>1, <1>2, <1>3 DEF PoolInv

(* What allocate does to the closed blocks: one that starts where no closed *)
(* block of any pool did, and that is no larger than asked for.             *)
GivesOut(p, size, at, b) ==
    /\ b \in Block
    /\ b.first = at
    /\ b.size <= size
    /\ mClosedBlocks' = [mClosedBlocks EXCEPT ![p] = @ \cup {b}]
    /\ \A q \in Pools : \A c \in mClosedBlocks[q] : c.first # at

LEMMA ClosedAfterGivingOut ==
    ASSUME PoolTypeOK, NEW p \in Pools, NEW size, NEW at, NEW b, GivesOut(p, size, at, b)
    PROVE  \A q \in Pools : mClosedBlocks'[q] =
                            IF q = p THEN mClosedBlocks[q] \cup {b} ELSE mClosedBlocks[q]
BY DEF PoolTypeOK, GivesOut

(* A closed block starts within what operator new gave to its pool. *)
LEMMA PiecesReserved ==
    ASSUME PoolInv, NEW p \in Pools, NEW b \in Open(p) \cup mClosedBlocks[p]
    PROVE  b \in Block /\ b.first \in Reserved(mRealBlocks[p])
<1>1. SoundPool(mRealBlocks[p], mOpenBlocks[p], mClosedBlocks[p])
  BY DEF PoolInv
<1>2. b \in ElementsOf(mOpenBlocks[p]) \cup mClosedBlocks[p] /\ b \in Block
  BY <1>1, OpenIsElements DEF SoundPool, Tiling
<1>3. b.first \in Reserved(ElementsOf(mOpenBlocks[p]) \cup mClosedBlocks[p])
  BY <1>2, BlockFacts DEF Reserved
<1> QED
  BY <1>1, <1>2, <1>3 DEF SoundPool, Tiling

(* Pieces that start at the same address are the same, of the same pool. *)
LEMMA PieceByAddress ==
    ASSUME PoolInv, NEW p \in Pools, NEW q \in Pools,
           NEW b \in Open(p) \cup mClosedBlocks[p], NEW c \in Open(q) \cup mClosedBlocks[q],
           b.first = c.first
    PROVE  p = q /\ b = c
<1>1. /\ b \in Block /\ b.first \in Reserved(mRealBlocks[p])
      /\ c \in Block /\ c.first \in Reserved(mRealBlocks[q])
  BY PiecesReserved
<1>2. p = q
  BY <1>1 DEF PoolInv, RealApart
<1>3. b.first \in Footprint(b) /\ c.first \in Footprint(c)
  BY <1>1, BlockFacts
<1>4. SoundPool(mRealBlocks[p], mOpenBlocks[p], mClosedBlocks[p])
  BY DEF PoolInv
<1> QED
  BY <1>2, <1>3, <1>4, OpenIsElements DEF SoundPool, Tiling, Apart

LEMMA ReuseStep ==
    ASSUME PoolInv, NEW p \in Pools, NEW size \in 0..HeapSize, NEW at, Reuse(p, size, at)
    PROVE  PoolInv' /\ \E b : GivesOut(p, size, at, b)
<1> DEFINE open == mOpenBlocks[p]
<1>1. PICK i \in DOMAIN open :
          /\ Fits(open[i], size)
          /\ at = open[i].first
          /\ mOpenBlocks' = [mOpenBlocks EXCEPT ![p] = RemoveAt(@, i)]
          /\ mClosedBlocks' = [mClosedBlocks EXCEPT ![p] = @ \cup {open[i]}]
          /\ UNCHANGED mRealBlocks
  <2>1. PICK i \in DOMAIN open :
            LET tmp  == open[i]
                larger == tmp.size > size
                given  == IF larger THEN [tmp EXCEPT !.size = size] ELSE tmp
                rest   == IF larger THEN {[first |-> End(given), size |-> tmp.size - size]}
                                    ELSE {}
            IN  /\ IsFirst(i, p, LAMBDA b : Fits(b, size))
                /\ at = tmp.first
                /\ mOpenBlocks' = [mOpenBlocks EXCEPT ![p] = RemoveAt(@, i)]
                /\ mClosedBlocks' = [mClosedBlocks EXCEPT ![p] = @ \cup rest \cup {given}]
                /\ UNCHANGED mRealBlocks
    BY DEF Reuse
  <2>2. Fits(open[i], size)
    BY <2>1 DEF IsFirst
  <2>3. open[i] \in Open(p)
    BY DEF Open
  <2>4. open[i] \in Block
    BY <2>3, PiecesReserved
  <2>5. ~(open[i].size > size)
    BY <2>2, <2>4, BlockFacts DEF Fits
  <2> QED
    BY <2>1, <2>2, <2>5
<1>2. SoundPool(mRealBlocks[p], open, mClosedBlocks[p])
  BY DEF PoolInv
<1>3. open[i] \in Open(p) /\ open[i] \notin mClosedBlocks[p] /\ open[i] \in Block
  <2>1. open[i] \in Open(p)
    BY DEF Open
  <2> QED
    BY <1>2, <2>1, OpenIsElements, PiecesReserved DEF SoundPool
<1>4. GivesOut(p, size, at, open[i])
  <2>1. ASSUME NEW q \in Pools, NEW c \in mClosedBlocks[q], c.first = at
        PROVE  FALSE
    BY <1>1, <1>3, <2>1, PieceByAddress
  <2> QED
    BY <1>1, <1>3, <2>1 DEF GivesOut, Fits
<1>5. PoolInv'
  <2>1. SoundPool(mRealBlocks[p], RemoveAt(open, i), mClosedBlocks[p] \cup {open[i]})
    BY <1>2, SoundReuse
  <2>2. RemoveAt(open, i) \in Seq(Block)
    BY <2>1 DEF SoundPool
  <2>3. /\ mRealBlocks[p] \in SUBSET Block
        /\ mClosedBlocks[p] \cup {open[i]} \in SUBSET Block
        /\ mRealBlocks' = [mRealBlocks EXCEPT ![p] = mRealBlocks[p]]
    BY <1>1, <1>3 DEF PoolInv, PoolTypeOK
  <2>4. \A q \in Pools : q # p => Reserved(mRealBlocks[p]) \cap Reserved(mRealBlocks[q]) = {}
    BY DEF PoolInv, RealApart
  <2> QED
    BY <1>1, <2>1, <2>2, <2>3, <2>4, OnePoolStep
<1> QED
  BY <1>4, <1>5

LEMMA ObtainStep ==
    ASSUME PoolInv, NEW p \in Pools, NEW size \in 0..HeapSize, NEW at \in Heap,
           Obtain(p, size, at)
    PROVE  PoolInv' /\ \E b : GivesOut(p, size, at, b)
<1> DEFINE tmp == [first |-> at, size |-> size]
<1>1. /\ OperatorNew(size, at)
      /\ mRealBlocks' = [mRealBlocks EXCEPT ![p] = @ \cup {tmp}]
      /\ mClosedBlocks' = [mClosedBlocks EXCEPT ![p] = @ \cup {tmp}]
      /\ UNCHANGED mOpenBlocks
  BY DEF Obtain
<1>2. tmp \in Block /\ tmp.first = at /\ tmp.size = size /\ End(tmp) <= HeapSize
  BY <1>1 DEF Block, OperatorNew, End
<1>3. \A q \in Pools : Footprint(tmp) \cap Reserved(mRealBlocks[q]) = {}
  BY <1>1 DEF OperatorNew, Reserved
<1> HIDE DEF tmp
<1>4. SoundPool(mRealBlocks[p], mOpenBlocks[p], mClosedBlocks[p])
  BY DEF PoolInv
<1>5. SoundPool(mRealBlocks[p] \cup {tmp}, mOpenBlocks[p], mClosedBlocks[p] \cup {tmp})
  BY <1>2, <1>3, <1>4, SoundObtain
<1>6. \A q \in Pools :
         q # p => Reserved(mRealBlocks[p] \cup {tmp}) \cap Reserved(mRealBlocks[q]) = {}
  <2>1. Reserved(mRealBlocks[p] \cup {tmp}) = Reserved(mRealBlocks[p]) \cup Footprint(tmp)
    BY DEF Reserved
  <2> QED
    BY <1>3, <2>1 DEF PoolInv, RealApart
<1>7. PoolInv'
  <2>1. /\ mRealBlocks[p] \cup {tmp} \in SUBSET Block
        /\ mClosedBlocks[p] \cup {tmp} \in SUBSET Block
        /\ mOpenBlocks[p] \in Seq(Block)
        /\ mOpenBlocks' = [mOpenBlocks EXCEPT ![p] = mOpenBlocks[p]]
    BY <1>1, <1>2 DEF PoolInv, PoolTypeOK
  <2> QED
    BY <1>1, <1>5, <1>6, <2>1, OnePoolStep
<1>8. GivesOut(p, size, at, tmp)
  <2>1. at \in Footprint(tmp)
    BY <1>2, BlockFacts
  <2>2. ASSUME NEW q \in Pools, NEW c \in mClosedBlocks[q], c.first = at
        PROVE  FALSE
    BY <1>3, <2>1, <2>2, PiecesReserved
  <2>3. size <= size
    OBVIOUS
  <2> QED
    BY <1>1, <1>2, <2>2, <2>3 DEF GivesOut
<1> QED
  BY <1>7, <1>8

LEMMA AllocateStep ==
    ASSUME PoolInv, NEW p \in Pools, NEW size \in 0..HeapSize, NEW at \in Heap,
           Allocate(p, size, at)
    PROVE  PoolInv' /\ \E b : GivesOut(p, size, at, b)
BY ReuseStep, ObtainStep DEF Allocate
(* What deallocate does to the closed blocks. *)
TakesBack(p, at, b) ==
    /\ b \in mClosedBlocks[p]
    /\ b.first = at
    /\ mClosedBlocks' = [mClosedBlocks EXCEPT ![p] = @ \ {b}]

LEMMA DeallocateStep ==
    ASSUME PoolInv, NEW p \in Pools, NEW at, Deallocate(p, at)
    PROVE  PoolInv' /\ \E b : TakesBack(p, at, b)
<1> DEFINE open == mOpenBlocks[p]
           follows(tmp, b)  == b.first = End(tmp)
           precedes(tmp, b) == End(b) = tmp.first
           After(tmp, i)  == follows(tmp, open[i]) /\ mOpenBlocks' = [mOpenBlocks EXCEPT ![p][i] =
                                 [first |-> tmp.first, size |-> @.size + tmp.size]]
           Before(tmp, i) == precedes(tmp, open[i])
                             /\ mOpenBlocks' = [mOpenBlocks EXCEPT ![p][i].size = @ + tmp.size]
           Alone(tmp) == mOpenBlocks' = [mOpenBlocks EXCEPT ![p] = Append(@, tmp)]
<1>1. PICK tmp \in mClosedBlocks[p] :
          /\ tmp.first = at
          /\ mClosedBlocks' = [mClosedBlocks EXCEPT ![p] = @ \ {tmp}]
          /\ UNCHANGED mRealBlocks
          /\ \/ \E i \in DOMAIN open : After(tmp, i) \/ Before(tmp, i)
             \/ Alone(tmp)
  BY DEF Deallocate, IsFirst
<1>2. TakesBack(p, at, tmp)
  BY <1>1 DEF TakesBack
<1>3. SoundPool(mRealBlocks[p], open, mClosedBlocks[p])
  BY DEF PoolInv
<1>4. open \in Seq(Block) /\ tmp \in Block
  BY DEF PoolInv, PoolTypeOK
<1>5. \E new : mOpenBlocks' = [mOpenBlocks EXCEPT ![p] = new]
                /\ SoundPool(mRealBlocks[p], new, mClosedBlocks[p] \ {tmp})
  <2>1. ASSUME NEW i \in DOMAIN open, After(tmp, i)
        PROVE  \E new : mOpenBlocks' = [mOpenBlocks EXCEPT ![p] = new]
                         /\ SoundPool(mRealBlocks[p], new, mClosedBlocks[p] \ {tmp})
    <3> DEFINE new == [open EXCEPT ![i] = [first |-> tmp.first, size |-> tmp.size + open[i].size]]
    <3>1. open[i] \in Block
      BY <1>4, ElementOfSeq, LenProperties
    <3>2. tmp.size + open[i].size = open[i].size + tmp.size
      BY <1>4, <3>1, BlockFacts
    <3>3. mOpenBlocks' = [mOpenBlocks EXCEPT ![p] = new]
      BY <2>1, <3>2
    <3>4. End(tmp) = open[i].first
      BY <2>1
    <3>5. SoundPool(mRealBlocks[p], new, mClosedBlocks[p] \ {tmp})
      BY <1>3, <3>4, SoundMerge
    <3> QED
      BY <3>3, <3>5
  <2>2. ASSUME NEW i \in DOMAIN open, Before(tmp, i)
        PROVE  \E new : mOpenBlocks' = [mOpenBlocks EXCEPT ![p] = new]
                         /\ SoundPool(mRealBlocks[p], new, mClosedBlocks[p] \ {tmp})
    <3> DEFINE new == [open EXCEPT ![i] =
                          [first |-> open[i].first, size |-> open[i].size + tmp.size]]
    <3>1. open[i] \in Block
      BY <1>4, ElementOfSeq, LenProperties
    <3>2. [open[i] EXCEPT !.size = @ + tmp.size]
             = [first |-> open[i].first, size |-> open[i].size + tmp.size]
      BY <3>1 DEF Block
    <3>3. mOpenBlocks' = [mOpenBlocks EXCEPT ![p] = new]
      BY <2>2, <3>2
    <3>4. End(open[i]) = tmp.first
      BY <2>2
    <3>5. SoundPool(mRealBlocks[p], new, mClosedBlocks[p] \ {tmp})
      BY <1>3, <3>4, SoundMerge
    <3> QED
      BY <3>3, <3>5
  <2>3. CASE Alone(tmp)
    <3>1. SoundPool(mRealBlocks[p], Append(open, tmp), mClosedBlocks[p] \ {tmp})
      BY <1>3, SoundRelease
    <3> QED
      BY <2>3, <3>1
  <2> QED
    BY <1>1, <2>1, <2>2, <2>3
<1>6. PoolInv'
  <2>1. PICK new : /\ mOpenBlocks' = [mOpenBlocks EXCEPT ![p] = new]
                   /\ SoundPool(mRealBlocks[p], new, mClosedBlocks[p] \ {tmp})
    BY <1>5
  <2>2. /\ new \in Seq(Block)
        /\ mRealBlocks[p] \in SUBSET Block
        /\ mClosedBlocks[p] \ {tmp} \in SUBSET Block
        /\ mRealBlocks' = [mRealBlocks EXCEPT ![p] = mRealBlocks[p]]
    BY <1>1, <2>1 DEF SoundPool, PoolInv, PoolTypeOK
  <2>3. \A q \in Pools : q # p => Reserved(mRealBlocks[p]) \cap Reserved(mRealBlocks[q]) = {}
    BY DEF PoolInv, RealApart
  <2> QED
    BY <1>1, <2>1, <2>2, <2>3, OnePoolStep
<1> QED
  BY <1>2, <1>6

LEMMA MovePoolStep ==
    ASSUME PoolInv, NEW p \in Pools, NEW q \in Pools, MovePool(p, q)
    PROVE  PoolInv'
<1> DEFINE other(r) == IF r = p THEN q ELSE IF r = q THEN p ELSE r
<1>1. \A r \in Pools : /\ other(r) \in Pools
                       /\ mRealBlocks'[r] = mRealBlocks[other(r)]
                       /\ mOpenBlocks'[r] = mOpenBlocks[other(r)]
                       /\ mClosedBlocks'[r] = mClosedBlocks[other(r)]
  BY DEF MovePool, PoolInv, PoolTypeOK
<1>2. \A r, s \in Pools : r # s => other(r) # other(s)
  OBVIOUS
<1>3. PoolTypeOK'
  BY DEF MovePool, PoolInv, PoolTypeOK
<1> HIDE DEF other
<1>4. ASSUME NEW r \in Pools
      PROVE  SoundPool(mRealBlocks'[r], mOpenBlocks'[r], mClosedBlocks'[r])
  BY <1>1 DEF PoolInv
<1>5. RealApart'
  BY <1>1, <1>2 DEF PoolInv, RealApart
<1> QED
  BY <1>3, <1>4, <1>5 DEF PoolInv

LEMMA DestroyPoolStep ==
    ASSUME PoolInv, NEW p \in Pools, DestroyPool(p)
    PROVE  PoolInv'
<1>1. << >> \in Seq(Block) /\ ElementsOf(<< >>) = {} /\ Distinct(<< >>)
  BY DEF ElementsOf, Distinct
<1>2. Tiling({}, {}) /\ Reserved({}) = {}
  BY DEF Tiling, Apart, Reserved, Covered
<1>3. SoundPool({}, << >>, {})
  BY <1>1, <1>2 DEF SoundPool
<1> QED
  BY <1>1, <1>2, <1>3, OnePoolStep DEF DestroyPool

LEMMA SoundPools == PoolInv => PoolsSound
<1> SUFFICES ASSUME PoolInv
             PROVE  Tiled /\ ClosedByAddress
  BY DEF PoolsSound
<1>1. ClosedByAddress
  BY PieceByAddress DEF ClosedByAddress
<1>2. ASSUME NEW p \in Pools
      PROVE  LET pieces == Open(p) \cup mClosedBlocks[p]
             IN  /\ Covered(pieces) = Covered(mRealBlocks[p])
                 /\ \A b, c \in pieces : b # c => Bytes(b) \cap Bytes(c) = {}
                 /\ Open(p) \cap mClosedBlocks[p] = {}
                 /\ Distinct(mOpenBlocks[p])
  <2>1. SoundPool(mRealBlocks[p], mOpenBlocks[p], mClosedBlocks[p])
    BY DEF PoolInv
  <2> QED
    BY <2>1, OpenIsElements DEF SoundPool, Tiling, Apart, Footprint
<1>3. Tiled
  BY <1>2 DEF Tiled, Covered, Distinct
<1> QED
  BY <1>1, <1>3
------------------------------------------------------------------------------
(* The client. *)

ClientInv ==
    /\ held \subseteq Holding
    /\ \A h \in held : \E b \in mClosedBlocks[h.pool] : b.first = h.at
    /\ \A p \in Pools : \A b \in mClosedBlocks[p] : \E h \in held : h.pool = p /\ h.at = b.first
    /\ \A h, k \in held : h.at = k.at => h = k

LEMMA ClientStep ==
    ASSUME PoolInv, ClientInv, Next
    PROVE  PoolInv' /\ ClientInv'
<1> USE DEF ClientInv
<1>c. mClosedBlocks \in [Pools -> SUBSET Block]
  BY DEF PoolInv, PoolTypeOK
<1>1. ASSUME NEW p \in Pools, NEW size \in Sizes, NEW at \in Heap, Get(p, size, at)
      PROVE  PoolInv' /\ ClientInv'
  <2> DEFINE new == [at |-> at, asked |-> size, pool |-> p]
  <2>1. PoolInv' /\ \E b : GivesOut(p, size, at, b)
    BY <1>1, AllocateStep, SizeAssumption DEF Get
  <2>2. PICK b : GivesOut(p, size, at, b)
    BY <2>1
  <2>3. held' = held \cup {new} /\ new \in Holding
    BY <1>1 DEF Get, Holding
  <2>4. new.at = at /\ new.pool = p
    OBVIOUS
  <2>5. \A h \in held : h.pool \in Pools
    BY DEF Holding
  <2> HIDE DEF new
  <2>6. \A h \in held : h.at # at
    BY <2>2, <2>5 DEF GivesOut
  <2>7. \A q \in Pools : mClosedBlocks'[q] =
                         IF q = p THEN mClosedBlocks[q] \cup {b} ELSE mClosedBlocks[q]
    BY <1>c, <2>2 DEF GivesOut
  <2>8. \A h \in held' : \E c \in mClosedBlocks'[h.pool] : c.first = h.at
    BY <2>2, <2>3, <2>4, <2>5, <2>7 DEF GivesOut
  <2>9. \A q \in Pools : \A c \in mClosedBlocks'[q] : \E h \in held' : h.pool = q /\ h.at = c.first
    BY <2>2, <2>3, <2>4, <2>7 DEF GivesOut
  <2> QED
    BY <2>1, <2>3, <2>4, <2>6, <2>8, <2>9
<1>2. ASSUME NEW g \in held, GiveBack(g)
      PROVE  PoolInv' /\ ClientInv'
  <2>1. g.pool \in Pools /\ \A h \in held : h.pool \in Pools
    BY DEF Holding
  <2>2. PoolInv' /\ \E b : TakesBack(g.pool, g.at, b)
    BY <1>2, <2>1, DeallocateStep DEF GiveBack
  <2>3. PICK b : TakesBack(g.pool, g.at, b)
    BY <2>2
  <2>4. held' = held \ {g}
    BY <1>2 DEF GiveBack
  <2>5. \A q \in Pools : mClosedBlocks'[q] =
                         IF q = g.pool THEN mClosedBlocks[q] \ {b} ELSE mClosedBlocks[q]
    BY <1>c, <2>3 DEF TakesBack
  <2>6. \A h \in held' : \E c \in mClosedBlocks'[h.pool] : c.first = h.at
    BY <2>1, <2>3, <2>4, <2>5 DEF TakesBack
  <2>7. ASSUME NEW q \in Pools, NEW c \in mClosedBlocks'[q]
        PROVE  \E h \in held' : h.pool = q /\ h.at = c.first
    <3>1. c \in mClosedBlocks[q] /\ ~(q = g.pool /\ c = b)
      BY <2>5
    <3>2. PICK h \in held : h.pool = q /\ h.at = c.first
      BY <3>1
    <3>3. h # g
      BY <2>1, <2>3, <3>1, <3>2, PieceByAddress DEF TakesBack
    <3> QED
      BY <2>4, <3>2, <3>3
  <2> QED
    BY <2>2, <2>4, <2>6, <2>7
<1>3. ASSUME NEW p \in Pools, NEW q \in Pools, Move(p, q)
      PROVE  PoolInv' /\ ClientInv'
  <2> DEFINE other(r) == IF r = p THEN q ELSE IF r = q THEN p ELSE r
             moved(h) == [h EXCEPT !.pool = CASE @ = p -> q [] @ = q -> p [] OTHER -> @]
  <2>1. PoolInv'
    BY <1>3, MovePoolStep DEF Move
  <2>2. \A r \in Pools : other(r) \in Pools /\ mClosedBlocks'[r] = mClosedBlocks[other(r)]
                         /\ other(other(r)) = r
    BY <1>3, <1>c DEF Move, MovePool
  <2>3. held' = {moved(h) : h \in held}
    BY <1>3 DEF Move
  <2>4. \A h \in Holding : moved(h) = [at |-> h.at, asked |-> h.asked, pool |-> other(h.pool)]
    BY <1>3 DEF Holding, Move
  <2>5. \A h \in held : /\ moved(h) \in Holding
                        /\ moved(h).at = h.at
                        /\ moved(h).pool = other(h.pool)
                        /\ h.pool \in Pools
    BY <2>2, <2>4 DEF Holding
  <2> HIDE DEF other, moved
  <2>6. held' \subseteq Holding
    BY <2>3, <2>5
  <2>7. \A h \in held' : \E c \in mClosedBlocks'[h.pool] : c.first = h.at
    BY <2>2, <2>3, <2>5
  <2>8. ASSUME NEW r \in Pools, NEW c \in mClosedBlocks'[r]
        PROVE  \E h \in held' : h.pool = r /\ h.at = c.first
    <3>1. PICK h \in held : h.pool = other(r) /\ h.at = c.first
      BY <2>2
    <3> QED
      BY <2>2, <2>3, <2>5, <3>1
  <2>9. \A h, k \in held' : h.at = k.at => h = k
    BY <2>3, <2>5
  <2> QED
    BY <2>1, <2>6, <2>7, <2>8, <2>9
<1>4. ASSUME NEW p \in Pools, Destroy(p)
      PROVE  PoolInv' /\ ClientInv'
  <2>1. PoolInv'
    BY <1>4, DestroyPoolStep DEF Destroy
  <2>2. \A q \in Pools : mClosedBlocks'[q] = IF q = p THEN {} ELSE mClosedBlocks[q]
    BY <1>4, <1>c DEF Destroy, DestroyPool
  <2>3. held' = held /\ \A h \in held : h.pool # p /\ h.pool \in Pools
    BY <1>4 DEF Destroy, Holding
  <2> QED
    BY <2>1, <2>2, <2>3
<1> QED
  BY <1>1, <1>2, <1>3, <1>4 DEF Next

------------------------------------------------------------------------------
(* The allocator objects. *)

(* Who owns a closed block, and that an object with data has a pool. *)
AllocatorInv ==
    /\ mAllocator \in [Allocators -> Pools \cup {NoPool}]
    /\ mData \in [Allocators -> Heap \cup {Null}]
    /\ mAllocSize \in [Allocators -> AllocatorSizes \cup {0}]
    /\ constructed \subseteq Allocators
    /\ crashed \in BOOLEAN
    /\ \A a \in constructed : mData[a] # Null => mAllocator[a] \in Pools
    /\ ~crashed => \A p \in Pools : \A b \in mClosedBlocks[p] :
                       \E a \in constructed : mData[a] = b.first /\ b.size <= mAllocSize[a]

LEMMA AllocatorStep ==
    ASSUME PoolInv, AllocatorInv, AllocatorsNext
    PROVE  PoolInv' /\ AllocatorInv'
<1> USE DEF AllocatorInv
<1>c. mClosedBlocks \in [Pools -> SUBSET Block] /\ ~crashed
  BY DEF PoolInv, PoolTypeOK, AllocatorsNext
<1>n. Null \notin Heap
  BY DEF Null, Heap
<1>u. UNCHANGED poolVars => PoolInv'
  BY DEF poolVars, PoolInv, PoolTypeOK, RealApart
<1>1. ASSUME NEW a \in Allocators, NEW p \in Pools \cup {NoPool}, Construct(a, p)
      PROVE  PoolInv' /\ AllocatorInv'
  BY <1>1, <1>c, <1>u DEF Construct, poolVars
<1>2. ASSUME NEW a \in Allocators, NEW b \in Allocators, MoveConstruct(a, b)
      PROVE  PoolInv' /\ AllocatorInv'
  BY <1>2, <1>c, <1>u DEF MoveConstruct, poolVars
<1>3. ASSUME NEW a \in Allocators, NEW b \in Allocators, MoveAssign(a, b)
      PROVE  PoolInv' /\ AllocatorInv'
  <2> DEFINE other(c) == IF c = a THEN b ELSE IF c = b THEN a ELSE c
  <2>1. \A c \in constructed : /\ other(c) \in constructed
                               /\ other(other(c)) = c
                               /\ mAllocator'[c] = mAllocator[other(c)]
                               /\ mData'[c] = mData[other(c)]
                               /\ mAllocSize'[c] = mAllocSize[other(c)]
    BY <1>3 DEF MoveAssign
  <2>2. /\ mAllocator' \in [Allocators -> Pools \cup {NoPool}]
        /\ mData' \in [Allocators -> Heap \cup {Null}]
        /\ mAllocSize' \in [Allocators -> AllocatorSizes \cup {0}]
        /\ UNCHANGED <<poolVars, constructed, crashed>>
    BY <1>3 DEF MoveAssign
  <2> HIDE DEF other
  <2>3. ASSUME NEW p \in Pools, NEW c \in mClosedBlocks'[p]
        PROVE  \E x \in constructed' : mData'[x] = c.first /\ c.size <= mAllocSize'[x]
    <3>1. PICK x \in constructed : mData[x] = c.first /\ c.size <= mAllocSize[x]
      BY <1>c, <2>2 DEF poolVars
    <3>2. other(x) \in constructed' /\ mData'[other(x)] = mData[x]
          /\ mAllocSize'[other(x)] = mAllocSize[x]
      BY <2>1, <2>2
    <3> QED
      BY <3>1, <3>2
  <2> QED
    BY <1>u, <2>1, <2>2, <2>3
<1>4. ASSUME NEW a \in Allocators, NEW size \in AllocatorSizes, NEW at \in Heap,
             AllocatorAllocate(a, size, at)
      PROVE  PoolInv' /\ AllocatorInv'
  <2> DEFINE p == mAllocator[a]
  <2>1. p \in Pools /\ size \in 0..HeapSize
    BY <1>4, AllocatorAssumption DEF AllocatorAllocate
  <2>2. PoolInv' /\ \E b : GivesOut(p, size, at, b)
    BY <1>4, <2>1, AllocateStep DEF AllocatorAllocate
  <2>3. PICK b : GivesOut(p, size, at, b)
    BY <2>2
  <2>4. /\ a \in constructed /\ constructed' = constructed /\ mAllocator' = mAllocator
        /\ mData' = [mData EXCEPT ![a] = at]
        /\ mAllocSize' = [mAllocSize EXCEPT ![a] = size]
        /\ mData[a] = Null /\ crashed' \in BOOLEAN
    BY <1>4 DEF AllocatorAllocate
  <2>5. \A q \in Pools : mClosedBlocks'[q] =
                         IF q = p THEN mClosedBlocks[q] \cup {b} ELSE mClosedBlocks[q]
    BY <1>c, <2>3 DEF GivesOut
  <2>6. ASSUME NEW q \in Pools, NEW c \in mClosedBlocks'[q]
        PROVE  \E x \in constructed' : mData'[x] = c.first /\ c.size <= mAllocSize'[x]
    <3>1. CASE c = b
      BY <2>3, <2>4, <3>1 DEF GivesOut
    <3>2. CASE c # b
      <4>1. c \in mClosedBlocks[q]
        BY <2>5, <3>2
      <4>2. c \in Block
        BY <1>c, <4>1
      <4>3. PICK x \in constructed : mData[x] = c.first /\ c.size <= mAllocSize[x]
        BY <1>c, <4>1
      <4>4. x # a
        BY <1>n, <2>4, <4>2, <4>3, BlockFacts
      <4> QED
        BY <2>4, <4>3, <4>4
    <3> QED
      BY <3>1, <3>2
  <2>7. \A x \in constructed' : mData'[x] # Null => mAllocator'[x] \in Pools
    BY <2>1, <2>4
  <2> QED
    BY <2>2, <2>4, <2>6, <2>7
<1>5. ASSUME NEW a \in constructed, mData[a] # Null, Deallocate(mAllocator[a], mData[a])
      PROVE  /\ PoolInv'
             /\ \A p \in Pools : \A b \in mClosedBlocks'[p] : \E x \in constructed \ {a} :
                   mData[x] = b.first /\ b.size <= mAllocSize[x]
  <2> DEFINE p == mAllocator[a]
  <2>1. p \in Pools
    BY <1>5
  <2>2. PoolInv' /\ \E b : TakesBack(p, mData[a], b)
    BY <1>5, <2>1, DeallocateStep
  <2>3. PICK b : TakesBack(p, mData[a], b)
    BY <2>2
  <2>4. \A q \in Pools : mClosedBlocks'[q] =
                         IF q = p THEN mClosedBlocks[q] \ {b} ELSE mClosedBlocks[q]
    BY <1>c, <2>3 DEF TakesBack
  <2>5. ASSUME NEW q \in Pools, NEW c \in mClosedBlocks'[q]
        PROVE  \E x \in constructed \ {a} : mData[x] = c.first /\ c.size <= mAllocSize[x]
    <3>1. c \in mClosedBlocks[q] /\ ~(q = p /\ c = b)
      BY <2>4
    <3>2. PICK x \in constructed : mData[x] = c.first /\ c.size <= mAllocSize[x]
      BY <1>c, <3>1
    <3>3. x # a
      BY <2>1, <2>3, <3>1, <3>2, PieceByAddress DEF TakesBack
    <3> QED
      BY <3>2, <3>3
  <2> QED
    BY <2>2, <2>5
<1>6. ASSUME NEW a \in Allocators, AllocatorDeallocate(a)
      PROVE  PoolInv' /\ AllocatorInv'
  <2>1. a \in constructed /\ mData[a] # Null /\ Deallocate(mAllocator[a], mData[a])
    BY <1>6 DEF AllocatorDeallocate
  <2>2. mData' = [mData EXCEPT ![a] = Null]
        /\ UNCHANGED <<mAllocator, mAllocSize, constructed, crashed>>
    BY <1>6 DEF AllocatorDeallocate
  <2> QED
    BY <1>5, <2>1, <2>2
<1>7. ASSUME NEW a \in Allocators, DestroyAllocator(a)
      PROVE  PoolInv' /\ AllocatorInv'
  <2>1. /\ a \in constructed /\ constructed' = constructed \ {a}
        /\ mData' = [mData EXCEPT ![a] = Null]
        /\ mAllocSize' = [mAllocSize EXCEPT ![a] = 0]
        /\ UNCHANGED mAllocator
    BY <1>7 DEF DestroyAllocator
  <2>2. CASE mData[a] = Null /\ UNCHANGED <<poolVars, crashed>>
    <3>1. ASSUME NEW p \in Pools, NEW b \in mClosedBlocks[p]
          PROVE  \E x \in constructed \ {a} : mData[x] = b.first /\ b.size <= mAllocSize[x]
      <4>1. b.first \in Heap
        BY <1>c, BlockFacts
      <4> QED
        BY <1>c, <1>n, <2>2, <4>1
    <3> QED
      BY <1>u, <2>1, <2>2, <3>1 DEF poolVars
  <2>3. CASE mData[a] # Null /\ Deallocate(mAllocator[a], mData[a]) /\ UNCHANGED crashed
    BY <1>5, <2>1, <2>3
  <2>4. CASE crashed' = TRUE /\ UNCHANGED poolVars
    BY <1>u, <2>1, <2>4
  <2> QED
    BY <1>7, <2>2, <2>3, <2>4 DEF DestroyAllocator
<1>8. ASSUME NEW p \in Pools, NEW q \in Pools, MovePools(p, q)
      PROVE  PoolInv' /\ AllocatorInv'
  <2>1. PoolInv'
    BY <1>8, MovePoolStep DEF MovePools
  <2>2. \A r \in Pools : \E s \in Pools : mClosedBlocks'[r] = mClosedBlocks[s]
    BY <1>8, <1>c DEF MovePools, MovePool
  <2> QED
    BY <1>8, <2>1, <2>2 DEF MovePools
<1> QED
  BY <1>1, <1>2, <1>3, <1>4, <1>6, <1>7, <1>8 DEF AllocatorsNext
------------------------------------------------------------------------------
(* Both users. *)

MemoryInv ==
    /\ PoolInv
    /\ held \subseteq Holding
    /\ AllocatorsTypeOK
    /\ user = "client" => ClientInv /\ constructed = {}
    /\ user = "allocators" => AllocatorInv

LEMMA MemoryInvInit == MemoryInit => MemoryInv
<1> SUFFICES ASSUME MemoryInit
             PROVE  MemoryInv
  OBVIOUS
<1>1. PoolInv
  BY PoolInvInit DEF MemoryInit, Init
<1>2. ClientInv
  BY DEF MemoryInit, Init, PoolInit, ClientInv
<1>3. AllocatorInv
  BY DEF MemoryInit, AllocatorsInit, PoolInit, AllocatorInv
<1>4. constructed = {} /\ held \subseteq Holding
  BY DEF MemoryInit, AllocatorsInit, Init
<1>5. AllocatorsTypeOK
  BY <1>1, <1>3 DEF AllocatorsTypeOK, AllocatorInv, PoolInv
<1> QED
  BY <1>1, <1>2, <1>3, <1>4, <1>5 DEF MemoryInv

LEMMA MemoryInvNext == MemoryInv /\ [MemoryNext]_memoryVars => MemoryInv'
<1> SUFFICES ASSUME MemoryInv, [MemoryNext]_memoryVars
             PROVE  MemoryInv'
  OBVIOUS
<1> USE DEF MemoryInv
<1>1. CASE user = "client" /\ Next /\ UNCHANGED AllocatorsOnly /\ UNCHANGED user
  <2>1. PoolInv' /\ ClientInv'
    BY <1>1, ClientStep
  <2>2. AllocatorsTypeOK'
    BY <1>1, <2>1 DEF AllocatorsOnly, AllocatorsTypeOK, PoolInv
  <2>3. held' \subseteq Holding
    BY <2>1 DEF ClientInv
  <2>4. constructed' = {} /\ user' = "client"
    BY <1>1 DEF AllocatorsOnly
  <2> QED
    BY <2>1, <2>2, <2>3, <2>4
<1>2. CASE user = "allocators" /\ AllocatorsNext /\ UNCHANGED ClientOnly /\ UNCHANGED user
  <2>1. PoolInv' /\ AllocatorInv'
    BY <1>2, AllocatorStep
  <2>2. AllocatorsTypeOK'
    BY <2>1 DEF AllocatorsTypeOK, AllocatorInv, PoolInv
  <2>3. held' \subseteq Holding /\ user' = "allocators"
    BY <1>2 DEF ClientOnly
  <2> QED
    BY <2>1, <2>2, <2>3
<1>3. CASE UNCHANGED memoryVars
  <2>1. /\ UNCHANGED <<user, mRealBlocks, mOpenBlocks, mClosedBlocks, held>>
        /\ UNCHANGED <<mAllocator, mData, mAllocSize, constructed, crashed>>
    BY <1>3 DEF memoryVars, poolVars, ClientOnly, AllocatorsOnly
  <2>2. PoolInv'
    BY <2>1 DEF PoolInv, PoolTypeOK, RealApart
  <2>3. AllocatorsTypeOK'
    BY <2>1 DEF AllocatorsTypeOK, PoolTypeOK
  <2>4. ClientInv => ClientInv'
    BY <2>1 DEF ClientInv
  <2>5. AllocatorInv => AllocatorInv'
    BY <2>1 DEF AllocatorInv
  <2> QED
    BY <2>1, <2>2, <2>3, <2>4, <2>5
<1> QED
  BY <1>1, <1>2, <1>3 DEF MemoryNext

LEMMA MemoryInvAlways == MemorySpec => []MemoryInv
BY MemoryInvInit, MemoryInvNext, PTL DEF MemorySpec

(* The three lists of every pool, what the client holds and the members of  *)
(* the allocator objects keep their types: merging and splitting never make *)
(* a block that leaves the heap.                                            *)
THEOREM MemoryTypesHold == MemorySpec => []MemoryTypeOK
<1>1. MemoryInv => MemoryTypeOK
  BY DEF MemoryInv, MemoryTypeOK, TypeOK, AllocatorsTypeOK, PoolInv
<1> QED
  BY <1>1, MemoryInvAlways, PTL

(* Whatever is allocated, given back, moved and destroyed, in any order: no *)
(* byte of a pool is lost or handed out twice, and the address deallocate   *)
(* searches for is that of one allocation, in one pool.                     *)
THEOREM PoolsStaySound == MemorySpec => []PoolsSound
<1>1. MemoryInv => PoolsSound
  BY SoundPools DEF MemoryInv
<1> QED
  BY <1>1, MemoryInvAlways, PTL

(* A client that gives back what it was given is never refused, nothing is  *)
(* closed that it does not hold, and no address is given out twice.         *)
THEOREM ClientGetsWhatItHolds == MemorySpec => []ClientHoldsClosed
<1>1. MemoryInv => ClientHoldsClosed
  <2> SUFFICES ASSUME ClientInv
               PROVE  HeldIsClosed /\ HeldOnce
    BY DEF MemoryInv, ClientHoldsClosed
  <2>1. ASSUME NEW p \in Pools
        PROVE  {h.at : h \in {k \in held : k.pool = p}} = {b.first : b \in mClosedBlocks[p]}
    BY DEF ClientInv
  <2> QED
    BY <2>1 DEF ClientInv, HeldIsClosed, HeldOnce
<1> QED
  BY <1>1, MemoryInvAlways, PTL

(* No block leaks from allocator objects while the program lives, and an    *)
(* object that is the one owner of its block answers a size() that is not   *)
(* below the block's.                                                       *)
THEOREM AllocatorsKeepTheirBlocks == MemorySpec => []AllocatorsHoldClosed
<1>1. MemoryInv => AllocatorsHoldClosed
  <2> SUFFICES ASSUME PoolInv, AllocatorInv
               PROVE  ClosedIsHeld /\ SizeIsWhatWasAsked
    BY DEF MemoryInv, AllocatorsHoldClosed
  <2>1. ClosedIsHeld
    BY DEF AllocatorInv, ClosedIsHeld
  <2>2. SizeIsWhatWasAsked
    <3> SUFFICES ASSUME ~crashed, SoleOwner,
                        NEW a \in constructed, mData[a] # Null,
                        NEW b \in mClosedBlocks[mAllocator[a]], b.first = mData[a]
                 PROVE  b.size <= mAllocSize[a]
      BY DEF SizeIsWhatWasAsked
    <3>1. mAllocator[a] \in Pools
      BY DEF AllocatorInv
    <3>2. PICK x \in constructed : mData[x] = b.first /\ b.size <= mAllocSize[x]
      BY <3>1 DEF AllocatorInv
    <3>3. x = a
      BY <3>2 DEF SoleOwner
    <3> QED
      BY <3>2, <3>3
  <2> QED
    BY <2>1, <2>2
<1> QED
  BY <1>1, MemoryInvAlways, PTL

(* Of everything allocator objects do, only a move construction and moving  *)
(* a pool from under them make an object that is not the one owner of what  *)
(* it holds.                                                                *)
LEMMA OwnershipStep ==
    ASSUME MemoryInv, MemoryNext, OwnsItsData, SoleOwner,
           ~ \E a, b \in Allocators : MoveConstruct(a, b),
           ~ \E p, q \in Pools : MovePools(p, q)
    PROVE  OwnsItsData' /\ SoleOwner'
<1> USE DEF MemoryInv, OwnsItsData, SoleOwner, Owns
<1>1. CASE user = "client" /\ UNCHANGED AllocatorsOnly
  BY <1>1 DEF AllocatorsOnly
<1>2. CASE user = "allocators" /\ AllocatorsNext
  <2> USE <1>2 DEF AllocatorInv
  <2>c. mClosedBlocks \in [Pools -> SUBSET Block]
    BY DEF PoolInv, PoolTypeOK
  <2>1. ASSUME NEW a \in Allocators, NEW p \in Pools \cup {NoPool}, Construct(a, p)
        PROVE  OwnsItsData' /\ SoleOwner'
    BY <2>1 DEF Construct, poolVars
  <2>2. ASSUME NEW a \in Allocators, NEW b \in Allocators, MoveAssign(a, b)
        PROVE  OwnsItsData' /\ SoleOwner'
    <3> DEFINE other(c) == IF c = a THEN b ELSE IF c = b THEN a ELSE c
    <3>1. \A c \in constructed : /\ other(c) \in constructed
                                 /\ mAllocator'[c] = mAllocator[other(c)]
                                 /\ mData'[c] = mData[other(c)]
      BY <2>2 DEF MoveAssign
    <3>2. \A c, d \in constructed : other(c) = other(d) => c = d
      OBVIOUS
    <3>3. UNCHANGED <<mClosedBlocks, constructed>>
      BY <2>2 DEF MoveAssign, poolVars
    <3> HIDE DEF other
    <3> QED
      BY <3>1, <3>2, <3>3
  <2>3. ASSUME NEW a \in Allocators, NEW size \in AllocatorSizes, NEW at \in Heap,
               AllocatorAllocate(a, size, at)
        PROVE  OwnsItsData' /\ SoleOwner'
    <3> DEFINE p == mAllocator[a]
    <3>1. p \in Pools /\ size \in 0..HeapSize
      BY <2>3, AllocatorAssumption DEF AllocatorAllocate
    <3>2. PoolTypeOK /\ \E b : GivesOut(p, size, at, b)
      BY <2>3, <3>1, AllocateStep DEF AllocatorAllocate, PoolInv
    <3>3. /\ constructed' = constructed /\ mAllocator' = mAllocator
          /\ \A x \in constructed : mData'[x] = IF x = a THEN at ELSE mData[x]
      BY <2>3 DEF AllocatorAllocate
    <3>4. \A x \in constructed :
             mData[x] # Null => mAllocator[x] \in Pools /\ Owns(mAllocator[x], mData[x])
      OBVIOUS
    <3> HIDE DEF p, MemoryInv, AllocatorInv, OwnsItsData
    <3>5. PICK b : GivesOut(p, size, at, b)
      BY <3>2
    <3>6. \A q \in Pools : mClosedBlocks'[q] =
                           IF q = p THEN mClosedBlocks[q] \cup {b} ELSE mClosedBlocks[q]
      BY <3>1, <3>2, <3>5, ClosedAfterGivingOut
    <3>7. \A x \in constructed : mData[x] # at \/ mData[x] = Null
      BY <3>4, <3>5 DEF GivesOut
    <3>8. OwnsItsData'
      <4>1. b \in mClosedBlocks'[p] /\ b.first = at
        BY <3>1, <3>5, <3>6 DEF GivesOut
      <4>2. \A q \in Pools : mClosedBlocks[q] \subseteq mClosedBlocks'[q]
        BY <3>6
      <4>3. \A x \in constructed : mData[x] # Null => Owns(mAllocator[x], mData[x])'
        BY <3>1, <3>3, <3>4, <4>1, <4>2 DEF p
      <4> QED
        BY <3>3, <4>1, <4>3 DEF OwnsItsData, p
    <3>9. at # Null
      BY DEF Null, Heap
    <3> QED
      BY <3>3, <3>7, <3>8, <3>9
  <2>4. ASSUME NEW a \in constructed, mData[a] # Null, Deallocate(mAllocator[a], mData[a])
        PROVE  \A x \in constructed \ {a} : mData[x] # Null =>
                  \E b \in mClosedBlocks'[mAllocator[x]] : b.first = mData[x]
    <3> DEFINE p == mAllocator[a]
    <3>1. p \in Pools
      BY <2>4
    <3>2. \E b : TakesBack(p, mData[a], b)
      BY <2>4, <3>1, DeallocateStep
    <3>3. PICK b : TakesBack(p, mData[a], b)
      BY <3>2
    <3>4. \A q \in Pools : mClosedBlocks'[q] =
                           IF q = p THEN mClosedBlocks[q] \ {b} ELSE mClosedBlocks[q]
      BY <2>c, <3>3 DEF TakesBack
    <3>5. \A x \in constructed \ {a} : mData[x] # mData[a]
      BY <2>4
    <3> QED
      BY <3>3, <3>4, <3>5 DEF TakesBack
  <2>5. ASSUME NEW a \in Allocators, AllocatorDeallocate(a)
        PROVE  OwnsItsData' /\ SoleOwner'
    <3>1. a \in constructed /\ mData[a] # Null /\ Deallocate(mAllocator[a], mData[a])
      BY <2>5 DEF AllocatorDeallocate
    <3>2. /\ constructed' = constructed /\ mAllocator' = mAllocator
          /\ \A x \in constructed : mData'[x] = IF x = a THEN Null ELSE mData[x]
      BY <2>5 DEF AllocatorDeallocate
    <3> QED
      BY <2>4, <3>1, <3>2
  <2>6. ASSUME NEW a \in Allocators, DestroyAllocator(a)
        PROVE  OwnsItsData' /\ SoleOwner'
    <3>1. /\ a \in constructed /\ constructed' = constructed \ {a}
          /\ mAllocator' = mAllocator
          /\ \A x \in constructed' : mData'[x] = mData[x]
      BY <2>6 DEF DestroyAllocator
    <3>2. \/ mData[a] # Null /\ Deallocate(mAllocator[a], mData[a])
          \/ UNCHANGED mClosedBlocks
      BY <2>6 DEF DestroyAllocator, poolVars
    <3> QED
      BY <2>4, <3>1, <3>2
  <2> QED
    BY <2>1, <2>2, <2>3, <2>5, <2>6 DEF AllocatorsNext
<1> QED
  BY <1>1, <1>2 DEF MemoryNext

THEOREM OnlyMovesLoseOwnership == MemorySpec => OwnershipLostByMoves
<1> DEFINE Moved == \/ \E a, b \in Allocators : MoveConstruct(a, b)
                    \/ \E p, q \in Pools : MovePools(p, q)
           A == OwnsItsData /\ SoleOwner => (OwnsItsData /\ SoleOwner)' \/ Moved
<1>1. MemoryInv /\ [MemoryNext]_memoryVars => [A]_allocatorVars
  <2>1. MemoryInv /\ MemoryNext => A
    BY OwnershipStep
  <2>2. UNCHANGED memoryVars => UNCHANGED allocatorVars
    BY DEF memoryVars, allocatorVars, ClientOnly, AllocatorsOnly, poolVars
  <2> QED
    BY <2>1, <2>2
<1> QED
  BY <1>1, MemoryInvAlways, PTL DEF MemorySpec, OwnershipLostByMoves
==============================================================================
