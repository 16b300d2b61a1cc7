------------------------------ MODULE MemoryPool -----------------------------
(***************************************************************************)
(* solaire::memory_pool (core/memory_pool.hpp, core/memory_pool.cpp): the  *)
(* three lists of blocks of each pool object and the operations on them.   *)
(*                                                                         *)
(* A block is a record of its first byte and its size.  mRealBlocks and    *)
(* mClosedBlocks are searched by address only, so they are sets;           *)
(* mOpenBlocks is a sequence, because allocate and the merging in          *)
(* deallocate take the first block in the vector that qualifies.           *)
(*                                                                         *)
(* operator new and operator delete are outside the repository: new        *)
(* returns any range of Heap that belongs to no live real block, a request *)
(* for 0 bytes included (its address is its own).  SOLAIRE_DISABLE_MEMORY_ *)
(* POOL_SPLIT and _MERGE are not defined.                                  *)
(***************************************************************************)
EXTENDS Integers, Sequences, SequencesExt

CONSTANTS
    Pools,       \* the memory_pool objects
    HeapSize     \* bound on the addresses operator new may return

ASSUME HeapAssumption == HeapSize \in Nat

VARIABLES mRealBlocks, mOpenBlocks, mClosedBlocks      \* each a function on Pools

poolVars == <<mRealBlocks, mOpenBlocks, mClosedBlocks>>

Heap  == 0..(HeapSize - 1)
Block == [first : Heap, size : 0..HeapSize]

PoolTypeOK ==
    /\ mRealBlocks \in [Pools -> SUBSET Block]
    /\ mOpenBlocks \in [Pools -> Seq(Block)]
    /\ mClosedBlocks \in [Pools -> SUBSET Block]

PoolInit ==
    /\ mRealBlocks = [p \in Pools |-> {}]
    /\ mOpenBlocks = [p \in Pools |-> << >>]
    /\ mClosedBlocks = [p \in Pools |-> {}]

------------------------------------------------------------------------------

End(b) == b.first + b.size              \* the byte after the block
Bytes(b) == b.first..(End(b) - 1)

Open(p) == {mOpenBlocks[p][i] : i \in DOMAIN mOpenBlocks[p]}

(* A definition named as a mutant is what a plausible mistake would make of *)
(* the definition below it; no specification uses it.                       *)

(* What a real block keeps other real blocks from: at least one address. *)
Footprint(b) == Bytes(b) \cup {b.first}

(* The first open block of the vector that satisfies the test. *)
IsFirst(i, p, Test(_)) ==
    /\ Test(mOpenBlocks[p][i])
    /\ \A j \in 1..(i - 1) : ~Test(mOpenBlocks[p][j])

(* The test allocate applies to an open block. *)
Fits(b, size) == b.size <= size

(* Mutant: every block of another size is cut. *)
ReuseCutsAlways(p, size, at) ==
    \E i \in DOMAIN mOpenBlocks[p] :
        LET tmp   == mOpenBlocks[p][i]
            given == [tmp EXCEPT !.size = size]
            rest  == {[first |-> End(given), size |-> tmp.size - size]}
        IN  /\ IsFirst(i, p, LAMBDA b : Fits(b, size))
            /\ at = tmp.first
            /\ mOpenBlocks' = [mOpenBlocks EXCEPT ![p] = RemoveAt(@, i)]
            /\ mClosedBlocks' = [mClosedBlocks EXCEPT ![p] = @ \cup rest \cup {given}]
            /\ UNCHANGED mRealBlocks

(* allocate from an open block; what is left over of a block larger than    *)
(* asked for would become a closed block of its own.                        *)
Reuse(p, size, at) ==
    \E i \in DOMAIN mOpenBlocks[p] :
        LET tmp  == mOpenBlocks[p][i]
            larger == tmp.size > size
            given  == IF larger THEN [tmp EXCEPT !.size = size] ELSE tmp
            rest   == IF larger THEN {[first |-> End(given), size |-> tmp.size - size]} ELSE {}
        IN  /\ IsFirst(i, p, LAMBDA b : Fits(b, size))
            /\ at = tmp.first
            /\ mOpenBlocks' = [mOpenBlocks EXCEPT ![p] = RemoveAt(@, i)]
            /\ mClosedBlocks' = [mClosedBlocks EXCEPT ![p] = @ \cup rest \cup {given}]
            /\ UNCHANGED mRealBlocks

(* operator new: external. *)
OperatorNew(size, at) ==
    /\ at + size <= HeapSize
    /\ \A p \in Pools : \A b \in mRealBlocks[p] :
          Footprint(b) \cap Footprint([first |-> at, size |-> size]) = {}

(* allocate when no open block fits.  When operator new throws nothing has  *)
(* changed.                                                                 *)
Obtain(p, size, at) ==
    LET tmp == [first |-> at, size |-> size]
    IN  /\ \A b \in Open(p) : ~Fits(b, size)
        /\ OperatorNew(size, at)
        /\ mRealBlocks' = [mRealBlocks EXCEPT ![p] = @ \cup {tmp}]
        /\ mClosedBlocks' = [mClosedBlocks EXCEPT ![p] = @ \cup {tmp}]
        /\ UNCHANGED mOpenBlocks

(* allocate(size) on pool p returns at. *)
Allocate(p, size, at) == Reuse(p, size, at) \/ Obtain(p, size, at)

Owns(p, at) == \E b \in mClosedBlocks[p] : b.first = at

(* Mutant: a block merged into the one that follows it does not move the    *)
(* start of that one, and blocks before it are not looked for.              *)
DeallocateKeepsStart(p, at) ==
    \E tmp \in mClosedBlocks[p] :
        LET follows(b) == b.first = End(tmp)
        IN  /\ tmp.first = at
            /\ mClosedBlocks' = [mClosedBlocks EXCEPT ![p] = @ \ {tmp}]
            /\ \/ \E i \in DOMAIN mOpenBlocks[p] :
                    /\ IsFirst(i, p, follows)
                    /\ mOpenBlocks' = [mOpenBlocks EXCEPT ![p][i].size = @ + tmp.size]
               \/ /\ \A b \in Open(p) : ~follows(b)
                  /\ mOpenBlocks' = [mOpenBlocks EXCEPT ![p] = Append(@, tmp)]
            /\ UNCHANGED mRealBlocks

(* deallocate: the block leaves the closed ones and is merged into an open  *)
(* block that starts where it ends, or else into one that ends where it     *)
(* starts, or else becomes open itself.  An address no closed block starts  *)
(* at throws, and nothing changes.                                          *)
Deallocate(p, at) ==
    \E tmp \in mClosedBlocks[p] :
        LET follows(b)  == b.first = End(tmp)
            precedes(b) == End(b) = tmp.first
            open == mOpenBlocks[p]
        IN  /\ tmp.first = at
            /\ mClosedBlocks' = [mClosedBlocks EXCEPT ![p] = @ \ {tmp}]
            /\ \/ \E i \in DOMAIN open :
                    /\ IsFirst(i, p, follows)
                    /\ mOpenBlocks' = [mOpenBlocks EXCEPT ![p][i] =
                          [first |-> tmp.first, size |-> @.size + tmp.size]]
               \/ /\ \A b \in Open(p) : ~follows(b)
                  /\ \E i \in DOMAIN open :
                        /\ IsFirst(i, p, precedes)
                        /\ mOpenBlocks' = [mOpenBlocks EXCEPT ![p][i].size = @ + tmp.size]
               \/ /\ \A b \in Open(p) : ~follows(b) /\ ~precedes(b)
                  /\ mOpenBlocks' = [mOpenBlocks EXCEPT ![p] = Append(@, tmp)]
            /\ UNCHANGED mRealBlocks

(* Mutant: the closed blocks stay where they are. *)
MovePoolLeavesClosed(p, q) ==
    /\ mRealBlocks' = [mRealBlocks EXCEPT ![p] = mRealBlocks[q], ![q] = mRealBlocks[p]]
    /\ mOpenBlocks' = [mOpenBlocks EXCEPT ![p] = mOpenBlocks[q], ![q] = mOpenBlocks[p]]
    /\ UNCHANGED mClosedBlocks

(* The move assignment swaps all three lists; so does the move constructor, *)
(* with a pool that is empty.                                               *)
MovePool(p, q) ==
    LET swapped(f) == [f EXCEPT ![p] = f[q], ![q] = f[p]]
    IN  /\ mRealBlocks' = swapped(mRealBlocks)
        /\ mOpenBlocks' = swapped(mOpenBlocks)
        /\ mClosedBlocks' = swapped(mClosedBlocks)

(* The destructor returns the real blocks; the object's name is free for a  *)
(* new, empty pool.                                                         *)
DestroyPool(p) ==
    /\ mRealBlocks' = [mRealBlocks EXCEPT ![p] = {}]
    /\ mOpenBlocks' = [mOpenBlocks EXCEPT ![p] = << >>]
    /\ mClosedBlocks' = [mClosedBlocks EXCEPT ![p] = {}]

------------------------------------------------------------------------------
(* What keeps a pool sound, whoever uses it. *)

(* The open and closed blocks of a pool are cut out of its real blocks      *)
(* without gap or overlap: reuse, splitting and merging neither lose a byte *)
(* nor hand one out twice, and moving a pool takes all of it along.         *)
Tiled ==
    \A p \in Pools :
        LET pieces == Open(p) \cup mClosedBlocks[p]
        IN  /\ UNION {Bytes(b) : b \in pieces} = UNION {Bytes(b) : b \in mRealBlocks[p]}
            /\ \A b, c \in pieces : b # c => Bytes(b) \cap Bytes(c) = {}
            /\ Open(p) \cap mClosedBlocks[p] = {}
            /\ \A i, j \in DOMAIN mOpenBlocks[p] :
                  mOpenBlocks[p][i] = mOpenBlocks[p][j] => i = j

(* No address is the start of two closed blocks, nor of closed blocks of    *)
(* two pools: the search of deallocate by address cannot find another       *)
(* allocation than the one meant.                                           *)
ClosedByAddress ==
    \A p, q \in Pools : \A b \in mClosedBlocks[p], c \in mClosedBlocks[q] :
        b.first = c.first => p = q /\ b = c
==============================================================================
