---------------------------- MODULE PoolAllocators ---------------------------
(***************************************************************************)
(* memory_pool_allocator (core/memory_pool.hpp:42, core/memory_pool.cpp:98)*)
(* objects over the pools of MemoryPool.  static_memory_pool_allocator is  *)
(* the instance with one pool, STATIC_POOL, that every object is           *)
(* constructed with.                                                       *)
(*                                                                         *)
(* A throwing allocate() or deallocate() changes nothing and is no step,   *)
(* unless it throws out of a destructor, which ends the program.           *)
(* allocate() has no return statement, so the program may also die there.  *)
(* The pools outlive the allocators.                                       *)
(***************************************************************************)
EXTENDS MemoryPool

CONSTANTS
    Allocators,   \* the allocator objects
    AllocatorSizes, \* the sizes asked for, a bound on the inputs
    Moves,        \* which moves the program makes: "construct", "assign", "pool"
    NoPool        \* a null mAllocator

ASSUME AllocatorAssumption ==
    /\ AllocatorSizes \subseteq 0..HeapSize
    /\ Moves \subseteq {"construct", "assign", "pool"}
    /\ NoPool \notin Pools

Null == -1

VARIABLES
    mAllocator,   \* the pool an object points to
    mData,        \* the address it holds
    mAllocSize,   \* its mSize, what size() answers
    constructed,  \* the objects between constructor and destructor
    crashed       \* the program is gone

allocatorVars == <<poolVars, mAllocator, mData, mAllocSize, constructed, crashed>>

AllocatorsTypeOK ==
    /\ PoolTypeOK
    /\ mAllocator \in [Allocators -> Pools \cup {NoPool}]
    /\ mData \in [Allocators -> Heap \cup {Null}]
    /\ mAllocSize \in [Allocators -> AllocatorSizes \cup {0}]
    /\ constructed \subseteq Allocators
    /\ crashed \in BOOLEAN

AllocatorsInit ==
    /\ PoolInit
    /\ mAllocator = [a \in Allocators |-> NoPool]
    /\ mData = [a \in Allocators |-> Null]
    /\ mAllocSize = [a \in Allocators |-> 0]
    /\ constructed = {}
    /\ crashed = FALSE

------------------------------------------------------------------------------

Construct(a, p) ==
    /\ a \notin constructed
    /\ constructed' = constructed \cup {a}
    /\ mAllocator' = [mAllocator EXCEPT ![a] = p]
    /\ mData' = [mData EXCEPT ![a] = Null]
    /\ mAllocSize' = [mAllocSize EXCEPT ![a] = 0]
    /\ UNCHANGED <<poolVars, crashed>>

(* The move constructor copies the members and leaves the source as it is. *)
MoveConstruct(a, b) ==
    /\ "construct" \in Moves
    /\ a \notin constructed
    /\ b \in constructed
    /\ constructed' = constructed \cup {a}
    /\ mAllocator' = [mAllocator EXCEPT ![a] = mAllocator[b]]
    /\ mData' = [mData EXCEPT ![a] = mData[b]]
    /\ mAllocSize' = [mAllocSize EXCEPT ![a] = mAllocSize[b]]
    /\ UNCHANGED <<poolVars, crashed>>

(* Mutant: the members are copied. *)
MoveAssignCopies(a, b) ==
    /\ "assign" \in Moves
    /\ {a, b} \subseteq constructed
    /\ mAllocator' = [mAllocator EXCEPT ![a] = mAllocator[b]]
    /\ mData' = [mData EXCEPT ![a] = mData[b]]
    /\ mAllocSize' = [mAllocSize EXCEPT ![a] = mAllocSize[b]]
    /\ UNCHANGED <<poolVars, constructed, crashed>>

(* The move assignment swaps the members. *)
MoveAssign(a, b) ==
    /\ "assign" \in Moves
    /\ {a, b} \subseteq constructed
    /\ mAllocator' = [mAllocator EXCEPT ![a] = mAllocator[b], ![b] = mAllocator[a]]
    /\ mData' = [mData EXCEPT ![a] = mData[b], ![b] = mData[a]]
    /\ mAllocSize' = [mAllocSize EXCEPT ![a] = mAllocSize[b], ![b] = mAllocSize[a]]
    /\ UNCHANGED <<poolVars, constructed, crashed>>

AllocatorAllocate(a, size, at) ==
    /\ a \in constructed
    /\ mAllocator[a] # NoPool
    /\ mData[a] = Null
    /\ Allocate(mAllocator[a], size, at)
    /\ mData' = [mData EXCEPT ![a] = at]
    /\ mAllocSize' = [mAllocSize EXCEPT ![a] = size]
    /\ crashed' \in BOOLEAN
    /\ UNCHANGED <<mAllocator, constructed>>

(* Mutant: the address is forgotten, not given back. *)
AllocatorForgets(a) ==
    /\ a \in constructed
    /\ mData[a] # Null
    /\ mData' = [mData EXCEPT ![a] = Null]
    /\ UNCHANGED <<poolVars, mAllocator, mAllocSize, constructed, crashed>>

(* deallocate resets mData twice, and mSize never. *)
AllocatorDeallocate(a) ==
    /\ a \in constructed
    /\ mData[a] # Null
    /\ Deallocate(mAllocator[a], mData[a])
    /\ mData' = [mData EXCEPT ![a] = Null]
    /\ UNCHANGED <<mAllocator, mAllocSize, constructed, crashed>>

(* The destructor deallocates what the object holds; when the pool does not *)
(* know the address the exception leaves a destructor.                      *)
DestroyAllocator(a) ==
    /\ a \in constructed
    /\ constructed' = constructed \ {a}
    /\ mData' = [mData EXCEPT ![a] = Null]
    /\ mAllocSize' = [mAllocSize EXCEPT ![a] = 0]
    /\ UNCHANGED mAllocator
    /\ \/ mData[a] = Null /\ UNCHANGED <<poolVars, crashed>>
       \/ mData[a] # Null /\ Deallocate(mAllocator[a], mData[a]) /\ UNCHANGED crashed
       \/ mData[a] # Null /\ ~Owns(mAllocator[a], mData[a]) /\ crashed' = TRUE /\ UNCHANGED poolVars

(* The owner of the pools moves one into another under the allocators. *)
MovePools(p, q) ==
    /\ "pool" \in Moves
    /\ p # q
    /\ MovePool(p, q)
    /\ UNCHANGED <<mAllocator, mData, mAllocSize, constructed, crashed>>

AllocatorsNext ==
    /\ ~crashed
    /\ \/ \E a \in Allocators, p \in Pools \cup {NoPool} : Construct(a, p)
       \/ \E a, b \in Allocators : MoveConstruct(a, b) \/ MoveAssign(a, b)
       \/ \E a \in Allocators, size \in AllocatorSizes, at \in Heap : AllocatorAllocate(a, size, at)
       \/ \E a \in Allocators : AllocatorDeallocate(a) \/ DestroyAllocator(a)
       \/ \E p, q \in Pools : MovePools(p, q)

AllocatorsSpec == AllocatorsInit /\ [][AllocatorsNext]_allocatorVars

------------------------------------------------------------------------------

(* Nothing leaks while the program lives: some object still holds the       *)
(* address of every closed block, whatever moves the program makes.         *)
ClosedIsHeld ==
    ~crashed => \A p \in Pools : \A b \in mClosedBlocks[p] :
                    \E a \in constructed : mData[a] = b.first

(* The address an object holds is one its pool handed out and has not taken *)
(* back: only then deallocate() and the destructor do not throw "Memory not *)
(* allocated from this allocator" (memory_pool.cpp:95).                     *)
OwnsItsData ==
    \A a \in constructed : mData[a] # Null => Owns(mAllocator[a], mData[a])

(* No two objects hold the same allocation. *)
SoleOwner ==
    \A a, b \in constructed : mData[a] # Null /\ mData[a] = mData[b] => a = b

(* Ownership is lost in two ways only: by a move construction, which leaves *)
(* the address with both objects, and by moving a pool away from under the  *)
(* objects that point to it.  Construction, move assignment, allocation,    *)
(* deallocation and destruction keep every object the one owner of what it  *)
(* holds.                                                                   *)
OwnershipLostByMoves ==
    [][ OwnsItsData /\ SoleOwner =>
            \/ (OwnsItsData /\ SoleOwner)'
            \/ \E a, b \in Allocators : MoveConstruct(a, b)
            \/ \E p, q \in Pools : MovePools(p, q) ]_allocatorVars

(* While every object is the one owner of what it holds, size() answers at  *)
(* least as much as its block has: it answers what was asked for, which the *)
(* pool may have met with less.                                             *)
SizeIsWhatWasAsked ==
    ~crashed /\ OwnsItsData /\ SoleOwner =>
        \A a \in constructed : mData[a] # Null =>
            \A b \in mClosedBlocks[mAllocator[a]] :
                b.first = mData[a] => b.size <= mAllocSize[a]
==============================================================================
