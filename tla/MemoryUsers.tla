----------------------------- MODULE MemoryUsers -----------------------------
(***************************************************************************)
(* The two users of memory pools, PoolClient and PoolAllocators.  A        *)
(* behaviour is one of a single user, on pools of its own: the variables   *)
(* of the other one stay as they start.                                    *)
(***************************************************************************)
EXTENDS PoolClient, PoolAllocators

CONSTANT Users       \* which users there are: "client", "allocators"

VARIABLE user

ClientOnly == <<held>>
AllocatorsOnly == <<mAllocator, mData, mAllocSize, constructed, crashed>>

MemoryInit == user \in Users /\ Init /\ AllocatorsInit

MemoryNext ==
    /\ UNCHANGED user
    /\ \/ user = "client" /\ Next /\ UNCHANGED AllocatorsOnly
       \/ user = "allocators" /\ AllocatorsNext /\ UNCHANGED ClientOnly

memoryVars == <<user, poolVars, ClientOnly, AllocatorsOnly>>

MemorySpec == MemoryInit /\ [][MemoryNext]_memoryVars

(* The types of the pools and of both their users. *)
MemoryTypeOK == TypeOK /\ AllocatorsTypeOK

(* Through allocations, frees, merges and moves no byte of a pool is lost   *)
(* or handed out twice, and an address names one allocation.                *)
PoolsSound == Tiled /\ ClosedByAddress

(* The client holds what the pools take for closed, each address once:      *)
(* nothing is leaked, handed out twice or refused when it is given back.    *)
ClientHoldsClosed == user = "client" => HeldIsClosed /\ HeldOnce

(* The same for allocator objects: a block in use has one owner that knows  *)
(* its size, except behind the moves that break this.                       *)
AllocatorsHoldClosed == user = "allocators" => ClosedIsHeld /\ SizeIsWhatWasAsked
==============================================================================
