------------------------------ MODULE PoolClient -----------------------------
(***************************************************************************)
(* Code that uses memory_pool directly: it allocates from any pool, gives  *)
(* back what it holds to the pool object its blocks are in, moves pools    *)
(* and destroys pools it holds nothing from.                               *)
(***************************************************************************)
EXTENDS MemoryPool

CONSTANT Sizes       \* the sizes asked for, a bound on the inputs

ASSUME SizeAssumption == Sizes \subseteq 0..HeapSize

VARIABLE held        \* what the client holds: where, how much it asked for, which pool

vars == <<poolVars, held>>

Holding == [at : Heap, asked : Sizes, pool : Pools]

TypeOK == PoolTypeOK /\ held \subseteq Holding

Init == PoolInit /\ held = {}

Get(p, size, at) ==
    /\ Allocate(p, size, at)
    /\ held' = held \cup {[at |-> at, asked |-> size, pool |-> p]}

GiveBack(h) ==
    /\ Deallocate(h.pool, h.at)
    /\ held' = held \ {h}

Move(p, q) ==
    /\ p # q
    /\ MovePool(p, q)
    /\ held' = {[h EXCEPT !.pool = CASE @ = p -> q [] @ = q -> p [] OTHER -> @] : h \in held}

Destroy(p) ==
    /\ \A h \in held : h.pool # p
    /\ DestroyPool(p)
    /\ UNCHANGED held

Next ==
    \/ \E p \in Pools, size \in Sizes, at \in Heap : Get(p, size, at)
    \/ \E h \in held : GiveBack(h)
    \/ \E p, q \in Pools : Move(p, q)
    \/ \E p \in Pools : Destroy(p)

Spec == Init /\ [][Next]_vars

------------------------------------------------------------------------------

(* The client holds exactly the closed blocks of the pools: giving back     *)
(* what was allocated never throws "Memory not allocated from this          *)
(* allocator" (memory_pool.cpp:95), and no closed block has no holder.      *)
HeldIsClosed ==
    \A p \in Pools :
        {h.at : h \in {k \in held : k.pool = p}} = {b.first : b \in mClosedBlocks[p]}

(* No two holders share an address. *)
HeldOnce == \A h, k \in held : h.at = k.at => h = k

(* static_allocator, the other allocator with memory of its own, refuses a  *)
(* request larger than its block ("Allocation size is too large",           *)
(* allocator.hpp:53), and memory_pool.cpp:50 expects a block that may be    *)
(* larger than asked for: what is handed out is as large as asked for.      *)
BlocksAreLargeEnough ==
    \A h \in held : \E b \in mClosedBlocks[h.pool] : b.first = h.at /\ b.size >= h.asked
==============================================================================
