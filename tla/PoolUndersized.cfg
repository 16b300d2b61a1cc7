SPECIFICATION MemorySpec
CONSTANTS
    Users = {"client"}
    p1 = p1
    p2 = p2
    a1 = a1
    a2 = a2
    NoPool = NoPool
    Pools = {p1}
    Allocators = {a1}
    HeapSize = 6
    Sizes = {0, 1, 2, 3}
    AllocatorSizes = {1}
    Moves = {}
INVARIANT
    BlocksAreLargeEnough
CHECK_DEADLOCK FALSE
