SPECIFICATION StructuresSpec
CONSTANTS
    ListValues = {a, b}
    Default = default
    Raw = raw
    DefaultAllocation = 1
    ListKinds <- MCListKinds
    Capacities = {0, 2, 5}
    StackValues = {a, b}
    CAPACITY = 3
    IndexLimit = 4
    Unset = unset
    Nodes = {n1, n2, n3, n4}
    CHILDREN = 2
    NoNode = noNode
    MapKinds <- MCMapKinds
    CallerKeys = {0, 1, 2, 3, 4, 5}
    MapValues = {a, b}
    Buffers <- MCBuffers
    Memories <- MCMemories
    Offsets = {0, 1, 6, 7, 8, 15}
    Counts = {0, 1, 2, 8, 9}
    Bounds <- MCBounds
    Widths = {1, 2, 7, 8, 9, 12, 15, 16, 17, 33, 64}
    N = 4
    Users = {"client", "allocators"}
    p1 = p1
    p2 = p2
    a1 = a1
    a2 = a2
    NoPool = NoPool
    Pools = {p1, p2}
    Allocators = {a1, a2}
    HeapSize = 4
    Sizes = {0, 1, 2}
    AllocatorSizes = {1, 2}
    Moves = {"construct", "assign", "pool"}
    MaxPauses = 2
SYMMETRY Symmetry
INVARIANTS
    StructuresTypeOK
    MemoryTypeOK
    ListLifetime
    LinksAgree
    TreeWalksVisit
    ArithmeticAgrees
    PoolsSound
    ClientHoldsClosed
    AllocatorsHoldClosed
    RingRunsAll
PROPERTIES
    ListSteps
    ImplementsStack
    TreeSteps
    MapSteps
    OwnershipLostByMoves
    RingExecuteReturns
CHECK_DEADLOCK FALSE
