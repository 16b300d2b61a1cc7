SPECIFICATION WordsSpec
CONSTANTS
    Buffers <- MCBuffers
    Memories <- MCMemories
    Offsets = {0, 1, 6, 7, 8, 15}
    Counts = {1}
    Bounds <- MCBounds
    Widths = {1, 2, 7, 8, 9, 12, 15, 16, 17, 33, 64}
INVARIANT
    ReadBitsCopies
