SPECIFICATION WordsSpec
CONSTANTS
    Buffers = {}
    Memories = {}
    Offsets = {}
    Counts = {}
    Bounds <- MCPowers
    Widths = {}
INVARIANT
    IntegerIsAsDocumented
