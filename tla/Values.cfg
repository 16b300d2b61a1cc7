SPECIFICATION HeapSpec
CONSTANTS
    m1 = m1
    m2 = m2
    m3 = m3
    m4 = m4
    SignBit = 16
    Chars = {0, 1, 48, 57, 65, 110, 121}
    Floats <- MCFloats
    Addresses = {m1, m2, m3, m4}
    Names = {0, 1}
    Settings <- MCSettings
SYMMETRY Sym
INVARIANTS
    HeapTypeOK
    OwnersAreSound
    LeaksAreCycles
    CopyIsFaithful
    ConversionKeepsNumber
CHECK_DEADLOCK FALSE
