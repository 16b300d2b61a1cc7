SPECIFICATION MCSerialSpec
CONSTANTS
    SignBit = 10
    Chars = {}
    Floats = {0, 7, 99}
    ByteBase = 128
    HighBase = 2
    SizeLimit = 8
    MaxEvents = 5
    Documents <- TextDocuments
    AnyEvents <- MCEvents
    Subjects = {"values"}
    FunctionNames = {f}
    Signatures <- MCSignatures
    Calls <- MCCalls
    Results <- MCResults
    Notified <- MCNotified
    Responses <- MCResponses
    NarrowBits = 3
    MaxRequests = 1
INVARIANT
    BlanksAreSkipped
CHECK_DEADLOCK FALSE
