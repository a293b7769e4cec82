SPECIFICATION Spec
CONSTANTS
    a = a
    b = b
    None = None
    Names <- TwoNames
    Numbers <- OneNumber
    BlockSizes <- BothEdges
    MaxLines = 5
    MaxCode = 65535
    PatchLen = 2
INVARIANTS
    TypeOK
    JumpsLand
    PatchListExact
PROPERTIES
    PatchesInPlace
    ImplementsResolution
    Terminates
CHECK_DEADLOCK FALSE
