SPECIFICATION Spec
CONSTANTS
    own = own
    copy = copy
    Handles <- TwoHandles
    arenas <- Context
    FirstSize = 16
    Requests <- ThreeRequests
    MaxBlocks = 4
    MaxGrowth = 2
    MaxAllocs = 2
    MaxTemps = 2
INVARIANTS
    TypeOK
    InBounds
    NoOverlap
PROPERTIES
    PushReturns
CHECK_DEADLOCK FALSE
