SPECIFICATION Spec
CONSTANTS
    n1 = n1
    n2 = n2
    n3 = n3
    n4 = n4
    NoName = NoName
    None = None
    Names <- FourNames
    Positions = {5}
    Buckets <- TwoBuckets
    Hash <- FourHashed
    Capacity = 3
INVARIANTS
    TypeOK
    ListsPartitionSlots
    LabelsFindable
    CursorInChain
PROPERTIES
    ImplementsTable
    ImplementsHashMap
    CallsReturn
CHECK_DEADLOCK FALSE
