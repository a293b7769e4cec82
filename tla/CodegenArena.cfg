SPECIFICATION Spec
CONSTANTS
    n1 = n1
    n2 = n2
    n3 = n3
    n4 = n4
    NoName = NoName
    Names <- FourNames
    LabelLen = 4
    PatchLen = 3
    MaxLabels = 2
    MaxCode = 9
INVARIANTS
    TypeOK
    LabelsIntact
    EntriesIntact
    FindAgrees
CHECK_DEADLOCK FALSE
