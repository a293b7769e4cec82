SPECIFICATION Spec
CONSTANTS
    n1 = n1
    n2 = n2
    n3 = n3
    n4 = n4
    NoName = NoName
    Names <- FourNames
    LabelLen = 4
    PatchLen = 3
    MaxLabels = 4
    MaxCode = 9
INVARIANTS
    LabelsIntact
CHECK_DEADLOCK FALSE
