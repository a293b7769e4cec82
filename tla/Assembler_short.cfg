SPECIFICATION Spec
CONSTANTS
    a = a
    b = b
    None = None
    Names <- TwoNames
    Numbers <- OneNumber
    BlockSizes <- JustOutside
    MaxLines = 3
    MaxCode = 65535
    PatchLen = 2
INVARIANTS
    ShortJumpsLand
CHECK_DEADLOCK FALSE
