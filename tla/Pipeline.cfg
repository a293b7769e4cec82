SPECIFICATION Spec
CONSTANTS
    a = a
    b = b
    NoName = NoName
    Names <- TwoNames
    Numbers <- AllNumbers
    Mnemonics <- FourMnemonics
    Programs <- AllPrograms
    PatchLen = 2
    MaxLines = 6
    MaxCode = 36
INVARIANTS
    ProgramDecodes
PROPERTIES
    ImplementsAssembler
CHECK_DEADLOCK FALSE
