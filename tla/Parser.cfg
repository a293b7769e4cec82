SPECIFICATION Spec
CONSTANTS
    a = a
    b = b
    NoName = NoName
    Programs <- AllPrograms
    Mnemonics <- TwoMnemonics
INVARIANTS
    TypeOK
    LinesInGrammar
    OperandsMeant
PROPERTIES
    RoundsAdvance
CHECK_DEADLOCK FALSE
