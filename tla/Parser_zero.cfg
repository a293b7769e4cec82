SPECIFICATION Spec
CONSTANTS
    a = a
    b = b
    NoName = NoName
    Programs <- ZeroAddress
    Mnemonics <- TwoMnemonics
INVARIANTS
    GrammarLinesAccepted
CHECK_DEADLOCK FALSE
