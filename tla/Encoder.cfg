SPECIFICATION Spec
CONSTANTS
    there = there
    NoName = NoName
    Calls <- AllCalls
INVARIANTS
    TypeOK
    WholeBytes
    DecodesToSource
    HoleAtPatch
CHECK_DEADLOCK FALSE
