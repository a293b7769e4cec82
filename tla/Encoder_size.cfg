SPECIFICATION Spec
CONSTANTS
    there = there
    NoName = NoName
    Calls <- AllCalls
INVARIANT
    WidthAsSaid
CHECK_DEADLOCK FALSE
