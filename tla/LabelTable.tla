------------------------------ MODULE LabelTable ------------------------------
(* What the label map promises its callers: a partial map from label names to  *)
(* positions, with three operations.  A caller sees an operation as two        *)
(* events, its call and its return, and the whole effect of the operation      *)
(* happens in the return.  Inserting a name that is already defined stops the  *)
(* program (parser.c:736).  The hash map of LabelMap.tla implements this.      *)
CONSTANTS
    Names,      \* label names
    Positions,  \* code positions a label can be given
    None        \* the absence of a position

VARIABLES
    table,      \* the position of each defined name, None for the others
    pc,         \* the operation in progress, "idle" or "aborted"
    label,      \* the argument of the operation in progress
    answer      \* what the last find returned, until the next call

vars == <<table, pc, label, answer>>

Operations == {"find", "insert", "pop"}
Labels     == [name : Names, pos : Positions]

Init ==
    /\ table = [n \in Names |-> None]
    /\ pc = "idle"
    /\ label \in Labels
    /\ answer = None

Call ==
    /\ pc = "idle"
    /\ pc' \in Operations
    /\ label' \in Labels
    /\ answer' = None
    /\ UNCHANGED table

ReturnFind ==
    /\ pc = "find"
    /\ answer' = table[label.name]
    /\ pc' = "idle"
    /\ UNCHANGED <<table, label>>

ReturnInsert ==
    /\ pc = "insert"
    /\ table[label.name] = None
    /\ table' = [table EXCEPT ![label.name] = label.pos]
    /\ pc' = "idle"
    /\ UNCHANGED <<label, answer>>

AbortInsert ==
    /\ pc = "insert"
    /\ table[label.name] # None
    /\ pc' = "aborted"
    /\ UNCHANGED <<table, label, answer>>

ReturnPop ==
    /\ pc = "pop"
    /\ table' = [table EXCEPT ![label.name] = None]
    /\ pc' = "idle"
    /\ UNCHANGED <<label, answer>>

Return == ReturnFind \/ ReturnInsert \/ AbortInsert \/ ReturnPop

Next == Call \/ Return

Spec == Init /\ [][Next]_vars /\ WF_vars(Return)
===============================================================================
