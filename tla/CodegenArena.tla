----------------------------- MODULE CodegenArena -----------------------------
(* The start of codegen_arena (asm8086.c:40-42) as memory: the label map's      *)
(* collision_array and, right behind it, the list of addresses to patch.  The    *)
(* map's array is allocated as Labels of 24 bytes and used as MapLabelEls of 32   *)
(* (parser.c:709), so LabelLen elements get fewer cells than that.  A cell is 32  *)
(* bytes; a MapLabelEl and an AddrToPatch fill one each, field upon field:        *)
(*     label.name | label.pos    | next                                          *)
(*     labelname  | inst_pointer | bytelen                                       *)
(* There is one bucket, and the program pops no label.                           *)
EXTENDS Integers, Sequences

CONSTANTS
    Names,      \* label names
    LabelLen,   \* Labels allocated for the map, 100 in the code
    PatchLen,   \* AddrToPatch elements allocated, 100 in the code
    MaxLabels,  \* bound: labels of a program
    MaxCode,    \* bound: bytes of code
    NoName      \* the name in a cell that was never written

ASSUME LengthsAssumption == {LabelLen, PatchLen, MaxLabels, MaxCode} \subseteq Nat

VARIABLES
    cells,                  \* the memory
    offset,                 \* slots handed out; the last one heads the chain
    cnt,                    \* entries of list_addrtopatch
    g_instruction_pointer,
    defined,                \* history: the labels inserted, in order
    recorded                \* history: the jumps to patch, in order

vars == <<cells, offset, cnt, g_instruction_pointer, defined, recorded>>

SizeofLabel  == 24
SizeofCell   == 32
LabelCells   == (LabelLen * SizeofLabel) \div SizeofCell   \* slot 0 included
PatchCell_OneLess(k) == LabelCells + k - 1                 \* mutant: slot 0 forgotten
PatchCell(k) == LabelCells + k                             \* addr_to_patch[k]
Memory       == 0 .. LabelCells + PatchLen - 1

Cell(name, value, link) == [name |-> name, value |-> value, link |-> link]

Init ==
    /\ cells = [c \in Memory |-> Cell(NoName, 0, 0)]
    /\ offset = 0
    /\ cnt = 0
    /\ g_instruction_pointer = 0
    /\ defined = <<>>
    /\ recorded = <<>>

(* A label is found in the slot that holds what was inserted there.             *)
LabelsIntact == \A s \in 1 .. offset : cells[s] = defined[s]

(* An entry of the list holds what was recorded. *)
EntriesIntact == \A k \in 1 .. cnt : cells[PatchCell(k - 1)] = recorded[k]

(* Mutant: only the head of the chain is looked at. *)
Find_HeadOnly(name) ==
    IF offset # 0 /\ cells[offset].name = name THEN offset ELSE 0

(* maplabel_find from the head of the chain.  It is the map's own walk only as  *)
(* long as no slot is overwritten; an overwritten slot has for next the bytelen   *)
(* and the padding of an AddrToPatch, and what the program does then is not       *)
(* determined: the actions stop there.                                            *)
Find(name) ==
    LET found[s \in 0 .. offset] ==
            IF s = 0 \/ cells[s].name = name THEN s ELSE found[cells[s].link]
    IN  found[offset]

InsertLabel(name) ==
    /\ LabelsIntact
    /\ Find(name) = 0
    /\ offset < MaxLabels
    /\ offset' = offset + 1
    /\ LET new == Cell(name, g_instruction_pointer, offset) IN
           /\ cells' = [cells EXCEPT ![offset + 1] = new]
           /\ defined' = Append(defined, new)
    /\ UNCHANGED <<cnt, g_instruction_pointer, recorded>>

(* Mutant: list_addrtopatch_add without its assertion. *)
RecordJump_NoAssert(name, n) ==
    /\ LabelsIntact
    /\ Find(name) = 0
    /\ g_instruction_pointer + 1 + n <= MaxCode
    /\ cnt' = cnt + 1
    /\ LET new == Cell(name, g_instruction_pointer + 1, n) IN
           /\ cells' = [cells EXCEPT ![PatchCell(cnt)] = new]
           /\ recorded' = Append(recorded, new)
    /\ g_instruction_pointer' = g_instruction_pointer + 1 + n
    /\ UNCHANGED <<offset, defined>>

(* A jump of n bytes of operand to a label that is not found. *)
RecordJump(name, n) ==
    /\ LabelsIntact
    /\ Find(name) = 0
    /\ cnt < PatchLen
    /\ g_instruction_pointer + 1 + n <= MaxCode
    /\ cnt' = cnt + 1
    /\ LET new == Cell(name, g_instruction_pointer + 1, n) IN
           /\ cells' = [cells EXCEPT ![PatchCell(cnt)] = new]
           /\ recorded' = Append(recorded, new)
    /\ g_instruction_pointer' = g_instruction_pointer + 1 + n
    /\ UNCHANGED <<offset, defined>>

Next == \E name \in Names : InsertLabel(name) \/ \E n \in 1 .. 2 : RecordJump(name, n)

Spec == Init /\ [][Next]_vars

Cells == [name : Names \cup {NoName}, value : Nat, link : Nat]

(* Every cell holds a name, a value and a link, and the two counters count the    *)
(* labels defined and the addresses recorded (parser.h; parser.c:704-796).        *)
TypeOK ==
    /\ cells \in [Memory -> Cells]
    /\ offset \in 0 .. MaxLabels
    /\ cnt \in 0 .. PatchLen
    /\ g_instruction_pointer \in 0 .. MaxCode
    /\ defined \in Seq(Cells) /\ Len(defined) = offset
    /\ recorded \in Seq(Cells) /\ Len(recorded) = cnt

(* The positions that jumps are resolved to are those the labels were given,    *)
(* and a name that was not defined is not found (codegen.c:326-349).            *)
FindAgrees ==
    LabelsIntact => \A name \in Names :
        IF \E k \in 1 .. offset : defined[k].name = name
          THEN Find(name) # 0 /\ cells[Find(name)].name = name
          ELSE Find(name) = 0
===============================================================================
