------------------------------- MODULE MCEncoder ------------------------------
(* Every mnemonic with none, one or two of operands of every kind: registers of     *)
(* both widths, every shape of address with displacements on both sides of a byte    *)
(* and of bit 15, numbers at the same edges. Jumps from three places to labels        *)
(* before, behind and far off, or not yet known.                                    *)
EXTENDS Encoder

CONSTANT there

Address(base, index, disp, daddr) ==
    MemoryOperand([base |-> base, index |-> index, disp |-> disp, daddr |-> daddr])
With(o, sizes) == [o EXCEPT !.prefix_size = sizes]
Prefixes == {{}, {"BYTE"}, {"WORD"}}

Addresses ==
    {Address("BX", "NULL", 0, 0), Address("BP", "NULL", 0, 0), Address("BP", "NULL", 200, 0),
     Address("NULL", "DI", -129, 0), Address("BP", "DI", 127, 0), Address("BX", "SI", -128, 0),
     Address("BX", "DI", -32768, 0), Address("NULL", "NULL", 0, 5), Address("NULL", "NULL", 0, -25536)}
Numbers    == {ImmediateOperand(n) : n \in {-300, -128, 0, 1, 127, 128, 255}}
Registers  == {RegisterOperand(r) : r \in {"AL", "AX", "CL", "BH", "DX", "BP"}}
Others     == {SegmentOperand("ES"), SegmentOperand("DS"), LabelOperand(there),
               PointerOperand(40000, 7), NoOperand, With(ImmediateOperand(1), {"BYTE"}),
               With(Address("BX", "NULL", 0, 0), {"BYTE", "WORD"})}
AllOperands == {With(m, s) : m \in Addresses, s \in Prefixes} \cup Numbers \cup Registers \cup Others

Jumps == {"JMP", "JE"}
Instructions(ms, ops) == [mnemonic : ms, dst : AllOperands, src : ops]
AllCalls ==
    [inst : Instructions(DOMAIN Table \ Jumps, AllOperands), ip : {0}, pos : {NoPosition}]
        \cup [inst : Instructions(Jumps, {NoOperand}), ip : {0, 90, 32766}, pos : {NoPosition, 0, 80, 200, 32760}]
        \cup [inst : {[mnemonic |-> "NULL", dst |-> NoOperand, src |-> NoOperand]}, ip : {0}, pos : {NoPosition}]
===============================================================================
