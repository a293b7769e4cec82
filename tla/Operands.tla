------------------------------- MODULE Operands -------------------------------
(* The operands that the parser hands to codegen: the records of parser.h:40-86,  *)
(* what parse_operand puts in them for each kind of operand (parser.c:289-364),   *)
(* and the lookup tables made from tables.h. OperandKind is a set of flags, the   *)
(* prefixes are sets as well. Shared by Parser and Encoder.                       *)
EXTENDS Integers, Sequences

CONSTANT NoName         \* the name of an operand that is no label

(* (s16) of an integer, and (u16) of the s16 that comes of it.                    *)
S16(n) == ((n + 32768) % 65536) - 32768
U16(n) == n % 65536
S16Min == -32768
S16Max == 32767
S16Values == S16Min .. S16Max

(* TABLE_REGISTER_GENERAL: a register's place in its row is its REG field.        *)
Registers8  == <<"AL", "CL", "DL", "BL", "AH", "CH", "DH", "BH">>
Registers16 == <<"AX", "CX", "DX", "BX", "SP", "BP", "SI", "DI">>
(* TABLE_REGISTER_SEGMENT in the order of encode_sr.                              *)
Segments    == <<"ES", "CS", "SS", "DS">>

Members(s)     == {s[i] : i \in DOMAIN s}
General        == Members(Registers8) \cup Members(Registers16)
Bases          == {"BX", "BP"}
Indices        == {"SI", "DI"}
PlaceIn(s, r)  == (CHOOSE i \in DOMAIN s : s[i] = r) - 1
reg_field(r)   == IF r \in Members(Registers8) THEN PlaceIn(Registers8, r)
                                               ELSE PlaceIn(Registers16, r)
encode_sr(r)   == PlaceIn(Segments, r)

op_kind_from_reg(r) ==
    (IF r \in Members(Registers8) THEN {"REG8"} ELSE {"REG16"})
        \cup (IF r = "AL" THEN {"ACC8"} ELSE {}) \cup (IF r = "AX" THEN {"ACC16"} ELSE {})

-------------------------------------------------------------------------------
(* {0}: the record before an operand was parsed. "NULL" is TOK_NULL.              *)
NoOperand ==
    [kind |-> {}, reg |-> "NULL", seg |-> "NULL", base |-> "NULL", index |-> "NULL",
     disp |-> 0, daddr |-> 0, mod |-> 0, rm |-> 0, imm |-> 0, label |-> NoName,
     selector |-> 0, offset |-> 0, prefix_size |-> {}, prefix_seg_ovr |-> {}]

IsByte(n) == n \in -128 .. 127

(* Tables 4-8 and 4-10 of the Intel manual, as eaddr_encode_mod and eaddr_encode_rm *)
(* have them. The assertion of the latter cannot fail: the parser lets only bases    *)
(* and indices in.                                                                   *)
eaddr_encode_mod(base, index, disp, daddr) ==
    IF base = "BP" /\ index = "NULL" /\ IsByte(disp) THEN 1
    ELSE IF daddr # 0 \/ disp = 0 THEN 0
    ELSE IF IsByte(disp) THEN 1 ELSE 2

eaddr_encode_rm(base, index) ==
    CASE base # "NULL" /\ index # "NULL" ->
             2 * (IF base = "BP" THEN 1 ELSE 0) + (IF index = "DI" THEN 1 ELSE 0)
      [] base = "NULL" /\ index = "SI" -> 4
      [] base = "NULL" /\ index = "DI" -> 5
      [] base = "BX" /\ index = "NULL" -> 7
      [] OTHER -> 6

RegisterOperand(r) == [NoOperand EXCEPT !.kind = op_kind_from_reg(r), !.reg = r]

(* eaddr is what was parsed between the brackets.                                 *)
MemoryOperand(eaddr) ==
    [NoOperand EXCEPT
        !.kind = IF eaddr.base # "NULL" \/ eaddr.index # "NULL" THEN {"MEM"} ELSE {"MEM", "DADDR"},
        !.base = eaddr.base, !.index = eaddr.index, !.disp = eaddr.disp, !.daddr = eaddr.daddr,
        !.mod = eaddr_encode_mod(eaddr.base, eaddr.index, eaddr.disp, eaddr.daddr),
        !.rm = eaddr_encode_rm(eaddr.base, eaddr.index)]

SegmentOperand(r) == [NoOperand EXCEPT !.kind = {"SEGREG"}, !.seg = r]

PointerOperand(selector, offset) ==
    [NoOperand EXCEPT !.kind = {"POINTER"}, !.selector = S16(selector), !.offset = S16(offset)]

ImmediateOperand(imm) ==
    [NoOperand EXCEPT !.kind = {"IMMEDIATE", IF IsByte(imm) THEN "IMMEDIATE8" ELSE "IMMEDIATE16"},
                      !.imm = imm]

LabelOperand(name) == [NoOperand EXCEPT !.kind = {"LABEL"}, !.label = name]
-------------------------------------------------------------------------------
Kinds == {"REG8", "REG16", "ACC8", "ACC16", "MEM", "DADDR", "SEGREG", "POINTER",
          "IMMEDIATE", "IMMEDIATE8", "IMMEDIATE16", "LABEL"}

(* The records that codegen may be handed: numbers of their C type (s16, and the   *)
(* bits of mod and rm), and a register wherever the kind says that there is one.    *)
IsOperand(o) ==
    /\ DOMAIN o = DOMAIN NoOperand
    /\ o.kind \subseteq Kinds
    /\ o.reg \in General \cup {"NULL"} /\ (o.kind \cap {"REG8", "REG16"} # {} => o.reg # "NULL")
    /\ o.seg \in Members(Segments) \cup {"NULL"} /\ ("SEGREG" \in o.kind => o.seg # "NULL")
    /\ o.base \in Bases \cup {"NULL"} /\ o.index \in Indices \cup {"NULL"}
    /\ {o.disp, o.daddr, o.imm, o.selector, o.offset} \subseteq S16Values
    /\ o.mod \in 0 .. 2 /\ o.rm \in 0 .. 7
    /\ o.prefix_size \subseteq {"BYTE", "WORD"} /\ o.prefix_seg_ovr \subseteq Members(Segments)
===============================================================================
