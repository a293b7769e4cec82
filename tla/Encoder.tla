-------------------------------- MODULE Encoder -------------------------------
(* codegen for one instruction (codegen.c:3-413) and what main does with the       *)
(* result (asm8086.c:60-72): the search of the table, one action for each kind of  *)
(* field, and the bytes that are stored. enc.encoding is the sequence of its bits;  *)
(* a shift and an or append to it, and enc.bitlen is counted apart, as in the code. *)
(* The label map is one position, that of the label the instruction names.         *)
EXTENDS Operands, InstTable

CONSTANTS Calls        \* the states codegen is called in: instruction_data,
                       \* g_instruction_pointer and the position of the label
NoPosition == -1       \* the label has not been defined yet

VARIABLES call,
          pc,          \* "searching", "emitting", "storing", "done", "dropped", "aborted"
          fields,      \* the fields of the row that are left
          encoding, bitlen,   \* enc
          patches,     \* what was added to list_addrtopatch
          bytes        \* what main stores in codegen_arena
vars == <<call, pc, fields, encoding, bitlen, patches, bytes>>

mnemonic == call.inst.mnemonic
dst      == call.inst.dst
src      == call.inst.src
g_instruction_pointer == call.ip

(* Mutant: the quotient is not cut to a bit.                                       *)
BitsOf_Uncut(v, n) == [k \in 1 .. n |-> v \div 2 ^ (n - k)]

BitsOf(v, n) == [k \in 1 .. n |-> (v \div 2 ^ (n - k)) % 2]
Low(n)       == BitsOf(U16(n) % 256, 8)
LowHigh(n)   == Low(n) \o BitsOf(U16(n) \div 256, 8)

IsOf(o, kinds)    == o.kind \cap kinds # {}
(* The operand of a kind: the source if it is one, else the destination.           *)
SrcElseDst(kinds) == IF IsOf(src, kinds) THEN src ELSE dst
Memory            == {"MEM", "DADDR"}
General8or16      == {"REG8", "REG16"}
HasMemory         == IsOf(src, Memory) \/ IsOf(dst, Memory)

(* codegen is handed what the parser made, under a mnemonic of the table.           *)
ASSUME CallsAssumption ==
    \A c \in Calls :
        /\ c.inst.mnemonic \in DOMAIN Table \cup {"NULL"}
        /\ IsOperand(c.inst.dst) /\ IsOperand(c.inst.src)
        /\ c.ip \in Nat /\ c.pos \in Int

Init ==
    /\ call \in Calls
    /\ pc = "searching"
    /\ fields = <<>>
    /\ encoding = <<>> /\ bitlen = 0
    /\ patches = <<>> /\ bytes = <<>>
-------------------------------------------------------------------------------
(* The search. An operand fits a row of one of its kinds, no operand only NONE.    *)
Fits(o, kind) == IF o.kind = {} THEN kind = "NONE" ELSE kind \in o.kind

Rows == IF mnemonic = "NULL" THEN <<>> ELSE Table[mnemonic]
Hits == {i \in DOMAIN Rows : Fits(dst, Rows[i].dst) /\ Fits(src, Rows[i].src)}

FindRow ==
    /\ pc = "searching"
    /\ \E hits \in {Hits} :
          \E i \in hits : (\A k \in hits : i <= k) /\ fields' = Rows[i].fields
    /\ pc' = "emitting"
    /\ UNCHANGED <<call, encoding, bitlen, patches, bytes>>

(* A line without an instruction, and an instruction that fits no row: main stores  *)
(* no bytes and goes on.                                                           *)
NoRow ==
    /\ pc = "searching" /\ Hits = {}
    /\ pc' = "dropped"
    /\ UNCHANGED <<call, fields, encoding, bitlen, patches, bytes>>
-------------------------------------------------------------------------------
(* The fields.                                                                     *)
At(id) == pc = "emitting" /\ fields # <<>> /\ Head(fields).id = id

Emit(new, len) ==
    /\ encoding' = encoding \o new
    /\ bitlen' = bitlen + len
    /\ fields' = Tail(fields)
    /\ UNCHANGED <<call, pc, bytes>>

EmitBits ==
    /\ At("BITS")
    /\ Emit(BitsOf(Head(fields).value, Head(fields).len), Head(fields).len)
    /\ UNCHANGED patches

(* Mutant: the destination is asked first.                                         *)
EmitReg_DstFirst ==
    /\ At("REG")
    /\ Emit(BitsOf(reg_field(IF IsOf(dst, General8or16) THEN dst.reg ELSE src.reg), 3), 3)
    /\ UNCHANGED patches

EmitReg ==
    /\ At("REG")
    /\ Emit(BitsOf(reg_field(SrcElseDst(General8or16).reg), 3), 3)
    /\ UNCHANGED patches

EmitMod ==
    /\ At("MOD")
    /\ Emit(BitsOf(IF HasMemory THEN SrcElseDst(Memory).mod ELSE 3, 2), 2)
    /\ UNCHANGED patches

EmitRm ==
    /\ At("RM")
    /\ HasMemory \/ IsOf(dst, General8or16)
    /\ Emit(BitsOf(IF HasMemory THEN SrcElseDst(Memory).rm ELSE reg_field(dst.reg), 3), 3)
    /\ UNCHANGED patches

(* The assertion at codegen.c:122: a register is looked for in the destination.     *)
AbortRm ==
    /\ At("RM")
    /\ ~ HasMemory /\ ~ IsOf(dst, General8or16)
    /\ pc' = "aborted"
    /\ UNCHANGED <<call, fields, encoding, bitlen, patches, bytes>>

(* Mutant: two bytes are counted as one.                                           *)
EmitDisp_CountsOne ==
    /\ At("DISP")
    /\ LET m == IF HasMemory THEN SrcElseDst(Memory) ELSE NoOperand
       IN  CASE m.mod # 0 /\ IsByte(m.disp)   -> Emit(Low(m.disp), 8)
             [] m.mod # 0 /\ ~ IsByte(m.disp) -> Emit(LowHigh(m.disp), 8)
             [] m.mod = 0 /\ m.daddr # 0      -> Emit(LowHigh(m.daddr), 16)
             [] OTHER                         -> Emit(<<>>, 0)
    /\ UNCHANGED patches

(* Without an operand in memory the record is {0} and there are no bytes.           *)
EmitDisp ==
    /\ At("DISP")
    /\ LET m == IF HasMemory THEN SrcElseDst(Memory) ELSE NoOperand
       IN  CASE m.mod # 0 /\ IsByte(m.disp)   -> Emit(Low(m.disp), 8)
             [] m.mod # 0 /\ ~ IsByte(m.disp) -> Emit(LowHigh(m.disp), 16)
             [] m.mod = 0 /\ m.daddr # 0      -> Emit(LowHigh(m.daddr), 16)
             [] OTHER                         -> Emit(<<>>, 0)
    /\ UNCHANGED patches

EmitAddr ==
    /\ At("ADDR")
    /\ Emit(LowHigh(SrcElseDst({"DADDR"}).daddr), 16)
    /\ UNCHANGED patches

(* IMM8 and DATA8.                                                                 *)
EmitByte ==
    /\ At("IMM8") \/ At("DATA8")
    /\ Emit(Low(SrcElseDst({"IMMEDIATE"}).imm), Head(fields).len)
    /\ UNCHANGED patches

(* The number of a jmp becomes the distance from its end.                          *)
EmitImm16 ==
    /\ At("IMM16")
    /\ LET imm == SrcElseDst({"IMMEDIATE"}).imm
       IN  Emit(LowHigh(IF mnemonic = "JMP" THEN S16(imm - (g_instruction_pointer + 3)) ELSE imm), 16)
    /\ UNCHANGED patches

EmitSr ==
    /\ At("SR")
    /\ Emit(BitsOf(encode_sr(SrcElseDst({"SEGREG"}).seg), 2), 2)
    /\ UNCHANGED patches

(* W and S are computed alike, from the prefixes alone; BYTE wins.                 *)
EmitSize ==
    /\ At("W") \/ At("S")
    /\ LET sizes == src.prefix_size \cup dst.prefix_size
       IN  Emit(IF "BYTE" \notin sizes /\ "WORD" \in sizes THEN <<1>> ELSE <<0>>, 1)
    /\ UNCHANGED patches

(* Mutant: the address of the instruction, not that of the hole.                    *)
EmitLabel_AtOpcode ==
    \E f \in {[id |-> "LBL", len |-> 2], [id |-> "LBL8", len |-> 1]} :
        /\ At(f.id)
        /\ IF call.pos = NoPosition
           THEN /\ Emit(BitsOf(0, 8 * f.len), 8 * f.len)
                /\ patches' = Append(patches, [inst_pointer |-> g_instruction_pointer,
                                               labelname |-> dst.label, bytelen |-> f.len])
           ELSE LET diff == S16(call.pos) - S16(g_instruction_pointer + f.len + 1)
                IN  /\ Emit(IF f.id = "LBL" THEN LowHigh(diff) ELSE Low(diff), 8 * f.len)
                    /\ UNCHANGED patches

(* LBL in three bytes, LBL8 in two: the distance if the label is known, else zeros  *)
(* and an entry for the patch loop.                                                *)
EmitLabel ==
    \E f \in {[id |-> "LBL", len |-> 2], [id |-> "LBL8", len |-> 1]} :
        /\ At(f.id)
        /\ IF call.pos = NoPosition
           THEN /\ Emit(BitsOf(0, 8 * f.len), 8 * f.len)
                /\ patches' = Append(patches, [inst_pointer |-> g_instruction_pointer + 1,
                                               labelname |-> dst.label, bytelen |-> f.len])
           ELSE LET diff == S16(call.pos) - S16(g_instruction_pointer + f.len + 1)
                IN  /\ Emit(IF f.id = "LBL" THEN LowHigh(diff) ELSE Low(diff), 8 * f.len)
                    /\ UNCHANGED patches

EmitPointer ==
    /\ \/ At("IP") /\ Emit(LowHigh(dst.offset), 16)
       \/ At("CODE_SEG") /\ Emit(LowHigh(dst.selector), 16)
    /\ UNCHANGED patches
-------------------------------------------------------------------------------
EndOfRow ==
    /\ pc = "emitting" /\ fields = <<>>
    /\ pc' = "storing"
    /\ UNCHANGED <<call, fields, encoding, bitlen, patches, bytes>>

(* The low num_bytes bytes of enc.encoding, the highest first.                     *)
Stored ==
    LET num_bytes == bitlen \div 8
        bit(k)    == IF k \in DOMAIN encoding THEN encoding[k] ELSE 0
        first(i)  == Len(encoding) - 8 * (num_bytes - i + 1)
        byte(i)   == LET sum[k \in 0 .. 8] == IF k = 0 THEN 0 ELSE 2 * sum[k - 1] + bit(first(i) + k)
                     IN  sum[8]
    IN  [i \in 1 .. num_bytes |-> byte(i)]

StoreBytes ==
    /\ pc = "storing"
    /\ bytes' = Stored
    /\ pc' = "done"
    /\ UNCHANGED <<call, fields, encoding, bitlen, patches>>

EmitField ==
    \/ EmitBits \/ EmitReg \/ EmitMod \/ EmitRm \/ AbortRm \/ EmitDisp \/ EmitAddr \/ EmitByte
    \/ EmitImm16 \/ EmitSr \/ EmitSize \/ EmitLabel \/ EmitPointer

Next == FindRow \/ NoRow \/ EmitField \/ EndOfRow \/ StoreBytes

Spec == Init /\ [][Next]_vars
-------------------------------------------------------------------------------
(* What an instruction of the source says to the machine, in the terms of Decoder. *)
M == INSTANCE Decoder

ShiftNames == {"SHL", "SAL", "SHR", "SAR", "ROL", "ROR", "RCL", "RCR"}
Ports      == {"IN", "OUT"}
WordsOnly  == {"PUSH", "POP", "LEA", "LDS", "LES", "JMP"}
Said       == dst.prefix_size \cup src.prefix_size

(* The width of the operation, 0 or 1: that of its registers, or what BYTE or WORD  *)
(* says.                                                                           *)
Width ==
    LET kinds == CASE mnemonic \in Ports      -> (dst.kind \cup src.kind) \cap {"ACC8"}
                   [] mnemonic \in ShiftNames -> dst.kind
                   [] OTHER                   -> dst.kind \cup src.kind
    IN  IF kinds \cap {"REG8", "ACC8"} # {} THEN 0
        ELSE IF kinds \cap {"REG16", "SEGREG"} # {} \/ mnemonic \in WordsOnly \cup Ports THEN 1
        ELSE IF "WORD" \in Said THEN 1 ELSE 0

Meaning(o) ==
    CASE IsOf(o, General8or16)             -> [reg |-> o.reg]
      [] "SEGREG" \in o.kind               -> [reg |-> o.seg]
      [] "MEM" \in o.kind                  -> M!Mem(Width, o.base, o.index, o.disp + o.daddr)
      [] "LABEL" \in o.kind                -> M!Target(call.pos)
      [] "POINTER" \in o.kind              -> M!Far(o.selector, o.offset)
      [] "IMMEDIATE" \in o.kind            ->
             CASE mnemonic = "JMP"                -> M!Target(o.imm)
               [] mnemonic \in Ports \cup ShiftNames -> M!Number(0, o.imm)
               [] OTHER                           -> M!Number(Width, o.imm)

Operands == (IF dst.kind = {} THEN <<>> ELSE <<Meaning(dst)>>)
                \o (IF src.kind = {} THEN <<>> ELSE <<Meaning(src)>>)
Swapped(s) == IF mnemonic = "XCHG" THEN {s, <<s[2], s[1]>>} ELSE {s}

(* The width of a number that is written to memory follows its value instead of     *)
(* BYTE or WORD (tables.h:177-178, 276-277): these are left out where they differ.  *)
ToMemory   == IsOf(dst, Memory) /\ mnemonic \notin WordsOnly
Narrow     == "IMMEDIATE8" \in src.kind
SizesAgree ==
    /\ Said \subseteq {IF Width = 0 THEN "BYTE" ELSE "WORD"}
    /\ ToMemory /\ (src.kind = {} \/ "IMMEDIATE" \in src.kind \/ mnemonic \in ShiftNames) => Said # {}
    /\ ToMemory /\ "IMMEDIATE" \in src.kind /\ mnemonic \notin ShiftNames => (Width = 0 <=> Narrow)

PortIsRight(o) == o.reg = "DX" \/ ("IMMEDIATE" \in o.kind /\ o.imm \in 0 .. 255)
Reaches    == call.pos - (call.ip + 2) \in -128 .. 127

(* The instructions that the 8086 has, with numbers that fit and sizes that are      *)
(* determined and agree. A shift is by 1 or cl and nothing else (tables.h:360), and   *)
(* the number of a je is taken as it stands.                                        *)
InLanguage ==
    /\ SizesAgree
    /\ Width = 0 /\ mnemonic \notin Ports /\ "IMMEDIATE" \in src.kind => src.imm \in -128 .. 255
    /\ mnemonic \in Ports => PortIsRight(IF mnemonic = "IN" THEN src ELSE dst)
    /\ mnemonic \in ShiftNames => src.reg = "CL" \/ ("IMMEDIATE" \in src.kind /\ src.imm = 1)
    /\ mnemonic \in {"AAM", "AAD"} => dst.kind = {}
    /\ mnemonic = "JE" => "LABEL" \in dst.kind /\ Reaches
    /\ "LABEL" \in dst.kind => call.pos # NoPosition
-------------------------------------------------------------------------------
(* Properties.                                                                     *)
(* How many bits the first n fields of a row take at least and at most: the bitlen  *)
(* of tables.h:104-121, and two bytes for the fields whose length codegen decides.   *)
Open == {"DISP", "ADDR", "LBL", "IP", "CODE_SEG"}

FewestBits(fs) ==
    LET sum[n \in 0 .. Len(fs)] == IF n = 0 THEN 0 ELSE sum[n - 1] + fs[n].len IN sum
MostBits(fs) ==
    LET sum[n \in 0 .. Len(fs)] ==
            IF n = 0 THEN 0 ELSE sum[n - 1] + (IF fs[n].id \in Open THEN 16 ELSE fs[n].len)
    IN  sum

Fields == [id : {"BITS"}, value : Nat, len : 1 .. 16]
            \cup {MOD, REG, SR, RM, DISP, ADDR, IMM8, IMM16, DATA8, W, S, LBL, LBL8, IP, CSEG}

(* What codegen relies on in a row: whole bytes, at most LEN_MAX_INST_BYTES of them,  *)
(* an operand for each field that reads a register, and nothing behind a label.      *)
RowIsSound(row) ==
    LET fs == row.fields
        n  == Len(row.fields)
        of(k) == fs[k].id
    IN  /\ fs \in Seq(Fields)
        /\ FewestBits(fs)[n] > 0 /\ FewestBits(fs)[n] % 8 = 0 /\ MostBits(fs)[n] <= 48
        /\ \A k \in 1 .. n :
               /\ of(k) = "REG" => {row.dst, row.src} \cap General8or16 # {}
               /\ of(k) = "SR" => "SEGREG" \in {row.dst, row.src}
               /\ of(k) \in {"LBL", "LBL8"} => k = 2 /\ n = 2 /\ of(1) = "BITS" /\ fs[1].len = 8

(* The table has no parameters: evaluated once, this holds of every row.            *)
ASSUME TableAssumption ==
    \A m \in DOMAIN Table : \A i \in DOMAIN Table[m] : RowIsSound(Table[m][i])

(* The rows of the jumps to a label or a number: an opcode and the operand that      *)
(* tables.h:352-358 gives them.  No other row has the field of a label.              *)
JumpNames == {"JMP", "JE"}
JumpField(m, kind) == IF kind = "LABEL" THEN (IF m = "JMP" THEN LBL ELSE LBL8)
                                        ELSE (IF m = "JMP" THEN IMM16 ELSE IMM8)

ASSUME JumpRowsAssumption ==
    \A m \in DOMAIN Table : \A i \in DOMAIN Table[m] :
        LET row == Table[m][i] IN
        /\ m \in JumpNames /\ row.dst \in {"LABEL", "IMMEDIATE", "IMMEDIATE8", "IMMEDIATE16"} =>
               /\ row.src = "NONE" /\ Len(row.fields) = 2
               /\ row.fields[1].id = "BITS" /\ row.fields[1].len = 8
               /\ row.fields[2] = JumpField(m, row.dst)
        /\ \A k \in DOMAIN row.fields :
               row.fields[k].id \in {"LBL", "LBL8"} => m \in JumpNames /\ row.dst = "LABEL"

(* Every variable keeps its type; an instruction has at most LEN_MAX_INST_BYTES     *)
(* bytes (asm8086.h:17).                                                           *)
TypeOK ==
    /\ pc \in {"searching", "emitting", "storing", "done", "dropped", "aborted"}
    /\ encoding \in Seq({0, 1}) /\ bitlen \in 0 .. 48
    /\ bytes \in Seq(0 .. 255) /\ Len(bytes) <= 6
    /\ Len(patches) <= 1

(* The bits that were shifted in are those that were counted, and make whole bytes:  *)
(* otherwise main stores others than codegen meant, and every later address is off   *)
(* (codegen.c:56-403 keeps the two apart, asm8086.c:62-71 trusts bitlen).            *)
WholeBytes ==
    pc \in {"storing", "done"} => bitlen = Len(encoding) /\ bitlen % 8 = 0 /\ bitlen > 0

(* What is stored for an instruction of the 8086 is that instruction: the processor  *)
(* reads from the bytes the same operation, operands and width, and an instruction   *)
(* that ends where they end. Search, rows, parser's mod and rm and the fields of     *)
(* codegen each hold a part of this.                                               *)
DecodesToSource ==
    pc = "done" /\ InLanguage =>
        \E d \in {M!Decode(bytes \o <<0, 0, 0, 0, 0>>, call.ip)} :
            /\ d.mnemonic = IF mnemonic = "SAL" THEN "SHL" ELSE mnemonic
            /\ d.operands \in Swapped(Operands)
            /\ d.len = Len(bytes)

(* The place that is recorded for the patch loop is the hole that the instruction    *)
(* has: its last bytes, and they are empty (codegen.c:327-338, 358-369).             *)
HoleAtPatch ==
    pc = "done" /\ patches # <<>> =>
        LET p == patches[1] IN
        /\ p.inst_pointer + p.bytelen = call.ip + Len(bytes)
        /\ \A k \in p.inst_pointer - call.ip + 1 .. Len(bytes) : bytes[k] = 0
        /\ p.labelname = dst.label

(* A number goes to memory in the width that BYTE or WORD says. The rows choose    *)
(* it by the value (tables.h:177-178), so this fails.                              *)
WidthAsSaid ==
    pc = "done" /\ IsOf(dst, Memory) /\ "IMMEDIATE" \in src.kind =>
        \E d \in {M!Decode(bytes \o <<0, 0, 0, 0, 0>>, call.ip)} :
            /\ Said = {"BYTE"} /\ src.imm \in -128 .. 255 => d.operands[1].w = 0
            /\ Said = {"WORD"} => d.operands[1].w = 1
===============================================================================
