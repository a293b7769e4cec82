------------------------------- MODULE InstTable ------------------------------
(* TABLE_INSTRUCTION (tables.h:166-358): for each mnemonic its rows in the order   *)
(* of the table, each with the kinds of operands it takes and the fields that       *)
(* codegen emits for it. Rows that differ in an opcode only are written once.       *)
EXTENDS Integers, Sequences, TLC

(* OPCODE and the Impl fields: bits that the row itself holds.                     *)
Bits(value, len) == [id |-> "BITS", value |-> value, len |-> len]
D(bit)   == Bits(bit, 1)
V(bit)   == Bits(bit, 1)
ImplW(w) == Bits(w, 1)
ImplS(s) == Bits(s, 1)
Direct   == Bits(\b11, 2)                     \* ImplMod(11)

(* The fields that codegen computes, with the bitlen of tables.h:104-121.          *)
Field(id, len) == [id |-> id, value |-> 0, len |-> len]
MOD   == Field("MOD", 2)
REG   == Field("REG", 3)
SR    == Field("SR", 2)
RM    == Field("RM", 3)
DISP  == Field("DISP", 0)
ADDR  == Field("ADDR", 0)
IMM8  == Field("IMM8", 8)
IMM16 == Field("IMM16", 16)
DATA8 == Field("DATA8", 8)
W     == Field("W", 1)
S     == Field("S", 1)
LBL   == Field("LBL", 0)
LBL8  == Field("LBL8", 8)
IP    == Field("IP", 0)
CSEG  == Field("CODE_SEG", 0)


Row(to, from, emits) == <<[dst |-> to, src |-> from, fields |-> emits]>>
Plain(opcode)         == Row("NONE", "NONE", <<Bits(opcode, 8)>>)

Reg(w)      == IF w = 0 THEN "REG8" ELSE "REG16"
Acc(w)      == IF w = 0 THEN "ACC8" ELSE "ACC16"
Wide(w)     == IF w = 0 THEN IMM8 ELSE IMM16
OfWidth(w)  == IF w = 0 THEN "IMMEDIATE8" ELSE "IMMEDIATE16"
(* A row for bytes, then the same for words.                                       *)
Both(R(_))  == R(0) \o R(1)
ModRegRm    == <<MOD, REG, RM, DISP>>
ExtRm(ext)  == <<MOD, Bits(ext, 3), RM, DISP>>
DirectRm(ext) == <<Direct, Bits(ext, 3), RM>>
-------------------------------------------------------------------------------
(* Rows that several mnemonics have, for an opcode of six or seven bits.           *)
RegReg(op, tail) ==
    LET R(w) == Row(Reg(w), Reg(w), <<Bits(op, 6), D(0), ImplW(w)>> \o tail) IN Both(R)

RegMem(op) ==
    LET Load(w)  == Row(Reg(w), "MEM", <<Bits(op, 6), D(1), ImplW(w)>> \o ModRegRm)
        Store(w) == Row("MEM", Reg(w), <<Bits(op, 6), D(0), ImplW(w)>> \o ModRegRm)
    IN  Both(Load) \o Both(Store)

Immediate(to, from, s, w, tail) ==
    Row(to, from, <<Bits(\b100000, 6), s, ImplW(w)>> \o tail \o <<IF from = "IMMEDIATE8" THEN IMM8 ELSE IMM16>>)

Sum(op, accop, ext) ==
    LET AccImm(w) == Row(Acc(w), OfWidth(w), <<Bits(accop, 7), ImplW(w), Wide(w)>>)
    IN  RegReg(op, ModRegRm) \o Both(AccImm) \o RegMem(op)
            \o Immediate("REG8", "IMMEDIATE8", ImplS(0), 0, ExtRm(ext))

SumCarry(op, accop, ext) ==
    Sum(op, accop, ext) \o Immediate("REG16", "IMMEDIATE16", ImplS(0), 1, ExtRm(ext))
                        \o Immediate("REG16", "IMMEDIATE8", ImplS(1), 1, ExtRm(ext))

OneMem(op, ext)       == Row("MEM", "NONE", <<Bits(op, 7), W>> \o ExtRm(ext))
OneReg(op, w, tail)   == Row(Reg(w), "NONE", <<Bits(op, 7), ImplW(w)>> \o tail)
OneOperand(ext) ==
    LET R(w) == OneReg(\b1111011, w, DirectRm(ext)) IN Both(R) \o OneMem(\b1111011, ext)

Shift(ext) ==
    LET Once(w)  == Row(Reg(w), "IMMEDIATE8", <<Bits(\b110100, 6), V(0), ImplW(w)>> \o DirectRm(ext))
        ByReg(w) == Row(Reg(w), "REG8", <<Bits(\b110100, 6), V(1), ImplW(w)>> \o DirectRm(ext))
    IN  Both(Once) \o Both(ByReg)
            \o Row("MEM", "IMMEDIATE8", <<Bits(\b110100, 6), V(0), W>> \o ExtRm(ext))
            \o Row("MEM", "REG8", <<Bits(\b110100, 6), V(1), W>> \o ExtRm(ext))

Stack(memop, ext, regop, segop) ==
    Row("MEM", "NONE", <<Bits(memop, 8)>> \o ExtRm(ext)) \o Row("REG16", "NONE", <<Bits(regop, 5), REG>>)
        \o Row("SEGREG", "NONE", <<Bits(0, 3), SR, Bits(segop, 3)>>)

Load(op) == Row("REG16", "MEM", <<Bits(op, 8)>> \o ModRegRm)
-------------------------------------------------------------------------------
(* tables.h:167-213.                                                               *)
MovRows ==
    LET AccAddr(w) == Row(Acc(w), "DADDR", <<Bits(\b1010000, 7), ImplW(w), ADDR>>)
        AddrAcc(w) == Row("DADDR", Acc(w), <<Bits(\b1010001, 7), ImplW(w), ADDR>>)
        MemImm(w)  == Row("MEM", OfWidth(w), <<Bits(\b1100011, 7), ImplW(w)>> \o ExtRm(0) \o <<Wide(w)>>)
        RegImm(w)  == Row(Reg(w), "IMMEDIATE", <<Bits(\b1011, 4), ImplW(w), REG, Wide(w)>>)
        Seg(to, from, op, mod) == Row(to, from, <<Bits(op, 8), mod, Bits(0, 1), SR, RM, DISP>>)
    IN  RegReg(\b100010, <<Direct, REG, RM>>) \o Both(AccAddr) \o Both(AddrAcc) \o RegMem(\b100010)
            \o Both(MemImm) \o Both(RegImm)
            \o Seg("SEGREG", "REG16", \b10001110, Direct) \o Seg("SEGREG", "MEM", \b10001110, MOD)
            \o Seg("REG16", "SEGREG", \b10001100, Direct) \o Seg("MEM", "SEGREG", \b10001100, MOD)

XchgRows ==
    LET X(to, from, w) == Row(to, from, <<Bits(\b1000011, 7), ImplW(w)>> \o ModRegRm)
    IN  Row("ACC16", "REG16", <<Bits(\b10010, 5), REG>>)
            \o X("REG8", "REG8", 0) \o X("REG16", "REG16", 1) \o X("MEM", "REG8", 0)
            \o X("MEM", "REG16", 1) \o X("REG8", "MEM", 0) \o X("REG16", "MEM", 1)

InRows ==
    LET Fixed(w) == Row(Acc(w), "IMMEDIATE", <<Bits(\b1110010, 7), ImplW(w), DATA8>>)
        Var(w)   == Row(Acc(w), "REG16", <<Bits(\b1110110, 7), ImplW(w)>>)
    IN  Both(Fixed) \o Both(Var)

OutRows ==
    LET Fixed(w) == Row("IMMEDIATE", Acc(w), <<Bits(\b1110011, 7), ImplW(w), DATA8>>)
        Var(w)   == Row("REG16", Acc(w), <<Bits(\b1110111, 7), ImplW(w)>>)
    IN  Both(Fixed) \o Both(Var)

Transfers ==
    [MOV |-> MovRows, PUSH |-> Stack(\b11111111, \b110, \b01010, \b110),
     POP |-> Stack(\b10001111, \b000, \b01011, \b111), XCHG |-> XchgRows, OUT |-> OutRows,
     XLAT |-> Plain(\b11010111), LEA |-> Load(\b10001101), LDS |-> Load(\b11000101),
     LES |-> Load(\b11000100), LAHF |-> Plain(\b10011111), SAHF |-> Plain(\b10011110),
     PUSHF |-> Plain(\b10011100), POPF |-> Plain(\b10011101)]
    @@ ("IN" :> InRows)

(* tables.h:214-300.                                                               *)
CmpRows ==
    LET AccImm(w) == Row(Acc(w), "IMMEDIATE", <<Bits(\b0011110, 7), ImplW(w), Wide(w)>>)
        RmOnly    == <<MOD, Bits(\b111, 3), RM>>
    IN  RegReg(\b001110, <<Direct, REG, RM>>) \o Both(AccImm) \o RegMem(\b001110)
            \o Immediate("MEM", "IMMEDIATE8", S, 0, ExtRm(\b111))
            \o Immediate("MEM", "IMMEDIATE16", ImplS(0), 1, ExtRm(\b111))
            \o Immediate("REG8", "IMMEDIATE8", ImplS(0), 0, RmOnly)
            \o Immediate("REG16", "IMMEDIATE8", ImplS(1), 1, RmOnly)
            \o Immediate("REG16", "IMMEDIATE16", ImplS(0), 1, RmOnly)

NegRows ==
    LET R(w) == OneReg(\b1111011, w, <<MOD, Bits(\b011, 3), RM>>)
    IN  Both(R) \o OneMem(\b1111011, \b011)

Adjust(op) == Row("NONE", "NONE", <<Bits(op, 16)>>) \o Row("MEM", "NONE", <<Bits(op, 16), DISP>>)

Arithmetic ==
    [ADD |-> Sum(\b000000, \b0000010, \b000)
                 \o Immediate("REG16", "IMMEDIATE", ImplS(0), 1, ExtRm(\b000)),
     ADC |-> SumCarry(\b000100, \b0001010, \b010), SUB |-> SumCarry(\b001010, \b0010110, \b101),
     SBB |-> SumCarry(\b000110, \b0001110, \b011),
     INC |-> OneMem(\b1111111, \b000) \o OneReg(\b1111111, 0, DirectRm(\b000))
                 \o Row("REG16", "NONE", <<Bits(\b01000, 5), REG>>),
     DEC |-> OneReg(\b1111111, 0, <<MOD, Bits(\b001, 3), RM>>) \o OneMem(\b1111111, \b001)
                 \o Row("REG16", "NONE", <<Bits(\b01001, 5), REG>>),
     CMP |-> CmpRows, NEG |-> NegRows, MUL |-> OneOperand(\b100), IMUL |-> OneOperand(\b101),
     DIV |-> OneOperand(\b110), IDIV |-> OneOperand(\b111),
     AAA |-> Plain(\b00110111), DAA |-> Plain(\b00100111), AAS |-> Plain(\b00111111),
     DAS |-> Plain(\b00101111), AAM |-> Adjust(\b1101010000001010), AAD |-> Adjust(\b1101010100001010),
     CBW |-> Plain(\b10011000), CWD |-> Plain(\b10011001)]

(* tables.h:301-351.                                                               *)
Logic ==
    [NOT |-> OneOperand(\b010), SHL |-> Shift(\b100), SAL |-> Shift(\b100), SHR |-> Shift(\b101),
     SAR |-> Shift(\b111), ROL |-> Shift(\b000), ROR |-> Shift(\b001), RCL |-> Shift(\b010),
     RCR |-> Shift(\b011)]

(* tables.h:352-358.                                                               *)
Control ==
    [JMP |-> Row("LABEL", "NONE", <<Bits(\b11101001, 8), LBL>>)
                 \o Row("IMMEDIATE", "NONE", <<Bits(\b11101001, 8), IMM16>>)
                 \o Row("REG16", "NONE", <<Bits(\b11111111, 8), Direct, Bits(\b100, 3), RM>>)
                 \o Row("MEM", "NONE", <<Bits(\b11111111, 8)>> \o ExtRm(\b100))
                 \o Row("POINTER", "NONE", <<Bits(\b11101010, 8), IP, CSEG>>),
     JE |-> Row("LABEL", "NONE", <<Bits(\b01110100, 8), LBL8>>)
                \o Row("IMMEDIATE", "NONE", <<Bits(\b01110100, 8), IMM8>>)]

Table == Transfers @@ Arithmetic @@ Logic @@ Control
===============================================================================
