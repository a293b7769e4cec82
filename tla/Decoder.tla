-------------------------------- MODULE Decoder -------------------------------
(* How an 8086 reads the bytes of one instruction, from the opcode map of the       *)
(* Intel manual and not from tables.h: the reference that codegen is checked        *)
(* against. Covers the instructions that the assembler knows.                       *)
EXTENDS Integers, Sequences

Byte8  == <<"AL", "CL", "DL", "BL", "AH", "CH", "DH", "BH">>
Word16 == <<"AX", "CX", "DX", "BX", "SP", "BP", "SI", "DI">>
Seg    == <<"ES", "CS", "SS", "DS">>

(* What an operand is: w is 0 for bytes and 1 for words; numbers are unsigned.      *)
Register(w, n)         == [reg |-> IF w = 0 THEN Byte8[n + 1] ELSE Word16[n + 1]]
SegmentReg(n)          == [reg |-> Seg[n + 1]]
Mem(w, base, index, n) == [w |-> w, base |-> base, index |-> index, at |-> n % 65536]
Number(w, n)           == [number |-> n % (IF w = 0 THEN 256 ELSE 65536)]
Target(n)              == [target |-> n % 65536]
Far(selector, offset)  == [selector |-> selector % 65536, offset |-> offset % 65536]

Inst(m, operands, len) == [mnemonic |-> m, operands |-> operands, len |-> len]

Sign(b)       == IF b < 128 THEN b ELSE b - 256
WordAt(b, i)  == b[i] + 256 * b[i + 1]
-------------------------------------------------------------------------------
(* The byte behind the opcode and its displacement.                                *)
Mod(b) == b[2] \div 64
Ext(b) == (b[2] \div 8) % 8
Rm(b)  == b[2] % 8

Bases4x10   == <<"BX", "BX", "BP", "BP", "NULL", "NULL", "BP", "BX">>
Indices4x10 == <<"SI", "DI", "SI", "DI", "SI", "DI", "NULL", "NULL">>
IsDirect(b) == Mod(b) = 0 /\ Rm(b) = 6

RmOperand(b, w) ==
    CASE Mod(b) = 3  -> Register(w, Rm(b))
      [] IsDirect(b) -> Mem(w, "NULL", "NULL", WordAt(b, 3))
      [] Mod(b) # 3 /\ ~ IsDirect(b) ->
             Mem(w, Bases4x10[Rm(b) + 1], Indices4x10[Rm(b) + 1],
                 CASE Mod(b) = 0 -> 0 [] Mod(b) = 1 -> Sign(b[3]) [] Mod(b) = 2 -> WordAt(b, 3))
(* The number of bytes up to the end of the displacement.                          *)
RmLen(b) == CASE Mod(b) = 1 -> 3 [] Mod(b) = 2 \/ IsDirect(b) -> 4 [] OTHER -> 2

(* Operands in the register and the rm field, and in the rm field with a number.    *)
RegRm(m, b, w, toReg) ==
    LET r == Register(w, Ext(b))  o == RmOperand(b, w)
    IN  Inst(m, IF toReg THEN <<r, o>> ELSE <<o, r>>, RmLen(b))
RmOnly(m, b, w) == Inst(m, <<RmOperand(b, w)>>, RmLen(b))
RmByte(m, b, w) == Inst(m, <<RmOperand(b, w), Number(w, Sign(b[RmLen(b) + 1]))>>, RmLen(b) + 1)
RmWord(m, b, w) == Inst(m, <<RmOperand(b, w), Number(w, WordAt(b, RmLen(b) + 1))>>, RmLen(b) + 2)
RmNum(m, b, w)  == IF w = 0 THEN RmByte(m, b, w) ELSE RmWord(m, b, w)
RmSeg(b, toSeg) ==
    LET s == SegmentReg(Ext(b) % 4)  o == RmOperand(b, 1)
    IN  Inst("MOV", IF toSeg THEN <<s, o>> ELSE <<o, s>>, RmLen(b))
AccNum(m, b, w) == IF w = 0 THEN Inst(m, <<Register(w, 0), Number(w, b[2])>>, 2)
                            ELSE Inst(m, <<Register(w, 0), Number(w, WordAt(b, 2))>>, 3)
-------------------------------------------------------------------------------
Sums      == <<"ADD", "OR", "ADC", "SBB", "AND", "SUB", "XOR", "CMP">>
Shifts    == <<"ROL", "ROR", "RCL", "RCR", "SHL", "SHR", "?", "SAR">>
Group3    == <<"TEST", "?", "NOT", "NEG", "MUL", "IMUL", "DIV", "IDIV">>
Group5    == <<"INC", "DEC", "CALL", "CALLF", "JMP", "JMPF", "PUSH", "?">>
Singles   == [XLAT |-> \hD7, LAHF |-> \h9F, SAHF |-> \h9E, PUSHF |-> \h9C, POPF |-> \h9D,
              AAA |-> \h37, DAA |-> \h27, AAS |-> \h3F, DAS |-> \h2F, CBW |-> \h98, CWD |-> \h99]

(* The instruction that begins with byte 1 of b, at address ip.                    *)
Decode(b, ip) ==
    LET op == b[1]
        w  == op % 2
        r  == op % 8
        single == {m \in DOMAIN Singles : Singles[m] = op}
        acc == Register(w, 0)
        direct == Mem(w, "NULL", "NULL", WordAt(b, 2))
    IN  CASE single # {} -> Inst(CHOOSE m \in single : TRUE, <<>>, 1)
          [] op < 64 /\ r < 4 -> RegRm(Sums[op \div 8 + 1], b, w, r >= 2)
          [] op < 64 /\ r \in {4, 5} -> AccNum(Sums[op \div 8 + 1], b, w)
          [] op < 32 /\ r = 6 -> Inst("PUSH", <<SegmentReg(op \div 8)>>, 1)
          [] op < 32 /\ r = 7 -> Inst("POP", <<SegmentReg(op \div 8)>>, 1)
          [] op \in \h40 .. \h47 -> Inst("INC", <<Register(1, r)>>, 1)
          [] op \in \h48 .. \h4F -> Inst("DEC", <<Register(1, r)>>, 1)
          [] op \in \h50 .. \h57 -> Inst("PUSH", <<Register(1, r)>>, 1)
          [] op \in \h58 .. \h5F -> Inst("POP", <<Register(1, r)>>, 1)
          [] op = \h74 -> Inst("JE", <<Target(ip + 2 + Sign(b[2]))>>, 2)
          [] op \in {\h80, \h81, \h82} -> RmNum(Sums[Ext(b) + 1], b, w)
          [] op = \h83 -> RmByte(Sums[Ext(b) + 1], b, w)
          [] op \in {\h86, \h87} -> RegRm("XCHG", b, w, FALSE)
          [] op \in \h88 .. \h8B -> RegRm("MOV", b, w, op >= \h8A)
          [] op = \h8C -> RmSeg(b, FALSE)
          [] op = \h8E -> RmSeg(b, TRUE)
          [] op = \h8D -> RegRm("LEA", b, 1, TRUE)
          [] op = \h8F -> RmOnly("POP", b, 1)
          [] op \in \h90 .. \h97 -> Inst("XCHG", <<Register(1, 0), Register(1, r)>>, 1)
          [] op \in {\hA0, \hA1} -> Inst("MOV", <<acc, direct>>, 3)
          [] op \in {\hA2, \hA3} -> Inst("MOV", <<direct, acc>>, 3)
          [] op \in \hB0 .. \hB7 -> Inst("MOV", <<Register(0, r), Number(0, b[2])>>, 2)
          [] op \in \hB8 .. \hBF -> Inst("MOV", <<Register(1, r), Number(1, WordAt(b, 2))>>, 3)
          [] op = \hC4 -> RegRm("LES", b, 1, TRUE)
          [] op = \hC5 -> RegRm("LDS", b, 1, TRUE)
          [] op \in {\hC6, \hC7} -> RmNum("MOV", b, w)
          [] op \in {\hD0, \hD1} ->
                 Inst(Shifts[Ext(b) + 1], <<RmOperand(b, w), Number(0, 1)>>, RmLen(b))
          [] op \in {\hD2, \hD3} ->
                 Inst(Shifts[Ext(b) + 1], <<RmOperand(b, w), [reg |-> "CL"]>>, RmLen(b))
          [] op = \hD4 /\ b[2] = 10 -> Inst("AAM", <<>>, 2)
          [] op = \hD5 /\ b[2] = 10 -> Inst("AAD", <<>>, 2)
          [] op \in {\hE4, \hE5} -> Inst("IN", <<acc, Number(0, b[2])>>, 2)
          [] op \in {\hE6, \hE7} -> Inst("OUT", <<Number(0, b[2]), acc>>, 2)
          [] op \in {\hEC, \hED} -> Inst("IN", <<acc, [reg |-> "DX"]>>, 1)
          [] op \in {\hEE, \hEF} -> Inst("OUT", <<[reg |-> "DX"], acc>>, 1)
          [] op = \hE9 -> Inst("JMP", <<Target(ip + 3 + WordAt(b, 2))>>, 3)
          [] op = \hEA -> Inst("JMP", <<Far(WordAt(b, 4), WordAt(b, 2))>>, 5)
          [] op \in {\hF6, \hF7} /\ Ext(b) > 1 -> RmOnly(Group3[Ext(b) + 1], b, w)
          [] op \in {\hFE, \hFF} /\ Ext(b) < 2 -> RmOnly(Group5[Ext(b) + 1], b, w)
          [] op = \hFF /\ Ext(b) >= 2 -> RmOnly(Group5[Ext(b) + 1], b, w)
          [] OTHER -> Inst("?", <<>>, 1)
===============================================================================
