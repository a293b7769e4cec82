------------------------------- MODULE Grammar --------------------------------
(* grammar.txt as sets of sequences of token kinds, one definition for each        *)
(* production, and what an operand says: the reference that the parser is checked  *)
(* against. The mnemonics are a parameter: grammar.txt lists the three of Listed,  *)
(* and the parser takes all that the table names (tables.h:4-49).                   *)
EXTENDS Operands

Tok(k)    == {<<k>>}
OneOf(ks) == {<<k>> : k \in ks}
L ** M    == {l \o m : l \in L, m \in M}
Opt(L)    == L \cup {<<>>}

OprMath    == OneOf({"PLUS", "MINUS"})
SignedNum  == OprMath ** Tok("NUM")
DirectAddr == Opt(OprMath) ** OneOf({"NUM", "ZERO"})
Eaddr      == (OneOf(Bases) ** Tok("PLUS") ** OneOf(Indices) ** Opt(SignedNum))
                \cup (OneOf(Bases \cup Indices) ** Opt(SignedNum)) \cup DirectAddr
Eaddr__    == Tok("LSQUARE_BR") ** Opt(Tok("PLUS")) ** Eaddr ** Tok("RSQUARE_BR")
Imm        == Opt(OprMath) ** OneOf({"NUM", "ZERO"})
Pointer    == Tok("NUM") ** Tok("COLON") ** Tok("NUM")
Operand    == OneOf(General) \cup Eaddr__ \cup OneOf(Members(Segments)) \cup Pointer
                \cup Imm \cup Tok("LABEL")
OprPrefix  == OneOf({"BYTE", "WORD"}) \cup (OneOf(Members(Segments)) ** Tok("COLON"))

(* opr_prefix* operand: an operand, or a prefix and the same again.                *)
IsOperand_(ks) ==
    LET n == Len(ks)
        from[i \in 1 .. n + 1] ==
            \/ SubSeq(ks, i, n) \in Operand
            \/ \E j \in i + 1 .. n : SubSeq(ks, i, j - 1) \in OprPrefix /\ from[j]
    IN  from[1]

(* The lines, without their EOL, as the kinds of their tokens.                     *)
IsTail(ks) ==
    \/ ks = <<>> \/ IsOperand_(ks)
    \/ \E i \in DOMAIN ks : /\ ks[i] = "COMMA"
                            /\ IsOperand_(SubSeq(ks, 1, i - 1)) /\ IsOperand_(SubSeq(ks, i + 1, Len(ks)))
Prefixes == {"LOCK", "REP", "REPE", "REPNE", "REPZ", "REPNZ"}
Listed   == {"MOV", "PUSH", "POP"}
IsInstruction(mnemonics, ks) ==
    \E i \in DOMAIN ks : /\ \A k \in 1 .. i - 1 : ks[k] \in Prefixes
                         /\ ks[i] \in mnemonics /\ IsTail(SubSeq(ks, i + 1, Len(ks)))
IsLine(mnemonics, ks) ==
    \/ ks \in (Tok("BITS") ** Tok("NUM")) \cup (Tok("LABEL") ** Tok("COLON"))
    \/ IsInstruction(mnemonics, ks)
-------------------------------------------------------------------------------
(* What the tokens i .. j - 1 of t say when they are an operand, read off them      *)
(* without parsing: each register, number and prefix that they show is in the      *)
(* record, and nothing else is.                                                    *)
KindsIn(t, i, j)   == {t[k].kind : k \in i .. j - 1}
NumbersIn(t, i, j) == {k \in i .. j - 1 : t[k].kind \in {"NUM", "ZERO"}}
Shows(kinds, v)    == kinds = {v} \ {"NULL"}

SaysNumbers(t, places, kinds, memory, o) ==
    LET value(k)   == S16(IF "MINUS" \in kinds THEN - t[k].val ELSE t[k].val)
        direct     == kinds \cap (Bases \cup Indices) = {}
        number(k)  == IF ~ memory THEN <<0, 0, value(k), 0, 0>>
                      ELSE IF direct THEN <<0, value(k), 0, 0, 0>> ELSE <<value(k), 0, 0, 0, 0>>
        numbers    == <<o.disp, o.daddr, o.imm, o.selector, o.offset>>
    IN  \/ places = {} /\ numbers = <<0, 0, 0, 0, 0>>
        \/ \E k \in places : places = {k} /\ numbers = number(k)
        \/ \E k, m \in places : /\ k < m /\ places = {k, m}
                               /\ numbers = <<0, 0, 0, S16(t[k].val), S16(t[m].val)>>

(* The encodings of an address, and the flags of an operand: by its last token, the *)
(* registers of an address, and whether the operand has two numbers.               *)
Addresses == <<{"BX", "SI"}, {"BX", "DI"}, {"BP", "SI"}, {"BP", "DI"}, {"SI"}, {"DI"}, {"BP"}, {"BX"}>>

SaysAddress(registers, o) ==
    IF registers = {} THEN o.mod = 0 /\ o.rm = 6
    ELSE /\ \E n \in DOMAIN Addresses : o.rm = n - 1 /\ Addresses[n] = registers
         /\ o.mod = IF o.disp = 0 /\ registers # {"BP"} THEN 0 ELSE IF IsByte(o.disp) THEN 1 ELSE 2

SaysKind(last, registers, two, o) ==
    /\ last \in Members(Registers8)  => o.kind = {"REG8"} \cup (IF last = "AL" THEN {"ACC8"} ELSE {})
    /\ last \in Members(Registers16) => o.kind = {"REG16"} \cup (IF last = "AX" THEN {"ACC16"} ELSE {})
    /\ last \in Members(Segments)    => o.kind = {"SEGREG"}
    /\ last = "LABEL"                => o.kind = {"LABEL"}
    /\ last = "RSQUARE_BR"           => o.kind = {"MEM"} \cup (IF registers = {} THEN {"DADDR"} ELSE {})
    /\ last \in {"NUM", "ZERO"}      =>
           o.kind = IF two THEN {"POINTER"}
                    ELSE {"IMMEDIATE", IF IsByte(o.imm) THEN "IMMEDIATE8" ELSE "IMMEDIATE16"}
    /\ IF last = "RSQUARE_BR" THEN SaysAddress(registers, o) ELSE o.mod = 0 /\ o.rm = 0

Says(t, i, j, o) ==
    LET kinds  == KindsIn(t, i, j)
        last   == t[j - 1]
        memory == last.kind = "RSQUARE_BR"
    IN  /\ IF memory THEN /\ o.reg = "NULL"
                          /\ Shows(kinds \cap Bases, o.base) /\ Shows(kinds \cap Indices, o.index)
                     ELSE Shows(kinds \cap General, o.reg) /\ o.base = "NULL" /\ o.index = "NULL"
        /\ SaysNumbers(t, NumbersIn(t, i, j), kinds, memory, o)
        /\ SaysKind(last.kind, kinds \cap (Bases \cup Indices), NumbersIn(t, i, j) # {j - 1}, o)
        /\ o.seg = IF last.kind \in Members(Segments) THEN last.kind ELSE "NULL"
        /\ o.label = IF last.kind = "LABEL" THEN last.val ELSE NoName
        /\ o.prefix_size = kinds \cap {"BYTE", "WORD"}
        /\ o.prefix_seg_ovr = KindsIn(t, i, j - 1) \cap Members(Segments)
===============================================================================
