----------------------------- MODULE PipelineProofs ----------------------------
(* The composition of the parser and codegen does what Assembler says of main, for *)
(* every list of tokens: ImplementsAssembler, and with it what AssemblerProofs has   *)
(* proved of Assembler.  The facts about a line come from ParserProofs and           *)
(* EncoderProofs, of which this module makes instances; AssemblerProofs gives what   *)
(* follows from the refinement.                                                    *)
EXTENDS Pipeline, FiniteSetTheorems, SequenceTheorems, TLAPS

PP == INSTANCE ParserProofs WITH pc <- parser_pc, labels <- DOMAIN position
EP == INSTANCE EncoderProofs WITH pc <- encoder_pc, Calls <- {}
AP == INSTANCE AssemblerProofs WITH
          None <- E!NoPosition, BlockSizes <- 0 .. 6,
          phase <- Phase, labels <- Labels, image <- Image

(* Positions fit in 16 bits, so (u16) changes none of them, and the code does not    *)
(* grow beyond the bound of Assembler.                                              *)
OneSegment == MaxCode < 65536
InBounds   == g_instruction_pointer <= MaxCode

(* A sufficient condition for InBounds: the longest instructions on every line fit.  *)
LinesFit == 6 * MaxLines <= MaxCode
--------------------------------------------------------------------------------
(* An operator of an instance has a name of its own: P and E of Pipeline are Parser  *)
(* and Encoder as PP and EP have them.  First the parser.                            *)
LEMMA SameTokens ==
  /\ \A t, x, kinds : P!Is(t, x, kinds) <=> PP!Is(t, x, kinds)
  /\ \A at, out : P!Parsed(at, out) = PP!Parsed(at, out) /\ P!NotParsed(at, out) = PP!NotParsed(at, out)
  /\ \A r : P!Optional(r) = PP!Optional(r)
  /\ \A n : P!S16(n) = PP!S16(n)
  /\ P!General = PP!General /\ P!Segments = PP!Segments /\ P!Bases = PP!Bases /\ P!Indices = PP!Indices
  /\ \A s : P!Members(s) = PP!Members(s)
  /\ P!OprMath = PP!OprMath /\ P!Sizes = PP!Sizes
<1>1. \A t, x, kinds : P!Is(t, x, kinds) <=> PP!Is(t, x, kinds)
  BY Zenon DEF P!Is, PP!Is
<1>2. \A at, out : P!Parsed(at, out) = PP!Parsed(at, out) /\ P!NotParsed(at, out) = PP!NotParsed(at, out)
  BY Zenon DEF P!Parsed, PP!Parsed, P!NotParsed, PP!NotParsed
<1>3. \A r : P!Optional(r) = PP!Optional(r)
  BY Zenon DEF P!Optional, PP!Optional
<1>4. \A n : P!S16(n) = PP!S16(n)
  BY DEF P!S16, PP!S16
<1>5. P!General = PP!General /\ P!Segments = PP!Segments /\ P!Bases = PP!Bases /\ P!Indices = PP!Indices
  BY Zenon DEF P!General, PP!General, P!Members, PP!Members, P!Registers8, PP!Registers8, P!Registers16,
     PP!Registers16, P!Segments, PP!Segments, P!Bases, PP!Bases, P!Indices, PP!Indices
<1>6. \A s : P!Members(s) = PP!Members(s)
  BY Zenon DEF P!Members, PP!Members
<1>7. P!OprMath = PP!OprMath /\ P!Sizes = PP!Sizes
  BY Zenon DEF P!OprMath, PP!OprMath, P!Sizes, PP!Sizes
<1>. QED  BY <1>1, <1>2, <1>3, <1>4, <1>5, <1>6, <1>7

LEMMA SameOperands ==
  /\ P!NoOperand = PP!NoOperand /\ P!NoInstruction = PP!NoInstruction
  /\ \A r : P!RegisterOperand(r) = PP!RegisterOperand(r) /\ P!SegmentOperand(r) = PP!SegmentOperand(r)
  /\ \A e : P!MemoryOperand(e) = PP!MemoryOperand(e)
  /\ \A m, n : P!PointerOperand(m, n) = PP!PointerOperand(m, n)
  /\ \A n : P!ImmediateOperand(n) = PP!ImmediateOperand(n)
  /\ \A n : P!LabelOperand(n) = PP!LabelOperand(n)
<1>1. P!NoOperand = PP!NoOperand
  BY SMT DEF P!NoOperand, PP!NoOperand
<1>2. P!NoInstruction = PP!NoInstruction
  BY <1>1, SMT DEF P!NoInstruction, PP!NoInstruction
<1>3. \A n : P!IsByte(n) <=> PP!IsByte(n)
  BY Zenon DEF P!IsByte, PP!IsByte
<1>4. \A b, x : P!eaddr_encode_rm(b, x) = PP!eaddr_encode_rm(b, x)
  BY Zenon DEF P!eaddr_encode_rm, PP!eaddr_encode_rm
<1>5. \A b, x, d, a : P!eaddr_encode_mod(b, x, d, a) = PP!eaddr_encode_mod(b, x, d, a)
  BY <1>3 DEF P!eaddr_encode_mod, PP!eaddr_encode_mod
<1>6. \A r : P!op_kind_from_reg(r) = PP!op_kind_from_reg(r)
  BY Zenon DEF P!op_kind_from_reg, PP!op_kind_from_reg, P!Members, PP!Members, P!Registers8, PP!Registers8
<1>. DEFINE Register(k, r) == [P!NoOperand EXCEPT !.kind = k, !.reg = r]
            Memory(k, e, mod, rm) ==
                [P!NoOperand EXCEPT !.kind = k, !.base = e.base, !.index = e.index, !.disp = e.disp,
                     !.daddr = e.daddr, !.mod = mod, !.rm = rm]
            Pointer(m, n)   == [P!NoOperand EXCEPT !.kind = {"POINTER"}, !.selector = m, !.offset = n]
            Immediate(k, n) == [P!NoOperand EXCEPT !.kind = {"IMMEDIATE", k}, !.imm = n]
<1>7. \A r : P!RegisterOperand(r) = PP!RegisterOperand(r) /\ P!SegmentOperand(r) = PP!SegmentOperand(r)
  <2>1. \A r : P!RegisterOperand(r) = Register(P!op_kind_from_reg(r), r)
    BY Zenon DEF P!RegisterOperand
  <2>2. \A r : PP!RegisterOperand(r) = Register(PP!op_kind_from_reg(r), r)
    BY <1>1, Zenon DEF PP!RegisterOperand
  <2>3. \A r : P!SegmentOperand(r) = PP!SegmentOperand(r)
    BY <1>1, Zenon DEF P!SegmentOperand, PP!SegmentOperand
  <2>. HIDE DEF Register
  <2>. QED  BY <1>6, <2>1, <2>2, <2>3
<1>8. \A e : P!MemoryOperand(e) = PP!MemoryOperand(e)
  <2>1. \A e : P!MemoryOperand(e) =
          Memory(IF e.base # "NULL" \/ e.index # "NULL" THEN {"MEM"} ELSE {"MEM", "DADDR"}, e,
                 P!eaddr_encode_mod(e.base, e.index, e.disp, e.daddr), P!eaddr_encode_rm(e.base, e.index))
    BY Zenon DEF P!MemoryOperand
  <2>2. \A e : PP!MemoryOperand(e) =
          Memory(IF e.base # "NULL" \/ e.index # "NULL" THEN {"MEM"} ELSE {"MEM", "DADDR"}, e,
                 PP!eaddr_encode_mod(e.base, e.index, e.disp, e.daddr), PP!eaddr_encode_rm(e.base, e.index))
    BY <1>1, Zenon DEF PP!MemoryOperand
  <2>. HIDE DEF Memory
  <2>. QED  BY <1>4, <1>5, <2>1, <2>2
<1>9. \A m, n : P!PointerOperand(m, n) = PP!PointerOperand(m, n)
  <2>1. \A m, n : P!PointerOperand(m, n) = Pointer(P!S16(m), P!S16(n))
    BY Zenon DEF P!PointerOperand
  <2>2. \A m, n : PP!PointerOperand(m, n) = Pointer(PP!S16(m), PP!S16(n))
    BY <1>1, Zenon DEF PP!PointerOperand
  <2>. HIDE DEF Pointer
  <2>. QED  BY SameTokens, <2>1, <2>2
<1>10. \A n : P!ImmediateOperand(n) = PP!ImmediateOperand(n)
  <2>1. \A n : P!ImmediateOperand(n) = Immediate(IF P!IsByte(n) THEN "IMMEDIATE8" ELSE "IMMEDIATE16", n)
    BY Zenon DEF P!ImmediateOperand
  <2>2. \A n : PP!ImmediateOperand(n) = Immediate(IF PP!IsByte(n) THEN "IMMEDIATE8" ELSE "IMMEDIATE16", n)
    BY <1>1, Zenon DEF PP!ImmediateOperand
  <2>. HIDE DEF Immediate
  <2>. QED  BY <1>3, <2>1, <2>2
<1>11. \A n : P!LabelOperand(n) = PP!LabelOperand(n)
  BY <1>1, SMT DEF P!LabelOperand, PP!LabelOperand
<1>. QED  BY <1>1, <1>2, <1>7, <1>8, <1>9, <1>10, <1>11

LEMMA SameAddresses == \A t, x : P!parse_eaddr__(t, x) = PP!parse_eaddr__(t, x)
<1>1. \A sign, n : P!Signed(sign, n) = PP!Signed(sign, n)
  BY SameTokens DEF P!Signed, PP!Signed
<1>2. \A t, x, e : P!parse_signed_num(t, x, e) = PP!parse_signed_num(t, x, e)
  BY <1>1, SameTokens DEF P!parse_signed_num, PP!parse_signed_num
<1>3. \A t, x, e : P!parse_direct_address(t, x, e) = PP!parse_direct_address(t, x, e)
  BY SameTokens DEF P!parse_direct_address, PP!parse_direct_address
<1>4. \A t, x, e : P!parse_eaddr(t, x, e) = PP!parse_eaddr(t, x, e)
  BY <1>2, <1>3, SameTokens DEF P!parse_eaddr, PP!parse_eaddr
<1>5. \A t, x, e : P!parse_eaddr_(t, x, e) = PP!parse_eaddr_(t, x, e)
  BY <1>4, SameTokens DEF P!parse_eaddr_, PP!parse_eaddr_
<1>6. P!NoAddress = PP!NoAddress
  BY SMT DEF P!NoAddress, PP!NoAddress
<1>. QED  BY <1>5, <1>6, SameTokens, SameOperands DEF P!parse_eaddr__, PP!parse_eaddr__

LEMMA SameOperand == \A t, x : P!parse_operand(t, x) = PP!parse_operand(t, x)
<1>1. \A sign, n : P!Signed(sign, n) = PP!Signed(sign, n)
  BY SameTokens DEF P!Signed, PP!Signed
<1>2. \A t, x : P!parse_imm(t, x) = PP!parse_imm(t, x)
  BY <1>1, SameTokens, SameOperands DEF P!parse_imm, PP!parse_imm
<1>3. \A t, x : P!parse_pointer(t, x) = PP!parse_pointer(t, x)
  BY SameTokens, SameOperands DEF P!parse_pointer, PP!parse_pointer
<1>. QED  BY <1>2, <1>3, SameAddresses, SameTokens, SameOperands DEF P!parse_operand, PP!parse_operand

LEMMA SameInstruction == \A t, x : P!parse_instruction(t, x) = PP!parse_instruction(t, x)
<1>1. \A t, x : P!parse_opr_prefix(t, x) = PP!parse_opr_prefix(t, x)
  BY SameTokens DEF P!parse_opr_prefix, PP!parse_opr_prefix
<1>. DEFINE PassedP(t, x) ==
                LET after[j \in x .. Len(t)] ==
                        IF P!parse_opr_prefix(t, j) = 0 THEN j ELSE after[j + P!parse_opr_prefix(t, j)]
                IN  after[x]
            PassedPP(t, x) ==
                LET after[j \in x .. Len(t)] ==
                        IF PP!parse_opr_prefix(t, j) = 0 THEN j ELSE after[j + PP!parse_opr_prefix(t, j)]
                IN  after[x]
            Prefixed(t, x, k, sizes, segments, o) ==
                [o EXCEPT !.prefix_size = {t[j].kind : j \in x .. k - 1} \cap sizes,
                          !.prefix_seg_ovr = {t[j].kind : j \in x .. k - 1} \cap segments]
<1>2. \A t, x : PassedP(t, x) = PassedPP(t, x)
  BY Zenon DEF P!parse_opr_prefix, PP!parse_opr_prefix, P!Is, PP!Is, P!Sizes, PP!Sizes,
     P!Members, PP!Members, P!Segments, PP!Segments
<1>3. \A t, x : P!parse_operand_(t, x) =
        IF P!parse_operand(t, PassedP(t, x)).ok
        THEN P!Parsed(P!parse_operand(t, PassedP(t, x)).at,
                      Prefixed(t, x, PassedP(t, x), P!Sizes, P!Members(P!Segments), P!parse_operand(t, PassedP(t, x)).out))
        ELSE P!NotParsed(x, Prefixed(t, x, PassedP(t, x), P!Sizes, P!Members(P!Segments), P!NoOperand))
  BY Zenon DEF P!parse_operand_
<1>4. \A t, x : PP!parse_operand_(t, x) =
        IF PP!parse_operand(t, PassedPP(t, x)).ok
        THEN PP!Parsed(PP!parse_operand(t, PassedPP(t, x)).at,
                      Prefixed(t, x, PassedPP(t, x), PP!Sizes, PP!Members(PP!Segments), PP!parse_operand(t, PassedPP(t, x)).out))
        ELSE PP!NotParsed(x, Prefixed(t, x, PassedPP(t, x), PP!Sizes, PP!Members(PP!Segments), PP!NoOperand))
  BY Zenon DEF PP!parse_operand_
<1>5. \A t, x : P!parse_operand_(t, x) = PP!parse_operand_(t, x)
  <2>. HIDE DEF PassedP, PassedPP, Prefixed
  <2>. QED  BY <1>2, <1>3, <1>4, SameTokens, SameOperands, SameOperand
<1>. DEFINE Dst(inst, dst) == [inst EXCEPT !.dst = dst]
            Both(inst, dst, src) == [inst EXCEPT !.dst = dst, !.src = src]
            Made(inst, x, dst, src, comma) ==
                IF ~ dst.ok THEN P!NotParsed(x, inst)
                ELSE IF comma /\ src.ok THEN P!Parsed(src.at, Both(inst, dst.out, src.out))
                                        ELSE P!Parsed(dst.at, Dst(inst, dst.out))
<1>6. \A t, x, inst : P!parse_instruction_tail(t, x, inst) =
          Made(inst, x, P!parse_operand_(t, x), P!parse_operand_(t, P!parse_operand_(t, x).at + 1),
               P!Is(t, P!parse_operand_(t, x).at, {"COMMA"}))
  BY DEF P!parse_instruction_tail
<1>7. \A t, x, inst : PP!parse_instruction_tail(t, x, inst) =
          Made(inst, x, PP!parse_operand_(t, x), PP!parse_operand_(t, PP!parse_operand_(t, x).at + 1),
               PP!Is(t, PP!parse_operand_(t, x).at, {"COMMA"}))
  BY SameTokens DEF PP!parse_instruction_tail
<1>8. \A t, x, inst : P!parse_instruction_tail(t, x, inst) = PP!parse_instruction_tail(t, x, inst)
  <2>. HIDE DEF Made
  <2>. QED  BY <1>5, <1>6, <1>7, SameTokens
<1>. QED  BY <1>8, SameTokens, SameOperands DEF P!parse_instruction, PP!parse_instruction

(* A step of Pipeline's parser is one that ParserProofs speaks of.                   *)
LEMMA SameParser ==
  /\ P!Init => PP!Init
  /\ P!Next => PP!Next
  /\ P!vars = PP!vars
<1>1. P!Init => PP!Init
  BY SameOperands DEF P!Init, PP!Init
<1>2. \A r : P!EndLine(r) => PP!EndLine(r)
  BY SameTokens DEF P!EndLine, PP!EndLine
<1>3. (P!Parsing <=> PP!Parsing) /\ (P!AtBits <=> PP!AtBits) /\ (P!AtLabel <=> PP!AtLabel)
  BY SameTokens DEF P!Parsing, PP!Parsing, P!AtBits, PP!AtBits, P!AtLabel, PP!AtLabel
<1>4. P!EmptyLine => PP!EmptyLine
  BY <1>3, SameTokens, SameOperands DEF P!EmptyLine, PP!EmptyLine
<1>5. P!BitsLine => PP!BitsLine
  BY <1>2, <1>3, SameTokens, SameOperands DEF P!BitsLine, PP!BitsLine
<1>6. P!LabelLine => PP!LabelLine
  BY <1>2, <1>3, SameTokens, SameOperands DEF P!LabelLine, PP!LabelLine
<1>7. P!DuplicateLabel => PP!DuplicateLabel
  BY <1>3, SameTokens, SameOperands DEF P!DuplicateLabel, PP!DuplicateLabel
<1>8. P!InstructionLine => PP!InstructionLine
  BY <1>2, <1>3, SameTokens, SameOperands, SameInstruction DEF P!InstructionLine, PP!InstructionLine
<1>9. P!Finish => PP!Finish
  BY DEF P!Finish, PP!Finish
<1>10. P!vars = PP!vars
  BY DEF P!vars, PP!vars
<1>. QED  BY <1>1, <1>4, <1>5, <1>6, <1>7, <1>8, <1>9, <1>10 DEF P!Next, PP!Next

(* The encoder: numbers and operands, fields, the table, the search, the actions.    *)
LEMMA EncoderNumbers ==
  /\ \A v, n : E!BitsOf(v, n) = EP!BitsOf(v, n)
  /\ \A n : E!Low(n) = EP!Low(n)
  /\ \A n : E!LowHigh(n) = EP!LowHigh(n)
  /\ \A n : E!S16(n) = EP!S16(n)
  /\ \A n : E!IsByte(n) <=> EP!IsByte(n)
  /\ \A r : E!reg_field(r) = EP!reg_field(r)
  /\ \A r : E!encode_sr(r) = EP!encode_sr(r)
<1>1. \A v, n : E!BitsOf(v, n) = EP!BitsOf(v, n)
  BY Zenon DEF E!BitsOf, EP!BitsOf
<1>2. \A n : E!U16(n) = EP!U16(n)
  BY DEF E!U16, EP!U16
<1>3. \A n : E!Low(n) = EP!Low(n)
  BY <1>1, <1>2 DEF E!Low, EP!Low
<1>4. \A n : E!LowHigh(n) = EP!LowHigh(n)
  BY <1>1, <1>2, <1>3 DEF E!LowHigh, EP!LowHigh
<1>5. (\A n : E!S16(n) = EP!S16(n)) /\ (\A n : E!IsByte(n) <=> EP!IsByte(n))
  BY DEF E!S16, EP!S16, E!IsByte, EP!IsByte
<1>6. \A s, r : E!PlaceIn(s, r) = EP!PlaceIn(s, r)
  BY Zenon DEF E!PlaceIn, EP!PlaceIn
<1>7. \A r : E!reg_field(r) = EP!reg_field(r) /\ E!encode_sr(r) = EP!encode_sr(r)
  BY Zenon DEF E!reg_field, EP!reg_field, E!encode_sr, EP!encode_sr, E!PlaceIn, EP!PlaceIn,
     E!Members, EP!Members, E!Registers8, EP!Registers8, E!Registers16, EP!Registers16,
     E!Segments, EP!Segments
<1>. QED  BY <1>1, <1>3, <1>4, <1>5, <1>7

LEMMA EncoderOperands ==
  /\ E!NoOperand = EP!NoOperand /\ E!NoPosition = EP!NoPosition
  /\ E!mnemonic = EP!mnemonic /\ E!dst = EP!dst /\ E!src = EP!src
  /\ \A o, kinds : E!IsOf(o, kinds) <=> EP!IsOf(o, kinds)
  /\ \A kinds : E!SrcElseDst(kinds) = EP!SrcElseDst(kinds)
  /\ E!HasMemory <=> EP!HasMemory
<1>1. E!NoOperand = EP!NoOperand /\ E!NoPosition = EP!NoPosition
  BY Zenon DEF E!NoOperand, EP!NoOperand, E!NoPosition, EP!NoPosition
<1>2. E!mnemonic = EP!mnemonic /\ E!dst = EP!dst /\ E!src = EP!src
  BY Zenon DEF E!mnemonic, EP!mnemonic, E!dst, EP!dst, E!src, EP!src
<1>3. \A o, kinds : E!IsOf(o, kinds) <=> EP!IsOf(o, kinds)
  BY Zenon DEF E!IsOf, EP!IsOf
<1>4. \A kinds : E!SrcElseDst(kinds) = EP!SrcElseDst(kinds)
  BY <1>2, <1>3 DEF E!SrcElseDst, EP!SrcElseDst
<1>5. E!HasMemory <=> EP!HasMemory
  BY <1>2, <1>3 DEF E!HasMemory, EP!HasMemory, E!Memory, EP!Memory
<1>. QED  BY <1>1, <1>2, <1>3, <1>4, <1>5

LEMMA EncoderEmits ==
  /\ \A id : E!At(id) <=> EP!At(id)
  /\ \A new, len : E!Emit(new, len) <=> EP!Emit(new, len)
BY Zenon DEF E!At, EP!At, E!Emit, EP!Emit

LEMMA SameTable == E!Table = EP!Table
<1>. USE DEF E!Bits, E!D, E!V, E!ImplW, E!ImplS, E!Direct, E!Field, E!MOD, E!REG, E!SR, E!RM, E!DISP,
             E!ADDR, E!IMM8, E!IMM16, E!DATA8, E!W, E!S, E!LBL, E!LBL8, E!IP, E!CSEG, E!Row, E!Plain,
             E!Reg, E!Acc, E!Wide, E!OfWidth, E!Both, E!ModRegRm, E!ExtRm, E!DirectRm,
             EP!Bits, EP!D, EP!V, EP!ImplW, EP!ImplS, EP!Direct, EP!Field, EP!MOD, EP!REG, EP!SR, EP!RM,
             EP!DISP, EP!ADDR, EP!IMM8, EP!IMM16, EP!DATA8, EP!W, EP!S, EP!LBL, EP!LBL8, EP!IP, EP!CSEG,
             EP!Row, EP!Plain, EP!Reg, EP!Acc, EP!Wide, EP!OfWidth, EP!Both, EP!ModRegRm, EP!ExtRm,
             EP!DirectRm
<1>1. \A op, tail : E!RegReg(op, tail) = EP!RegReg(op, tail)
  BY Zenon DEF E!RegReg, EP!RegReg
<1>2. \A op : E!RegMem(op) = EP!RegMem(op)
  BY Zenon DEF E!RegMem, EP!RegMem
<1>3. \A to, from, s, w, tail : E!Immediate(to, from, s, w, tail) = EP!Immediate(to, from, s, w, tail)
  BY Zenon DEF E!Immediate, EP!Immediate
<1>4. \A op, accop, ext : E!Sum(op, accop, ext) = EP!Sum(op, accop, ext)
  BY Zenon DEF E!Sum, EP!Sum, E!RegReg, EP!RegReg, E!RegMem, EP!RegMem, E!Immediate, EP!Immediate
<1>5. \A op, accop, ext : E!SumCarry(op, accop, ext) = EP!SumCarry(op, accop, ext)
  BY Zenon DEF E!SumCarry, EP!SumCarry, E!Sum, EP!Sum, E!RegReg, EP!RegReg, E!RegMem, EP!RegMem, E!Immediate, EP!Immediate
<1>6. \A ext : E!OneOperand(ext) = EP!OneOperand(ext)
  BY Zenon DEF E!OneOperand, EP!OneOperand, E!OneReg, EP!OneReg, E!OneMem, EP!OneMem
<1>7. \A ext : E!Shift(ext) = EP!Shift(ext)
  BY Zenon DEF E!Shift, EP!Shift
<1>8. E!MovRows = EP!MovRows /\ E!XchgRows = EP!XchgRows /\ E!InRows = EP!InRows /\ E!OutRows = EP!OutRows
  BY Zenon DEF E!MovRows, EP!MovRows, E!XchgRows, EP!XchgRows, E!InRows, EP!InRows, E!OutRows, EP!OutRows, E!RegReg, EP!RegReg, E!RegMem, EP!RegMem
<1>9. E!CmpRows = EP!CmpRows /\ E!NegRows = EP!NegRows
  BY Zenon DEF E!CmpRows, EP!CmpRows, E!NegRows, EP!NegRows, E!RegReg, EP!RegReg, E!RegMem, EP!RegMem, E!Immediate, EP!Immediate, E!OneReg, EP!OneReg, E!OneMem, EP!OneMem
<1>10. E!Transfers = EP!Transfers
  BY <1>8, Zenon DEF E!Transfers, EP!Transfers, E!Stack, EP!Stack, E!Load, EP!Load
<1>11. /\ \A op, ext : E!OneMem(op, ext) = EP!OneMem(op, ext)
       /\ \A op, w, tail : E!OneReg(op, w, tail) = EP!OneReg(op, w, tail)
       /\ \A op : E!Adjust(op) = EP!Adjust(op)
       /\ \A op : E!Plain(op) = EP!Plain(op)
       /\ \A to, from, emits : E!Row(to, from, emits) = EP!Row(to, from, emits)
       /\ \A value, len : E!Bits(value, len) = EP!Bits(value, len)
       /\ \A ext : E!ExtRm(ext) = EP!ExtRm(ext) /\ E!DirectRm(ext) = EP!DirectRm(ext)
       /\ \A bit : E!ImplS(bit) = EP!ImplS(bit)
       /\ E!MOD = EP!MOD /\ E!RM = EP!RM /\ E!REG = EP!REG
  BY Zenon DEF E!OneMem, EP!OneMem, E!OneReg, EP!OneReg, E!Adjust, EP!Adjust
<1>12. E!Logic = EP!Logic
  BY <1>6, <1>7, SMT DEF E!Logic, EP!Logic
<1>13. E!Control = EP!Control
  BY Zenon DEF E!Control, EP!Control
<1>. HIDE DEF E!Bits, E!D, E!V, E!ImplW, E!ImplS, E!Direct, E!Field, E!MOD, E!REG, E!SR, E!RM, E!DISP,
              E!ADDR, E!IMM8, E!IMM16, E!DATA8, E!W, E!S, E!LBL, E!LBL8, E!IP, E!CSEG, E!Row, E!Plain,
              E!Reg, E!Acc, E!Wide, E!OfWidth, E!Both, E!ModRegRm, E!ExtRm, E!DirectRm,
              EP!Bits, EP!D, EP!V, EP!ImplW, EP!ImplS, EP!Direct, EP!Field, EP!MOD, EP!REG, EP!SR, EP!RM,
              EP!DISP, EP!ADDR, EP!IMM8, EP!IMM16, EP!DATA8, EP!W, EP!S, EP!LBL, EP!LBL8, EP!IP, EP!CSEG,
              EP!Row, EP!Plain, EP!Reg, EP!Acc, EP!Wide, EP!OfWidth, EP!Both, EP!ModRegRm, EP!ExtRm,
              EP!DirectRm
<1>. DEFINE Rows20(add, adc, sub, sbb, inc, dec, cmp, neg, mul, imul,
                   div, idiv, aaa, daa, aas, das, aam, aad, cbw, cwd) ==
                [ADD |-> add, ADC |-> adc, SUB |-> sub, SBB |-> sbb, INC |-> inc, DEC |-> dec, CMP |-> cmp,
                 NEG |-> neg, MUL |-> mul, IMUL |-> imul, DIV |-> div, IDIV |-> idiv, AAA |-> aaa, DAA |-> daa,
                 AAS |-> aas, DAS |-> das, AAM |-> aam, AAD |-> aad, CBW |-> cbw, CWD |-> cwd]
<1>14. E!Arithmetic =
       Rows20(E!Sum(0, 2, 0) \o E!Immediate("REG16", "IMMEDIATE", E!ImplS(0), 1, E!ExtRm(0)),
              E!SumCarry(4, 10, 2), E!SumCarry(10, 22, 5), E!SumCarry(6, 14, 3),
              E!OneMem(127, 0) \o E!OneReg(127, 0, E!DirectRm(0)) \o E!Row("REG16", "NONE", <<E!Bits(8, 5), E!REG>>),
              E!OneReg(127, 0, <<E!MOD, E!Bits(1, 3), E!RM>>) \o E!OneMem(127, 1) \o E!Row("REG16", "NONE", <<E!Bits(9, 5), E!REG>>),
              E!CmpRows, E!NegRows, E!OneOperand(4),
              E!OneOperand(5), E!OneOperand(6), E!OneOperand(7),
              E!Plain(55), E!Plain(39), E!Plain(63),
              E!Plain(47), E!Adjust(54282), E!Adjust(54538),
              E!Plain(152), E!Plain(153))
  BY SMT DEF E!Arithmetic
<1>15. EP!Arithmetic =
       Rows20(EP!Sum(0, 2, 0) \o EP!Immediate("REG16", "IMMEDIATE", EP!ImplS(0), 1, EP!ExtRm(0)),
              EP!SumCarry(4, 10, 2), EP!SumCarry(10, 22, 5), EP!SumCarry(6, 14, 3),
              EP!OneMem(127, 0) \o EP!OneReg(127, 0, EP!DirectRm(0)) \o EP!Row("REG16", "NONE", <<EP!Bits(8, 5), EP!REG>>),
              EP!OneReg(127, 0, <<EP!MOD, EP!Bits(1, 3), EP!RM>>) \o EP!OneMem(127, 1) \o EP!Row("REG16", "NONE", <<EP!Bits(9, 5), EP!REG>>),
              EP!CmpRows, EP!NegRows, EP!OneOperand(4),
              EP!OneOperand(5), EP!OneOperand(6), EP!OneOperand(7),
              EP!Plain(55), EP!Plain(39), EP!Plain(63),
              EP!Plain(47), EP!Adjust(54282), EP!Adjust(54538),
              EP!Plain(152), EP!Plain(153))
  BY SMT DEF EP!Arithmetic
<1>. HIDE DEF Rows20
<1>16. E!Arithmetic = EP!Arithmetic
  BY <1>3, <1>4, <1>5, <1>6, <1>9, <1>11, <1>14, <1>15
<1>. QED  BY <1>10, <1>12, <1>13, <1>16, Zenon DEF E!Table, EP!Table

LEMMA SameSearch == (E!FindRow => EP!FindRow) /\ (E!NoRow => EP!NoRow)
<1>1. E!Rows = EP!Rows
  BY SameTable, EncoderOperands, Zenon DEF E!Rows, EP!Rows
<1>2. \A o, kind : E!Fits(o, kind) <=> EP!Fits(o, kind)
  BY Zenon DEF E!Fits, EP!Fits
<1>3. E!Hits = EP!Hits
  BY <1>1, <1>2, EncoderOperands DEF E!Hits, EP!Hits
<1>. QED  BY <1>1, <1>3 DEF E!FindRow, EP!FindRow, E!NoRow, EP!NoRow

(* A step of Pipeline's codegen is one that EncoderProofs speaks of.                 *)
LEMMA SameEncoder ==
  /\ E!Next => EP!Next
  /\ E!vars = EP!vars
<1>1. E!EmitBits => EP!EmitBits
  BY EncoderNumbers, EncoderOperands, EncoderEmits DEF E!EmitBits, EP!EmitBits
<1>2. E!EmitReg => EP!EmitReg
  BY EncoderNumbers, EncoderOperands, EncoderEmits DEF E!EmitReg, EP!EmitReg, E!General8or16, EP!General8or16
<1>3. E!EmitMod => EP!EmitMod
  BY EncoderNumbers, EncoderOperands, EncoderEmits DEF E!EmitMod, EP!EmitMod, E!Memory, EP!Memory
<1>4. E!EmitRm \/ E!AbortRm => EP!EmitRm \/ EP!AbortRm
  BY EncoderNumbers, EncoderOperands, EncoderEmits DEF E!EmitRm, EP!EmitRm, E!AbortRm, EP!AbortRm, E!Memory, EP!Memory, E!General8or16, EP!General8or16
<1>5. E!EmitDisp => EP!EmitDisp
  BY EncoderNumbers, EncoderOperands, EncoderEmits DEF E!EmitDisp, EP!EmitDisp, E!Memory, EP!Memory
<1>6. E!EmitAddr \/ E!EmitByte => EP!EmitAddr \/ EP!EmitByte
  BY EncoderNumbers, EncoderOperands, EncoderEmits DEF E!EmitAddr, EP!EmitAddr, E!EmitByte, EP!EmitByte
<1>7. E!EmitImm16 => EP!EmitImm16
  BY EncoderNumbers, EncoderOperands, EncoderEmits DEF E!EmitImm16, EP!EmitImm16, E!g_instruction_pointer, EP!g_instruction_pointer
<1>8. E!EmitSr \/ E!EmitSize \/ E!EmitPointer => EP!EmitSr \/ EP!EmitSize \/ EP!EmitPointer
  BY EncoderNumbers, EncoderOperands, EncoderEmits DEF E!EmitSr, EP!EmitSr, E!EmitSize, EP!EmitSize, E!EmitPointer, EP!EmitPointer
<1>9. E!EmitLabel => EP!EmitLabel
  BY EncoderNumbers, EncoderOperands, EncoderEmits DEF E!EmitLabel, EP!EmitLabel, E!g_instruction_pointer, EP!g_instruction_pointer
<1>10. E!EndOfRow \/ E!StoreBytes => EP!EndOfRow \/ EP!StoreBytes
  BY Zenon DEF E!EndOfRow, EP!EndOfRow, E!StoreBytes, EP!StoreBytes, E!Stored, EP!Stored
<1>11. E!vars = EP!vars
  BY DEF E!vars, EP!vars
<1>. QED  BY SameSearch, <1>1, <1>2, <1>3, <1>4, <1>5, <1>6, <1>7, <1>8, <1>9, <1>10, <1>11 DEF E!Next, EP!Next, E!EmitField, EP!EmitField

(* What the table is assumed to be, and the operands that the parser makes.          *)
LEMMA SameRows ==
  /\ E!TableAssumption => EP!TableAssumption
  /\ E!JumpRowsAssumption => EP!JumpRowsAssumption
<1>1. \A fs : E!FewestBits(fs) = EP!FewestBits(fs) /\ E!MostBits(fs) = EP!MostBits(fs)
  BY Zenon DEF E!FewestBits, EP!FewestBits, E!MostBits, EP!MostBits, E!Open, EP!Open
<1>2. E!Fields = EP!Fields
  BY Zenon DEF E!Fields, EP!Fields, E!MOD, E!REG, E!SR, E!RM, E!DISP, E!ADDR, E!IMM8, E!IMM16, E!DATA8, E!W, E!S,
     E!LBL, E!LBL8, E!IP, E!CSEG, E!Field, EP!MOD, EP!REG, EP!SR, EP!RM, EP!DISP, EP!ADDR, EP!IMM8, EP!IMM16,
     EP!DATA8, EP!W, EP!S, EP!LBL, EP!LBL8, EP!IP, EP!CSEG, EP!Field
<1>3. E!General8or16 = EP!General8or16
  BY Zenon DEF E!General8or16, EP!General8or16
<1>4. \A row : E!RowIsSound(row) <=> EP!RowIsSound(row)
  BY <1>1, <1>2, <1>3 DEF E!RowIsSound, EP!RowIsSound
<1>5. \A m, kind : E!JumpField(m, kind) = EP!JumpField(m, kind)
  BY Zenon DEF E!JumpField, EP!JumpField, E!LBL, E!LBL8, E!IMM8, E!IMM16, E!Field,
     EP!LBL, EP!LBL8, EP!IMM8, EP!IMM16, EP!Field
<1>6. E!JumpNames = EP!JumpNames
  BY Zenon DEF E!JumpNames, EP!JumpNames
<1>. QED  BY <1>4, <1>5, <1>6, SameTable DEF E!TableAssumption, EP!TableAssumption, E!JumpRowsAssumption, EP!JumpRowsAssumption

LEMMA SameOperandTypes == \A o : PP!IsOperand(o) => EP!IsOperand(o)
<1>1. PP!NoOperand = EP!NoOperand
  BY SMT DEF PP!NoOperand, EP!NoOperand
<1>2. PP!Kinds = EP!Kinds
  BY Zenon DEF PP!Kinds, EP!Kinds
<1>4. PP!S16Values = EP!S16Values
  BY SMT DEF PP!S16Values, EP!S16Values, PP!S16Min, EP!S16Min, PP!S16Max, EP!S16Max
<1>5. PP!Bases = EP!Bases /\ PP!Indices = EP!Indices
  BY Zenon DEF PP!Bases, EP!Bases, PP!Indices, EP!Indices
<1>3. PP!Members(PP!Segments) = EP!Members(EP!Segments) /\ PP!General = EP!General
  BY Zenon DEF PP!General, EP!General, PP!Members, EP!Members, PP!Registers8, EP!Registers8, PP!Registers16,
     EP!Registers16, PP!Segments, EP!Segments
<1>. QED  BY <1>1, <1>2, <1>3, <1>4, <1>5 DEF PP!IsOperand, EP!IsOperand

(* The assumptions on the constants of the parts follow from those of Pipeline.      *)
LEMMA ParserAssumptions == PP!ProgramsAssumption /\ PP!MnemonicsAssumption
<1>1. PP!MnemonicsAssumption
  BY MnemonicsAssumption DEF P!MnemonicsAssumption, PP!MnemonicsAssumption
<1>2. \A p : P!IsProgram(p) <=> PP!IsProgram(p)
  BY Zenon DEF P!IsProgram, PP!IsProgram
<1>. QED  BY <1>1, <1>2, ProgramsAssumption DEF PP!ProgramsAssumption

LEMMA EncoderAssumptions == EP!TableAssumption /\ EP!JumpRowsAssumption /\ EP!CallsAssumption
<1>1. EP!CallsAssumption
  BY DEF EP!CallsAssumption
<1>. QED  BY <1>1, SameRows, RowsAssumption

LEMMA AssemblerAssumptions ==
  /\ AP!NumbersAssumption /\ AP!NamesAssumption /\ AP!BlocksAssumption
  /\ AP!BoundsAssumption /\ AP!NoneAssumption
BY NamesAssumption, BoundsAssumption
   DEF AP!NumbersAssumption, AP!NamesAssumption, AP!BlocksAssumption, AP!BoundsAssumption,
       AP!NoneAssumption, E!NoPosition
--------------------------------------------------------------------------------
(* Where lines end, from token k on.                                                 *)
Ends(k)     == {m \in k .. Len(token) : token[m].kind = "EOL"}
Width(kind) == IF kind = "jmp" THEN 2 ELSE 1

(* The bytes, the labels and the jumps.                                              *)
CodeInv ==
    /\ code \in Seq(0 .. 255) /\ g_instruction_pointer = Len(code)
    /\ DOMAIN position \subseteq Names
    /\ \A n \in DOMAIN position : position[n] \in 0 .. Len(code)
    /\ \A j \in jumps : /\ j.at \in Nat /\ j.kind \in {"jmp", "je"}
                        /\ j.at + 1 + Width(j.kind) <= Len(code)

(* Each entry of the list is the place of a jump's operand.                          *)
Entries == [labelname : Names, inst_pointer : Nat, bytelen : {1, 2}]
ListInv ==
    /\ list_addrtopatch \in Seq(Entries)
    /\ Len(list_addrtopatch) <= PatchLen /\ i \in 0 .. Len(list_addrtopatch)
    /\ \A k \in 1 .. Len(list_addrtopatch) :
           \E j \in jumps : /\ list_addrtopatch[k].inst_pointer = j.at + 1
                            /\ list_addrtopatch[k].bytelen = Width(j.kind)

(* codegen works on what the parser made, with the position that main found.          *)
CallInv ==
    /\ EP!Inv /\ EP!JumpInv
    /\ phase = "encode" =>
           /\ call.inst = instruction /\ call.ip = g_instruction_pointer
           /\ instruction.mnemonic # "NULL" => call.pos = Find(instruction.dst.label)
           /\ encoder_pc # "aborted"
           /\ patches # <<>> => ~ Full

(* The lines that are left, the one in hand included.                                *)
LineInv ==
    /\ token \in Programs
    /\ phase = "lines" => lines = Cardinality(Ends(idx))
    /\ phase = "encode" =>
           lines = Cardinality(Ends(idx)) + (IF instruction.mnemonic = "NULL" THEN 0 ELSE 1)

Inv == CodeInv /\ ListInv /\ CallInv /\ LineInv

(* What the proofs of the parser say of its state. *)
Parsed == PP!Typed /\ PP!LinesInGrammar /\ PP!TargetsInText

(* There are ends to come as long as there are tokens.                               *)
LEMMA EndsFinite ==
  ASSUME NEW k \in Nat \ {0}, PP!Typed
  PROVE  /\ IsFiniteSet(Ends(k)) /\ Cardinality(Ends(k)) \in Nat
         /\ k <= Len(token) => Cardinality(Ends(k)) > 0
         /\ k > Len(token) => Cardinality(Ends(k)) = 0
<1>1. Len(token) \in Nat \ {0} /\ token[Len(token)].kind = "EOL"
  BY PP!Places, ParserAssumptions DEF PP!Typed, PP!IsProgram
<1>2. IsFiniteSet(k .. Len(token))
  BY <1>1, FS_Interval
<1>3. IsFiniteSet(Ends(k)) /\ Cardinality(Ends(k)) \in Nat
  BY <1>2, FS_Subset, FS_CardinalityType DEF Ends
<1>4. k <= Len(token) => Len(token) \in Ends(k)
  BY <1>1 DEF Ends
<1>5. k > Len(token) => Ends(k) = {}
  BY <1>1 DEF Ends
<1>. QED  BY <1>3, <1>4, <1>5, FS_EmptySet

(* The step of a line consumes one end. *)
LEMMA OneEnd ==
  ASSUME NEW k \in Nat \ {0}, NEW e \in k .. Len(token), PP!Typed,
         token[e].kind = "EOL", \A m \in k .. e - 1 : token[m].kind # "EOL"
  PROVE  Cardinality(Ends(k)) = Cardinality(Ends(e + 1)) + 1
<1>1. Len(token) \in Nat /\ e \in Nat \ {0}
  BY PP!Places, ParserAssumptions DEF PP!Typed
<1>2. Ends(k) = Ends(e + 1) \cup {e} /\ e \notin Ends(e + 1)
  BY <1>1 DEF Ends
<1>3. IsFiniteSet(Ends(e + 1))
  <2>1. e + 1 \in Nat \ {0}
    BY <1>1
  <2>. QED  BY <2>1, EndsFinite
<1>. HIDE DEF Ends
<1>. QED  BY <1>2, <1>3, FS_AddElement
--------------------------------------------------------------------------------
(* What a round of the parser does to what main and codegen share with it.           *)
Accepted  == /\ parser_pc' = "parsing" /\ Cardinality(Ends(idx))' \in Nat
             /\ Cardinality(Ends(idx)) = Cardinality(Ends(idx))' + 1
Refused   == parser_pc' = "refused" /\ Cardinality(Ends(idx)) > 0
Finished  == parser_pc' = "done" /\ Cardinality(Ends(idx)) = 0 /\ position' = position
Duplicate == /\ parser_pc' = "aborted" /\ Cardinality(Ends(idx)) > 0 /\ position' = position
             /\ \E name \in DOMAIN position : TRUE
Labelled(name) ==
    /\ name \in Names \ DOMAIN position /\ position' = Insert(name)
    /\ instruction'.mnemonic = "NULL"

(* A round consumes one line, and enters one label or none.                          *)
LEMMA RoundFacts ==
  ASSUME Inv, Parsed, Parsed', ParseLine
  PROVE  /\ token' = token /\ idx \in Nat \ {0}
         /\ Accepted \/ Refused \/ Finished \/ Duplicate
         /\ position' = position \/ \E name \in Names : Labelled(name)
<1>1. PP!Next /\ PP!Typed /\ PP!LinesInGrammar' /\ token \in Programs
      /\ position' \in {position} \cup {Insert(name) : name \in Names \ DOMAIN position}
  BY SameParser DEF ParseLine, Parsed, Inv, LineInv
<1>2. token' = token
  BY <1>1 DEF PP!Next, PP!EmptyLine, PP!BitsLine, PP!LabelLine, PP!DuplicateLabel, PP!InstructionLine,
              PP!Finish, PP!EndLine
<1>3. idx \in 1 .. Len(token) + 1 /\ Len(token) \in Nat
  BY <1>1, PP!Places, ParserAssumptions DEF PP!Typed, PP!TypeOK
<1>4. DOMAIN position' = DOMAIN position => position' = position
  <2>. SUFFICES ASSUME NEW name \in Names \ DOMAIN position, position' = Insert(name) PROVE DOMAIN position' # DOMAIN position
    BY <1>1
  <2>. QED  BY DEF Insert
<1>5. \/ /\ DOMAIN position' = DOMAIN position
         /\ PP!EmptyLine \/ PP!BitsLine \/ PP!InstructionLine \/ PP!Finish \/ PP!DuplicateLabel
      \/ /\ token[idx].val \notin DOMAIN position /\ DOMAIN position' = DOMAIN position \cup {token[idx].val}
         /\ PP!LabelLine
  BY <1>1 DEF PP!Next, PP!EmptyLine, PP!BitsLine, PP!LabelLine, PP!DuplicateLabel, PP!InstructionLine,
              PP!Finish
<1>6. parser_pc' = "parsing" => Accepted
  <2>. SUFFICES ASSUME parser_pc' = "parsing" PROVE Accepted
    OBVIOUS
  <2>1. /\ idx \in 1 .. Len(token) /\ idx' - 1 \in idx .. Len(token)
        /\ token[idx' - 1].kind = "EOL" /\ \A k \in idx .. idx' - 2 : token[k].kind # "EOL"
    BY <1>1, PP!LineConsumed, ParserAssumptions
  <2>2. (idx' - 1) - 1 = idx' - 2 /\ (idx' - 1) + 1 = idx' /\ idx \in Nat \ {0} /\ idx' \in Nat \ {0}
    <3>1. idx' \in 1 .. Len(token) + 1
      BY <1>2 DEF Parsed, PP!Typed, PP!TypeOK
    <3>. DEFINE n == idx'
    <3>2. n \in 1 .. Len(token) + 1
      BY <3>1
    <3>. HIDE DEF n
    <3>3. (n - 1) - 1 = n - 2 /\ (n - 1) + 1 = n /\ n \in Nat \ {0}
      BY <1>3, <3>2
    <3>4. idx \in Nat \ {0}
      BY <1>3
    <3>. QED  BY <3>3, <3>4, Zenon DEF n
  <2>3. Cardinality(Ends(idx)) = Cardinality(Ends(idx')) + 1
    BY <1>1, <2>1, <2>2, OneEnd
  <2>4. Ends(idx)' = Ends(idx')
    BY <1>2 DEF Ends
  <2>5. Cardinality(Ends(idx')) \in Nat
    BY <1>1, <2>2, EndsFinite
  <2>. QED  BY <2>3, <2>4, <2>5 DEF Accepted
<1>7. PP!Parsing => Cardinality(Ends(idx)) > 0
  BY <1>1, <1>3, EndsFinite DEF PP!Parsing
<1>8. CASE PP!EmptyLine
  BY <1>2, <1>3, <1>4, <1>5, <1>6, <1>8 DEF PP!EmptyLine, PP!Parsing
<1>9. CASE PP!BitsLine \/ PP!InstructionLine
  <2>1. PP!Parsing /\ parser_pc' \in {"parsing", "refused"} /\ DOMAIN position' = DOMAIN position
    BY <1>9 DEF PP!BitsLine, PP!InstructionLine, PP!EndLine, PP!Parsing
  <2>. QED  BY <1>2, <1>3, <1>4, <1>6, <1>7, <2>1 DEF Refused
<1>10. CASE PP!LabelLine
  <2>1. /\ PP!Parsing /\ parser_pc' \in {"parsing", "refused"} /\ PP!AtLabel
        /\ instruction'.mnemonic = "NULL"
        /\ token[idx].val \notin DOMAIN position /\ DOMAIN position' = DOMAIN position \cup {token[idx].val}
    BY <1>10 DEF PP!LabelLine, PP!EndLine, PP!Parsing, PP!Parsed, PP!NoInstruction
  <2>2. position' # position
    BY <2>1
  <2>3. PICK name \in Names \ DOMAIN position : position' = Insert(name)
    BY <1>1, <2>2
  <2>4. Labelled(name)
    BY <2>1, <2>3 DEF Labelled
  <2>. QED  BY <1>2, <1>3, <1>6, <1>7, <2>1, <2>4 DEF Refused
<1>11. CASE PP!Finish
  <2>1. idx > Len(token) /\ parser_pc' = "done" /\ DOMAIN position' = DOMAIN position
    BY <1>11 DEF PP!Finish
  <2>. QED  BY <1>1, <1>2, <1>3, <1>4, <2>1, EndsFinite DEF Finished
<1>12. CASE PP!DuplicateLabel
  <2>1. /\ PP!Parsing /\ parser_pc' = "aborted" /\ DOMAIN position' = DOMAIN position
        /\ token[idx].val \in DOMAIN position
    BY <1>12 DEF PP!DuplicateLabel
  <2>. QED  BY <1>2, <1>3, <1>4, <1>7, <2>1 DEF Duplicate
<1>. QED  BY <1>1, <1>8, <1>9, <1>10, <1>11, <1>12 DEF PP!Next
--------------------------------------------------------------------------------
(* What Assembler sees of a state stays when its parts stay.                         *)
LEMMA LabelsStay == position' = position => Labels' = Labels
BY DEF Labels, Find

LEMMA ImageStays == code' = code /\ jumps' = jumps => Image' = Image
BY DEF Image, JumpBytes

(* A label that is defined.                                                          *)
LEMMA LabelsInserted ==
  ASSUME Inv, NEW name \in Names, name \notin DOMAIN position, position' = Insert(name)
  PROVE  /\ Labels[name] = E!NoPosition
         /\ Labels' = [Labels EXCEPT ![name] = g_instruction_pointer]
<1>1. \A n \in Names : Find(n)' = IF n = name THEN g_instruction_pointer ELSE Find(n)
  <2>1. /\ DOMAIN position' = DOMAIN position \cup {name}
        /\ \A n \in DOMAIN position' : position'[n] = IF n = name THEN g_instruction_pointer ELSE position[n]
    BY DEF Insert
  <2>. QED  BY <2>1 DEF Find, E!NoPosition
<1>2. Labels' = [n \in Names |-> Find(n)']
  BY DEF Labels
<1>. QED  BY <1>1, <1>2 DEF Labels, Find

(* A round is a line of Assembler, unless the line has still to be encoded.          *)
LEMMA ParseMaps ==
  ASSUME Inv, Parsed, Parsed', ParseLine, g_instruction_pointer <= MaxCode
  PROVE  [A!Next]_(A!vars)
<1>1. /\ phase = "lines" /\ UNCHANGED <<output, i>>
      /\ phase' = CASE parser_pc' = "parsing" -> "encode"
                    [] parser_pc' = "done"    -> "patch"
                    [] parser_pc' = "refused" -> "rejected"
                    [] parser_pc' = "aborted" -> "aborted"
      /\ lines' = IF \/ parser_pc' = "refused"
                     \/ parser_pc' = "parsing" /\ instruction'.mnemonic = "NULL"
                  THEN lines - 1 ELSE lines
      /\ lines = Cardinality(Ends(idx)) /\ lines \in Nat /\ g_instruction_pointer \in Nat
  <2>1. idx \in Nat \ {0} /\ PP!Typed
    BY RoundFacts DEF Parsed
  <2>. QED  BY <2>1, EndsFinite DEF ParseLine, Inv, LineInv, CodeInv
<1>2. Image' = Image /\ UNCHANGED <<g_instruction_pointer, list_addrtopatch, jumps>>
  BY <1>1, ImageStays DEF output
<1>3. position' = position => Labels' = Labels
  BY LabelsStay
<1>4. ASSUME NEW name \in Names, Labelled(name)
      PROVE  Labels[name] = E!NoPosition /\ Labels' = [Labels EXCEPT ![name] = g_instruction_pointer]
  BY <1>4, LabelsInserted DEF Labelled
<1>5. position' = position \/ \E name \in Names : Labelled(name)
  BY RoundFacts
<1>6. CASE Accepted
  <2>1. Phase = "lines" /\ Phase' = "lines" /\ lines > 0
    BY <1>1, <1>6 DEF Phase, Accepted
  <2>2. CASE position' = position /\ instruction'.mnemonic = "NULL"
    <3>1. A!ReadBlock(0)
      BY <1>1, <1>2, <1>3, <1>6, <2>1, <2>2 DEF A!ReadBlock, A!ReadLine, Accepted
    <3>. QED  BY <3>1 DEF A!Next
  <2>3. CASE position' = position /\ instruction'.mnemonic # "NULL"
    <3>1. UNCHANGED A!vars
      BY <1>1, <1>2, <1>3, <1>6, <2>1, <2>3 DEF A!vars, Accepted
    <3>. QED  BY <3>1
  <2>4. ASSUME NEW name \in Names, Labelled(name) PROVE A!DefineLabel(name)
    BY <1>1, <1>2, <1>4, <1>6, <2>1, <2>4 DEF A!DefineLabel, A!ReadLine, Accepted, Labelled
  <2>. QED  BY <1>5, <2>2, <2>3, <2>4 DEF A!Next
<1>7. CASE Refused
  <2>1. Phase = "lines" /\ Phase' = "rejected" /\ lines > 0 /\ lines' = lines - 1
    BY <1>1, <1>7 DEF Phase, Refused
  <2>2. A!RejectLine
    BY <1>1, <1>2, <1>3, <1>4, <1>5, <2>1 DEF A!RejectLine
  <2>. QED  BY <2>2 DEF A!Next
<1>8. CASE Finished
  <2>1. Phase = "lines" /\ Phase' = "patch" /\ lines = 0 /\ lines' = lines
    BY <1>1, <1>8 DEF Phase, Finished
  <2>2. A!EndOfInput
    BY <1>1, <1>2, <1>3, <1>8, <2>1 DEF A!EndOfInput, Finished
  <2>. QED  BY <2>2 DEF A!Next
<1>9. CASE Duplicate
  <2>1. Phase = "lines" /\ Phase' = "aborted" /\ lines > 0 /\ lines' = lines
    BY <1>1, <1>9 DEF Phase, Duplicate
  <2>2. PICK name \in DOMAIN position : TRUE
    BY <1>9 DEF Duplicate
  <2>3. name \in Names /\ Labels[name] # E!NoPosition
    BY <2>2 DEF Inv, CodeInv, Labels, Find, E!NoPosition
  <2>4. A!DuplicateLabel(name)
    BY <1>1, <1>2, <1>3, <1>9, <2>1, <2>3 DEF A!DuplicateLabel, A!Abort, Duplicate
  <2>. QED  BY <2>3, <2>4 DEF A!Next
<1>. QED  BY <1>6, <1>7, <1>8, <1>9, RoundFacts
--------------------------------------------------------------------------------
(* The label or number of a jump is one of the program.                             *)
LEMMA LabelOperand ==
  ASSUME Inv, Parsed, "LABEL" \in instruction.dst.kind
  PROVE  instruction.dst.kind = {"LABEL"} /\ instruction.dst.label \in Names
<1>1. PP!IsTarget(token, instruction.dst) /\ token \in Programs /\ PP!Typed
  BY DEF Inv, LineInv, Parsed, PP!TargetsInText
<1>2. instruction.dst.kind = {"LABEL"}
  BY <1>1 DEF PP!IsTarget
<1>3. PICK k \in 1 .. Len(token) : token[k].kind = "LABEL" /\ instruction.dst.label = token[k].val
  BY <1>1 DEF PP!IsTarget
<1>4. k \in Of(token, {"LABEL"})
  BY <1>1, <1>3, PP!Places, ParserAssumptions DEF Of, PP!Typed
<1>. QED  BY <1>1, <1>2, <1>3, <1>4, ProgramsAssumption

LEMMA NumberOperand ==
  ASSUME Inv, Parsed, "IMMEDIATE" \in instruction.dst.kind
  PROVE  /\ instruction.dst.kind \subseteq {"IMMEDIATE", "IMMEDIATE8", "IMMEDIATE16"}
         /\ instruction.dst.imm \in Numbers
<1>1. PP!IsTarget(token, instruction.dst) /\ token \in Programs /\ PP!Typed
  BY DEF Inv, LineInv, Parsed, PP!TargetsInText
<1>2. PICK k \in 1 .. Len(token) : /\ token[k].kind \in {"NUM", "ZERO"}
                                   /\ instruction.dst.imm \in {PP!S16(token[k].val), PP!S16(- token[k].val)}
  BY <1>1 DEF PP!IsTarget
<1>3. k \in Of(token, {"NUM", "ZERO"})
  BY <1>1, <1>2, PP!Places, ParserAssumptions DEF Of, PP!Typed
<1>4. SignedValues(token[k].val) \subseteq Numbers
  BY <1>1, <1>3, ProgramsAssumption
<1>. QED  BY <1>1, <1>2, <1>4, SameTokens DEF PP!IsTarget, SignedValues

(* What codegen works on while main waits for it.                                   *)
LEMMA InHand ==
  ASSUME Inv, Parsed, phase = "encode"
  PROVE  /\ EP!mnemonic = instruction.mnemonic /\ EP!dst = instruction.dst /\ EP!src = instruction.src
         /\ call.ip = g_instruction_pointer /\ Phase = "lines" /\ lines \in Nat
         /\ instruction.mnemonic # "NULL" => lines > 0 /\ call.pos = Find(instruction.dst.label)
         /\ g_instruction_pointer \in Nat
<1>1. /\ call.inst = instruction /\ call.ip = g_instruction_pointer
      /\ instruction.mnemonic # "NULL" => call.pos = Find(instruction.dst.label)
      /\ g_instruction_pointer = Len(code) /\ code \in Seq(0 .. 255)
      /\ lines = Cardinality(Ends(idx)) + (IF instruction.mnemonic = "NULL" THEN 0 ELSE 1)
      /\ idx \in Nat \ {0} /\ PP!Typed
  BY DEF Inv, CallInv, CodeInv, LineInv, Parsed, PP!Typed, PP!TypeOK
<1>2. EP!mnemonic = instruction.mnemonic /\ EP!dst = instruction.dst /\ EP!src = instruction.src
  BY <1>1 DEF EP!mnemonic, EP!dst, EP!src
<1>3. Cardinality(Ends(idx)) \in Nat
  BY <1>1, EndsFinite
<1>4. Phase = "lines"
  BY DEF Phase
<1>. QED  BY <1>1, <1>2, <1>3, <1>4

(* A field changes nothing that Assembler knows of, but for the assertion on a field *)
(* RM and the one of a full list.                                                    *)
LEMMA EncodeMaps ==
  ASSUME Inv, Parsed, EncodeField
  PROVE  [A!Next]_(A!vars)
<1>1. /\ phase = "encode" /\ EP!Next /\ EP!Inv /\ encoder_pc # "aborted"
      /\ UNCHANGED <<position, output, i, lines>>
      /\ phase' = IF encoder_pc' = "aborted" THEN "unencodable" ELSE phase
  BY SameEncoder DEF EncodeField, Inv, CallInv
<1>2. /\ Labels' = Labels /\ Image' = Image
      /\ UNCHANGED <<g_instruction_pointer, list_addrtopatch, jumps, lines, i>>
  BY <1>1, LabelsStay, ImageStays DEF output
<1>3. CASE encoder_pc' # "aborted"
  <2>1. Phase' = Phase
    BY <1>1, <1>3 DEF Phase
  <2>. QED  BY <1>2, <2>1 DEF A!vars
<1>4. CASE encoder_pc' = "aborted"
  <2>1. encoder_pc = "emitting"
    BY <1>1, <1>4, EP!AbortedInRow, EncoderAssumptions
  <2>2. EP!mnemonic # "NULL"
    BY <1>1, <2>1, EP!NullDropped, EncoderAssumptions
  <2>3. Phase = "lines" /\ Phase' = "unencodable" /\ lines > 0
    BY <1>1, <1>4, <2>2, InHand DEF Phase
  <2>4. A!Unencodable
    BY <1>2, <2>3 DEF A!Unencodable
  <2>. QED  BY <2>4 DEF A!Next
<1>. QED  BY <1>3, <1>4

LEMMA FullMaps ==
  ASSUME Inv, Parsed, PatchListFull
  PROVE  [A!Next]_(A!vars)
<1>1. /\ phase = "encode" /\ phase' = "aborted" /\ Len(list_addrtopatch) = PatchLen
      /\ UNCHANGED <<position, output, i, lines>> /\ call.pos = E!NoPosition
      /\ EP!Inv /\ (EP!At("LBL") \/ EP!At("LBL8"))
  BY EncoderEmits DEF PatchListFull, Full, Inv, CallInv
<1>2. EP!mnemonic \in EP!JumpNames /\ "LABEL" \in EP!dst.kind
  BY <1>1, EP!LabelField, EncoderAssumptions
<1>3. instruction.dst.label \in Names /\ Labels[instruction.dst.label] = E!NoPosition
      /\ instruction.mnemonic # "NULL"
  <2>1. "LABEL" \in instruction.dst.kind /\ call.pos = Find(instruction.dst.label)
        /\ EP!mnemonic = instruction.mnemonic
    BY <1>1, <1>2, InHand DEF EP!JumpNames
  <2>2. instruction.dst.label \in Names
    BY <2>1, LabelOperand
  <2>. QED  BY <1>1, <1>2, <2>1, <2>2 DEF EP!JumpNames, Labels
<1>4. Phase = "lines" /\ Phase' = "aborted" /\ lines > 0
  BY <1>1, <1>3, InHand DEF Phase
<1>5. /\ Labels' = Labels /\ Image' = Image
      /\ UNCHANGED <<g_instruction_pointer, list_addrtopatch, jumps, lines, i>>
  BY <1>1, LabelsStay, ImageStays DEF output
<1>6. A!PatchListFull(instruction.dst.label)
  BY <1>1, <1>3, <1>4, <1>5 DEF A!PatchListFull, A!Abort
<1>. QED  BY <1>3, <1>6 DEF A!Next
--------------------------------------------------------------------------------
(* The operands of jumps in the code, and behind them the one that is added.         *)
LEMMA OperandBytes ==
  ASSUME CodeInv, NEW p \in JumpBytes
  PROVE  p \in Nat /\ p + 1 \in 1 .. Len(code)
<1>1. PICK j \in jumps : p \in j.at + 1 .. j.at + (IF j.kind = "jmp" THEN 2 ELSE 1)
  BY DEF JumpBytes
<1>2. j.at \in Nat /\ j.kind \in {"jmp", "je"} /\ j.at + 1 + Width(j.kind) <= Len(code)
      /\ Len(code) \in Nat /\ Width(j.kind) = IF j.kind = "jmp" THEN 2 ELSE 1
  BY DEF CodeInv, Width
<1>. QED  BY <1>1, <1>2

(* Bytes behind the operands that are there leave these as they are.                 *)
LEMMA ImageGrows ==
  ASSUME CodeInv, NEW b \in Seq(0 .. 255), code' = code \o b, jumps' = jumps
  PROVE  Image' = Image
<1>1. JumpBytes' = JumpBytes
  BY DEF JumpBytes
<1>2. ASSUME NEW p \in JumpBytes PROVE code'[p + 1] = code[p + 1]
  BY <1>2, OperandBytes DEF CodeInv
<1>. QED  BY <1>1, <1>2 DEF Image

(* The bytes of a jump are Assembler's Store of its operand.                         *)
LEMMA ImageStored ==
  ASSUME CodeInv, NEW b \in Seq(0 .. 255), code' = code \o b, NEW kind \in {"jmp", "je"}, NEW to,
         jumps' = jumps \cup {[at |-> Len(code), kind |-> kind, to |-> to]},
         NEW value \in Int, Len(b) = 1 + A!OperandLen(kind), b[2] = A!LowByte(value),
         A!OperandLen(kind) = 2 => b[3] = A!HighByte(value)
  PROVE  Image' = A!Store(Len(code) + 1, A!OperandLen(kind), value)
<1>. DEFINE at == Len(code) + 1
            len == A!OperandLen(kind)
<1>1. at \in Nat /\ len \in {1, 2} /\ (len = IF kind = "jmp" THEN 2 ELSE 1) /\ code \in Seq(0 .. 255)
      /\ Len(code) \in Nat /\ at = Len(code) + 1
  BY DEF CodeInv, A!OperandLen
<1>2. JumpBytes' = (at .. at + len - 1) \cup JumpBytes
  <2>1. JumpBytes' = JumpBytes \cup (Len(code) + 1 .. Len(code) + (IF kind = "jmp" THEN 2 ELSE 1))
    <3>. DEFINE Bytes(j) == j.at + 1 .. j.at + (IF j.kind = "jmp" THEN 2 ELSE 1)
                new == [at |-> Len(code), kind |-> kind, to |-> to]
    <3>1. \A p : p \in JumpBytes' <=> \E j \in jumps' : p \in Bytes(j)
      BY ZenonT(40) DEF JumpBytes
    <3>2. \A p : p \in JumpBytes <=> \E j \in jumps : p \in Bytes(j)
      BY ZenonT(40) DEF JumpBytes
    <3>3. Bytes(new) = Len(code) + 1 .. Len(code) + (IF kind = "jmp" THEN 2 ELSE 1) /\ jumps' = jumps \cup {new}
      OBVIOUS
    <3>. HIDE DEF Bytes, new
    <3>4. \A p : p \in JumpBytes' <=> p \in JumpBytes \/ p \in Bytes(new)
      BY <3>1, <3>2, <3>3
    <3>. QED  BY <3>3, <3>4
  <2>2. Len(code) + (IF kind = "jmp" THEN 2 ELSE 1) = at + len - 1
    BY <1>1
  <2>. QED  BY <1>1, <2>1, <2>2
<1>3. ASSUME NEW p \in JumpBytes PROVE code'[p + 1] = code[p + 1] /\ p < at
  <2>1. p \in Nat /\ p + 1 \in 1 .. Len(code)
    BY <1>3, OperandBytes
  <2>2. code'[p + 1] = code[p + 1]
    BY <1>1, <2>1
  <2>. QED  BY <1>1, <2>1, <2>2
<1>4. code'[at + 1] = A!LowByte(value) /\ (len = 2 => code'[(at + 1) + 1] = A!HighByte(value))
  <2>1. Len(b) = 1 + len
    OBVIOUS
  <2>2. code'[at + 1] = b[2]
    BY <1>1, <2>1
  <2>3. len = 2 => code'[(at + 1) + 1] = b[3]
    BY <1>1, <2>1
  <2>. QED  BY <2>2, <2>3
<1>5. DOMAIN Image = JumpBytes /\ Image' = [p \in JumpBytes' |-> code'[p + 1]]
      /\ \A p \in JumpBytes : Image[p] = code[p + 1]
  BY DEF Image
<1>6. A!Store(at, len, value) =
        [p \in at .. at + len - 1 \cup JumpBytes |->
            IF p = at THEN A!LowByte(value)
            ELSE IF p \in at .. at + len - 1 THEN A!HighByte(value) ELSE Image[p]]
  BY <1>5, Zenon DEF A!Store
<1>. HIDE DEF at, len
<1>7. ASSUME NEW p \in at .. at + len - 1 \cup JumpBytes
      PROVE  code'[p + 1] = IF p = at THEN A!LowByte(value)
                            ELSE IF p \in at .. at + len - 1 THEN A!HighByte(value) ELSE Image[p]
  <2>1. CASE p \in JumpBytes
    <3>1. p < at /\ p \in Nat /\ code'[p + 1] = Image[p]
      BY <1>3, <1>5, <2>1, OperandBytes
    <3>. QED  BY <1>1, <3>1
  <2>2. CASE p \in at .. at + len - 1
    <3>1. p = at \/ (p = at + 1 /\ len = 2)
      BY <1>1, <2>2
    <3>2. CASE p = at
      BY <1>4, <3>2
    <3>3. CASE p = at + 1 /\ len = 2
      BY <1>1, <1>4, <2>2, <3>3
    <3>. QED  BY <3>1, <3>2, <3>3
  <2>. QED  BY <2>1, <2>2
<1>8. Image' = A!Store(at, len, value)
  BY <1>2, <1>5, <1>6, <1>7
<1>. QED  BY <1>8 DEF at, len
--------------------------------------------------------------------------------
(* What is stored for a line, and what it is when it is a jump.                       *)
LEMMA StoreFacts ==
  ASSUME Inv, Parsed, StoreLine
  PROVE  /\ phase = "encode" /\ phase' = "lines" /\ encoder_pc \in {"done", "dropped"}
         /\ bytes \in Seq(0 .. 255) /\ Len(bytes) \in 0 .. 6
         /\ code' = code \o bytes /\ list_addrtopatch' = list_addrtopatch \o patches
         /\ g_instruction_pointer = Len(code) /\ g_instruction_pointer' = g_instruction_pointer + Len(bytes)
         /\ UNCHANGED <<token, idx, parser_pc, instruction, line, position, encoder, i>>
         /\ lines' = IF instruction.mnemonic = "NULL" THEN lines ELSE lines - 1
         /\ encoder_pc = "dropped" => bytes = <<>> /\ patches = <<>> /\ jumps' = jumps
         /\ encoder_pc = "done" =>
                jumps' = jumps \cup IF IsJump(instruction) THEN {JumpOf(instruction)} ELSE {}
         /\ instruction.mnemonic = "NULL" => encoder_pc = "dropped"
<1>1. EP!Inv
  BY DEF Inv, CallInv
<1>2. /\ bytes \in Seq(0 .. 255) /\ Len(bytes) <= 6
  BY <1>1, EP!InvTypes, EncoderAssumptions DEF EP!TypeOK
<1>3. encoder_pc = "dropped" => bytes = <<>> /\ patches = <<>>
  BY <1>1 DEF EP!Inv
<1>4. phase = "encode" /\ encoder_pc \in {"done", "dropped"}
  BY DEF StoreLine, Store
<1>5. instruction.mnemonic = "NULL" => encoder_pc = "dropped"
  <2>. SUFFICES ASSUME instruction.mnemonic = "NULL" PROVE encoder_pc = "dropped"
    OBVIOUS
  <2>1. EP!mnemonic = "NULL"
    BY <1>4, InHand
  <2>. QED  BY <1>1, <1>4, <2>1, EP!NullDropped, EncoderAssumptions
<1>6. Len(bytes) \in 0 .. 6
  <2>. DEFINE n == Len(bytes)
  <2>1. n \in Nat /\ n <= 6
    BY <1>2, LenProperties
  <2>. HIDE DEF n
  <2>2. n \in 0 .. 6
    BY ONLY <2>1
  <2>. QED  BY <2>2 DEF n
<1>. QED  BY <1>2, <1>3, <1>4, <1>5, <1>6 DEF StoreLine, Store, Inv, CodeInv, parser

LEMMA JumpStored ==
  ASSUME Inv, Parsed, phase = "encode", encoder_pc = "done", IsJump(instruction)
  PROVE  /\ EP!IsJump /\ EP!OperandLen = A!OperandLen(JumpOf(instruction).kind)
         /\ JumpOf(instruction).kind \in {"jmp", "je"} /\ JumpOf(instruction).at = g_instruction_pointer
         /\ JumpOf(instruction).kind = "jmp" <=> instruction.mnemonic = "JMP"
         /\ \/ EP!ToLabel /\ JumpOf(instruction).to = instruction.dst.label /\ instruction.dst.label \in Names
            \/ ~ EP!ToLabel /\ JumpOf(instruction).to = instruction.dst.imm /\ instruction.dst.imm \in Numbers
<1>1. instruction.mnemonic \in {"JMP", "JE"} /\ instruction.dst.kind \cap {"LABEL", "IMMEDIATE"} # {}
  BY DEF IsJump
<1>2. EP!mnemonic = instruction.mnemonic /\ EP!dst = instruction.dst
  BY InHand
<1>3. EP!mnemonic \in EP!JumpNames
  BY <1>1, <1>2 DEF EP!JumpNames
<1>4. CASE "LABEL" \in instruction.dst.kind
  <2>1. instruction.dst.kind = {"LABEL"} /\ instruction.dst.label \in Names
    BY <1>4, LabelOperand
  <2>2. EP!ToLabel
    BY <1>2, <1>3, <2>1 DEF EP!ToLabel
  <2>. QED  BY <1>1, <1>2, <1>4, <2>1, <2>2 DEF EP!IsJump, EP!OperandLen, A!OperandLen, JumpOf
<1>5. CASE "LABEL" \notin instruction.dst.kind
  <2>1. "IMMEDIATE" \in instruction.dst.kind
    BY <1>1, <1>5
  <2>2. instruction.dst.kind \subseteq {"IMMEDIATE", "IMMEDIATE8", "IMMEDIATE16"} /\ instruction.dst.imm \in Numbers
    BY <2>1, NumberOperand
  <2>3. EP!ToNumber /\ ~ EP!ToLabel
    BY <1>2, <1>3, <1>5, <2>1, <2>2 DEF EP!ToNumber, EP!ToLabel
  <2>. QED  BY <1>1, <1>2, <1>5, <2>2, <2>3 DEF EP!IsJump, EP!OperandLen, A!OperandLen, JumpOf
<1>. QED  BY <1>4, <1>5

(* A stored line is a block, or a jump to a known label, to an unknown one or to a   *)
(* number.                                                                           *)
LEMMA StoreMaps ==
  ASSUME Inv, Parsed, StoreLine, g_instruction_pointer' <= MaxCode
  PROVE  [A!Next]_(A!vars)
<1>. DEFINE at == g_instruction_pointer
<1>1. /\ phase = "encode" /\ encoder_pc \in {"done", "dropped"}
      /\ bytes \in Seq(0 .. 255) /\ Len(bytes) \in 0 .. 6
      /\ code' = code \o bytes /\ list_addrtopatch' = list_addrtopatch \o patches
      /\ at = Len(code) /\ at' = at + Len(bytes) /\ i' = i
      /\ lines' = IF instruction.mnemonic = "NULL" THEN lines ELSE lines - 1
      /\ encoder_pc = "dropped" => bytes = <<>> /\ patches = <<>> /\ jumps' = jumps
      /\ encoder_pc = "done" =>
             jumps' = jumps \cup IF IsJump(instruction) THEN {JumpOf(instruction)} ELSE {}
      /\ instruction.mnemonic = "NULL" => encoder_pc = "dropped"
  BY StoreFacts
<1>2. /\ Phase = "lines" /\ Phase' = "lines" /\ Labels' = Labels
      /\ lines \in Nat /\ (instruction.mnemonic # "NULL" => lines > 0)
      /\ at \in Nat /\ EP!mnemonic = instruction.mnemonic /\ EP!dst = instruction.dst
      /\ call.ip = at /\ (instruction.mnemonic # "NULL" => call.pos = Find(instruction.dst.label))
  BY StoreFacts, InHand, LabelsStay DEF Phase
<1>3. CodeInv /\ list_addrtopatch \in Seq(Entries) /\ code \in Seq(0 .. 255) /\ EP!JumpEncoded
  BY EP!InvJump, EncoderAssumptions DEF Inv, CodeInv, ListInv, CallInv
<1>4. CASE patches = <<>> /\ jumps' = jumps
  <2>1. list_addrtopatch' = list_addrtopatch
    BY <1>1, <1>3, <1>4
  <2>2. Image' = Image
    BY <1>1, <1>3, <1>4, ImageGrows
  <2>3. CASE instruction.mnemonic = "NULL"
    <3>1. bytes = <<>> /\ at' = at
      BY <1>1, <1>2, <2>3
    <3>. QED  BY <1>1, <1>2, <1>4, <2>1, <2>2, <2>3, <3>1 DEF A!vars
  <2>4. CASE instruction.mnemonic # "NULL"
    <3>1. A!ReadBlock(Len(bytes))
      BY <1>1, <1>2, <1>4, <2>1, <2>2, <2>4 DEF A!ReadBlock, A!ReadLine
    <3>. QED  BY <1>1, <3>1 DEF A!Next
  <2>. QED  BY <2>3, <2>4
<1>5. CASE encoder_pc = "done" /\ ~ IsJump(instruction)
  <2>1. jumps' = jumps
    BY <1>1, <1>5
  <2>2. patches = <<>>
    BY <1>2, <1>3, <1>5 DEF EP!JumpEncoded, EP!JumpNames, IsJump
  <2>. QED  BY <1>4, <2>1, <2>2
<1>6. CASE encoder_pc = "done" /\ IsJump(instruction)
  <2>. DEFINE j    == JumpOf(instruction)
              kind == j.kind
              len  == A!OperandLen(kind)
  <2>1. /\ EP!IsJump /\ EP!OperandLen = len /\ kind \in {"jmp", "je"} /\ j.at = at
        /\ kind = "jmp" <=> instruction.mnemonic = "JMP"
        /\ \/ EP!ToLabel /\ j.to = instruction.dst.label /\ instruction.dst.label \in Names
           \/ ~ EP!ToLabel /\ j.to = instruction.dst.imm /\ instruction.dst.imm \in Numbers
    BY <1>1, <1>6, JumpStored
  <2>2. /\ jumps' = jumps \cup {[at |-> at, kind |-> kind, to |-> j.to]}
    <3>1. j = [at |-> at, kind |-> kind, to |-> j.to]
      BY Zenon DEF JumpOf
    <3>. QED  BY <1>1, <1>6, <3>1
  <2>3. /\ Len(bytes) = 1 + len /\ len \in {1, 2} /\ (len = 2 <=> kind = "jmp") /\ A!JumpLen(kind) = 1 + len
        /\ IF EP!Unknown
           THEN patches = <<EP!Place>> /\ \A k \in 2 .. Len(bytes) : bytes[k] = 0
           ELSE /\ patches = <<>>
                /\ bytes[2] = EP!Distance % 256
                /\ len = 2 => bytes[3] = (EP!Distance \div 256) % 256
    BY <1>3, <1>6, <2>1 DEF EP!JumpEncoded, A!OperandLen, A!JumpLen
  <2>4. /\ lines > 0 /\ lines' = lines - 1 /\ kind \in A!Kinds
        /\ at + A!JumpLen(kind) <= MaxCode /\ at' = at + A!JumpLen(kind)
        /\ call.pos = Find(instruction.dst.label)
    <3>1. instruction.mnemonic # "NULL"
      BY <1>6 DEF IsJump
    <3>. QED  BY <1>1, <1>2, <2>1, <2>3, <3>1 DEF A!Kinds
  <2>5. ASSUME NEW value \in Int, bytes[2] = A!LowByte(value), len = 2 => bytes[3] = A!HighByte(value)
        PROVE  A!EmitJump(kind, j.to, value)
    <3>1. Image' = A!Store(at + 1, len, value)
      <4>1. /\ jumps' = jumps \cup {[at |-> Len(code), kind |-> kind, to |-> j.to]}
            /\ Len(bytes) = 1 + A!OperandLen(kind) /\ (A!OperandLen(kind) = 2 => bytes[3] = A!HighByte(value))
        BY <1>1, <2>2, <2>3, <2>5
      <4>2. kind \in {"jmp", "je"} /\ bytes \in Seq(0 .. 255) /\ code' = code \o bytes
        BY <1>1, <2>1
      <4>. HIDE DEF kind, j
      <4>3. Image' = A!Store(Len(code) + 1, A!OperandLen(kind), value)
        BY <1>3, <2>5, <4>1, <4>2, ImageStored
      <4>. QED  BY <1>1, <4>3
    <3>. QED  BY <1>1, <1>2, <2>2, <2>4, <3>1 DEF A!EmitJump, A!ReadLine
  <2>. HIDE DEF j, kind, len, at
  <2>6. CASE EP!ToLabel /\ EP!Unknown
    <3>1. /\ j.to \in Names /\ Labels[j.to] = E!NoPosition /\ j.to = instruction.dst.label
          /\ patches = <<EP!Place>>
      BY <1>2, <2>1, <2>3, <2>4, <2>6, EncoderOperands DEF Labels, EP!Unknown
    <3>2. EP!Place = [labelname |-> j.to, inst_pointer |-> at + 1, bytelen |-> len]
      BY <1>2, <2>1, <3>1 DEF EP!Place
    <3>3. bytes[2] = A!LowByte(0) /\ (len = 2 => bytes[3] = A!HighByte(0))
      BY <2>3, <2>6 DEF A!LowByte, A!HighByte
    <3>4. A!EmitJump(kind, j.to, 0)
      BY <2>5, <3>3
    <3>5. Len(list_addrtopatch) < PatchLen
      <4>1. Len(list_addrtopatch) <= PatchLen /\ Len(list_addrtopatch) # PatchLen /\ Len(list_addrtopatch) \in Nat
        BY <1>1, <1>3, <3>1 DEF Inv, CallInv, ListInv, Full
      <4>. QED  BY <4>1, BoundsAssumption
    <3>6. list_addrtopatch' = Append(list_addrtopatch, EP!Place)
      BY <1>1, <1>3, <3>1
    <3>7. A!JumpToUnknown(kind, j.to)
      BY <3>1, <3>2, <3>4, <3>5, <3>6 DEF A!JumpToUnknown, len, at
    <3>. QED  BY <2>4, <3>1, <3>7 DEF A!Next
  <2>7. ~ EP!Unknown => list_addrtopatch' = list_addrtopatch
    BY <1>1, <1>3, <2>3
  <2>8. CASE EP!ToLabel /\ ~ EP!Unknown
    <3>1. j.to \in Names /\ Labels[j.to] = call.pos /\ call.pos # E!NoPosition /\ call.pos \in Int
      <4>1. call.pos \in Int
        BY DEF Inv, CallInv, EP!Inv, EP!IsCall
      <4>. QED  BY <1>2, <2>1, <2>4, <2>8, <4>1, EncoderOperands DEF Labels, EP!Unknown
    <3>. DEFINE value == Labels[j.to] - (at + A!JumpLen(kind))
    <3>2. EP!Distance = value /\ value \in Int
      <4>1. EP!Distance = call.pos - (at + 1 + len)
        BY <1>2, <2>1, <2>8 DEF EP!Distance
      <4>2. A!JumpLen(kind) = 1 + len /\ len \in {1, 2} /\ at \in Nat
        BY <1>2, <2>3 DEF at
      <4>. QED  BY <3>1, <4>1, <4>2
    <3>3. A!EmitJump(kind, j.to, value)
      <4>. HIDE DEF value
      <4>. QED  BY <2>3, <2>5, <2>8, <3>2 DEF A!LowByte, A!HighByte
    <3>4. A!JumpToKnown(kind, j.to)
      BY <2>7, <2>8, <3>1, <3>3 DEF A!JumpToKnown, at
    <3>. QED  BY <2>4, <3>1, <3>4 DEF A!Next
  <2>9. CASE ~ EP!ToLabel
    <3>1. j.to \in Numbers /\ j.to = EP!dst.imm /\ ~ EP!Unknown /\ j.to \in Int
      BY <1>2, <2>1, <2>9, NamesAssumption DEF EP!Unknown
    <3>. DEFINE value == IF kind = "jmp" THEN j.to - (at + A!JumpLen(kind)) ELSE j.to
    <3>2. EP!Distance = value /\ value \in Int
      BY <1>2, <2>1, <2>3, <2>9, <3>1 DEF EP!Distance
    <3>3. A!EmitJump(kind, j.to, value)
      <4>. HIDE DEF value
      <4>. QED  BY <2>3, <2>5, <3>1, <3>2 DEF A!LowByte, A!HighByte
    <3>4. A!JumpToNumber(kind, j.to)
      BY <2>7, <3>1, <3>3 DEF A!JumpToNumber, at
    <3>. QED  BY <2>4, <3>1, <3>4 DEF A!Next
  <2>. QED  BY <2>6, <2>8, <2>9
<1>. QED  BY <1>1, <1>4, <1>5, <1>6
--------------------------------------------------------------------------------
(* The entry that is patched next, its place in the code and its label.               *)
LEMMA PatchFacts ==
  ASSUME Inv, OneSegment, g_instruction_pointer <= MaxCode, Patching
  PROVE  /\ Phase = "patch" /\ i \in Nat /\ i < Len(list_addrtopatch)
         /\ A!addr = addr /\ A!start_write = start_write /\ A!address_to_write = address_to_write
         /\ start_write \in Nat /\ start_write = addr.inst_pointer /\ addr.bytelen \in {1, 2}
         /\ address_to_write \in Int
         /\ start_write .. start_write + addr.bytelen - 1 \subseteq JumpBytes
<1>1. /\ phase = "patch" /\ i \in Nat /\ i + 1 \in 1 .. Len(list_addrtopatch) /\ CodeInv
      /\ list_addrtopatch \in Seq(Entries) /\ i < Len(list_addrtopatch)
  BY DEF Patching, Inv, ListInv
<1>2. addr = list_addrtopatch[i + 1] /\ addr \in Entries
  BY <1>1 DEF addr
<1>3. PICK j \in jumps : addr.inst_pointer = j.at + 1 /\ addr.bytelen = Width(j.kind)
  BY <1>1, <1>2 DEF Inv, ListInv
<1>4. /\ j.at \in Nat /\ j.kind \in {"jmp", "je"} /\ j.at + 1 + Width(j.kind) <= Len(code)
      /\ Len(code) <= MaxCode /\ MaxCode \in Nat /\ MaxCode < 65536 /\ Len(code) \in Nat
  BY <1>1, BoundsAssumption DEF CodeInv, OneSegment
<1>5. addr.inst_pointer \in Nat /\ addr.inst_pointer < 65536 /\ addr.bytelen \in {1, 2}
      /\ (addr.bytelen = IF j.kind = "jmp" THEN 2 ELSE 1)
  BY <1>3, <1>4 DEF Width
<1>6. start_write = addr.inst_pointer
  BY <1>5 DEF start_write
<1>7. A!addr = addr
  BY <1>2 DEF A!addr
<1>8. A!start_write = start_write
  BY <1>7 DEF A!start_write, start_write, A!Word
<1>9. addr.labelname \in Names /\ Labels[addr.labelname] = Find(addr.labelname)
  BY <1>2 DEF Entries, Labels
<1>10. A!address_to_write = address_to_write
  BY <1>7, <1>9 DEF A!address_to_write, address_to_write, A!Word
<1>11. address_to_write \in Int
  <2>1. Find(addr.labelname) \in Int
    BY <1>1 DEF CodeInv, Find, E!NoPosition
  <2>. QED  BY <2>1 DEF address_to_write
<1>12. start_write .. start_write + addr.bytelen - 1 \subseteq JumpBytes
  <2>. SUFFICES ASSUME NEW p \in start_write .. start_write + addr.bytelen - 1 PROVE p \in JumpBytes
    OBVIOUS
  <2>1. p \in j.at + 1 .. j.at + (IF j.kind = "jmp" THEN 2 ELSE 1)
    BY <1>3, <1>4, <1>5, <1>6
  <2>. QED  BY <2>1 DEF JumpBytes
<1>. QED  BY <1>1, <1>5, <1>6, <1>7, <1>8, <1>10, <1>11, <1>12 DEF Phase

(* The two bytes that the patch loop writes are Assembler's Store.                   *)
LEMMA PatchMaps ==
  ASSUME Inv, OneSegment, g_instruction_pointer <= MaxCode, PatchNext
  PROVE  [A!Next]_(A!vars)
<1>1. /\ Patching /\ address_to_write > start_write /\ i' = i + 1
      /\ UNCHANGED <<position, phase, g_instruction_pointer, list_addrtopatch, jumps, lines>>
  BY DEF PatchNext
<1>. DEFINE value == address_to_write - (start_write + addr.bytelen)
            diff  == value % 65536
            s     == start_write
            len   == addr.bytelen
<1>2. /\ Phase = "patch" /\ i < Len(list_addrtopatch)
      /\ A!addr = addr /\ A!start_write = s /\ A!address_to_write = address_to_write
      /\ s \in Nat /\ len \in {1, 2} /\ value \in Int /\ s .. s + len - 1 \subseteq JumpBytes
  BY <1>1, PatchFacts
<1>3. code' = [p \in DOMAIN code |-> IF p = s + 1 THEN diff % 256
                                    ELSE IF p = s + 2 /\ len = 2 THEN diff \div 256 ELSE code[p]]
  BY DEF PatchNext
<1>4. diff % 256 = A!LowByte(value) /\ diff \div 256 = A!HighByte(value)
  <2>. HIDE DEF value
  <2>1. value \in Int
    BY <1>2
  <2>. QED  BY <2>1 DEF A!LowByte, A!HighByte
<1>5. JumpBytes' = JumpBytes /\ Labels' = Labels /\ Phase' = Phase
  BY <1>1, LabelsStay DEF JumpBytes, Phase
<1>6. DOMAIN Image = JumpBytes /\ Image' = [p \in JumpBytes |-> code'[p + 1]]
      /\ \A p \in JumpBytes : Image[p] = code[p + 1]
  BY <1>5 DEF Image
<1>. HIDE DEF value, diff, s, len
<1>7. A!Store(s, len, value) =
        [p \in s .. s + len - 1 \cup JumpBytes |->
            IF p = s THEN A!LowByte(value)
            ELSE IF p \in s .. s + len - 1 THEN A!HighByte(value) ELSE Image[p]]
  BY <1>6, Zenon DEF A!Store
<1>8. s .. s + len - 1 \cup JumpBytes = JumpBytes
  BY <1>2
<1>9. ASSUME NEW p \in JumpBytes
      PROVE  code'[p + 1] = IF p = s THEN A!LowByte(value)
                            ELSE IF p \in s .. s + len - 1 THEN A!HighByte(value) ELSE Image[p]
  <2>1. p \in Nat /\ p + 1 \in DOMAIN code
    <3>1. p \in Nat /\ p + 1 \in 1 .. Len(code) /\ code \in Seq(0 .. 255)
      BY OperandBytes DEF Inv, CodeInv
    <3>. QED  BY <3>1
  <2>2. code'[p + 1] = IF p + 1 = s + 1 THEN A!LowByte(value)
                       ELSE IF p + 1 = s + 2 /\ len = 2 THEN A!HighByte(value) ELSE code[p + 1]
    BY <1>3, <1>4, <2>1
  <2>3. (p + 1 = s + 1 <=> p = s) /\ (p \in s .. s + len - 1 <=> p = s \/ (p + 1 = s + 2 /\ len = 2))
    BY <1>2, <2>1
  <2>. QED  BY <1>6, <2>2, <2>3
<1>10. Image' = A!Store(s, len, value)
  BY <1>6, <1>7, <1>8, <1>9
<1>11. A!PatchNext
  BY <1>1, <1>2, <1>5, <1>10 DEF A!PatchNext, s, len, value
<1>. QED  BY <1>11 DEF A!Next

LEMMA EndMaps ==
  ASSUME Inv, OneSegment, g_instruction_pointer <= MaxCode, PatchAbort \/ Write
  PROVE  [A!Next]_(A!vars)
<1>1. /\ phase = "patch" /\ Phase = "patch" /\ Labels' = Labels /\ Image' = Image
      /\ UNCHANGED <<g_instruction_pointer, list_addrtopatch, jumps, lines, i>>
  BY LabelsStay, ImageStays DEF PatchAbort, Write, Patching, output, Phase
<1>2. CASE PatchAbort
  <2>1. Patching /\ address_to_write <= start_write /\ Phase' = "aborted"
    BY <1>2 DEF PatchAbort, Phase
  <2>2. A!PatchAbort
    BY <1>1, <2>1, PatchFacts DEF A!PatchAbort, A!Abort
  <2>. QED  BY <2>2 DEF A!Next
<1>3. CASE Write
  <2>1. Phase' = "written" /\ i = Len(list_addrtopatch)
    BY <1>3 DEF Write, Phase
  <2>2. A!Write
    BY <1>1, <2>1 DEF A!Write
  <2>. QED  BY <2>2 DEF A!Next
<1>. QED  BY <1>2, <1>3

(* Every step of the composition is a step of Assembler or none.                      *)
LEMMA StepMaps ==
  ASSUME Inv, Parsed, Parsed', OneSegment, [Next]_vars,
         g_instruction_pointer <= MaxCode, g_instruction_pointer' <= MaxCode
  PROVE  [A!Next]_(A!vars)
<1>1. CASE UNCHANGED vars
  <2>1. /\ Labels' = Labels /\ Image' = Image /\ Phase' = Phase
        /\ UNCHANGED <<g_instruction_pointer, list_addrtopatch, jumps, lines, i>>
    BY <1>1, LabelsStay, ImageStays DEF vars, output, Phase
  <2>. QED  BY <2>1 DEF A!vars
<1>. QED  BY <1>1, ParseMaps, EncodeMaps, FullMaps, StoreMaps, PatchMaps, EndMaps DEF Next

LEMMA InitMaps == Init => A!Init
<1>. SUFFICES ASSUME Init PROVE A!Init
  OBVIOUS
<1>1. token \in Programs /\ lines = Cardinality(Of(token, {"EOL"}))
  BY DEF Init, P!Init
<1>2. P!IsProgram(token) /\ Cardinality(Of(token, {"EOL"})) <= MaxLines
  BY <1>1, ProgramsAssumption
<1>3. IsFiniteSet(Of(token, {"EOL"}))
  <2>1. DOMAIN token = 1 .. Len(token) /\ Len(token) \in Nat
    BY <1>2 DEF P!IsProgram
  <2>2. IsFiniteSet(1 .. Len(token))
    BY <2>1, FS_Interval
  <2>. QED  BY <2>1, <2>2, FS_Subset DEF Of
<1>4. lines \in 0 .. MaxLines
  BY <1>1, <1>2, <1>3, FS_CardinalityType, BoundsAssumption
<1>5. Labels = [n \in Names |-> E!NoPosition]
  BY DEF Init, Labels, Find
<1>6. Image = <<>>
  BY DEF Init, Image, JumpBytes
<1>7. Phase = "lines"
  BY DEF Init, Phase
<1>. QED  BY <1>4, <1>5, <1>6, <1>7 DEF Init, A!Init
--------------------------------------------------------------------------------
(* The invariant. What the parser makes is what codegen may be called with.          *)
LEMMA CallMade ==
  ASSUME NEW inst, inst.mnemonic \in Mnemonics \cup {"NULL"},
         PP!IsOperand(inst.dst), PP!IsOperand(inst.src), NEW ip \in Nat, NEW pos \in Int
  PROVE  EP!IsCall([inst |-> inst, ip |-> ip, pos |-> pos])
<1>1. EP!IsOperand(inst.dst) /\ EP!IsOperand(inst.src)
  BY SameOperandTypes
<1>2. inst.mnemonic \in DOMAIN EP!Table \cup {"NULL"}
  BY SameTable, MnemonicsAssumption
<1>. QED  BY <1>1, <1>2 DEF EP!IsCall

LEMMA InitInv == Init => Inv
<1>. SUFFICES ASSUME Init PROVE Inv
  OBVIOUS
<1>1. CodeInv
  BY DEF Init, CodeInv
<1>2. ListInv
  BY BoundsAssumption DEF Init, ListInv
<1>3. CallInv
  <2>1. PP!Typed
    <3>1. PP!Init
      BY SameParser DEF Init
    <3>. QED  BY <3>1, PP!InitTyped, ParserAssumptions
  <2>2. instruction = P!NoInstruction /\ g_instruction_pointer = 0 /\ position = <<>>
    BY DEF Init, P!Init
  <2>3. call = [inst |-> instruction, ip |-> 0, pos |-> E!NoPosition]
    BY <2>2 DEF Init, CallOf, Find
  <2>4. EP!IsCall(call)
    <3>1. /\ instruction.mnemonic \in Mnemonics \cup {"NULL"}
          /\ PP!IsOperand(instruction.dst) /\ PP!IsOperand(instruction.src)
      BY <2>1 DEF PP!Typed, PP!TypeOK
    <3>2. E!NoPosition \in Int
      BY DEF E!NoPosition
    <3>. QED  BY <2>3, <3>1, <3>2, CallMade
  <2>5. EP!Inv
    BY <2>4 DEF EP!Inv, Init
  <2>6. EP!JumpInv
    BY DEF EP!JumpInv, Init
  <2>. QED  BY <2>5, <2>6 DEF CallInv, Init
<1>4. LineInv
  <2>1. token \in Programs /\ idx = 1 /\ lines = Cardinality(Of(token, {"EOL"})) /\ phase = "lines"
    BY DEF Init, P!Init
  <2>2. DOMAIN token = 1 .. Len(token)
    BY <2>1, ProgramsAssumption DEF P!IsProgram
  <2>3. Of(token, {"EOL"}) = Ends(1)
    BY <2>2 DEF Of, Ends
  <2>. QED  BY <2>1, <2>3 DEF LineInv
<1>. QED  BY <1>1, <1>2, <1>3, <1>4 DEF Inv

(* The encoder stays as it was.                                                      *)
LEMMA EncoderStays ==
  ASSUME EP!Inv, EP!JumpInv, UNCHANGED encoder
  PROVE  EP!Inv' /\ EP!JumpInv'
<1>1. UNCHANGED EP!vars
  BY DEF encoder, EP!vars
<1>. QED  BY <1>1, EP!StepInv, EP!StepJump, EncoderAssumptions

(* Every step keeps the invariant.                                                   *)
LEMMA ParseInv ==
  ASSUME Inv, Parsed, Parsed', ParseLine
  PROVE  Inv'
<1>1. /\ UNCHANGED <<output, i>> /\ token' = token /\ token \in Programs
      /\ position' = position \/ \E name \in Names : Labelled(name)
      /\ Accepted \/ Refused \/ Finished \/ Duplicate
      /\ phase = "lines" /\ lines = Cardinality(Ends(idx))
      /\ phase' = CASE parser_pc' = "parsing" -> "encode"
                    [] parser_pc' = "done"    -> "patch"
                    [] parser_pc' = "refused" -> "rejected"
                    [] parser_pc' = "aborted" -> "aborted"
  BY RoundFacts DEF ParseLine, Inv, LineInv
<1>2. phase' \in {"encode", "patch", "rejected", "aborted"} /\ (phase' = "encode" <=> parser_pc' = "parsing")
  BY <1>1 DEF Accepted, Refused, Finished, Duplicate
<1>3. CodeInv'
  <2>1. CodeInv /\ UNCHANGED <<code, g_instruction_pointer, jumps>>
    BY <1>1 DEF Inv, output
  <2>2. CASE position' = position
    BY <2>1, <2>2 DEF CodeInv
  <2>3. ASSUME NEW name \in Names, Labelled(name) PROVE CodeInv'
    <3>1. /\ DOMAIN position' = DOMAIN position \cup {name}
          /\ \A n \in DOMAIN position' :
                 position'[n] = IF n = name THEN g_instruction_pointer ELSE position[n]
      BY <2>3 DEF Labelled, Insert
    <3>2. Len(code) \in 0 .. Len(code)
      BY <2>1 DEF CodeInv
    <3>. QED  BY <2>1, <3>1, <3>2 DEF CodeInv
  <2>. QED  BY <1>1, <2>2, <2>3
<1>4. ListInv'
  BY <1>1 DEF Inv, ListInv, output
<1>5. CallInv'
  <2>1. CASE parser_pc' = "parsing"
    <3>1. /\ call' = CallOf(instruction') /\ encoder_pc' = "searching"
          /\ fields' = <<>> /\ encoding' = <<>> /\ bitlen' = 0 /\ patches' = <<>> /\ bytes' = <<>>
      BY <2>1 DEF ParseLine, StartEncoder
    <3>2. /\ instruction'.mnemonic \in Mnemonics \cup {"NULL"}
          /\ PP!IsOperand(instruction'.dst) /\ PP!IsOperand(instruction'.src)
      BY DEF Parsed, PP!Typed, PP!TypeOK
    <3>3. g_instruction_pointer \in Nat /\ \A name : Find(name) \in Int
      BY DEF Inv, CodeInv, Find, E!NoPosition
    <3>4. EP!IsCall(call')
      BY <3>1, <3>2, <3>3, CallMade DEF CallOf
    <3>5. EP!Inv' /\ EP!JumpInv'
      BY <3>1, <3>4 DEF EP!Inv, EP!JumpInv
    <3>6. instruction'.mnemonic # "NULL" => position' = position
      BY <1>1 DEF Labelled
    <3>7. call'.inst = instruction' /\ call'.ip = g_instruction_pointer'
          /\ (instruction'.mnemonic # "NULL" => call'.pos = Find(instruction.dst.label)')
      BY <1>1, <3>1, <3>6 DEF CallOf, Find, output
    <3>. QED  BY <3>1, <3>5, <3>7 DEF CallInv
  <2>2. CASE parser_pc' # "parsing"
    <3>1. UNCHANGED encoder
      BY <2>2 DEF ParseLine
    <3>. QED  BY <1>2, <2>2, <3>1, EncoderStays DEF Inv, CallInv
  <2>. QED  BY <2>1, <2>2
<1>6. LineInv'
  <2>1. phase' # "lines"
    BY <1>2
  <2>2. CASE phase' = "encode"
    <3>1. Accepted
      BY <1>1, <1>2, <2>2 DEF Accepted, Refused, Finished, Duplicate
    <3>2. lines' = IF instruction'.mnemonic = "NULL" THEN lines - 1 ELSE lines
      BY <3>1 DEF ParseLine, Accepted
    <3>3. lines' = Cardinality(Ends(idx))' + (IF instruction'.mnemonic = "NULL" THEN 0 ELSE 1)
      BY <1>1, <3>1, <3>2 DEF Accepted
    <3>. QED  BY <1>1, <2>1, <3>3 DEF LineInv
  <2>. QED  BY <1>1, <2>1, <2>2 DEF LineInv
<1>. QED  BY <1>3, <1>4, <1>5, <1>6 DEF Inv
--------------------------------------------------------------------------------
LEMMA EncodeInv ==
  ASSUME Inv, EncodeField
  PROVE  Inv'
<1>1. /\ phase = "encode" /\ EP!Next /\ UNCHANGED <<parser, position, output, i, lines>>
      /\ patches' # patches => ~Full
      /\ phase' = IF encoder_pc' = "aborted" THEN "unencodable" ELSE phase
  BY SameEncoder DEF EncodeField
<1>2. CodeInv' /\ ListInv'
  BY <1>1 DEF Inv, CodeInv, ListInv, output
<1>3. LineInv'
  <2>1. Ends(idx)' = Ends(idx)
    BY <1>1 DEF parser, Ends
  <2>2. phase' # "lines"
    BY <1>1
  <2>. QED  BY <1>1, <2>1, <2>2 DEF Inv, LineInv, parser
<1>4. EP!Inv' /\ EP!JumpInv' /\ call' = call
  BY <1>1, EP!StepInv, EP!StepJump, EP!SameCall, EncoderAssumptions DEF Inv, CallInv
<1>5. CallInv'
  <2>1. Full' = Full
    BY <1>1 DEF Full, output
  <2>2. Find(instruction.dst.label)' = Find(instruction.dst.label)
    BY <1>1 DEF Find, parser
  <2>3. patches' # <<>> => ~ Full
    BY <1>1 DEF Inv, CallInv
  <2>. QED  BY <1>1, <1>4, <2>1, <2>2, <2>3 DEF Inv, CallInv, parser, output
<1>. QED  BY <1>2, <1>3, <1>5 DEF Inv

(* The entry that a line adds to the list is the place of its jump.                   *)
LEMMA StoredEntry ==
  ASSUME Inv, Parsed, phase = "encode", encoder_pc = "done"
  PROVE  /\ IsJump(instruction) =>
                /\ JumpOf(instruction).at = Len(code) /\ JumpOf(instruction).kind \in {"jmp", "je"}
                /\ Len(bytes) = 1 + Width(JumpOf(instruction).kind)
         /\ patches # <<>> =>
                /\ ~ Full /\ IsJump(instruction)
                /\ \E e \in Entries : /\ patches = <<e>> /\ e.inst_pointer = Len(code) + 1
                                      /\ e.bytelen = Width(JumpOf(instruction).kind)
<1>1. /\ EP!JumpEncoded /\ EP!mnemonic = instruction.mnemonic /\ EP!dst = instruction.dst
      /\ call.ip = Len(code) /\ Len(code) \in Nat /\ g_instruction_pointer = Len(code)
      /\ patches # <<>> => ~ Full
  BY InHand, EP!InvJump, EncoderAssumptions DEF Inv, CallInv, CodeInv
<1>2. ASSUME IsJump(instruction)
      PROVE  /\ EP!IsJump /\ EP!OperandLen = Width(JumpOf(instruction).kind)
             /\ JumpOf(instruction).kind \in {"jmp", "je"} /\ JumpOf(instruction).at = Len(code)
  BY <1>1, <1>2, JumpStored DEF A!OperandLen, Width
<1>3. ASSUME IsJump(instruction) PROVE Len(bytes) = 1 + Width(JumpOf(instruction).kind)
  BY <1>1, <1>2, <1>3 DEF EP!JumpEncoded
<1>4. ASSUME patches # <<>>
      PROVE  /\ ~ Full /\ IsJump(instruction)
             /\ \E e \in Entries : /\ patches = <<e>> /\ e.inst_pointer = Len(code) + 1
                                   /\ e.bytelen = Width(JumpOf(instruction).kind)
  <2>1. instruction.mnemonic \in {"JMP", "JE"} /\ "LABEL" \in instruction.dst.kind
    BY <1>1, <1>4 DEF EP!JumpEncoded, EP!JumpNames
  <2>2. IsJump(instruction)
    BY <2>1 DEF IsJump
  <2>3. patches = <<EP!Place>>
    BY <1>1, <1>2, <1>4, <2>2 DEF EP!JumpEncoded
  <2>4. EP!Place = [inst_pointer |-> Len(code) + 1, labelname |-> instruction.dst.label,
                    bytelen |-> Width(JumpOf(instruction).kind)]
    BY <1>1, <1>2, <2>2 DEF EP!Place
  <2>5. instruction.dst.label \in Names /\ Width(JumpOf(instruction).kind) \in {1, 2}
    BY <2>1, LabelOperand DEF Width
  <2>6. EP!Place \in Entries
    BY <1>1, <2>4, <2>5 DEF Entries
  <2>. QED  BY <1>1, <1>4, <2>2, <2>3, <2>4, <2>6
<1>. QED  BY <1>2, <1>3, <1>4

LEMMA StoreInv ==
  ASSUME Inv, Parsed, StoreLine
  PROVE  Inv'
<1>1. /\ phase = "encode" /\ phase' = "lines" /\ encoder_pc \in {"done", "dropped"}
      /\ bytes \in Seq(0 .. 255) /\ Len(bytes) \in 0 .. 6
      /\ code' = code \o bytes /\ list_addrtopatch' = list_addrtopatch \o patches
      /\ g_instruction_pointer = Len(code) /\ g_instruction_pointer' = g_instruction_pointer + Len(bytes)
      /\ UNCHANGED <<token, idx, parser_pc, instruction, line, position, encoder, i>>
      /\ lines' = IF instruction.mnemonic = "NULL" THEN lines ELSE lines - 1
      /\ encoder_pc = "dropped" => bytes = <<>> /\ patches = <<>> /\ jumps' = jumps
      /\ encoder_pc = "done" =>
             jumps' = jumps \cup IF IsJump(instruction) THEN {JumpOf(instruction)} ELSE {}
  BY StoreFacts
<1>2. /\ code \in Seq(0 .. 255) /\ Len(code) \in Nat /\ CodeInv /\ ListInv
      /\ code' \in Seq(0 .. 255) /\ Len(code') = Len(code) + Len(bytes)
  BY <1>1 DEF Inv, CodeInv
<1>3. \/ jumps' = jumps
      \/ /\ encoder_pc = "done" /\ IsJump(instruction)
         /\ jumps' = jumps \cup {JumpOf(instruction)}
         /\ JumpOf(instruction).at = Len(code) /\ JumpOf(instruction).kind \in {"jmp", "je"}
         /\ Len(bytes) = 1 + Width(JumpOf(instruction).kind)
  BY <1>1, StoredEntry
<1>4. CodeInv'
  <2>1. \A j \in jumps' : /\ j.at \in Nat /\ j.kind \in {"jmp", "je"}
                          /\ j.at + 1 + Width(j.kind) <= Len(code')
    <3>. SUFFICES ASSUME NEW j \in jumps' PROVE /\ j.at \in Nat /\ j.kind \in {"jmp", "je"}
                                                /\ j.at + 1 + Width(j.kind) <= Len(code')
      OBVIOUS
    <3>1. CASE j \in jumps
      <4>1. j.at \in Nat /\ j.kind \in {"jmp", "je"} /\ j.at + 1 + Width(j.kind) <= Len(code)
        BY <1>2, <3>1 DEF CodeInv
      <4>2. Width(j.kind) \in Nat
        BY DEF Width
      <4>. QED  BY <1>1, <1>2, <4>1, <4>2
    <3>2. CASE j \notin jumps
      <4>1. j.at = Len(code) /\ j.kind \in {"jmp", "je"} /\ Len(bytes) = 1 + Width(j.kind)
        BY <1>3, <3>2
      <4>2. Width(j.kind) \in Nat
        BY DEF Width
      <4>. QED  BY <1>2, <4>1, <4>2
    <3>. QED  BY <3>1, <3>2
  <2>2. \A n \in DOMAIN position : position[n] \in 0 .. Len(code')
    <3>1. \A n \in DOMAIN position : position[n] \in 0 .. Len(code)
      BY <1>2 DEF CodeInv
    <3>. QED  BY <1>1, <1>2, <3>1
  <2>. QED  BY <1>1, <1>2, <2>1, <2>2 DEF CodeInv
<1>5. ListInv'
  <2>1. jumps \subseteq jumps'
    BY <1>3
  <2>2. CASE patches = <<>>
    <3>1. list_addrtopatch' = list_addrtopatch
      BY <1>1, <1>2, <2>2 DEF ListInv
    <3>. QED  BY <1>1, <1>2, <2>1, <3>1 DEF ListInv
  <2>3. CASE patches # <<>>
    <3>. DEFINE L == list_addrtopatch
                j == JumpOf(instruction)
    <3>1. encoder_pc = "done" /\ ~ Full /\ IsJump(instruction)
      BY <1>1, <2>3, StoredEntry
    <3>2. PICK e \in Entries : patches = <<e>> /\ e.inst_pointer = Len(code) + 1 /\ e.bytelen = Width(j.kind)
      BY <1>1, <2>3, StoredEntry
    <3>3. j \in jumps' /\ j.at = Len(code)
      BY <1>1, <3>1, StoredEntry
    <3>4. /\ L \in Seq(Entries) /\ Len(L) <= PatchLen /\ Len(L) # PatchLen /\ Len(L) \in Nat
          /\ PatchLen \in Nat /\ i \in 0 .. Len(L)
      BY <1>2, <3>1, BoundsAssumption DEF ListInv, Full
    <3>5. L' = Append(L, e)
      BY <1>1, <3>2, <3>4
    <3>. HIDE DEF L, j
    <3>6. /\ L' \in Seq(Entries) /\ Len(L') = Len(L) + 1 /\ L'[Len(L) + 1] = e
          /\ \A k \in 1 .. Len(L) : L'[k] = L[k]
      BY <3>4, <3>5
    <3>7. \A k \in 1 .. Len(L') : \E m \in jumps' : L'[k].inst_pointer = m.at + 1 /\ L'[k].bytelen = Width(m.kind)
      <4>. SUFFICES ASSUME NEW k \in 1 .. Len(L')
                    PROVE \E m \in jumps' : L'[k].inst_pointer = m.at + 1 /\ L'[k].bytelen = Width(m.kind)
        OBVIOUS
      <4>1. CASE k = Len(L) + 1
        BY <3>2, <3>3, <3>6, <4>1
      <4>2. CASE k # Len(L) + 1
        <5>1. k \in 1 .. Len(L)
          BY <3>4, <3>6, <4>2
        <5>2. \E m \in jumps : L[k].inst_pointer = m.at + 1 /\ L[k].bytelen = Width(m.kind)
          BY <1>2, <5>1 DEF ListInv, L
        <5>. QED  BY <2>1, <3>6, <5>1, <5>2
      <4>. QED  BY <4>1, <4>2
    <3>8. Len(L') <= PatchLen /\ i' \in 0 .. Len(L')
      BY <1>1, <3>4, <3>6
    <3>. QED  BY <3>6, <3>7, <3>8 DEF ListInv, L
  <2>. QED  BY <2>2, <2>3
<1>6. CallInv'
  BY <1>1, EncoderStays DEF Inv, CallInv
<1>7. LineInv'
  <2>1. Ends(idx)' = Ends(idx)
    BY <1>1 DEF Ends
  <2>2. Cardinality(Ends(idx)) \in Nat
    <3>1. idx \in Nat \ {0} /\ PP!Typed
      BY DEF Parsed, PP!Typed, PP!TypeOK
    <3>. QED  BY <3>1, EndsFinite
  <2>. QED  BY <1>1, <2>1, <2>2 DEF Inv, LineInv
<1>. QED  BY <1>4, <1>5, <1>6, <1>7 DEF Inv

(* The steps after the lines, and the assertion of the list.                          *)
LEMMA EndInv ==
  ASSUME Inv, \/ PatchListFull \/ PatchAbort \/ Write \/ UNCHANGED vars
  PROVE  Inv'
<1>1. UNCHANGED <<parser, position, encoder, output, i, lines>>
  BY DEF PatchListFull, PatchAbort, Write, vars
<1>2. phase' = phase \/ phase' \notin {"lines", "encode"}
  BY DEF PatchListFull, PatchAbort, Write, vars
<1>3. CodeInv' /\ ListInv'
  BY <1>1 DEF Inv, CodeInv, ListInv, output
<1>4. Ends(idx)' = Ends(idx) /\ Full' = Full /\ Find(instruction.dst.label)' = Find(instruction.dst.label)
  BY <1>1 DEF Ends, Full, Find, parser, output
<1>5. LineInv'
  BY <1>1, <1>2, <1>4 DEF Inv, LineInv, parser
<1>6. EP!Inv' /\ EP!JumpInv'
  BY <1>1, EncoderStays DEF Inv, CallInv
<1>7. CallInv'
  BY <1>1, <1>2, <1>4, <1>6 DEF Inv, CallInv, parser, encoder, output
<1>. QED  BY <1>3, <1>5, <1>7 DEF Inv

LEMMA PatchInv ==
  ASSUME Inv, PatchNext
  PROVE  Inv'
<1>1. /\ phase = "patch" /\ phase' = "patch" /\ i < Len(list_addrtopatch) /\ i' = i + 1
      /\ UNCHANGED <<parser, position, encoder, g_instruction_pointer, list_addrtopatch, jumps, lines>>
  BY DEF PatchNext, Patching
<1>. DEFINE diff == (address_to_write - (start_write + addr.bytelen)) % 65536
<1>2. code' = [p \in DOMAIN code |->
                  IF p = start_write + 1 THEN diff % 256
                  ELSE IF p = start_write + 2 /\ addr.bytelen = 2 THEN diff \div 256 ELSE code[p]]
  BY DEF PatchNext
<1>3. diff % 256 \in 0 .. 255 /\ diff \div 256 \in 0 .. 255
  <2>1. address_to_write - (start_write + addr.bytelen) \in Int
    <3>1. i + 1 \in 1 .. Len(list_addrtopatch) /\ list_addrtopatch \in Seq(Entries)
      BY <1>1 DEF Inv, ListInv
    <3>2. addr \in Entries
      BY <3>1 DEF addr
    <3>3. addr.inst_pointer \in Nat /\ addr.bytelen \in Nat
      BY <3>2 DEF Entries
    <3>4. Find(addr.labelname) \in Int
      BY DEF Inv, CodeInv, Find, E!NoPosition
    <3>5. start_write \in Int /\ address_to_write \in Int
      BY <3>3, <3>4 DEF start_write, address_to_write
    <3>. QED  BY <3>3, <3>5
  <2>. DEFINE value == address_to_write - (start_write + addr.bytelen)
  <2>2. value \in Int
    BY <2>1
  <2>. HIDE DEF value
  <2>3. (value % 65536) % 256 \in 0 .. 255 /\ (value % 65536) \div 256 \in 0 .. 255
    BY <2>2
  <2>. QED  BY <2>3 DEF value
<1>. HIDE DEF diff
<1>4. CodeInv'
  <2>1. code' \in Seq(0 .. 255) /\ Len(code') = Len(code)
    <3>1. code \in Seq(0 .. 255) /\ DOMAIN code = 1 .. Len(code) /\ Len(code) \in Nat
      BY DEF Inv, CodeInv
    <3>2. \A p \in 1 .. Len(code) : code[p] \in 0 .. 255
      BY <3>1, ElementOfSeq
    <3>3. /\ DOMAIN code' = 1 .. Len(code)
          /\ \A p \in 1 .. Len(code) : code'[p] \in {diff % 256, diff \div 256, code[p]}
          /\ code' = [p \in 1 .. Len(code) |-> code'[p]]
      <4>1. code' = [p \in 1 .. Len(code) |->
                        IF p = start_write + 1 THEN diff % 256
                        ELSE IF p = start_write + 2 /\ addr.bytelen = 2 THEN diff \div 256 ELSE code[p]]
        BY <1>2, <3>1, Zenon
      <4>2. DOMAIN code' = 1 .. Len(code)
        BY <4>1, Zenon
      <4>3. \A p \in 1 .. Len(code) : code'[p] \in {diff % 256, diff \div 256, code[p]}
        BY <4>1, Zenon
      <4>4. code' = [p \in 1 .. Len(code) |-> code'[p]]
        BY <4>1, <4>2
      <4>. QED  BY <4>2, <4>3, <4>4
    <3>4. \A p \in 1 .. Len(code) : code'[p] \in 0 .. 255
      BY <1>3, <3>2, <3>3
    <3>5. code' \in [1 .. Len(code) -> 0 .. 255]
      BY <3>3, <3>4
    <3>6. code' \in Seq(0 .. 255)
      <4>. DEFINE n == Len(code)
                  S == 0 .. 255
      <4>1. n \in Nat /\ code' \in [1 .. n -> S]
        BY <3>1, <3>5
      <4>. HIDE DEF n, S
      <4>2. code' \in UNION {[1 .. k -> S] : k \in Nat}
        BY ONLY <4>1, Zenon
      <4>3. code' \in Seq(S)
        BY ONLY <4>2, SeqDef, Zenon
      <4>. QED  BY <4>3 DEF S
    <3>7. Len(code') \in Nat /\ DOMAIN code' = 1 .. Len(code')
      BY <3>6, LenProperties
    <3>. DEFINE n == Len(code)
                m == Len(code')
    <3>8. n \in Nat /\ m \in Nat /\ 1 .. n = 1 .. m
      BY <3>1, <3>3, <3>7
    <3>. HIDE DEF n, m
    <3>9. n = m
      <4>1. \A k \in Int : 1 <= k /\ k <= n <=> 1 <= k /\ k <= m
        <5>. SUFFICES ASSUME NEW k \in Int PROVE k \in 1 .. n <=> k \in 1 .. m
          BY <3>8
        <5>. QED  BY <3>8, Zenon
      <4>. QED  BY <3>8, <4>1
    <3>. QED  BY <3>6, <3>9 DEF n, m
  <2>. QED  BY <1>1, <2>1 DEF Inv, CodeInv
<1>5. ListInv'
  BY <1>1 DEF Inv, ListInv
<1>6. LineInv'
  BY <1>1 DEF Inv, LineInv, parser
<1>7. CallInv'
  BY <1>1, EncoderStays DEF Inv, CallInv
<1>. QED  BY <1>4, <1>5, <1>6, <1>7 DEF Inv

LEMMA StepInv == Inv /\ Parsed /\ Parsed' /\ [Next]_vars => Inv'
BY ParseInv, EncodeInv, StoreInv, EndInv, PatchInv DEF Next
--------------------------------------------------------------------------------
(* Pipeline's parser is Parser: what is proved of it holds here.                      *)
LEMMA StepParses == [Next]_vars => [PP!Next]_(PP!vars)
<1>1. P!Next => PP!Next
  BY SameParser
<1>2. ParseLine => PP!Next
  BY <1>1 DEF ParseLine
<1>3. UNCHANGED <<parser, position>> => UNCHANGED PP!vars
  BY DEF parser, PP!vars
<1>. QED
  BY <1>2, <1>3 DEF Next, vars, EncodeField, PatchListFull, StoreLine, Store, PatchNext, PatchAbort, Write

LEMMA ParserRuns == Spec => PP!Spec
<1>1. Init => PP!Init
  BY SameParser DEF Init
<1>. QED  BY <1>1, StepParses, PTL DEF Spec, PP!Spec

LEMMA AlwaysParsed == Spec => []Parsed
<1>1. PP!Spec => []PP!Typed
  BY PP!AlwaysTyped, ParserAssumptions
<1>2. PP!Spec => []PP!LinesInGrammar
  BY PP!GrammarCorrect, ParserAssumptions
<1>3. PP!Spec => []PP!TargetsInText
  BY PP!TargetsCorrect, ParserAssumptions
<1>. QED  BY <1>1, <1>2, <1>3, ParserRuns, PTL DEF Parsed

LEMMA Invariance == Spec => []Inv
  BY InitInv, StepInv, AlwaysParsed, PTL DEF Spec

(* The composition implements Assembler for every program: a line is a block, a label*)
(* or a jump of Assembler, whatever it says and however codegen makes it up of fields,*)
(* and the patch loop on bytes is the one on operands (asm8086.c:51-115;             *)
(* parser.c:661-760; codegen.c:3-413).                                               *)
THEOREM AssemblerImplemented == Spec /\ OneSegment /\ []InBounds => ImplementsAssembler
<1>. SUFFICES ASSUME OneSegment PROVE Spec /\ []InBounds => ImplementsAssembler
  OBVIOUS
<1>1. Inv /\ Parsed /\ Parsed' /\ InBounds /\ InBounds' /\ [Next]_vars => [A!Next]_(A!vars)
  BY StepMaps DEF InBounds
<1>. QED  BY <1>1, InitMaps, Invariance, AlwaysParsed, PTL DEF Spec, ImplementsAssembler
--------------------------------------------------------------------------------
(* A, the Assembler of Pipeline, is AP, the one of AssemblerProofs.                  *)
LEMMA SameAssembler ==
  /\ A!Init => AP!Init
  /\ A!Next => AP!Next
  /\ UNCHANGED A!vars => UNCHANGED AP!vars
<1>1. A!Init => AP!Init
  BY DEF A!Init, AP!Init
<1>2. UNCHANGED A!vars => UNCHANGED AP!vars
  BY DEF A!vars, AP!vars
<1>3. /\ A!Kinds = AP!Kinds /\ A!Word = AP!Word
      /\ \A v : A!LowByte(v) = AP!LowByte(v) /\ A!HighByte(v) = AP!HighByte(v)
      /\ \A k : A!OperandLen(k) = AP!OperandLen(k) /\ A!JumpLen(k) = AP!JumpLen(k)
  <2>1. A!Kinds = AP!Kinds /\ A!Word = AP!Word
    BY DEF A!Kinds, AP!Kinds, A!Word, AP!Word
  <2>2. \A v : A!LowByte(v) = AP!LowByte(v) /\ A!HighByte(v) = AP!HighByte(v)
    BY DEF A!LowByte, AP!LowByte, A!HighByte, AP!HighByte
  <2>3. \A k : A!OperandLen(k) = AP!OperandLen(k)
    BY Zenon DEF A!OperandLen, AP!OperandLen
  <2>4. \A k : A!JumpLen(k) = AP!JumpLen(k)
    BY <2>3 DEF A!JumpLen, AP!JumpLen
  <2>. QED  BY <2>1, <2>2, <2>3, <2>4
<1>4. \A at, len, v : A!Store(at, len, v) = AP!Store(at, len, v)
  BY <1>3, Zenon DEF A!Store, AP!Store
<1>5. \A n : A!ReadLine(n) => AP!ReadLine(n)
  BY DEF A!ReadLine, AP!ReadLine
<1>6. \A kind, to, v : A!EmitJump(kind, to, v) => AP!EmitJump(kind, to, v)
  BY <1>3, <1>4, <1>5 DEF A!EmitJump, AP!EmitJump
<1>7. A!Abort => AP!Abort
  BY DEF A!Abort, AP!Abort
<1>8. A!addr = AP!addr /\ A!start_write = AP!start_write /\ A!address_to_write = AP!address_to_write
  BY <1>3, Zenon DEF A!addr, AP!addr, A!start_write, AP!start_write, A!address_to_write, AP!address_to_write
<1>9. \A n : A!ReadBlock(n) => AP!ReadBlock(n)
  BY <1>5 DEF A!ReadBlock, AP!ReadBlock
<1>10. \A n : /\ A!DefineLabel(n) => AP!DefineLabel(n)
              /\ A!DuplicateLabel(n) => AP!DuplicateLabel(n)
              /\ A!PatchListFull(n) => AP!PatchListFull(n)
  BY <1>5, <1>7 DEF A!DefineLabel, AP!DefineLabel, A!DuplicateLabel, AP!DuplicateLabel,
     A!PatchListFull, AP!PatchListFull
<1>11. \A kind, n : A!JumpToKnown(kind, n) => AP!JumpToKnown(kind, n)
  BY <1>3, <1>6 DEF A!JumpToKnown, AP!JumpToKnown
<1>12. \A kind, n : A!JumpToUnknown(kind, n) => AP!JumpToUnknown(kind, n)
  BY <1>3, <1>6 DEF A!JumpToUnknown, AP!JumpToUnknown
<1>13. \A kind, n : A!JumpToNumber(kind, n) => AP!JumpToNumber(kind, n)
  BY <1>3, <1>6 DEF A!JumpToNumber, AP!JumpToNumber
<1>14. (A!RejectLine => AP!RejectLine) /\ (A!Unencodable => AP!Unencodable) /\ (A!EndOfInput => AP!EndOfInput)
  BY DEF A!RejectLine, AP!RejectLine, A!Unencodable, AP!Unencodable, A!EndOfInput, AP!EndOfInput
<1>15. (A!PatchNext => AP!PatchNext)
  BY <1>4, <1>8 DEF A!PatchNext, AP!PatchNext
<1>16. (A!PatchAbort => AP!PatchAbort) /\ (A!Write => AP!Write)
  BY <1>7, <1>8 DEF A!PatchAbort, AP!PatchAbort, A!Write, AP!Write
<1>. QED  BY <1>1, <1>2, <1>3, <1>9, <1>10, <1>11, <1>12, <1>13, <1>14, <1>15, <1>16 DEF A!Next, AP!Next

LEMMA SameLanding == AP!JumpsLand => A!JumpsLand
<1>1. \A j : A!Waits(j) <=> AP!Waits(j)
  BY Zenon DEF A!Waits, AP!Waits
<1>2. \A j : A!Target(j) = AP!Target(j)
  BY Zenon DEF A!Target, AP!Target
<1>3. \A k : A!OperandLen(k) = AP!OperandLen(k) /\ A!JumpLen(k) = AP!JumpLen(k)
  BY DEF A!OperandLen, AP!OperandLen, A!JumpLen, AP!JumpLen
<1>4. \A j : A!Reaches(j) => AP!Reaches(j)
  BY <1>2, <1>3 DEF A!Reaches, AP!Reaches
<1>5. \A j : A!Displacement(j) = AP!Displacement(j)
  BY DEF A!Displacement, AP!Displacement
<1>6. \A j : A!Landing(j) = AP!Landing(j)
  BY <1>3, <1>5 DEF A!Landing, AP!Landing, A!Word, AP!Word
<1>7. \A j : AP!Lands(j) => A!Lands(j)
  BY <1>2, <1>6 DEF A!Lands, AP!Lands, A!Word, AP!Word
<1>. QED  BY <1>1, <1>4, <1>7 DEF A!JumpsLand, AP!JumpsLand

LEMMA SameList == AP!PatchListExact => A!PatchListExact
<1>1. \A k : A!OperandLen(k) = AP!OperandLen(k)
  BY Zenon DEF A!OperandLen, AP!OperandLen
<1>2. A!ForwardJumps = AP!ForwardJumps
  BY Zenon DEF A!ForwardJumps, AP!ForwardJumps
<1>3. \A j : A!Entry(j) = AP!Entry(j)
  BY <1>1, Zenon DEF A!Entry, AP!Entry
<1>. QED  BY <1>2, <1>3, Zenon DEF A!PatchListExact, AP!PatchListExact

(* What is invariant of Assembler is invariant of the composition.                   *)
LEMMA AssemblerInv == Spec /\ OneSegment /\ []InBounds => []AP!Inv
<1>. SUFFICES ASSUME OneSegment PROVE Spec /\ []InBounds => []AP!Inv
  OBVIOUS
<1>1. AP!Init => AP!Inv
  BY AP!InitInv, AssemblerAssumptions DEF OneSegment, AP!OneSegment, AP!Word
<1>2. AP!Inv /\ [AP!Next]_(AP!vars) => AP!Inv'
  BY AP!StepInv, AssemblerAssumptions
<1>3. [A!Next]_(A!vars) => [AP!Next]_(AP!vars)
  BY SameAssembler
<1>4. A!Init => AP!Init
  BY SameAssembler
<1>. QED  BY <1>1, <1>2, <1>3, <1>4, AssemblerImplemented, PTL DEF ImplementsAssembler

(* In the bytes that main writes every jump that can reach its target lands on it;   *)
(* before that all do but those that wait for the patch loop (asm8086.c:51-115).     *)
THEOREM JumpsLand == Spec /\ OneSegment /\ []InBounds => []A!JumpsLand
<1>1. AP!Inv => AP!JumpsLand
  BY DEF AP!Inv
<1>. QED  BY <1>1, SameLanding, AssemblerInv, PTL

(* list_addrtopatch holds each jump to a label that comes after it once, with its place*)
(* and width, and no other entry (codegen.c:327-338, 358-370; asm8086.c:85-110).     *)
THEOREM PatchListExact == Spec /\ OneSegment /\ []InBounds => []A!PatchListExact
<1>1. AP!Inv => AP!PatchListExact
  BY AP!ListIsExact, AssemblerAssumptions
<1>. QED  BY <1>1, SameList, AssemblerInv, PTL
--------------------------------------------------------------------------------
(* The instructions tile the code.                                                    *)
TileInv ==
    /\ \E S : listing \in Seq(S)
    /\ \A k \in 1 .. Len(listing) : listing[k].at \in Nat
    /\ Tiled

LEMMA InitTile == Init => TileInv
<1>1. <<>> \in Seq({})
  OBVIOUS
<1>. QED  BY <1>1 DEF Init, TileInv, Tiled

(* Nothing is stored.                                                                *)
LEMMA SameTile ==
  ASSUME TileInv, Len(code') = Len(code), (code' # <<>> => code # <<>>), listing' = listing,
         \A name \in DOMAIN position' :
             \/ name \in DOMAIN position /\ position'[name] = position[name]
             \/ position'[name] = Len(code)
  PROVE  TileInv'
<1>1. \A k : EndOf(k)' = EndOf(k)
  BY DEF EndOf
<1>. QED  BY <1>1 DEF TileInv, Tiled

(* The instruction that is stored goes where the code ended.                         *)
LEMMA StoreTile ==
  ASSUME Inv, Parsed, TileInv, StoreLine
  PROVE  TileInv'
<1>1. /\ encoder_pc \in {"done", "dropped"} /\ bytes \in Seq(0 .. 255) /\ Len(bytes) \in 0 .. 6
      /\ code' = code \o bytes /\ g_instruction_pointer = Len(code)
      /\ position' = position
      /\ encoder_pc = "dropped" => bytes = <<>>
      /\ code \in Seq(0 .. 255) /\ Len(code) \in Nat
      /\ IF encoder_pc = "done"
         THEN listing' = Append(listing, [at |-> Len(code), inst |-> instruction])
         ELSE listing' = listing
  BY StoreFacts DEF StoreLine, Store, Inv, CodeInv
<1>2. CASE encoder_pc = "dropped"
  <2>1. code' = code
    BY <1>1, <1>2
  <2>. QED  BY <1>1, <1>2, <2>1, SameTile
<1>3. CASE encoder_pc = "done"
  <2>. DEFINE e == [at |-> Len(code), inst |-> instruction]
              n == Len(listing)
  <2>1. Len(bytes) \in 1 .. 6
    <3>1. bitlen = Len(encoding) /\ bitlen > 0 /\ Len(encoding) = 8 * Len(bytes)
      BY <1>3, EP!InvWhole, EP!InvStored, EncoderAssumptions DEF Inv, CallInv, EP!WholeBytes, EP!BitsStored
    <3>. QED  BY <1>1, <3>1
  <2>2. Len(code') = Len(code) + Len(bytes)
    BY <1>1
  <2>3. PICK S : listing \in Seq(S)
    BY DEF TileInv
  <2>4. listing \in Seq(S \cup {e}) /\ n \in Nat
    BY <2>3, SeqMonotonic
  <2>5. listing' = Append(listing, e)
    BY <1>1, <1>3
  <2>6. e.at = Len(code)
    OBVIOUS
  <2>. HIDE DEF e
  <2>7. /\ listing' \in Seq(S \cup {e}) /\ Len(listing') = n + 1 /\ listing'[n + 1] = e
         /\ \A k \in 1 .. n : listing'[k] = listing[k]
    BY <2>4, <2>5
  <2>. HIDE DEF n
  <2>8. ASSUME NEW k \in 1 .. n + 1 PROVE listing'[k].at \in Nat /\ EndOf(k)' - listing'[k].at \in 1 .. 6
    <3>1. CASE k = n + 1
      <4>1. EndOf(k)' = Len(code) + Len(bytes) /\ listing'[k].at = Len(code)
        BY <2>2, <2>7, <2>6, <3>1 DEF EndOf
      <4>. DEFINE c == Len(code)
                  b == Len(bytes)
      <4>2. c \in Nat /\ b \in 1 .. 6
        BY <1>1, <2>1
      <4>. HIDE DEF c, b
      <4>3. c \in Nat /\ (c + b) - c \in 1 .. 6
        BY <4>2
      <4>. QED  BY <4>1, <4>3 DEF c, b
    <3>2. CASE k # n + 1
      <4>1. k \in 1 .. n
        BY <2>4, <3>2
      <4>2. EndOf(k)' = EndOf(k)
        <5>1. CASE k = n
          BY <2>4, <2>7, <2>6, <4>1, <5>1 DEF EndOf, n
        <5>2. CASE k # n
          <6>1. k + 1 \in 1 .. n /\ k # n + 1
            BY <2>4, <4>1, <5>2
          <6>. QED  BY <2>7, <5>2, <6>1 DEF EndOf, n
        <5>. QED  BY <5>1, <5>2
      <4>3. listing[k].at \in Nat /\ EndOf(k) - listing[k].at \in 1 .. 6
        BY <4>1 DEF TileInv, Tiled, n
      <4>. QED  BY <2>7, <4>1, <4>2, <4>3
    <3>. QED  BY <3>1, <3>2
  <2>9. listing' # <<>> /\ listing'[1].at = 0
    <3>1. CASE n = 0
      <4>1. listing = <<>>
        BY <2>4, <3>1 DEF n
      <4>2. code = <<>>
        BY <4>1 DEF TileInv, Tiled
      <4>. QED  BY <2>7, <2>6, <3>1, <4>2
    <3>2. CASE n # 0
      <4>1. 1 \in 1 .. n /\ n \in Nat
        BY <2>4, <3>2
      <4>2. listing'[1] = listing[1]
        BY <2>7, <4>1
      <4>3. listing[1].at = 0
        <5>1. CASE code # <<>>
          BY <5>1 DEF TileInv, Tiled
        <5>2. CASE code = <<>>
          <6>1. EndOf(n) = 0
            BY <5>2 DEF EndOf, n
          <6>2. n \in 1 .. n
            BY <2>4, <3>2
          <6>3. listing[n].at \in Nat /\ EndOf(n) - listing[n].at \in 1 .. 6
            BY <6>2 DEF TileInv, Tiled, n
          <6>. QED  BY <6>1, <6>3
        <5>. QED  BY <5>1, <5>2
      <4>. QED  BY <2>4, <2>7, <4>2, <4>3
    <3>. QED  BY <3>1, <3>2
  <2>10. \A name \in DOMAIN position :
            position[name] \in {listing'[k].at : k \in 1 .. n + 1} \cup {Len(code')}
    <3>. SUFFICES ASSUME NEW name \in DOMAIN position
                  PROVE \E k \in 1 .. n + 1 : position[name] = listing'[k].at
      OBVIOUS
    <3>1. position[name] \in {listing[k].at : k \in 1 .. n} \cup {Len(code)}
      BY DEF TileInv, Tiled, n
    <3>2. CASE position[name] = Len(code)
      BY <2>4, <2>7, <2>6, <3>2
    <3>3. CASE \E k \in 1 .. n : position[name] = listing[k].at
      <4>1. PICK k \in 1 .. n : position[name] = listing[k].at
        BY <3>3
      <4>2. k \in 1 .. n + 1 /\ listing'[k] = listing[k]
        BY <2>4, <2>7
      <4>. QED  BY <4>1, <4>2
    <3>. QED  BY <3>1, <3>2, <3>3
  <2>11. Tiled'
    BY <1>1, <2>7, <2>8, <2>9, <2>10 DEF Tiled
  <2>. QED  BY <2>7, <2>8, <2>11 DEF TileInv
<1>. QED  BY <1>1, <1>2, <1>3

LEMMA StepTile == Inv /\ Inv' /\ Parsed /\ Parsed' /\ TileInv /\ [Next]_vars => TileInv'
<1>. SUFFICES ASSUME Inv, Inv', Parsed, Parsed', TileInv, [Next]_vars PROVE TileInv'
  OBVIOUS
<1>1. CASE ParseLine
  <2>1. code' = code /\ listing' = listing /\ g_instruction_pointer = Len(code)
    BY <1>1 DEF ParseLine, output, Inv, CodeInv
  <2>2. position' = position \/ \E name \in Names : position' = Insert(name)
    BY <1>1, RoundFacts DEF Labelled
  <2>3. \A n \in DOMAIN position' :
            \/ n \in DOMAIN position /\ position'[n] = position[n]
            \/ position'[n] = Len(code)
    BY <2>1, <2>2 DEF Insert
  <2>. QED  BY <2>1, <2>3, SameTile
<1>2. CASE EncodeField \/ PatchListFull \/ PatchAbort \/ Write \/ UNCHANGED vars
  <2>1. code' = code /\ listing' = listing /\ position' = position
    BY <1>2 DEF EncodeField, PatchListFull, PatchAbort, Write, vars, output
  <2>. QED  BY <2>1, SameTile
<1>3. CASE PatchNext
  <2>1. /\ g_instruction_pointer' = g_instruction_pointer /\ listing' = listing /\ position' = position
        /\ g_instruction_pointer = Len(code) /\ g_instruction_pointer' = Len(code')
        /\ code \in Seq(0 .. 255) /\ code' \in Seq(0 .. 255)
    BY <1>3 DEF PatchNext, Inv, CodeInv
  <2>. QED  BY <2>1, SameTile
<1>4. CASE StoreLine
  BY <1>4, StoreTile
<1>. QED  BY <1>1, <1>2, <1>3, <1>4 DEF Next

(* The code is one instruction after the other, of 1 to 6 bytes each, and a label is *)
(* the beginning of one or the end of the code, at all times and however long the code*)
(* (asm8086.c:51-76; parser.c:730-742).                                              *)
THEOREM TilingCorrect == Spec => []Tiled
<1>1. TileInv => Tiled
  BY DEF TileInv
<1>. QED  BY <1>1, InitTile, StepTile, Invariance, AlwaysParsed, PTL DEF Spec
--------------------------------------------------------------------------------
(* No line makes more than 6 bytes.                                                  *)
Spent    == g_instruction_pointer + 6 * lines <= 6 * MaxLines /\ lines \in Nat

LEMMA InitSpent == Init => Spent
<1>. SUFFICES ASSUME Init PROVE Spent
  OBVIOUS
<1>1. A!Init
  BY InitMaps
<1>2. lines \in 0 .. MaxLines /\ g_instruction_pointer = 0
  BY <1>1 DEF A!Init
<1>. QED  BY <1>2, BoundsAssumption DEF Spent

LEMMA SpentLess ==
  ASSUME NEW g \in Nat, NEW n \in Nat, NEW m \in Nat, NEW b \in 0 .. 6, n > 0, g + 6 * n <= 6 * m
  PROVE  (g + b) + 6 * (n - 1) <= 6 * m /\ g + 6 * (n - 1) <= 6 * m /\ n - 1 \in Nat
OBVIOUS

LEMMA StepSpent == Inv /\ Inv' /\ Parsed /\ Parsed' /\ Spent /\ [Next]_vars => Spent'
<1>. SUFFICES ASSUME Inv, Inv', Parsed, Parsed', Spent, [Next]_vars PROVE Spent'
  OBVIOUS
<1>1. g_instruction_pointer \in Nat /\ lines \in Nat /\ MaxLines \in Nat
  BY BoundsAssumption DEF Inv, CodeInv, Spent
<1>2. CASE ParseLine
  <2>1. /\ g_instruction_pointer' = g_instruction_pointer
        /\ lines' \in {lines, lines - 1} /\ lines = Cardinality(Ends(idx))
        /\ lines' # lines => parser_pc' \in {"refused", "parsing"}
    BY <1>2 DEF ParseLine, output, Inv, LineInv
  <2>2. lines' # lines => lines > 0
    BY <1>2, <2>1, RoundFacts DEF Accepted, Refused, Finished, Duplicate
  <2>3. ASSUME lines > 0 PROVE g_instruction_pointer + 6 * (lines - 1) <= 6 * MaxLines /\ lines - 1 \in Nat
    <3>1. 0 \in 0 .. 6
      OBVIOUS
    <3>. QED  BY <1>1, <2>3, <3>1, SpentLess DEF Spent
  <2>. QED  BY <2>1, <2>2, <2>3 DEF Spent
<1>3. CASE StoreLine
  <2>1. /\ g_instruction_pointer' = g_instruction_pointer + Len(bytes) /\ Len(bytes) \in 0 .. 6
        /\ lines' = IF instruction.mnemonic = "NULL" THEN lines ELSE lines - 1
        /\ instruction.mnemonic = "NULL" => bytes = <<>>
        /\ phase = "encode"
    BY <1>3, StoreFacts
  <2>2. instruction.mnemonic # "NULL" => lines > 0
    BY <2>1, InHand
  <2>3. instruction.mnemonic = "NULL" => Len(bytes) = 0
    BY <2>1
  <2>4. CASE instruction.mnemonic = "NULL"
    <3>1. g_instruction_pointer' = g_instruction_pointer /\ lines' = lines
      BY <1>1, <2>1, <2>3, <2>4
    <3>. QED  BY <3>1 DEF Spent
  <2>5. CASE instruction.mnemonic # "NULL"
    <3>1. (g_instruction_pointer + Len(bytes)) + 6 * (lines - 1) <= 6 * MaxLines /\ lines - 1 \in Nat
      BY <1>1, <2>1, <2>2, <2>5, SpentLess DEF Spent
    <3>. QED  BY <2>1, <2>5, <3>1 DEF Spent
  <2>. QED  BY <2>4, <2>5
<1>4. CASE EncodeField \/ PatchListFull \/ PatchNext \/ PatchAbort \/ Write \/ UNCHANGED vars
  <2>1. g_instruction_pointer' = g_instruction_pointer /\ lines' = lines
    BY <1>4 DEF EncodeField, PatchListFull, PatchNext, PatchAbort, Write, vars, output
  <2>. QED  BY <2>1 DEF Spent
<1>. QED  BY <1>2, <1>3, <1>4 DEF Next

LEMMA SpentFits == LinesFit /\ Inv /\ Spent => InBounds
<1>. SUFFICES ASSUME LinesFit, Inv, Spent PROVE InBounds
  OBVIOUS
<1>1. g_instruction_pointer \in Nat /\ lines \in Nat /\ MaxLines \in Nat /\ MaxCode \in Nat
  BY BoundsAssumption DEF Inv, CodeInv, Spent
<1>. QED  BY <1>1 DEF Spent, LinesFit, InBounds

LEMMA StaysInBounds == Spec /\ LinesFit => []InBounds
<1>. SUFFICES ASSUME LinesFit PROVE Spec => []InBounds
  OBVIOUS
<1>. QED  BY SpentFits, InitSpent, StepSpent, Invariance, AlwaysParsed, PTL DEF Spec

(* Without a condition on what happens: a program whose lines fit in a segment, at 6 *)
(* bytes each, is assembled as Assembler says and its jumps land.                    *)
THEOREM AllLinesFit == Spec /\ OneSegment /\ LinesFit => ImplementsAssembler /\ []A!JumpsLand
BY StaysInBounds, AssemblerImplemented, JumpsLand, PTL

(* Parser, codegen and the patch loop together write the operands that an assembler  *)
(* would that resolves all jumps at once, after the last line (asm8086.c:51-115).    *)
THEOREM ResolutionImplemented == Spec /\ OneSegment /\ []InBounds => AP!ImplementsResolution
<1>1. AP!Init => AP!Resolution!Init
  BY AP!InitRefines, AssemblerAssumptions
<1>2. AP!Inv /\ [AP!Next]_(AP!vars) => [AP!Resolution!Next]_(AP!Resolution!vars)
  BY AP!StepRefines, AssemblerAssumptions
<1>3. (A!Init => AP!Init) /\ ([A!Next]_(A!vars) => [AP!Next]_(AP!vars))
  BY SameAssembler
<1>. QED  BY <1>1, <1>2, <1>3, AssemblerInv, AssemblerImplemented, PTL
          DEF ImplementsAssembler, AP!ImplementsResolution, AP!Resolution!Spec
================================================================================
