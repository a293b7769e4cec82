----------------------------- MODULE ParserProofs -----------------------------
(* The parser, for every list of tokens that ends with EOL.                       *)
EXTENDS Parser, FiniteSets, FiniteSetTheorems, SequenceTheorems, TLAPS

(* Induction over the natural numbers, for a set of them instead of a predicate: the  *)
(* step maps the members below a number that is missing into themselves, so onto.      *)
LEMMA SetInduction ==
  ASSUME NEW S \in SUBSET Nat, 0 \in S, \A n \in S : n + 1 \in S
  PROVE  S = Nat
<1>. SUFFICES ASSUME NEW k \in Nat \ {0}, k \notin S PROVE FALSE
  OBVIOUS
<1>. DEFINE D    == {n \in 0 .. k : n \in S /\ n < k}
            step == [n \in D |-> n + 1]
<1>1. 0 \in D /\ D \in SUBSET Nat /\ \A n \in D : n <= k
  OBVIOUS
<1>2. ASSUME NEW n \in D PROVE n + 1 \in D
  <2>1. n + 1 \in S /\ n + 1 # k
    OBVIOUS
  <2>. QED  BY <2>1
<1>. HIDE DEF D
<1>3. IsFiniteSet(D)
  BY <1>1, FS_BoundedSetOfNaturals
<1>4. step \in Injection(D, D)
  BY <1>1, <1>2 DEF Injection, IsInjective
<1>5. step \in Surjection(D, D)
  BY <1>3, <1>4, FS_Injection
<1>6. PICK n \in D : step[n] = 0
  BY <1>1, <1>5 DEF Surjection
<1>. QED  BY <1>1, <1>6

(* A non-empty set of numbers has a least element.                                    *)
LEMMA LeastNat ==
  ASSUME NEW T \in SUBSET Nat, T # {}
  PROVE  \E x \in T : \A y \in T : x <= y
<1>. DEFINE Below == {d \in Nat : \A t \in T : d <= t}
<1>1. PICK t \in T : TRUE
  OBVIOUS
<1>2. Below \in SUBSET Nat /\ 0 \in Below /\ t + 1 \notin Below /\ t + 1 \in Nat
  BY <1>1
<1>3. PICK d \in Below : d + 1 \notin Below
  <2>. HIDE DEF Below
  <2>. QED  BY <1>2, SetInduction
<1>. QED  BY <1>3

(* A token that is no EOL has one after it.                                        *)
LEMMA Places ==
  ASSUME NEW t, IsProgram(t)
  PROVE  /\ Len(t) \in Nat \ {0} /\ DOMAIN t = 1 .. Len(t)
         /\ \A i \in 1 .. Len(t) : t[i].kind # "EOL" => i + 1 \in 1 .. Len(t)
<1>1. t \in Seq({t[i] : i \in DOMAIN t}) /\ t # <<>> /\ t[Len(t)].kind = "EOL"
  BY DEF IsProgram
<1>2. Len(t) \in Nat /\ DOMAIN t = 1 .. Len(t) /\ Len(t) # 0
  BY <1>1
<1>. QED  BY <1>1, <1>2

LEMMA Numbers ==
  ASSUME NEW t, IsProgram(t), NEW i \in 1 .. Len(t), t[i].kind \in {"NUM", "ZERO"}
  PROVE  t[i].val \in Int
BY Places DEF IsProgram

(* What a number becomes fits into s16.                                            *)
LEMMA Narrowed == \A n \in Int : S16(n) \in S16Values
<1>1. \A n \in Int : S16(n) \in Int /\ S16(n) >= -32768 /\ S16(n) <= 32767
  BY DEF S16
<1>2. \A n \in Int : S16(n) \in Int /\ S16(n) >= S16Min /\ S16(n) <= S16Max
  BY <1>1 DEF S16Min, S16Max
<1>3. S16Min \in Int /\ S16Max \in Int
  BY DEF S16Min, S16Max
<1>. QED  BY <1>2, <1>3 DEF S16Values

LEMMA ZeroFits == 0 \in S16Values
<1>1. S16Min \in Int /\ S16Max \in Int /\ S16Min <= 0 /\ 0 <= S16Max
  BY DEF S16Min, S16Max
<1>. QED  BY <1>1 DEF S16Values

LEMMA S16Integers == \A n \in S16Values : n \in Int
<1>1. S16Min \in Int /\ S16Max \in Int
  BY DEF S16Min, S16Max
<1>. QED  BY <1>1 DEF S16Values

LEMMA SignedFits ==
  ASSUME NEW n \in Int, NEW sign
  PROVE  Signed(sign, n) \in S16Values
<1>1. S16(n) \in Int /\ - S16(n) \in Int
  BY Narrowed, S16Integers
<1>. QED  BY <1>1, Narrowed DEF Signed

(* The sets of registers, written out.                                             *)
LEMMA RegisterSets ==
  /\ Members(Registers8) = {"AL", "CL", "DL", "BL", "AH", "CH", "DH", "BH"}
  /\ Members(Registers16) = {"AX", "CX", "DX", "BX", "SP", "BP", "SI", "DI"}
  /\ Members(Segments) = {"ES", "CS", "SS", "DS"}
<1>1. Members(Registers8) = {"AL", "CL", "DL", "BL", "AH", "CH", "DH", "BH"}
  BY DEF Members, Registers8
<1>2. Members(Registers16) = {"AX", "CX", "DX", "BX", "SP", "BP", "SI", "DI"}
  BY DEF Members, Registers16
<1>3. Members(Segments) = {"ES", "CS", "SS", "DS"}
  BY DEF Members, Segments
<1>. QED  BY <1>1, <1>2, <1>3
-------------------------------------------------------------------------------
(* The records that the functions make are such as codegen takes.                  *)
LEMMA EmptyOperand ==
  /\ NoOperand.kind = {} /\ NoOperand.prefix_size = {} /\ NoOperand.prefix_seg_ovr = {}
  /\ NoOperand.reg = "NULL" /\ NoOperand.seg = "NULL"
  /\ NoOperand.base = "NULL" /\ NoOperand.index = "NULL"
  /\ NoOperand.disp = 0 /\ NoOperand.daddr = 0 /\ NoOperand.imm = 0
  /\ NoOperand.selector = 0 /\ NoOperand.offset = 0
  /\ NoOperand.mod = 0 /\ NoOperand.rm = 0
BY DEF NoOperand

LEMMA OperandParts ==
  ASSUME NEW o, DOMAIN o = DOMAIN NoOperand, o.kind \subseteq Kinds,
         o.reg \in General \cup {"NULL"},
         "REG8" \in o.kind \/ "REG16" \in o.kind => o.reg # "NULL",
         o.seg \in Members(Segments) \cup {"NULL"}, "SEGREG" \in o.kind => o.seg # "NULL",
         o.base \in Bases \cup {"NULL"}, o.index \in Indices \cup {"NULL"},
         o.disp \in S16Values, o.daddr \in S16Values, o.imm \in S16Values,
         o.selector \in S16Values, o.offset \in S16Values,
         o.mod \in 0 .. 2, o.rm \in 0 .. 7,
         o.prefix_size \subseteq Sizes, o.prefix_seg_ovr \subseteq Members(Segments)
  PROVE  IsOperand(o)
<1>1. o.kind \cap {"REG8", "REG16"} # {} => o.reg # "NULL"
  OBVIOUS
<1>2. {o.disp, o.daddr, o.imm, o.selector, o.offset} \subseteq S16Values
  OBVIOUS
<1>. QED  BY <1>1, <1>2 DEF IsOperand, Sizes

LEMMA NoOperandIsOperand == IsOperand(NoOperand)
BY EmptyOperand, ZeroFits DEF IsOperand

LEMMA RegisterIsOperand == \A r \in General : IsOperand(RegisterOperand(r))
<1>. SUFFICES ASSUME NEW r \in General PROVE IsOperand(RegisterOperand(r))
  OBVIOUS
<1>1. op_kind_from_reg(r) \subseteq Kinds
  BY DEF op_kind_from_reg, Kinds
<1>2. "SEGREG" \notin op_kind_from_reg(r)
  BY DEF op_kind_from_reg
<1>3. r # "NULL"
  BY RegisterSets DEF General
<1>. DEFINE o == RegisterOperand(r)
<1>4. /\ DOMAIN o = DOMAIN NoOperand /\ o.kind = op_kind_from_reg(r) /\ o.reg = r
      /\ o.seg = "NULL" /\ o.base = "NULL" /\ o.index = "NULL" /\ o.disp = 0 /\ o.daddr = 0
      /\ o.imm = 0 /\ o.selector = 0 /\ o.offset = 0 /\ o.mod = 0 /\ o.rm = 0
      /\ o.prefix_size = {} /\ o.prefix_seg_ovr = {}
  BY DEF RegisterOperand, NoOperand
<1>. HIDE DEF o
<1>9. IsOperand(o)
  BY <1>1, <1>2, <1>3, <1>4, ZeroFits, OperandParts
<1>. QED  BY <1>9 DEF o

IsAddress(e) == e \in [base : Bases \cup {"NULL"}, index : Indices \cup {"NULL"},
                       disp : S16Values, daddr : S16Values]

LEMMA MemoryIsOperand ==
  ASSUME NEW e, IsAddress(e)
  PROVE  IsOperand(MemoryOperand(e))
<1>. DEFINE o == MemoryOperand(e)
            m == eaddr_encode_mod(e.base, e.index, e.disp, e.daddr)
            rm == eaddr_encode_rm(e.base, e.index)
<1>1. m \in 0 .. 2
  BY DEF eaddr_encode_mod
<1>2. rm \in 0 .. 7
  BY DEF eaddr_encode_rm
<1>3. /\ DOMAIN o = DOMAIN NoOperand /\ o.kind \subseteq Kinds /\ o.reg = "NULL"
      /\ o.kind \cap {"REG8", "REG16", "SEGREG"} = {}
      /\ o.seg = "NULL" /\ o.base = e.base /\ o.index = e.index /\ o.disp = e.disp
      /\ o.daddr = e.daddr /\ o.imm = 0 /\ o.selector = 0 /\ o.offset = 0
      /\ o.prefix_size = {} /\ o.prefix_seg_ovr = {} /\ o.mod = m /\ o.rm = rm
  <2>. HIDE DEF m, rm
  <2>. QED  BY DEF MemoryOperand, NoOperand, Kinds, m, rm
<1>4. /\ e.base \in Bases \cup {"NULL"} /\ e.index \in Indices \cup {"NULL"}
      /\ e.disp \in S16Values /\ e.daddr \in S16Values
  BY DEF IsAddress
<1>. HIDE DEF o, m, rm
<1>9. IsOperand(o)
  BY <1>1, <1>2, <1>3, <1>4, ZeroFits, OperandParts
<1>. QED  BY <1>9 DEF o

LEMMA SegmentIsOperand == \A r \in Members(Segments) : IsOperand(SegmentOperand(r))
<1>. SUFFICES ASSUME NEW r \in Members(Segments) PROVE IsOperand(SegmentOperand(r))
  OBVIOUS
<1>1. r # "NULL"
  BY RegisterSets
<1>. DEFINE o == SegmentOperand(r)
<1>2. /\ DOMAIN o = DOMAIN NoOperand /\ o.kind = {"SEGREG"} /\ o.reg = "NULL"
      /\ o.seg = r /\ o.base = "NULL" /\ o.index = "NULL" /\ o.disp = 0 /\ o.daddr = 0
      /\ o.imm = 0 /\ o.selector = 0 /\ o.offset = 0 /\ o.mod = 0 /\ o.rm = 0
      /\ o.prefix_size = {} /\ o.prefix_seg_ovr = {}
  BY DEF SegmentOperand, NoOperand
<1>3. o.kind \subseteq Kinds
  BY <1>2 DEF Kinds
<1>. HIDE DEF o
<1>9. IsOperand(o)
  BY <1>1, <1>2, <1>3, ZeroFits, OperandParts
<1>. QED  BY <1>9 DEF o

LEMMA PointerIsOperand ==
  ASSUME NEW a \in Int, NEW b \in Int
  PROVE  IsOperand(PointerOperand(a, b))
<1>. DEFINE o == PointerOperand(a, b)
<1>1. S16(a) \in S16Values /\ S16(b) \in S16Values
  BY Narrowed
<1>2. /\ DOMAIN o = DOMAIN NoOperand /\ o.kind = {"POINTER"} /\ o.reg = "NULL"
      /\ o.seg = "NULL" /\ o.base = "NULL" /\ o.index = "NULL" /\ o.disp = 0 /\ o.daddr = 0
      /\ o.imm = 0 /\ o.selector = S16(a) /\ o.offset = S16(b) /\ o.mod = 0 /\ o.rm = 0
      /\ o.prefix_size = {} /\ o.prefix_seg_ovr = {}
  BY DEF PointerOperand, NoOperand
<1>3. o.kind \subseteq Kinds
  BY <1>2 DEF Kinds
<1>. HIDE DEF o
<1>9. IsOperand(o)
  BY <1>1, <1>2, <1>3, ZeroFits, OperandParts
<1>. QED  BY <1>9 DEF o

LEMMA ImmediateIsOperand == \A n \in S16Values : IsOperand(ImmediateOperand(n))
<1>. SUFFICES ASSUME NEW n \in S16Values PROVE IsOperand(ImmediateOperand(n))
  OBVIOUS
<1>. DEFINE o == ImmediateOperand(n)
<1>1. /\ DOMAIN o = DOMAIN NoOperand /\ o.reg = "NULL"
      /\ o.kind \subseteq {"IMMEDIATE", "IMMEDIATE8", "IMMEDIATE16"}
      /\ o.seg = "NULL" /\ o.base = "NULL" /\ o.index = "NULL" /\ o.disp = 0 /\ o.daddr = 0
      /\ o.imm = n /\ o.selector = 0 /\ o.offset = 0 /\ o.mod = 0 /\ o.rm = 0
      /\ o.prefix_size = {} /\ o.prefix_seg_ovr = {}
  BY DEF ImmediateOperand, NoOperand
<1>2. o.kind \subseteq Kinds
  BY <1>1 DEF Kinds
<1>. HIDE DEF o
<1>9. IsOperand(o)
  BY <1>1, <1>2, ZeroFits, OperandParts
<1>. QED  BY <1>9 DEF o

LEMMA LabelIsOperand ==
  ASSUME NEW n
  PROVE  IsOperand(LabelOperand(n))
<1>. DEFINE o == LabelOperand(n)
<1>1. /\ DOMAIN o = DOMAIN NoOperand /\ o.kind = {"LABEL"} /\ o.reg = "NULL"
      /\ o.seg = "NULL" /\ o.base = "NULL" /\ o.index = "NULL" /\ o.disp = 0 /\ o.daddr = 0
      /\ o.imm = 0 /\ o.selector = 0 /\ o.offset = 0 /\ o.mod = 0 /\ o.rm = 0
      /\ o.prefix_size = {} /\ o.prefix_seg_ovr = {}
  BY DEF LabelOperand, NoOperand
<1>2. o.kind \subseteq Kinds
  BY <1>1 DEF Kinds
<1>. HIDE DEF o
<1>9. IsOperand(o)
  BY <1>1, <1>2, ZeroFits, OperandParts
<1>. QED  BY <1>9 DEF o

(* An operand stays one when its prefixes are set.                                 *)
LEMMA PrefixedIsOperand ==
  ASSUME NEW o, IsOperand(o), NEW P
  PROVE  IsOperand([o EXCEPT !.prefix_size = P \cap Sizes,
                             !.prefix_seg_ovr = P \cap Members(Segments)])
<1>. DEFINE q == [o EXCEPT !.prefix_size = P \cap Sizes,
                           !.prefix_seg_ovr = P \cap Members(Segments)]
<1>1. DOMAIN o = {"kind", "reg", "seg", "base", "index", "disp", "daddr", "mod", "rm", "imm",
                  "label", "selector", "offset", "prefix_size", "prefix_seg_ovr"}
  BY DEF IsOperand, NoOperand
<1>2. /\ DOMAIN q = DOMAIN o /\ q.kind = o.kind /\ q.reg = o.reg
      /\ q.seg = o.seg /\ q.base = o.base /\ q.index = o.index /\ q.disp = o.disp
      /\ q.daddr = o.daddr /\ q.imm = o.imm /\ q.selector = o.selector
      /\ q.offset = o.offset /\ q.mod = o.mod /\ q.rm = o.rm
      /\ q.prefix_size = P \cap Sizes /\ q.prefix_seg_ovr = P \cap Members(Segments)
  BY <1>1
<1>. HIDE DEF q
<1>3. IsOperand(q)
  BY <1>2 DEF IsOperand, Sizes
<1>. QED  BY <1>3 DEF q
-------------------------------------------------------------------------------
(* What the functions return: where they stop, and a record of its type. A         *)
(* function that fails leaves *idx where it was.                                   *)
LEMMA ParsedParts ==
  \A at, out : /\ Parsed(at, out).ok = TRUE /\ Parsed(at, out).at = at /\ Parsed(at, out).out = out
               /\ NotParsed(at, out).ok = FALSE /\ NotParsed(at, out).at = at
               /\ NotParsed(at, out).out = out
BY DEF Parsed, NotParsed

LEMMA OptionalParts ==
  \A at, out : /\ Optional(Parsed(at, out)) = Parsed(at, out)
               /\ Optional(NotParsed(at, out)) = Parsed(at, out)
<1>. SUFFICES ASSUME NEW at, NEW out
              PROVE  /\ Optional(Parsed(at, out)) = Parsed(at, out)
                     /\ Optional(NotParsed(at, out)) = Parsed(at, out)
  OBVIOUS
<1>. DEFINE R(x) == [ok |-> x, at |-> at, out |-> out]
<1>1. \A x, y : [R(x) EXCEPT !.ok = y] = R(y)
  OBVIOUS
<1>2. [R(TRUE) EXCEPT !.ok = TRUE] = R(TRUE)
  BY ONLY <1>1, Zenon
<1>3. [R(FALSE) EXCEPT !.ok = TRUE] = R(TRUE)
  BY ONLY <1>1, Zenon
<1>4. Optional(Parsed(at, out)) = Parsed(at, out)
  BY <1>2, Zenon DEF Parsed, Optional
<1>5. Optional(NotParsed(at, out)) = Parsed(at, out)
  BY <1>3, Zenon DEF Parsed, Optional, NotParsed
<1>. QED  BY <1>4, <1>5

(* A sign and a number at token i.                                                 *)
SignedAt(t, i) == Is(t, i, OprMath) /\ Is(t, i + 1, {"NUM"})

LEMMA SignedNumResult ==
  ASSUME NEW t, IsProgram(t), NEW i \in 1 .. Len(t), NEW e, IsAddress(e)
  PROVE  /\ SignedAt(t, i) => /\ i + 2 \in 1 .. Len(t)
                              /\ \E f : IsAddress(f) /\ parse_signed_num(t, i, e) = Parsed(i + 2, f)
         /\ ~ SignedAt(t, i) => parse_signed_num(t, i, e) = NotParsed(i, e)
<1>1. CASE SignedAt(t, i)
  <2>1. i + 1 \in 1 .. Len(t) /\ i + 2 \in 1 .. Len(t)
    <3>1. i + 1 \in 1 .. Len(t)
      BY <1>1, Places DEF SignedAt, Is, OprMath
    <3>2. (i + 1) + 1 \in 1 .. Len(t)
      BY <1>1, <3>1, Places DEF SignedAt, Is
    <3>. QED  BY <3>1, <3>2
  <2>2. t[i + 1].val \in Int
    BY <1>1, <2>1, Numbers DEF SignedAt, Is
  <2>3. Signed(t[i].kind, t[i + 1].val) \in S16Values
    BY <2>2, SignedFits
  <2>. DEFINE v == Signed(t[i].kind, t[i + 1].val)
  <2>4. IsAddress([e EXCEPT !.disp = v])
    <3>. HIDE DEF v
    <3>. QED  BY <2>3 DEF IsAddress, v
  <2>5. parse_signed_num(t, i, e) = Parsed(i + 2, [e EXCEPT !.disp = v])
    BY <1>1 DEF parse_signed_num, SignedAt
  <2>. QED  BY <1>1, <2>1, <2>4, <2>5
<1>2. CASE ~ SignedAt(t, i)
  BY <1>2 DEF parse_signed_num, SignedAt
<1>. QED  BY <1>1, <1>2

(* "signed_num?" after the token at i: it is passed, or nothing is.                *)
LEMMA OptionalSignedNum ==
  ASSUME NEW t, IsProgram(t), NEW i \in 1 .. Len(t), NEW e, IsAddress(e)
  PROVE  \E f : /\ IsAddress(f)
                /\ Optional(parse_signed_num(t, i, e))
                       = Parsed(IF SignedAt(t, i) THEN i + 2 ELSE i, f)
                /\ SignedAt(t, i) => i + 2 \in 1 .. Len(t)
<1>1. CASE SignedAt(t, i)
  BY <1>1, SignedNumResult, OptionalParts
<1>2. CASE ~ SignedAt(t, i)
  BY <1>2, SignedNumResult, OptionalParts
<1>. QED  BY <1>1, <1>2

(* Where the direct address at token i ends, 0 if there is none.                   *)
DirectEnd(t, i) ==
    IF Is(t, i, {"NUM"}) THEN i + 1
    ELSE IF Is(t, i, OprMath) /\ Is(t, i + 1, {"NUM"}) THEN i + 2 ELSE 0

LEMMA DirectAddressResult ==
  ASSUME NEW t, IsProgram(t), NEW i \in 1 .. Len(t), NEW e, IsAddress(e)
  PROVE  /\ DirectEnd(t, i) # 0 =>
                /\ DirectEnd(t, i) \in i + 1 .. Len(t)
                /\ \E f : IsAddress(f) /\ parse_direct_address(t, i, e) = Parsed(DirectEnd(t, i), f)
         /\ DirectEnd(t, i) = 0 => parse_direct_address(t, i, e) = NotParsed(i, e)
<1>. DEFINE n == IF Is(t, i, OprMath) THEN i + 1 ELSE i
<1>1. n \in 1 .. Len(t) /\ n >= i /\ n <= i + 1
  BY Places DEF Is, OprMath
<1>2. Is(t, n, {"NUM"}) <=> DirectEnd(t, i) # 0
  BY DEF DirectEnd, Is, OprMath
<1>3. CASE Is(t, n, {"NUM"})
  <2>1. DirectEnd(t, i) = n + 1
    BY <1>3 DEF DirectEnd, Is, OprMath
  <2>2. n + 1 \in 1 .. Len(t)
    <3>. HIDE DEF n
    <3>. QED  BY <1>1, <1>3, Places DEF Is
  <2>3. t[n].val \in Int
    <3>. HIDE DEF n
    <3>. QED  BY <1>1, <1>3, Numbers DEF Is
  <2>. DEFINE v == S16(t[n].val)
  <2>4. v \in S16Values
    BY <2>3, Narrowed
  <2>5. IsAddress([e EXCEPT !.daddr = v])
    <3>. HIDE DEF v
    <3>. QED  BY <2>4 DEF IsAddress
  <2>6. parse_direct_address(t, i, e) = Parsed(n + 1, [e EXCEPT !.daddr = v])
    BY <1>3 DEF parse_direct_address
  <2>. HIDE DEF n, v
  <2>. QED  BY <1>1, <1>2, <1>3, <2>1, <2>2, <2>5, <2>6
<1>4. CASE ~ Is(t, n, {"NUM"})
  BY <1>2, <1>4 DEF parse_direct_address
<1>. QED  BY <1>3, <1>4

(* Where the effective address at token i ends, 0 if there is none.                *)
SignedEnd(t, i) == IF SignedAt(t, i) THEN i + 2 ELSE i
EaddrEnd(t, i) ==
    IF Is(t, i, Bases)
    THEN IF Is(t, i + 1, {"PLUS"}) /\ Is(t, i + 2, Indices)
         THEN SignedEnd(t, i + 3) ELSE SignedEnd(t, i + 1)
    ELSE IF Is(t, i, Indices) THEN SignedEnd(t, i + 1) ELSE DirectEnd(t, i)

LEMMA EaddrResult ==
  ASSUME NEW t, IsProgram(t), NEW i \in 1 .. Len(t), NEW e, IsAddress(e)
  PROVE  /\ EaddrEnd(t, i) # 0 =>
                /\ EaddrEnd(t, i) \in i + 1 .. Len(t)
                /\ \E f : IsAddress(f) /\ parse_eaddr(t, i, e) = Parsed(EaddrEnd(t, i), f)
         /\ EaddrEnd(t, i) = 0 => \E f : IsAddress(f) /\ parse_eaddr(t, i, e) = NotParsed(i, f)
<1>1. ASSUME NEW j \in 1 .. Len(t), j > i, NEW f, IsAddress(f)
      PROVE  /\ SignedEnd(t, j) \in i + 1 .. Len(t)
             /\ \E g : IsAddress(g) /\ Optional(parse_signed_num(t, j, f)) = Parsed(SignedEnd(t, j), g)
  <2>1. PICK g : /\ IsAddress(g)
                 /\ Optional(parse_signed_num(t, j, f)) = Parsed(IF SignedAt(t, j) THEN j + 2 ELSE j, g)
                 /\ SignedAt(t, j) => j + 2 \in 1 .. Len(t)
    BY <1>1, OptionalSignedNum
  <2>. QED  BY <1>1, <2>1 DEF SignedEnd
<1>2. CASE Is(t, i, Bases)
  <2>. DEFINE based == [e EXCEPT !.base = t[i].kind]
  <2>1. IsAddress(based) /\ i + 1 \in 1 .. Len(t)
    BY <1>2, Places DEF IsAddress, Is, Bases
  <2>2. CASE Is(t, i + 1, {"PLUS"}) /\ Is(t, i + 2, Indices)
    <3>. DEFINE f == [based EXCEPT !.index = t[i + 2].kind]
    <3>1. IsAddress(f)
      <4>. HIDE DEF based
      <4>. QED  BY <2>1, <2>2 DEF IsAddress, Is
    <3>2. (i + 1) + 1 \in 1 .. Len(t)
      BY <2>1, <2>2, Places DEF Is
    <3>3. i + 2 \in 1 .. Len(t)
      BY <3>2
    <3>4. (i + 2) + 1 \in 1 .. Len(t)
      BY <3>3, <2>2, Places DEF Is, Indices
    <3>5. i + 3 \in 1 .. Len(t) /\ i + 3 > i
      BY <3>4
    <3>6. parse_eaddr(t, i, e) = Optional(parse_signed_num(t, i + 3, f))
      BY <1>2, <2>2 DEF parse_eaddr
    <3>7. EaddrEnd(t, i) = SignedEnd(t, i + 3)
      BY <1>2, <2>2 DEF EaddrEnd
    <3>. HIDE DEF f
    <3>. QED  BY <1>1, <3>1, <3>5, <3>6, <3>7
  <2>3. CASE ~ (Is(t, i + 1, {"PLUS"}) /\ Is(t, i + 2, Indices))
    <3>1. parse_eaddr(t, i, e) = Optional(parse_signed_num(t, i + 1, based))
      BY <1>2, <2>3 DEF parse_eaddr
    <3>2. EaddrEnd(t, i) = SignedEnd(t, i + 1)
      BY <1>2, <2>3 DEF EaddrEnd
    <3>. HIDE DEF based
    <3>. QED  BY <1>1, <2>1, <3>1, <3>2
  <2>. QED  BY <2>2, <2>3
<1>3. CASE ~ Is(t, i, Bases) /\ Is(t, i, Indices)
  <2>. DEFINE f == [e EXCEPT !.index = t[i].kind]
  <2>1. IsAddress(f) /\ i + 1 \in 1 .. Len(t)
    BY <1>3, Places DEF IsAddress, Is, Indices
  <2>2. parse_eaddr(t, i, e) = Optional(parse_signed_num(t, i + 1, f))
    BY <1>3 DEF parse_eaddr
  <2>3. EaddrEnd(t, i) = SignedEnd(t, i + 1)
    BY <1>3 DEF EaddrEnd
  <2>. HIDE DEF f
  <2>. QED  BY <1>1, <2>1, <2>2, <2>3
<1>4. CASE ~ Is(t, i, Bases) /\ ~ Is(t, i, Indices)
  <2>1. parse_eaddr(t, i, e) = parse_direct_address(t, i, e) /\ EaddrEnd(t, i) = DirectEnd(t, i)
    BY <1>4 DEF parse_eaddr, EaddrEnd
  <2>. QED  BY <2>1, DirectAddressResult
<1>. QED  BY <1>2, <1>3, <1>4

(* Where the bracketed address at token i ends, 0 if there is none.                *)
Inner(t, i) == IF Is(t, i + 1, {"PLUS"}) THEN i + 2 ELSE i + 1
MemoryEnd(t, i) ==
    IF /\ Is(t, i, {"LSQUARE_BR"}) /\ EaddrEnd(t, Inner(t, i)) # 0
       /\ Is(t, EaddrEnd(t, Inner(t, i)), {"RSQUARE_BR"})
    THEN EaddrEnd(t, Inner(t, i)) + 1 ELSE 0

LEMMA MemoryResult ==
  ASSUME NEW t, IsProgram(t), NEW i \in 1 .. Len(t)
  PROVE  /\ MemoryEnd(t, i) # 0 =>
                /\ MemoryEnd(t, i) \in i + 3 .. Len(t)
                /\ \E f : IsOperand(f) /\ parse_eaddr__(t, i) = Parsed(MemoryEnd(t, i), f)
         /\ MemoryEnd(t, i) = 0 => parse_eaddr__(t, i) = NotParsed(i, NoOperand)
<1>. DEFINE r == parse_eaddr_(t, i + 1, NoAddress)
<1>1. CASE ~ Is(t, i, {"LSQUARE_BR"})
  BY <1>1 DEF MemoryEnd, parse_eaddr__
<1>2. CASE Is(t, i, {"LSQUARE_BR"})
  <2>1. i + 1 \in 1 .. Len(t)
    BY <1>2, Places DEF Is
  <2>2. Inner(t, i) \in i + 1 .. i + 2 /\ Inner(t, i) \in 1 .. Len(t)
    <3>1. Is(t, i + 1, {"PLUS"}) => (i + 1) + 1 \in 1 .. Len(t)
      BY <2>1, Places DEF Is
    <3>. QED  BY <2>1, <3>1 DEF Inner
  <2>3. IsAddress(NoAddress)
    BY ZeroFits DEF IsAddress, NoAddress
  <2>. DEFINE q == parse_eaddr(t, Inner(t, i), NoAddress)
              k == EaddrEnd(t, Inner(t, i))
  <2>4. r = IF q.ok THEN q ELSE NotParsed(i + 1, q.out)
    <3>1. (IF Is(t, i + 1, {"PLUS"}) THEN (i + 1) + 1 ELSE i + 1) = Inner(t, i)
      BY <2>1 DEF Inner
    <3>. QED  BY <3>1 DEF parse_eaddr_
  <2>5. CASE k = 0
    <3>1. PICK f : q = NotParsed(Inner(t, i), f)
      BY <2>2, <2>3, <2>5, EaddrResult
    <3>2. r.ok = FALSE
      BY <2>4, <3>1, ParsedParts
    <3>3. MemoryEnd(t, i) = 0
      BY <2>5 DEF MemoryEnd
    <3>. QED  BY <3>2, <3>3 DEF parse_eaddr__
  <2>6. CASE k # 0
    <3>1. PICK f : /\ k \in Inner(t, i) + 1 .. Len(t)
                   /\ IsAddress(f) /\ q = Parsed(k, f)
      BY <2>2, <2>3, <2>6, EaddrResult
    <3>2. r.ok = TRUE /\ r.at = k /\ r.out = f
      BY <2>4, <3>1, ParsedParts
    <3>. HIDE DEF r, q, k
    <3>3. CASE Is(t, k, {"RSQUARE_BR"})
      <4>1. k + 1 \in 1 .. Len(t) /\ k + 1 \in i + 3 .. Len(t) /\ k + 1 # 0
        BY <2>2, <3>1, <3>3, Places DEF Is
      <4>2. parse_eaddr__(t, i) = Parsed(k + 1, MemoryOperand(f))
        BY <1>2, <3>2, <3>3 DEF parse_eaddr__, r
      <4>3. MemoryEnd(t, i) = k + 1
        BY <1>2, <2>6, <3>3 DEF MemoryEnd, k
      <4>. QED  BY <3>1, <4>1, <4>2, <4>3, MemoryIsOperand
    <3>4. CASE ~ Is(t, k, {"RSQUARE_BR"})
      <4>1. parse_eaddr__(t, i) = NotParsed(i, NoOperand)
        BY <3>2, <3>4 DEF parse_eaddr__, r
      <4>2. MemoryEnd(t, i) = 0
        BY <3>4 DEF MemoryEnd, k
      <4>. QED  BY <4>1, <4>2
    <3>. QED  BY <3>3, <3>4
  <2>. QED  BY <2>5, <2>6
<1>. QED  BY <1>1, <1>2

PointerAt(t, i) == Is(t, i, {"NUM"}) /\ Is(t, i + 1, {"COLON"}) /\ Is(t, i + 2, {"NUM"})

LEMMA PointerResult ==
  ASSUME NEW t, IsProgram(t), NEW i \in 1 .. Len(t)
  PROVE  /\ PointerAt(t, i) =>
                /\ i + 3 \in 1 .. Len(t)
                /\ \E o : IsOperand(o) /\ parse_pointer(t, i) = Parsed(i + 3, o)
         /\ ~ PointerAt(t, i) => parse_pointer(t, i) = NotParsed(i, NoOperand)
<1>1. CASE PointerAt(t, i)
  <2>1. i + 1 \in 1 .. Len(t)
    BY <1>1, Places DEF PointerAt, Is
  <2>2. (i + 1) + 1 \in 1 .. Len(t)
    BY <1>1, <2>1, Places DEF PointerAt, Is
  <2>3. i + 2 \in 1 .. Len(t)
    BY <2>2
  <2>4. (i + 2) + 1 \in 1 .. Len(t)
    BY <1>1, <2>3, Places DEF PointerAt, Is
  <2>5. t[i].val \in Int /\ t[i + 2].val \in Int
    BY <1>1, <2>3, Numbers DEF PointerAt, Is
  <2>6. parse_pointer(t, i) = Parsed(i + 3, PointerOperand(t[i].val, t[i + 2].val))
    BY <1>1 DEF PointerAt, parse_pointer
  <2>. QED  BY <1>1, <2>4, <2>5, <2>6, PointerIsOperand
<1>2. CASE ~ PointerAt(t, i)
  BY <1>2 DEF PointerAt, parse_pointer
<1>. QED  BY <1>1, <1>2

(* Where the immediate at token i ends, 0 if there is none.                        *)
ImmEnd(t, i) ==
    IF Is(t, i, {"NUM", "ZERO"}) THEN i + 1
    ELSE IF Is(t, i, OprMath) /\ Is(t, i + 1, {"NUM", "ZERO"}) THEN i + 2 ELSE 0

LEMMA ImmResult ==
  ASSUME NEW t, IsProgram(t), NEW i \in 1 .. Len(t)
  PROVE  /\ ImmEnd(t, i) # 0 =>
                /\ ImmEnd(t, i) \in i + 1 .. Len(t)
                /\ \E o : IsOperand(o) /\ parse_imm(t, i) = Parsed(ImmEnd(t, i), o)
         /\ ImmEnd(t, i) = 0 => parse_imm(t, i) = NotParsed(i, NoOperand)
<1>. DEFINE n == IF Is(t, i, OprMath) THEN i + 1 ELSE i
<1>1. n \in 1 .. Len(t) /\ n >= i /\ n <= i + 1
  BY Places DEF Is, OprMath
<1>2. Is(t, n, {"NUM", "ZERO"}) <=> ImmEnd(t, i) # 0
  BY DEF ImmEnd, Is, OprMath
<1>3. CASE Is(t, n, {"NUM", "ZERO"})
  <2>1. ImmEnd(t, i) = n + 1
    BY <1>3 DEF ImmEnd, Is, OprMath
  <2>2. n + 1 \in 1 .. Len(t)
    <3>. HIDE DEF n
    <3>. QED  BY <1>1, <1>3, Places DEF Is
  <2>3. t[n].val \in Int
    <3>. HIDE DEF n
    <3>. QED  BY <1>1, <1>3, Numbers DEF Is
  <2>. DEFINE v == Signed(t[i].kind, t[n].val)
  <2>4. v \in S16Values
    <3>. HIDE DEF n
    <3>. QED  BY <2>3, SignedFits
  <2>5. parse_imm(t, i) = Parsed(n + 1, ImmediateOperand(v))
    BY <1>3 DEF parse_imm
  <2>. HIDE DEF n, v
  <2>. QED  BY <1>1, <1>2, <1>3, <2>1, <2>2, <2>4, <2>5, ImmediateIsOperand
<1>4. CASE ~ Is(t, n, {"NUM", "ZERO"})
  BY <1>2, <1>4 DEF parse_imm
<1>. QED  BY <1>3, <1>4

(* Where the operand at token i ends, 0 if there is none.                          *)
OperandEnd(t, i) ==
    IF Is(t, i, General) \/ Is(t, i, Members(Segments)) \/ Is(t, i, {"LABEL"}) THEN i + 1
    ELSE IF MemoryEnd(t, i) # 0 THEN MemoryEnd(t, i)
    ELSE IF PointerAt(t, i) THEN i + 3 ELSE ImmEnd(t, i)

(* An operand is recognized by its first token.                                    *)
LEMMA FirstTokens ==
  ASSUME NEW t, NEW i
  PROVE  /\ Is(t, i, General) => ~ Is(t, i, Members(Segments))
         /\ MemoryEnd(t, i) # 0 => t[i].kind = "LSQUARE_BR"
         /\ PointerAt(t, i) => t[i].kind = "NUM"
         /\ ImmEnd(t, i) # 0 => t[i].kind \in {"NUM", "ZERO", "PLUS", "MINUS"}
         /\ t[i].kind \in {"LSQUARE_BR", "NUM", "ZERO", "PLUS", "MINUS", "LABEL", "EOL", "COMMA",
                           "COLON", "RSQUARE_BR", "BYTE", "WORD"}
                => ~ Is(t, i, General) /\ ~ Is(t, i, Members(Segments))
<1>1. MemoryEnd(t, i) # 0 => t[i].kind = "LSQUARE_BR"
  BY DEF MemoryEnd, Is
<1>2. PointerAt(t, i) => t[i].kind = "NUM"
  BY DEF PointerAt, Is
<1>3. ImmEnd(t, i) # 0 => t[i].kind \in {"NUM", "ZERO", "PLUS", "MINUS"}
  BY DEF ImmEnd, Is, OprMath
<1>. QED  BY <1>1, <1>2, <1>3, RegisterSets DEF Is, General

(* Which function makes the operand at token i, and where it ends.                  *)
LEMMA OperandChoice ==
  ASSUME NEW t, IsProgram(t), NEW i \in 1 .. Len(t)
  PROVE  /\ Is(t, i, General) =>
               parse_operand(t, i) = Parsed(i + 1, RegisterOperand(t[i].kind)) /\ OperandEnd(t, i) = i + 1
         /\ MemoryEnd(t, i) # 0 =>
               parse_operand(t, i) = parse_eaddr__(t, i) /\ OperandEnd(t, i) = MemoryEnd(t, i)
         /\ Is(t, i, Members(Segments)) =>
               parse_operand(t, i) = Parsed(i + 1, SegmentOperand(t[i].kind)) /\ OperandEnd(t, i) = i + 1
         /\ PointerAt(t, i) =>
               parse_operand(t, i) = parse_pointer(t, i) /\ OperandEnd(t, i) = i + 3
         /\ ImmEnd(t, i) # 0 /\ ~ PointerAt(t, i) =>
               parse_operand(t, i) = parse_imm(t, i) /\ OperandEnd(t, i) = ImmEnd(t, i)
         /\ Is(t, i, {"LABEL"}) =>
               parse_operand(t, i) = Parsed(i + 1, LabelOperand(t[i].val)) /\ OperandEnd(t, i) = i + 1
         /\ \/ Is(t, i, General) \/ MemoryEnd(t, i) # 0 \/ Is(t, i, Members(Segments))
            \/ PointerAt(t, i) \/ (ImmEnd(t, i) # 0 /\ ~ PointerAt(t, i)) \/ Is(t, i, {"LABEL"})
            \/ parse_operand(t, i) = NotParsed(i, NoOperand) /\ OperandEnd(t, i) = 0
<1>. DEFINE memory  == parse_eaddr__(t, i)
            pointer == parse_pointer(t, i)
            imm     == parse_imm(t, i)
<1>1. /\ MemoryEnd(t, i) # 0 => memory.ok = TRUE
      /\ MemoryEnd(t, i) = 0 => memory.ok = FALSE
  BY MemoryResult, ParsedParts
<1>2. /\ PointerAt(t, i) => pointer.ok = TRUE
      /\ ~ PointerAt(t, i) => pointer.ok = FALSE
  BY PointerResult, ParsedParts
<1>3. /\ ImmEnd(t, i) # 0 => imm.ok = TRUE
      /\ ImmEnd(t, i) = 0 => imm.ok = FALSE
  BY ImmResult, ParsedParts
<1>4. CASE Is(t, i, General)
  <2>1. /\ ~ Is(t, i, Members(Segments)) /\ ~ Is(t, i, {"LABEL"})
        /\ MemoryEnd(t, i) = 0 /\ ~ PointerAt(t, i) /\ ImmEnd(t, i) = 0
    BY <1>4, FirstTokens DEF Is
  <2>2. parse_operand(t, i) = Parsed(i + 1, RegisterOperand(t[i].kind))
    BY <1>1, <1>2, <1>3, <1>4, <2>1 DEF parse_operand
  <2>. QED  BY <1>4, <2>1, <2>2 DEF OperandEnd
<1>5. CASE MemoryEnd(t, i) # 0
  <2>1. /\ ~ Is(t, i, Members(Segments)) /\ ~ Is(t, i, {"LABEL"}) /\ ~ Is(t, i, General)
        /\ ~ PointerAt(t, i) /\ ImmEnd(t, i) = 0
    BY <1>5, FirstTokens DEF Is
  <2>2. parse_operand(t, i) = memory
    BY <1>1, <1>2, <1>3, <1>5, <2>1 DEF parse_operand
  <2>. QED  BY <1>5, <2>1, <2>2 DEF OperandEnd
<1>6. CASE Is(t, i, Members(Segments))
  <2>1. /\ ~ Is(t, i, General) /\ ~ Is(t, i, {"LABEL"})
        /\ MemoryEnd(t, i) = 0 /\ ~ PointerAt(t, i) /\ ImmEnd(t, i) = 0
    BY <1>6, FirstTokens DEF Is
  <2>2. parse_operand(t, i) = Parsed(i + 1, SegmentOperand(t[i].kind))
    BY <1>1, <1>2, <1>3, <1>6, <2>1 DEF parse_operand
  <2>. QED  BY <1>6, <2>1, <2>2 DEF OperandEnd
<1>7. CASE PointerAt(t, i)
  <2>1. /\ ~ Is(t, i, General) /\ ~ Is(t, i, {"LABEL"}) /\ ~ Is(t, i, Members(Segments))
        /\ MemoryEnd(t, i) = 0
    BY <1>7, FirstTokens DEF Is
  <2>2. parse_operand(t, i) = pointer
    BY <1>1, <1>2, <1>3, <1>7, <2>1 DEF parse_operand
  <2>. QED  BY <1>7, <2>1, <2>2 DEF OperandEnd
<1>8. CASE ImmEnd(t, i) # 0 /\ ~ PointerAt(t, i)
  <2>1. /\ ~ Is(t, i, General) /\ ~ Is(t, i, {"LABEL"}) /\ ~ Is(t, i, Members(Segments))
        /\ MemoryEnd(t, i) = 0
    BY <1>8, FirstTokens DEF Is
  <2>2. parse_operand(t, i) = imm
    BY <1>1, <1>2, <1>3, <1>8, <2>1 DEF parse_operand
  <2>. QED  BY <1>8, <2>1, <2>2 DEF OperandEnd
<1>9. CASE Is(t, i, {"LABEL"})
  <2>1. /\ ~ Is(t, i, General) /\ ~ Is(t, i, Members(Segments))
        /\ MemoryEnd(t, i) = 0 /\ ~ PointerAt(t, i) /\ ImmEnd(t, i) = 0
    BY <1>9, FirstTokens DEF Is
  <2>2. parse_operand(t, i) = Parsed(i + 1, LabelOperand(t[i].val))
    BY <1>1, <1>2, <1>3, <1>9, <2>1 DEF parse_operand
  <2>. QED  BY <1>9, <2>1, <2>2 DEF OperandEnd
<1>10. CASE /\ ~ Is(t, i, General) /\ MemoryEnd(t, i) = 0 /\ ~ Is(t, i, Members(Segments))
            /\ ~ PointerAt(t, i) /\ ImmEnd(t, i) = 0 /\ ~ Is(t, i, {"LABEL"})
  <2>1. parse_operand(t, i) = NotParsed(i, NoOperand)
    BY <1>1, <1>2, <1>3, <1>10 DEF parse_operand
  <2>. QED  BY <1>10, <2>1 DEF OperandEnd
<1>. HIDE DEF memory, pointer, imm
<1>. QED  BY <1>4, <1>5, <1>6, <1>7, <1>8, <1>9, <1>10

LEMMA OperandResult ==
  ASSUME NEW t, IsProgram(t), NEW i \in 1 .. Len(t)
  PROVE  /\ OperandEnd(t, i) # 0 =>
                /\ OperandEnd(t, i) \in i + 1 .. Len(t)
                /\ \E o : IsOperand(o) /\ parse_operand(t, i) = Parsed(OperandEnd(t, i), o)
         /\ OperandEnd(t, i) = 0 => parse_operand(t, i) = NotParsed(i, NoOperand)
<1>1. \A k \in 1 .. Len(t) : t[k].kind # "EOL" => k + 1 \in k + 1 .. Len(t) /\ k + 1 # 0
  BY Places
<1>2. CASE Is(t, i, General)
  <2>1. t[i].kind # "EOL"
    BY <1>2, FirstTokens DEF Is
  <2>2. IsOperand(RegisterOperand(t[i].kind))
    BY <1>2, RegisterIsOperand DEF Is
  <2>. QED  BY <1>1, <1>2, <2>1, <2>2, OperandChoice
<1>3. CASE MemoryEnd(t, i) # 0
  <2>1. /\ MemoryEnd(t, i) \in i + 3 .. Len(t)
        /\ \E o : IsOperand(o) /\ parse_eaddr__(t, i) = Parsed(MemoryEnd(t, i), o)
    BY <1>3, MemoryResult
  <2>2. MemoryEnd(t, i) \in i + 1 .. Len(t)
    BY <2>1, Places
  <2>. QED  BY <1>3, <2>1, <2>2, OperandChoice
<1>4. CASE Is(t, i, Members(Segments))
  <2>1. t[i].kind # "EOL"
    BY <1>4, FirstTokens DEF Is
  <2>2. IsOperand(SegmentOperand(t[i].kind))
    BY <1>4, SegmentIsOperand DEF Is
  <2>. QED  BY <1>1, <1>4, <2>1, <2>2, OperandChoice
<1>5. CASE PointerAt(t, i)
  <2>1. /\ i + 3 \in 1 .. Len(t)
        /\ \E o : IsOperand(o) /\ parse_pointer(t, i) = Parsed(i + 3, o)
    BY <1>5, PointerResult
  <2>2. i + 3 \in i + 1 .. Len(t) /\ i + 3 # 0
    BY <2>1, Places
  <2>. QED  BY <1>5, <2>1, <2>2, OperandChoice
<1>6. CASE ImmEnd(t, i) # 0 /\ ~ PointerAt(t, i)
  BY <1>6, ImmResult, OperandChoice
<1>7. CASE Is(t, i, {"LABEL"})
  <2>1. t[i].kind # "EOL"
    BY <1>7 DEF Is
  <2>. QED  BY <1>1, <1>7, <2>1, LabelIsOperand, OperandChoice
<1>8. CASE parse_operand(t, i) = NotParsed(i, NoOperand) /\ OperandEnd(t, i) = 0
  BY <1>8
<1>. QED  BY <1>2, <1>3, <1>4, <1>5, <1>6, <1>7, <1>8, OperandChoice

(* "opr_prefix*": f gives for each token from i on where the prefixes there end.   *)
IsAfter(t, i, f) ==
    f = [j \in i .. Len(t) |-> IF parse_opr_prefix(t, j) = 0 THEN j ELSE f[j + parse_opr_prefix(t, j)]]
AfterOf(t, i) == CHOOSE f : IsAfter(t, i, f)

LEMMA PrefixLengths ==
  ASSUME NEW t, IsProgram(t), NEW i \in 1 .. Len(t)
  PROVE  /\ parse_opr_prefix(t, i) \in 0 .. 2
         /\ i + parse_opr_prefix(t, i) \in 1 .. Len(t)
         /\ parse_opr_prefix(t, i) = 1 <=> Is(t, i, Sizes)
         /\ parse_opr_prefix(t, i) = 2 <=> Is(t, i, Members(Segments)) /\ Is(t, i + 1, {"COLON"})
<1>1. CASE Is(t, i, Sizes)
  <2>1. ~ Is(t, i, Members(Segments)) /\ i + 1 \in 1 .. Len(t)
    BY <1>1, RegisterSets, Places DEF Is, Sizes
  <2>2. parse_opr_prefix(t, i) = 1
    BY <1>1, <2>1 DEF parse_opr_prefix
  <2>. QED  BY <1>1, <2>1, <2>2
<1>2. CASE Is(t, i, Members(Segments)) /\ Is(t, i + 1, {"COLON"})
  <2>1. ~ Is(t, i, Sizes) /\ i + 1 \in 1 .. Len(t)
    BY <1>2, RegisterSets, Places DEF Is, Sizes
  <2>2. (i + 1) + 1 \in 1 .. Len(t)
    BY <1>2, <2>1, Places DEF Is
  <2>3. parse_opr_prefix(t, i) = 2
    BY <1>2, <2>1 DEF parse_opr_prefix
  <2>. QED  BY <1>2, <2>1, <2>2, <2>3
<1>3. CASE ~ Is(t, i, Sizes) /\ ~ (Is(t, i, Members(Segments)) /\ Is(t, i + 1, {"COLON"}))
  <2>1. parse_opr_prefix(t, i) = 0
    BY <1>3 DEF parse_opr_prefix
  <2>. QED  BY <1>3, <2>1
<1>. QED  BY <1>1, <1>2, <1>3

LEMMA AfterExists ==
  ASSUME NEW t, IsProgram(t), NEW i \in 1 .. Len(t)
  PROVE  IsAfter(t, i, AfterOf(t, i))
<1>. DEFINE L == Len(t)
            p(j) == parse_opr_prefix(t, j)
            Good == {n \in Nat : n < L => \E f : IsAfter(t, L - n, f)}
<1>1. L \in Nat \ {0} /\ \A j \in 1 .. L : p(j) \in Nat /\ j + p(j) \in 1 .. L
  <2>1. L \in Nat \ {0}
    BY Places
  <2>2. \A j \in 1 .. Len(t) : parse_opr_prefix(t, j) \in 0 .. 2 /\ j + parse_opr_prefix(t, j) \in 1 .. Len(t)
    BY PrefixLengths
  <2>3. \A m \in 0 .. 2 : m \in Nat
    OBVIOUS
  <2>. QED  BY ONLY <2>1, <2>2, <2>3, Zenon DEF p, L
<1>2. 0 \in Good
  <2>1. p(L) = 0
    <3>. HIDE DEF p, L
    <3>1. L \in 1 .. L
      BY <1>1
    <3>2. p(L) \in Nat /\ L + p(L) \in 1 .. L
      BY <1>1, <3>1
    <3>. QED  BY <1>1, <3>2
  <2>. DEFINE f == [j \in L .. L |-> L]
  <2>2. f = [j \in L .. L |-> IF p(j) = 0 THEN j ELSE f[j + p(j)]]
    BY <1>1, <2>1
  <2>3. L - 0 = L
    BY <1>1
  <2>. HIDE DEF f
  <2>4. IsAfter(t, L - 0, f)
    BY <2>2, <2>3 DEF IsAfter
  <2>. QED  BY <2>4
<1>3. ASSUME NEW n \in Good PROVE n + 1 \in Good
  <2>. SUFFICES ASSUME n + 1 < L PROVE \E f : IsAfter(t, L - (n + 1), f)
    OBVIOUS
  <2>. DEFINE a == L - (n + 1)
  <2>1. a \in 1 .. L /\ L - n = a + 1 /\ n < L
    <3>1. n \in Nat /\ n + 1 < L /\ L \in Nat
      BY <1>1
    <3>. HIDE DEF L
    <3>. QED  BY <3>1
  <2>2. PICK f : IsAfter(t, a + 1, f)
    BY <2>1
  <2>3. \A j \in a + 1 .. L : f[j] = IF p(j) = 0 THEN j ELSE f[j + p(j)]
    <3>. HIDE DEF p, a
    <3>1. f = [j \in a + 1 .. L |-> IF p(j) = 0 THEN j ELSE f[j + p(j)]]
      BY <2>2 DEF IsAfter, p
    <3>. QED  BY <3>1
  <2>. DEFINE g == [j \in a .. L |-> IF j = a THEN (IF p(a) = 0 THEN a ELSE f[a + p(a)]) ELSE f[j]]
  <2>4. \A j \in a .. L : g[j] = IF p(j) = 0 THEN j ELSE g[j + p(j)]
    <3>. SUFFICES ASSUME NEW j \in a .. L PROVE g[j] = IF p(j) = 0 THEN j ELSE g[j + p(j)]
      OBVIOUS
    <3>. HIDE DEF p
    <3>1. p(j) \in Nat /\ j + p(j) \in 1 .. L /\ j \in 1 .. L
      BY <1>1, <2>1
    <3>. HIDE DEF a
    <3>2. p(j) # 0 => j + p(j) \in a + 1 .. L /\ j + p(j) # a
      BY <2>1, <3>1
    <3>3. p(j) # 0 => g[j + p(j)] = f[j + p(j)]
      BY <2>1, <3>2
    <3>4. CASE j = a
      <4>1. g[j] = IF p(j) = 0 THEN j ELSE f[j + p(j)]
        BY <2>1, <3>4
      <4>. HIDE DEF g
      <4>. QED  BY <3>3, <4>1
    <3>5. CASE j # a
      <4>1. g[j] = f[j]
        BY <3>5
      <4>2. j \in a + 1 .. L
        BY <2>1, <3>5
      <4>. HIDE DEF g
      <4>. QED  BY <2>3, <3>3, <4>1, <4>2
    <3>. QED  BY <3>4, <3>5
  <2>5. g = [j \in a .. L |-> g[j]]
    OBVIOUS
  <2>. HIDE DEF g, p, a
  <2>6. g = [j \in a .. L |-> IF p(j) = 0 THEN j ELSE g[j + p(j)]]
    BY <2>4, <2>5
  <2>7. IsAfter(t, a, g)
    BY <2>6 DEF IsAfter, p
  <2>. QED  BY <2>7 DEF a
<1>4. Good \in SUBSET Nat
  OBVIOUS
<1>5. Good = Nat
  <2>. HIDE DEF Good
  <2>. QED  BY <1>2, <1>3, <1>4, SetInduction
<1>6. L - i \in Good /\ L - i < L /\ L - (L - i) = i
  <2>1. L \in Nat /\ i \in 1 .. L
    BY <1>1
  <2>2. L - i \in Nat /\ L - i < L /\ L - (L - i) = i
    <3>. HIDE DEF L
    <3>. QED  BY <2>1
  <2>. HIDE DEF Good
  <2>. QED  BY <1>5, <2>2
<1>7. \E f : IsAfter(t, i, f)
  BY <1>6
<1>. QED  BY <1>7 DEF AfterOf

LEMMA AfterValues ==
  ASSUME NEW t, IsProgram(t), NEW i \in 1 .. Len(t)
  PROVE  \A j \in i .. Len(t) :
            /\ AfterOf(t, i)[j] = IF parse_opr_prefix(t, j) = 0 THEN j
                                  ELSE AfterOf(t, i)[j + parse_opr_prefix(t, j)]
            /\ AfterOf(t, i)[j] \in j .. Len(t)
<1>. DEFINE L == Len(t)
            p(j) == parse_opr_prefix(t, j)
            f == AfterOf(t, i)
<1>1. L \in Nat \ {0} /\ \A j \in 1 .. L : p(j) \in Nat /\ j + p(j) \in 1 .. L
  <2>1. L \in Nat \ {0}
    BY Places
  <2>2. \A j \in 1 .. Len(t) : parse_opr_prefix(t, j) \in 0 .. 2 /\ j + parse_opr_prefix(t, j) \in 1 .. Len(t)
    BY PrefixLengths
  <2>3. \A m \in 0 .. 2 : m \in Nat
    OBVIOUS
  <2>. QED  BY ONLY <2>1, <2>2, <2>3, Zenon DEF p, L
<1>2. \A j \in i .. L : f[j] = IF p(j) = 0 THEN j ELSE f[j + p(j)]
  <2>. HIDE DEF p, f
  <2>1. f = [j \in i .. L |-> IF p(j) = 0 THEN j ELSE f[j + p(j)]]
    BY AfterExists DEF IsAfter, p, f
  <2>. QED  BY <2>1
<1>. DEFINE Good == {n \in Nat : \A j \in i .. L : L - j <= n => f[j] \in j .. L}
<1>. HIDE DEF p, f
<1>3. 0 \in Good
  <2>. SUFFICES ASSUME NEW j \in i .. L, L - j <= 0 PROVE f[j] \in j .. L
    OBVIOUS
  <2>1. j = L /\ p(j) = 0
    BY <1>1
  <2>. QED  BY <1>2, <2>1
<1>4. ASSUME NEW n \in Good PROVE n + 1 \in Good
  <2>. SUFFICES ASSUME NEW j \in i .. L, L - j <= n + 1 PROVE f[j] \in j .. L
    OBVIOUS
  <2>. HIDE DEF L
  <2>1. CASE p(j) = 0
    <3>1. f[j] = j
      BY <1>2, <2>1
    <3>. QED  BY <1>1, <3>1
  <2>2. CASE p(j) # 0
    <3>1. j \in 1 .. L
      BY <1>1
    <3>2. p(j) \in Nat /\ j + p(j) \in 1 .. L
      BY <1>1, <3>1
    <3>3. j + p(j) \in i .. L /\ L - (j + p(j)) <= n
      <4>1. n \in Nat /\ i \in Nat /\ j \in Nat /\ L \in Nat
        BY <1>1
      <4>. HIDE DEF Good
      <4>. QED  BY <2>2, <3>2, <4>1
    <3>4. f[j + p(j)] \in j + p(j) .. L
      BY <3>3
    <3>5. f[j] = f[j + p(j)]
      BY <1>2, <2>2
    <3>6. j \in Nat /\ L \in Nat
      BY <1>1
    <3>. HIDE DEF Good
    <3>. QED  BY <3>2, <3>4, <3>5, <3>6
  <2>. QED  BY <2>1, <2>2
<1>5. Good \in SUBSET Nat
  OBVIOUS
<1>6. Good = Nat
  <2>. HIDE DEF Good
  <2>. QED  BY <1>3, <1>4, <1>5, SetInduction
<1>7. ASSUME NEW j \in i .. L PROVE f[j] \in j .. L
  <2>1. L - j \in Nat /\ L - j <= L - j
    <3>. HIDE DEF L, Good
    <3>. QED  BY <1>1
  <2>2. L - j \in Good
    <3>. HIDE DEF Good
    <3>. QED  BY <1>6, <2>1
  <2>. QED  BY <2>1, <2>2
<1>. QED  BY <1>2, <1>7 DEF f, p

(* The operand that the prefixes at token i belong to.                             *)
Start(t, i) == AfterOf(t, i)[i]

LEMMA PrefixedResult ==
  ASSUME NEW t, IsProgram(t), NEW i \in 1 .. Len(t)
  PROVE  /\ Start(t, i) \in i .. Len(t)
         /\ OperandEnd(t, Start(t, i)) # 0 =>
                /\ OperandEnd(t, Start(t, i)) \in i + 1 .. Len(t)
                /\ \E o : IsOperand(o) /\ parse_operand_(t, i) = Parsed(OperandEnd(t, Start(t, i)), o)
         /\ OperandEnd(t, Start(t, i)) = 0 => \E o : parse_operand_(t, i) = NotParsed(i, o)
<1>. DEFINE after[j \in i .. Len(t)] ==
                IF parse_opr_prefix(t, j) = 0 THEN j ELSE after[j + parse_opr_prefix(t, j)]
            prefixes == {t[j].kind : j \in i .. Start(t, i) - 1}
            prefixed(o) == [o EXCEPT !.prefix_size = prefixes \cap Sizes,
                                     !.prefix_seg_ovr = prefixes \cap Members(Segments)]
            r == parse_operand(t, Start(t, i))
<1>1. after[i] = Start(t, i)
  BY DEF Start, AfterOf, IsAfter
<1>2. parse_operand_(t, i) = IF r.ok THEN Parsed(r.at, prefixed(r.out))
                                     ELSE NotParsed(i, prefixed(NoOperand))
  <2>1. parse_operand_(t, i) =
            LET ps == {t[j].kind : j \in i .. after[i] - 1}
                pr(o) == [o EXCEPT !.prefix_size = ps \cap Sizes,
                                   !.prefix_seg_ovr = ps \cap Members(Segments)]
                q == parse_operand(t, after[i])
            IN  IF q.ok THEN Parsed(q.at, pr(q.out)) ELSE NotParsed(i, pr(NoOperand))
    BY DEF parse_operand_
  <2>. HIDE DEF after
  <2>. QED  BY <1>1, <2>1
<1>3. Start(t, i) \in i .. Len(t) /\ Start(t, i) \in 1 .. Len(t)
  BY AfterValues DEF Start
<1>. HIDE DEF after, r, prefixes
<1>4. CASE OperandEnd(t, Start(t, i)) # 0
  <2>1. /\ OperandEnd(t, Start(t, i)) \in Start(t, i) + 1 .. Len(t)
        /\ \E o : IsOperand(o) /\ r = Parsed(OperandEnd(t, Start(t, i)), o)
    BY <1>3, <1>4, OperandResult DEF r
  <2>2. PICK o : IsOperand(o) /\ r = Parsed(OperandEnd(t, Start(t, i)), o)
    BY <2>1
  <2>3. IsOperand(prefixed(o))
    BY <2>2, PrefixedIsOperand
  <2>4. parse_operand_(t, i) = Parsed(OperandEnd(t, Start(t, i)), prefixed(o))
    <3>1. r.ok = TRUE /\ r.at = OperandEnd(t, Start(t, i)) /\ r.out = o
      BY <2>2, ParsedParts
    <3>. QED  BY <1>2, <3>1
  <2>. QED  BY <1>3, <1>4, <2>1, <2>3, <2>4
<1>5. CASE OperandEnd(t, Start(t, i)) = 0
  <2>1. r = NotParsed(Start(t, i), NoOperand)
    BY <1>3, <1>5, OperandResult DEF r
  <2>2. parse_operand_(t, i) = NotParsed(i, prefixed(NoOperand))
    BY <1>2, <2>1, ParsedParts
  <2>. QED  BY <1>3, <1>5, <2>2
<1>. QED  BY <1>4, <1>5

(* Where the operand with its prefixes at token i ends, 0 if there is none, and    *)
(* where the tail of an instruction does, which may be empty.                      *)
PrefixedEnd(t, i) == OperandEnd(t, Start(t, i))
TailEnd(t, i) ==
    LET e == PrefixedEnd(t, i)
    IN  IF e = 0 THEN i
        ELSE IF Is(t, e, {"COMMA"}) /\ PrefixedEnd(t, e + 1) # 0 THEN PrefixedEnd(t, e + 1) ELSE e

IsInstruction(n) == n.mnemonic \in Mnemonics \cup {"NULL"} /\ IsOperand(n.dst) /\ IsOperand(n.src)

LEMMA TailResult ==
  ASSUME NEW t, IsProgram(t), NEW i \in 1 .. Len(t), NEW m \in Mnemonics \cup {"NULL"}
  PROVE  /\ TailEnd(t, i) \in i .. Len(t)
         /\ \E n : /\ IsInstruction(n)
                   /\ Optional(parse_instruction_tail(t, i, [NoInstruction EXCEPT !.mnemonic = m]))
                          = Parsed(TailEnd(t, i), n)
<1>. DEFINE inst == [NoInstruction EXCEPT !.mnemonic = m]
            dst  == parse_operand_(t, i)
            src  == parse_operand_(t, dst.at + 1)
            e    == PrefixedEnd(t, i)
<1>1. inst = [mnemonic |-> m, dst |-> NoOperand, src |-> NoOperand]
  BY DEF NoInstruction
<1>2. parse_instruction_tail(t, i, inst)
          = IF ~ dst.ok THEN NotParsed(i, inst)
            ELSE IF Is(t, dst.at, {"COMMA"}) /\ src.ok
                 THEN Parsed(src.at, [inst EXCEPT !.dst = dst.out, !.src = src.out])
                 ELSE Parsed(dst.at, [inst EXCEPT !.dst = dst.out])
  BY DEF parse_instruction_tail
<1>3. CASE e = 0
  <2>1. dst.ok = FALSE
    BY <1>3, PrefixedResult, ParsedParts DEF PrefixedEnd
  <2>2. parse_instruction_tail(t, i, inst) = NotParsed(i, inst)
    BY <1>2, <2>1
  <2>3. TailEnd(t, i) = i
    BY <1>3 DEF TailEnd
  <2>4. IsInstruction(inst)
    BY <1>1, NoOperandIsOperand DEF IsInstruction
  <2>5. i \in i .. Len(t)
    BY Places
  <2>. HIDE DEF inst
  <2>6. Optional(parse_instruction_tail(t, i, inst)) = Parsed(TailEnd(t, i), inst)
    BY <2>2, <2>3, OptionalParts
  <2>. QED  BY <2>3, <2>4, <2>5, <2>6 DEF inst
<1>4. CASE e # 0
  <2>1. PICK o : e \in i + 1 .. Len(t) /\ IsOperand(o) /\ dst = Parsed(e, o)
    BY <1>4, PrefixedResult DEF PrefixedEnd
  <2>2. dst.ok = TRUE /\ dst.at = e /\ dst.out = o
    BY <2>1, ParsedParts
  <2>3. e \in 1 .. Len(t)
    BY <2>1, Places
  <2>. DEFINE f == PrefixedEnd(t, e + 1)
  <2>4. CASE Is(t, e, {"COMMA"}) /\ f # 0
    <3>1. e + 1 \in 1 .. Len(t)
      BY <2>3, <2>4, Places DEF Is
    <3>2. PICK q : f \in (e + 1) + 1 .. Len(t) /\ IsOperand(q) /\ parse_operand_(t, e + 1) = Parsed(f, q)
      BY <2>4, <3>1, PrefixedResult DEF PrefixedEnd
    <3>3. src.ok = TRUE /\ src.at = f /\ src.out = q
      BY <2>2, <3>2, ParsedParts
    <3>. DEFINE n == [inst EXCEPT !.dst = o, !.src = q]
    <3>4. parse_instruction_tail(t, i, inst) = Parsed(f, n)
      BY <1>2, <2>2, <2>4, <3>3
    <3>5. IsInstruction(n)
      BY <1>1, <2>1, <3>2 DEF IsInstruction
    <3>6. TailEnd(t, i) = f /\ f \in i .. Len(t)
      <4>1. TailEnd(t, i) = f
        BY <1>4, <2>4 DEF TailEnd
      <4>. HIDE DEF f, e
      <4>. QED  BY <2>1, <3>2, <4>1, Places
    <3>. HIDE DEF inst, n
    <3>. QED  BY <3>4, <3>5, <3>6, OptionalParts DEF inst
  <2>5. CASE ~ (Is(t, e, {"COMMA"}) /\ f # 0)
    <3>1. Is(t, e, {"COMMA"}) => src.ok = FALSE
      <4>. SUFFICES ASSUME Is(t, e, {"COMMA"}) PROVE src.ok = FALSE
        OBVIOUS
      <4>1. e + 1 \in 1 .. Len(t) /\ f = 0
        BY <2>3, <2>5, Places DEF Is
      <4>. QED  BY <2>2, <4>1, PrefixedResult, ParsedParts DEF PrefixedEnd
    <3>. DEFINE n == [inst EXCEPT !.dst = o]
    <3>2. parse_instruction_tail(t, i, inst) = Parsed(e, n)
      BY <1>2, <2>2, <3>1
    <3>3. IsInstruction(n)
      BY <1>1, <2>1, NoOperandIsOperand DEF IsInstruction
    <3>4. TailEnd(t, i) = e /\ e \in i .. Len(t)
      <4>1. TailEnd(t, i) = e
        BY <1>4, <2>5 DEF TailEnd
      <4>. HIDE DEF e
      <4>. QED  BY <2>1, <4>1, Places
    <3>. HIDE DEF inst, n
    <3>. QED  BY <3>2, <3>3, <3>4, OptionalParts DEF inst
  <2>. QED  BY <2>4, <2>5
<1>. QED  BY <1>3, <1>4

LEMMA InstructionResult ==
  ASSUME NEW t, IsProgram(t), NEW i \in 1 .. Len(t)
  PROVE  /\ Is(t, i, Mnemonics) =>
                /\ i + 1 \in 1 .. Len(t) /\ TailEnd(t, i + 1) \in i + 1 .. Len(t)
                /\ \E n : IsInstruction(n) /\ parse_instruction(t, i) = Parsed(TailEnd(t, i + 1), n)
         /\ ~ Is(t, i, Mnemonics) => parse_instruction(t, i) = NotParsed(i, NoInstruction)
<1>1. CASE Is(t, i, Mnemonics)
  <2>1. t[i].kind \in Mnemonics \cup {"NULL"} /\ i + 1 \in 1 .. Len(t)
    BY <1>1, Places, MnemonicsAssumption DEF Is
  <2>. QED  BY <1>1, <2>1, TailResult DEF parse_instruction
<1>2. CASE ~ Is(t, i, Mnemonics)
  BY <1>2 DEF parse_instruction
<1>. QED  BY <1>1, <1>2
-------------------------------------------------------------------------------
(* The rounds of main's loop.                                                      *)
LEMMA NoInstructionType == IsInstruction(NoInstruction)
BY NoOperandIsOperand DEF IsInstruction, NoInstruction

(* A label or a bits line: both tokens are there, and one more after them.         *)
LEMMA TwoTokens ==
  ASSUME NEW t, IsProgram(t), NEW i \in 1 .. Len(t),
         t[i].kind # "EOL", t[i + 1].kind # "EOL"
  PROVE  i + 1 \in 1 .. Len(t) /\ i + 2 \in 1 .. Len(t)
<1>1. i + 1 \in 1 .. Len(t)
  BY Places
<1>2. (i + 1) + 1 \in 1 .. Len(t)
  BY <1>1, Places
<1>. QED  BY <1>1, <1>2

(* What a round does, told by where the line ends.                                 *)
LEMMA EndLineStep ==
  ASSUME IsProgram(token), Parsing, idx \in 1 .. Len(token) + 1,
         NEW e \in idx .. Len(token), NEW n, IsInstruction(n),
         NEW r, r = Parsed(e, n) \/ r = NotParsed(idx, n), EndLine(r)
  PROVE  /\ token' = token /\ line' = idx /\ IsInstruction(instruction')
         /\ \/ idx' = e + 1 /\ pc' = pc /\ r = Parsed(e, n) /\ Is(token, e, {"EOL"})
            \/ idx' = idx /\ pc' = "refused" /\ (r = Parsed(e, n) => ~ Is(token, e, {"EOL"}))
<1>1. CASE r = Parsed(e, n)
  <2>1. r.ok = TRUE /\ r.at = e /\ r.out = n
    BY <1>1, ParsedParts
  <2>. QED  BY <1>1, <2>1 DEF EndLine
<1>2. CASE r = NotParsed(idx, n)
  <2>1. r.ok = FALSE /\ r.at = idx /\ r.out = n
    BY <1>2, ParsedParts
  <2>2. r # Parsed(e, n)
    BY <2>1, ParsedParts
  <2>. QED  BY <1>2, <2>1, <2>2 DEF EndLine
<1>. QED  BY <1>1, <1>2

Typed == IsProgram(token) /\ TypeOK

LEMMA InitTyped == Init => Typed
<1>. SUFFICES ASSUME Init PROVE Typed
  OBVIOUS
<1>1. IsProgram(token)
  BY ProgramsAssumption DEF Init
<1>2. IsInstruction(instruction)
  BY NoInstructionType DEF Init
<1>. QED  BY <1>1, <1>2, Places DEF Init, Typed, TypeOK, IsInstruction

(* An instruction line, a label and a bits line end with EndLine.                  *)
LEMMA LineStep ==
  ASSUME Typed, BitsLine \/ LabelLine \/ InstructionLine
  PROVE  /\ token' = token /\ line' = idx /\ IsInstruction(instruction')
         /\ labels' \subseteq labels \cup {token[idx].val}
         /\ \/ \E e \in idx .. Len(token) : idx' = e + 1 /\ pc' = pc
            \/ idx' = idx /\ pc' = "refused"
<1>. USE DEF Typed, TypeOK
<1>1. CASE BitsLine \/ LabelLine
  <2>1. token[idx].kind # "EOL" /\ token[idx + 1].kind # "EOL" /\ idx \in 1 .. Len(token)
    BY <1>1, Places DEF BitsLine, LabelLine, AtBits, AtLabel, Is, Parsing
  <2>2. idx + 2 \in idx .. Len(token)
    BY <2>1, TwoTokens
  <2>3. EndLine(Parsed(idx + 2, NoInstruction)) /\ Parsing
    BY <1>1 DEF BitsLine, LabelLine
  <2>4. labels' \subseteq labels \cup {token[idx].val}
    BY <1>1 DEF BitsLine, LabelLine
  <2>. QED  BY <2>2, <2>3, <2>4, EndLineStep, NoInstructionType
<1>2. CASE InstructionLine
  <2>1. idx \in 1 .. Len(token) /\ idx \in idx .. Len(token) /\ Parsing
    BY <1>2, Places DEF InstructionLine, Parsing
  <2>2. EndLine(parse_instruction(token, idx)) /\ labels' = labels
    BY <1>2 DEF InstructionLine
  <2>3. \E e \in idx .. Len(token) : \E n :
            IsInstruction(n) /\ (parse_instruction(token, idx) = Parsed(e, n)
                                    \/ parse_instruction(token, idx) = NotParsed(idx, n))
    <3>1. CASE Is(token, idx, Mnemonics)
      <4>1. TailEnd(token, idx + 1) \in idx .. Len(token)
        BY <2>1, <3>1, InstructionResult, Places
      <4>. QED  BY <2>1, <3>1, <4>1, InstructionResult
    <3>2. CASE ~ Is(token, idx, Mnemonics)
      BY <2>1, <3>2, InstructionResult, NoInstructionType
    <3>. QED  BY <3>1, <3>2
  <2>. QED  BY <2>1, <2>2, <2>3, EndLineStep
<1>. QED  BY <1>1, <1>2

LEMMA StepTyped ==
  ASSUME Typed, [Next]_vars
  PROVE  Typed' /\ (pc' = "parsing" /\ vars' # vars => idx' > idx)
<1>. USE DEF Typed, TypeOK
<1>1. CASE EmptyLine
  <2>1. idx + 1 \in 1 .. Len(token) + 1 /\ idx \in 1 .. Len(token)
    BY <1>1, Places DEF EmptyLine, Parsing
  <2>2. IsInstruction(instruction')
    BY <1>1, NoInstructionType DEF EmptyLine
  <2>. QED  BY <1>1, <2>1, <2>2 DEF EmptyLine, IsInstruction
<1>2. CASE BitsLine \/ LabelLine \/ InstructionLine
  <2>1. idx \in 1 .. Len(token) /\ Len(token) \in Nat
    BY <1>2, Places DEF BitsLine, LabelLine, InstructionLine, Parsing
  <2>2. /\ token' = token /\ line' = idx /\ IsInstruction(instruction')
        /\ labels' \subseteq labels \cup {token[idx].val}
        /\ \/ \E e \in idx .. Len(token) : idx' = e + 1 /\ pc' = pc
           \/ idx' = idx /\ pc' = "refused"
    BY <1>2, LineStep
  <2>3. /\ idx' \in 1 .. Len(token) + 1 /\ pc' \in {"parsing", "done", "refused", "aborted"}
        /\ pc' = "parsing" => idx' > idx
    BY <2>1, <2>2
  <2>4. labels' \subseteq {token[i].val : i \in DOMAIN token}
    BY <2>1, <2>2, Places
  <2>. QED  BY <2>1, <2>2, <2>3, <2>4 DEF IsInstruction
<1>3. CASE DuplicateLabel
  <2>1. idx \in 1 .. Len(token) /\ IsInstruction(instruction')
    BY <1>3, Places, NoInstructionType DEF DuplicateLabel, Parsing
  <2>. QED  BY <1>3, <2>1 DEF DuplicateLabel, IsInstruction
<1>4. CASE Finish
  BY <1>4 DEF Finish
<1>5. CASE UNCHANGED vars
  BY <1>5 DEF vars
<1>. QED  BY <1>1, <1>2, <1>3, <1>4, <1>5 DEF Next

LEMMA AlwaysTyped == Spec => []Typed
BY InitTyped, StepTyped, PTL DEF Spec

(* Every variable keeps its type: idx passes the last token by one at most, and    *)
(* both operands are such as codegen takes, which the encoder's proofs rest on     *)
(* (parser.c:70-691).                                                              *)
THEOREM TypeCorrect == Spec => []TypeOK
BY AlwaysTyped, PTL DEF Typed

(* Each round of main's loop passes at least one token or is the last             *)
(* (asm8086.c:51-58).                                                              *)
THEOREM AdvancesCorrect == Spec => RoundsAdvance
<1>1. Typed /\ [Next]_vars => [pc' = "parsing" => idx' > idx]_vars
  BY StepTyped
<1>. QED  BY <1>1, AlwaysTyped, PTL DEF Spec, RoundsAdvance
-------------------------------------------------------------------------------
(* The language of grammar.txt. Span is a part of a text, given by where it starts *)
(* and where it ends; a production is read off the tokens of the span.             *)
Span(ks, i, j) == SubSeq(ks, i, j - 1)

Lexemes == {"BITS", "PLUS", "MINUS", "NUM", "ZERO", "LSQUARE_BR", "RSQUARE_BR", "COLON", "LABEL", "BYTE", "WORD"}
               \cup General \cup Members(Segments) \cup Bases \cup Indices
IsLanguage(L) == L \subseteq Seq(Lexemes)

Cat(L, M) == {l \o m : l \in L, m \in M}

LEMMA CatIsLanguage ==
  ASSUME NEW L, IsLanguage(L), NEW M, IsLanguage(M)
  PROVE  G!**(L, M) = Cat(L, M) /\ IsLanguage(G!**(L, M))
<1>1. G!**(L, M) = Cat(L, M)
  BY DEF G!**, Cat
<1>2. ASSUME NEW l \in L, NEW m \in M PROVE l \o m \in Seq(Lexemes)
  BY ConcatProperties DEF IsLanguage
<1>3. IsLanguage(Cat(L, M))
  <2>. SUFFICES ASSUME NEW x \in Cat(L, M) PROVE x \in Seq(Lexemes)
    BY DEF IsLanguage
  <2>1. PICK l \in L, m \in M : x = l \o m
    BY DEF Cat
  <2>. QED  BY <1>2, <2>1
<1>. QED  BY <1>1, <1>3

LEMMA OneOfIsLanguage ==
  ASSUME NEW A, A \subseteq Lexemes
  PROVE  IsLanguage(G!OneOf(A))
<1>1. \A k \in A : <<k>> \in Seq(Lexemes)
  OBVIOUS
<1>. QED  BY <1>1 DEF IsLanguage, G!OneOf

LEMMA TokIsLanguage ==
  ASSUME NEW k \in Lexemes
  PROVE  IsLanguage(G!Tok(k))
BY DEF IsLanguage, G!Tok

LEMMA OptIsLanguage ==
  ASSUME NEW L, IsLanguage(L)
  PROVE  IsLanguage(G!Opt(L))
<1>1. <<>> \in Seq(Lexemes)
  OBVIOUS
<1>. QED  BY <1>1 DEF IsLanguage, G!Opt

LEMMA SpanProperties ==
  ASSUME NEW S, NEW ks \in Seq(S), NEW i \in 1 .. Len(ks) + 1, NEW j \in i .. Len(ks) + 1
  PROVE  /\ Span(ks, i, j) \in Seq(S) /\ Len(Span(ks, i, j)) = j - i
         /\ \A k \in 1 .. j - i : Span(ks, i, j)[k] = ks[i + k - 1]
<1>1. Len(ks) \in Nat
  OBVIOUS
<1>2. \A m \in 1 .. Len(ks) + 1, n \in 0 .. Len(ks) :
         /\ SubSeq(ks, m, n) \in Seq(S)
         /\ Len(SubSeq(ks, m, n)) = IF m <= n THEN n - m + 1 ELSE 0
         /\ \A k \in 1 .. n - m + 1 : SubSeq(ks, m, n)[k] = ks[m + k - 1]
  BY SubSeqProperties
<1>3. j - 1 \in 0 .. Len(ks) /\ (j - 1) - i + 1 = j - i /\ (i <= j - 1 \/ j - i = 0)
  BY <1>1
<1>. QED  BY <1>2, <1>3 DEF Span

(* A span of a concatenation is a span of each part.                               *)
LEMMA CatSpan ==
  ASSUME NEW S, NEW ks \in Seq(S), NEW i \in 1 .. Len(ks) + 1, NEW j \in i .. Len(ks) + 1,
         NEW L, IsLanguage(L), NEW M, IsLanguage(M)
  PROVE  Span(ks, i, j) \in Cat(L, M)
             <=> \E m \in i .. j : Span(ks, i, m) \in L /\ Span(ks, m, j) \in M
<1>1. Len(ks) \in Nat
  OBVIOUS
<1>2. ASSUME NEW m \in i .. j, Span(ks, i, m) \in L, Span(ks, m, j) \in M
      PROVE  Span(ks, i, j) \in Cat(L, M)
  <2>1. Span(ks, i, m) \o Span(ks, m, j) = Span(ks, i, j)
    <3>1. i \in 1 .. Len(ks) + 1 /\ m - 1 \in i - 1 .. Len(ks) /\ j - 1 \in m - 1 .. Len(ks)
      BY <1>1
    <3>2. (m - 1) + 1 = m
      BY <1>1
    <3>3. SubSeq(ks, i, m - 1) \o SubSeq(ks, (m - 1) + 1, j - 1) = SubSeq(ks, i, j - 1)
      BY <3>1, ConcatAdjacentSubSeq
    <3>. QED  BY <3>2, <3>3 DEF Span
  <2>. QED  BY <1>2, <2>1 DEF Cat
<1>3. ASSUME Span(ks, i, j) \in Cat(L, M)
      PROVE  \E m \in i .. j : Span(ks, i, m) \in L /\ Span(ks, m, j) \in M
  <2>1. PICK l \in L, r \in M : Span(ks, i, j) = l \o r
    BY <1>3 DEF Cat
  <2>2. l \in Seq(Lexemes) /\ r \in Seq(Lexemes)
    BY DEF IsLanguage
  <2>3. Len(l) \in Nat /\ Len(r) \in Nat /\ Len(l \o r) = Len(l) + Len(r)
    BY <2>2, ConcatProperties
  <2>4. Len(l) + Len(r) = j - i
    BY <2>1, <2>3, SpanProperties
  <2>. DEFINE m == i + Len(l)
  <2>5. m \in i .. j /\ m \in 1 .. Len(ks) + 1 /\ j \in m .. Len(ks) + 1
    BY <1>1, <2>3, <2>4
  <2>6. Len(Span(ks, i, m)) = Len(l) /\ Len(Span(ks, m, j)) = Len(r)
    <3>1. Len(Span(ks, i, m)) = m - i /\ Len(Span(ks, m, j)) = j - m
      <4>1. m \in i .. Len(ks) + 1
        BY <1>1, <2>5
      <4>. HIDE DEF m
      <4>. QED  BY <2>5, <4>1, SpanProperties
    <3>. QED  BY <1>1, <2>3, <2>4, <3>1
  <2>7. ASSUME NEW k \in 1 .. Len(l) PROVE Span(ks, i, m)[k] = l[k]
    <3>1. k \in 1 .. m - i /\ k \in 1 .. j - i /\ k \in 1 .. Len(l) + Len(r) /\ k <= Len(l)
      BY <1>1, <2>3, <2>4
    <3>2. m \in i .. Len(ks) + 1
      BY <1>1, <2>5
    <3>3. Span(ks, i, m)[k] = ks[i + k - 1] /\ Span(ks, i, j)[k] = ks[i + k - 1]
      <4>. HIDE DEF m
      <4>. QED  BY <3>1, <3>2, SpanProperties
    <3>4. (l \o r)[k] = l[k]
      BY <2>2, <3>1, ConcatProperties
    <3>. QED  BY <2>1, <3>3, <3>4
  <2>8. ASSUME NEW k \in 1 .. Len(r) PROVE Span(ks, m, j)[k] = r[k]
    <3>. DEFINE q == Len(l) + k
    <3>1. /\ k \in 1 .. j - m /\ q \in 1 .. j - i /\ q \in 1 .. Len(l) + Len(r) /\ ~ (q <= Len(l))
          /\ q - Len(l) = k /\ i + q - 1 = m + k - 1
      BY <1>1, <2>3, <2>4
    <3>2. Span(ks, i, j)[q] = ks[i + q - 1] /\ Span(ks, m, j)[k] = ks[m + k - 1]
      <4>. HIDE DEF m, q
      <4>1. Span(ks, i, j)[q] = ks[i + q - 1]
        <5>1. ks \in Seq(S) /\ i \in 1 .. Len(ks) + 1 /\ j \in i .. Len(ks) + 1 /\ q \in 1 .. j - i
          BY <3>1
        <5>. QED  BY ONLY <5>1, SpanProperties
      <4>2. Span(ks, m, j)[k] = ks[m + k - 1]
        <5>1. ks \in Seq(S) /\ m \in 1 .. Len(ks) + 1 /\ j \in m .. Len(ks) + 1 /\ k \in 1 .. j - m
          BY <2>5, <3>1
        <5>. QED  BY ONLY <5>1, SpanProperties
      <4>. QED  BY <4>1, <4>2
    <3>3. (l \o r)[q] = r[q - Len(l)]
      <4>. HIDE DEF q
      <4>. QED  BY <2>2, <3>1, ConcatProperties
    <3>. HIDE DEF m, q
    <3>. QED  BY <2>1, <3>1, <3>2, <3>3
  <2>. DEFINE T == S \cup Lexemes
  <2>9. Span(ks, i, m) = l /\ Span(ks, m, j) = r
    <3>1. l \in Seq(T) /\ r \in Seq(T)
      BY <2>2, SeqMonotonic
    <3>2. Span(ks, i, m) \in Seq(S) /\ Span(ks, m, j) \in Seq(S)
      <4>1. m \in i .. Len(ks) + 1
        BY <1>1, <2>5
      <4>. HIDE DEF m
      <4>. QED  BY <2>5, <4>1, SpanProperties
    <3>3. Span(ks, i, m) \in Seq(T) /\ Span(ks, m, j) \in Seq(T)
      BY <3>2, SeqMonotonic
    <3>. HIDE DEF m, T
    <3>4. Span(ks, i, m) = l
      BY <2>6, <2>7, <3>1, <3>3, SeqEqual
    <3>5. Span(ks, m, j) = r
      BY <2>6, <2>8, <3>1, <3>3, SeqEqual
    <3>. QED  BY <3>4, <3>5
  <2>. QED  BY <2>5, <2>9
<1>. QED  BY <1>2, <1>3

LEMMA OneSpan ==
  ASSUME NEW S, NEW ks \in Seq(S), NEW i \in 1 .. Len(ks) + 1, NEW j \in i .. Len(ks) + 1, NEW A
  PROVE  Span(ks, i, j) \in G!OneOf(A) <=> j = i + 1 /\ ks[i] \in A
<1>1. Span(ks, i, j) \in Seq(S) /\ Len(Span(ks, i, j)) = j - i
  BY SpanProperties
<1>2. ASSUME NEW a \in A, Span(ks, i, j) = <<a>> PROVE j = i + 1 /\ ks[i] \in A
  <2>1. j - i = 1
    BY <1>1, <1>2
  <2>2. \A k \in 1 .. j - i : Span(ks, i, j)[k] = ks[i + k - 1]
    BY ONLY SpanProperties, ks \in Seq(S), i \in 1 .. Len(ks) + 1, j \in i .. Len(ks) + 1
  <2>3. i + 1 - 1 = i /\ j = i + 1 /\ 1 \in 1 .. j - i
    BY <2>1
  <2>4. Span(ks, i, j)[1] = ks[i]
    BY <2>2, <2>3
  <2>. QED  BY <1>2, <2>3, <2>4
<1>3. ASSUME j = i + 1, ks[i] \in A PROVE Span(ks, i, j) = <<ks[i]>>
  <2>1. Len(Span(ks, i, j)) = 1 /\ Span(ks, i, j)[1] = ks[i]
    <3>1. 1 \in 1 .. j - i /\ i + 1 - 1 = i /\ j - i = 1
      BY <1>3
    <3>2. \A k \in 1 .. j - i : Span(ks, i, j)[k] = ks[i + k - 1]
      BY ONLY SpanProperties, ks \in Seq(S), i \in 1 .. Len(ks) + 1, j \in i .. Len(ks) + 1
    <3>3. Span(ks, i, j)[1] = ks[i]
      BY <3>1, <3>2
    <3>. QED  BY <1>1, <3>1, <3>3
  <2>. QED  BY <1>1, <2>1
<1>. QED  BY <1>2, <1>3 DEF G!OneOf

LEMMA TokSpan ==
  ASSUME NEW S, NEW ks \in Seq(S), NEW i \in 1 .. Len(ks) + 1, NEW j \in i .. Len(ks) + 1, NEW a
  PROVE  Span(ks, i, j) \in G!Tok(a) <=> j = i + 1 /\ ks[i] = a
<1>1. G!Tok(a) = G!OneOf({a})
  BY DEF G!Tok, G!OneOf
<1>. QED  BY <1>1, OneSpan

LEMMA OptSpan ==
  ASSUME NEW S, NEW ks \in Seq(S), NEW i \in 1 .. Len(ks) + 1, NEW j \in i .. Len(ks) + 1, NEW L
  PROVE  Span(ks, i, j) \in G!Opt(L) <=> (j = i \/ Span(ks, i, j) \in L)
<1>1. Span(ks, i, j) \in Seq(S) /\ Len(Span(ks, i, j)) = j - i
  BY SpanProperties
<1>2. Span(ks, i, j) = <<>> <=> j = i
  BY <1>1
<1>. QED  BY <1>2 DEF G!Opt

IsSpan(ks, i, j) ==
    /\ ks \in Seq({ks[k] : k \in DOMAIN ks})
    /\ i \in 1 .. Len(ks) + 1 /\ j \in i .. Len(ks) + 1

LEMMA SpanParts ==
  ASSUME NEW ks, NEW i, NEW j, IsSpan(ks, i, j)
  PROVE  /\ Len(ks) \in Nat /\ i \in Nat \ {0} /\ j \in Nat /\ i <= j /\ j <= Len(ks) + 1
         /\ \A m \in i .. j : IsSpan(ks, i, m) /\ IsSpan(ks, m, j)
<1>1. Len(ks) \in Nat
  BY DEF IsSpan
<1>. QED  BY <1>1 DEF IsSpan

LEMMA PartsOfSpan ==
  ASSUME NEW ks, NEW i, NEW j, IsSpan(ks, i, j), NEW L, IsLanguage(L), NEW M, IsLanguage(M)
  PROVE  Span(ks, i, j) \in G!**(L, M)
             <=> \E m \in i .. j : Span(ks, i, m) \in L /\ Span(ks, m, j) \in M
<1>1. G!**(L, M) = Cat(L, M)
  BY CatIsLanguage
<1>. QED  BY <1>1, CatSpan DEF IsSpan

LEMMA OneOfSpan ==
  ASSUME NEW ks, NEW i, NEW j, IsSpan(ks, i, j), NEW A
  PROVE  Span(ks, i, j) \in G!OneOf(A) <=> j = i + 1 /\ ks[i] \in A
BY OneSpan DEF IsSpan

LEMMA MaybeSpan ==
  ASSUME NEW ks, NEW i, NEW j, IsSpan(ks, i, j), NEW L
  PROVE  Span(ks, i, j) \in G!Opt(L) <=> (j = i \/ Span(ks, i, j) \in L)
BY OptSpan DEF IsSpan

LEMMA TokIsOneOf == \A a : G!Tok(a) = G!OneOf({a})
BY DEF G!Tok, G!OneOf

LEMMA FirstOfSpan ==
  ASSUME NEW ks, NEW i, NEW j, IsSpan(ks, i, j), NEW A, A \subseteq Lexemes, NEW M, IsLanguage(M)
  PROVE  Span(ks, i, j) \in G!**(G!OneOf(A), M) <=> i < j /\ ks[i] \in A /\ Span(ks, i + 1, j) \in M
<1>1. /\ i \in Nat \ {0} /\ j \in Nat /\ i <= j
      /\ \A m \in i .. j : IsSpan(ks, i, m)
  BY SpanParts
<1>2. \A m \in i .. j : Span(ks, i, m) \in G!OneOf(A) <=> m = i + 1 /\ ks[i] \in A
  BY <1>1, OneOfSpan
<1>3. Span(ks, i, j) \in G!**(G!OneOf(A), M)
          <=> \E m \in i .. j : Span(ks, i, m) \in G!OneOf(A) /\ Span(ks, m, j) \in M
  BY OneOfIsLanguage, PartsOfSpan
<1>4. i < j <=> i + 1 \in i .. j
  BY <1>1
<1>. QED  BY <1>2, <1>3, <1>4

LEMMA LastOfSpan ==
  ASSUME NEW ks, NEW i, NEW j, IsSpan(ks, i, j), NEW A, A \subseteq Lexemes, NEW L, IsLanguage(L)
  PROVE  Span(ks, i, j) \in G!**(L, G!OneOf(A)) <=> i < j /\ ks[j - 1] \in A /\ Span(ks, i, j - 1) \in L
<1>1. /\ i \in Nat \ {0} /\ j \in Nat /\ i <= j
      /\ \A m \in i .. j : IsSpan(ks, m, j)
  BY SpanParts
<1>2. \A m \in i .. j : Span(ks, m, j) \in G!OneOf(A) <=> j = m + 1 /\ ks[m] \in A
  BY <1>1, OneOfSpan
<1>3. Span(ks, i, j) \in G!**(L, G!OneOf(A))
          <=> \E m \in i .. j : Span(ks, i, m) \in L /\ Span(ks, m, j) \in G!OneOf(A)
  BY OneOfIsLanguage, PartsOfSpan
<1>4. i < j <=> j - 1 \in i .. j
  BY <1>1
<1>5. \A m \in i .. j : j = m + 1 <=> m = j - 1
  BY <1>1
<1>. QED  BY <1>2, <1>3, <1>4, <1>5

LEMMA OptionalAtEnd ==
  ASSUME NEW ks, NEW i, NEW j, IsSpan(ks, i, j), NEW L, IsLanguage(L), NEW M, IsLanguage(M)
  PROVE  Span(ks, i, j) \in G!**(L, G!Opt(M))
             <=> \/ Span(ks, i, j) \in L
                 \/ \E m \in i .. j : Span(ks, i, m) \in L /\ Span(ks, m, j) \in M
<1>1. /\ i \in Nat \ {0} /\ j \in Nat /\ i <= j /\ j \in i .. j
      /\ \A m \in i .. j : IsSpan(ks, m, j)
  BY SpanParts
<1>2. \A m \in i .. j : Span(ks, m, j) \in G!Opt(M) <=> (j = m \/ Span(ks, m, j) \in M)
  BY <1>1, MaybeSpan
<1>3. Span(ks, i, j) \in G!**(L, G!Opt(M))
          <=> \E m \in i .. j : Span(ks, i, m) \in L /\ Span(ks, m, j) \in G!Opt(M)
  BY OptIsLanguage, PartsOfSpan
<1>. QED  BY <1>1, <1>2, <1>3

LEMMA OptionalAtStart ==
  ASSUME NEW ks, NEW i, NEW j, IsSpan(ks, i, j), NEW L, IsLanguage(L), NEW M, IsLanguage(M)
  PROVE  Span(ks, i, j) \in G!**(G!Opt(L), M)
             <=> \/ Span(ks, i, j) \in M
                 \/ \E m \in i .. j : Span(ks, i, m) \in L /\ Span(ks, m, j) \in M
<1>1. /\ i \in Nat \ {0} /\ j \in Nat /\ i <= j /\ i \in i .. j
      /\ \A m \in i .. j : IsSpan(ks, i, m)
  BY SpanParts
<1>2. \A m \in i .. j : Span(ks, i, m) \in G!Opt(L) <=> (m = i \/ Span(ks, i, m) \in L)
  BY <1>1, MaybeSpan
<1>3. Span(ks, i, j) \in G!**(G!Opt(L), M)
          <=> \E m \in i .. j : Span(ks, i, m) \in G!Opt(L) /\ Span(ks, m, j) \in M
  BY OptIsLanguage, PartsOfSpan
<1>. QED  BY <1>1, <1>2, <1>3

(* The productions.                                                                *)
LEMMA SetsOfLexemes ==
  /\ {"PLUS", "MINUS"} \subseteq Lexemes /\ Bases \subseteq Lexemes /\ Indices \subseteq Lexemes
  /\ Bases \cup Indices \subseteq Lexemes /\ General \subseteq Lexemes /\ Members(Segments) \subseteq Lexemes
  /\ {"NUM", "ZERO"} \subseteq Lexemes /\ {"NUM"} \subseteq Lexemes /\ {"PLUS"} \subseteq Lexemes
  /\ {"COLON"} \subseteq Lexemes /\ {"LABEL"} \subseteq Lexemes /\ {"LSQUARE_BR"} \subseteq Lexemes
  /\ {"RSQUARE_BR"} \subseteq Lexemes /\ {"BYTE", "WORD"} \subseteq Lexemes /\ {"BITS"} \subseteq Lexemes
BY DEF Lexemes

LEMMA MaybeSigned ==
  ASSUME NEW ks, NEW i, NEW j, IsSpan(ks, i, j), NEW A, A \subseteq Lexemes
  PROVE  Span(ks, i, j) \in G!**(G!Opt(G!OprMath), G!OneOf(A))
             <=> \/ j = i + 1 /\ ks[i] \in A
                 \/ j = i + 2 /\ ks[i] \in OprMath /\ ks[i + 1] \in A
<1>1. G!OprMath = G!OneOf(OprMath) /\ IsLanguage(G!OprMath) /\ IsLanguage(G!OneOf(A))
  BY SetsOfLexemes, OneOfIsLanguage DEF G!OprMath, OprMath
<1>2. i \in Nat /\ j \in Nat /\ i <= j /\ \A m \in i .. j : IsSpan(ks, i, m) /\ IsSpan(ks, m, j)
  BY SpanParts
<1>3. \A m \in i .. j : /\ Span(ks, i, m) \in G!OprMath <=> m = i + 1 /\ ks[i] \in OprMath
                        /\ Span(ks, m, j) \in G!OneOf(A) <=> j = m + 1 /\ ks[m] \in A
  BY <1>1, <1>2, OneOfSpan
<1>4. Span(ks, i, j) \in G!**(G!Opt(G!OprMath), G!OneOf(A))
          <=> \/ Span(ks, i, j) \in G!OneOf(A)
              \/ \E m \in i .. j : Span(ks, i, m) \in G!OprMath /\ Span(ks, m, j) \in G!OneOf(A)
  BY <1>1, OptionalAtStart
<1>5. Span(ks, i, j) \in G!OneOf(A) <=> j = i + 1 /\ ks[i] \in A
  BY OneOfSpan
<1>6. (\E m \in i .. j : m = i + 1 /\ ks[i] \in OprMath /\ j = m + 1 /\ ks[m] \in A)
          <=> j = i + 2 /\ ks[i] \in OprMath /\ ks[i + 1] \in A
  BY <1>2
<1>. QED  BY <1>3, <1>4, <1>5, <1>6

SignedIn(ks, i, j) == j = i + 2 /\ ks[i] \in OprMath /\ ks[i + 1] = "NUM"
DirectIn(ks, i, j) == (j = i + 1 /\ ks[i] = "NUM") \/ SignedIn(ks, i, j)
ZeroIn(ks, i, j) ==
    (j = i + 1 /\ ks[i] = "ZERO") \/ (j = i + 2 /\ ks[i] \in OprMath /\ ks[i + 1] = "ZERO")

LEMMA SignedSpan ==
  ASSUME NEW ks, NEW i, NEW j, IsSpan(ks, i, j)
  PROVE  Span(ks, i, j) \in G!SignedNum <=> SignedIn(ks, i, j)
<1>1. /\ G!SignedNum = G!**(G!OneOf(OprMath), G!OneOf({"NUM"}))
      /\ IsLanguage(G!OneOf({"NUM"})) /\ OprMath \subseteq Lexemes
  BY SetsOfLexemes, OneOfIsLanguage, TokIsOneOf DEF G!SignedNum, G!OprMath, OprMath
<1>2. i \in Nat /\ j \in Nat /\ i <= j /\ \A m \in i .. j : IsSpan(ks, m, j)
  BY SpanParts
<1>3. Span(ks, i, j) \in G!SignedNum
          <=> i < j /\ ks[i] \in OprMath /\ Span(ks, i + 1, j) \in G!OneOf({"NUM"})
  BY <1>1, FirstOfSpan
<1>4. i < j => (Span(ks, i + 1, j) \in G!OneOf({"NUM"}) <=> j = (i + 1) + 1 /\ ks[i + 1] \in {"NUM"})
  <2>. SUFFICES ASSUME i < j PROVE Span(ks, i + 1, j) \in G!OneOf({"NUM"}) <=> j = (i + 1) + 1 /\ ks[i + 1] \in {"NUM"}
    OBVIOUS
  <2>1. IsSpan(ks, i + 1, j)
    BY <1>2
  <2>. QED  BY <2>1, OneOfSpan
<1>. QED  BY <1>2, <1>3, <1>4 DEF SignedIn

LEMMA DirectSpan ==
  ASSUME NEW ks, NEW i, NEW j, IsSpan(ks, i, j)
  PROVE  Span(ks, i, j) \in G!DirectAddr <=> DirectIn(ks, i, j) \/ ZeroIn(ks, i, j)
<1>1. Span(ks, i, j) \in G!DirectAddr
          <=> \/ j = i + 1 /\ ks[i] \in {"NUM", "ZERO"}
              \/ j = i + 2 /\ ks[i] \in OprMath /\ ks[i + 1] \in {"NUM", "ZERO"}
  BY MaybeSigned, SetsOfLexemes DEF G!DirectAddr
<1>. QED  BY <1>1 DEF DirectIn, SignedIn, ZeroIn

(* Grammar has its own copy of the sets of registers.                              *)
LEMMA SameSets ==
  /\ G!Bases = Bases /\ G!Indices = Indices /\ G!General = General
  /\ G!Members(G!Segments) = Members(Segments)
<1>1. G!Bases = Bases /\ G!Indices = Indices
  BY DEF G!Bases, Bases, G!Indices, Indices
<1>2. /\ G!Segments = Segments /\ G!Registers8 = Registers8 /\ G!Registers16 = Registers16
      /\ \A s : G!Members(s) = Members(s)
  BY DEF G!Segments, Segments, G!Registers8, Registers8, G!Registers16, Registers16, G!Members, Members
<1>3. G!General = General
  BY <1>2 DEF G!General, General
<1>. QED  BY <1>1, <1>2, <1>3

LEMMA Productions ==
  /\ G!Eaddr = G!**(G!**(G!**(G!OneOf(Bases), G!Tok("PLUS")), G!OneOf(Indices)), G!Opt(G!SignedNum))
                  \cup G!**(G!OneOf(Bases \cup Indices), G!Opt(G!SignedNum)) \cup G!DirectAddr
  /\ G!Operand = G!OneOf(General) \cup G!Eaddr__ \cup G!OneOf(Members(Segments)) \cup G!Pointer
                    \cup G!Imm \cup G!Tok("LABEL")
  /\ G!OprPrefix = G!OneOf({"BYTE", "WORD"}) \cup G!**(G!OneOf(Members(Segments)), G!Tok("COLON"))
BY SameSets DEF G!Eaddr, G!Operand, G!OprPrefix

LEMMA Languages ==
  /\ IsLanguage(G!OprMath) /\ IsLanguage(G!SignedNum) /\ IsLanguage(G!DirectAddr)
  /\ IsLanguage(G!Eaddr) /\ IsLanguage(G!Eaddr__) /\ IsLanguage(G!Imm) /\ IsLanguage(G!Pointer)
  /\ IsLanguage(G!Operand) /\ IsLanguage(G!OprPrefix)
<1>1. \A k \in {"NUM", "PLUS", "COLON", "LABEL", "LSQUARE_BR", "RSQUARE_BR"} : IsLanguage(G!Tok(k))
  BY TokIsLanguage DEF Lexemes
<1>2. \A A \in SUBSET Lexemes : IsLanguage(G!OneOf(A))
  BY OneOfIsLanguage
<1>3. \A L, M : IsLanguage(L) /\ IsLanguage(M) => IsLanguage(G!**(L, M)) /\ IsLanguage(L \cup M)
  BY CatIsLanguage DEF IsLanguage
<1>4. \A L : IsLanguage(L) => IsLanguage(G!Opt(L))
  BY OptIsLanguage
<1>5. IsLanguage(G!OprMath) /\ IsLanguage(G!Opt(G!OprMath))
  BY <1>2, <1>4, SetsOfLexemes DEF G!OprMath
<1>6. IsLanguage(G!SignedNum) /\ IsLanguage(G!Opt(G!SignedNum))
  BY <1>1, <1>3, <1>4, <1>5 DEF G!SignedNum
<1>7. IsLanguage(G!DirectAddr)
  BY <1>2, <1>3, <1>5, SetsOfLexemes DEF G!DirectAddr
<1>8. IsLanguage(G!Eaddr)
  <2>1. /\ IsLanguage(G!OneOf(Bases)) /\ IsLanguage(G!Tok("PLUS")) /\ IsLanguage(G!OneOf(Indices))
        /\ IsLanguage(G!OneOf(Bases \cup Indices))
    BY <1>1, <1>2, SetsOfLexemes
  <2>2. IsLanguage(G!**(G!**(G!OneOf(Bases), G!Tok("PLUS")), G!OneOf(Indices)))
    BY <1>3, <2>1
  <2>3. /\ IsLanguage(G!**(G!**(G!**(G!OneOf(Bases), G!Tok("PLUS")), G!OneOf(Indices)), G!Opt(G!SignedNum)))
        /\ IsLanguage(G!**(G!OneOf(Bases \cup Indices), G!Opt(G!SignedNum)))
    BY <1>3, <1>6, <2>1, <2>2
  <2>. QED  BY <1>3, <1>7, <2>3, Productions
<1>9. IsLanguage(G!Eaddr__)
  <2>1. IsLanguage(G!**(G!Tok("LSQUARE_BR"), G!Opt(G!Tok("PLUS"))))
    BY <1>1, <1>3, <1>4
  <2>2. IsLanguage(G!**(G!**(G!Tok("LSQUARE_BR"), G!Opt(G!Tok("PLUS"))), G!Eaddr))
    BY <1>3, <1>8, <2>1
  <2>. QED  BY <1>1, <1>3, <2>2 DEF G!Eaddr__
<1>10. IsLanguage(G!Imm)
  BY <1>2, <1>3, <1>5, SetsOfLexemes DEF G!Imm
<1>11. IsLanguage(G!Pointer)
  <2>1. IsLanguage(G!**(G!Tok("NUM"), G!Tok("COLON")))
    BY <1>1, <1>3
  <2>. QED  BY <1>1, <1>3, <2>1 DEF G!Pointer
<1>12. IsLanguage(G!Operand)
  <2>1. IsLanguage(G!OneOf(General)) /\ IsLanguage(G!OneOf(Members(Segments))) /\ IsLanguage(G!Tok("LABEL"))
    BY <1>1, <1>2, SetsOfLexemes
  <2>. QED  BY <1>9, <1>10, <1>11, <2>1, Productions DEF IsLanguage
<1>13. IsLanguage(G!OprPrefix)
  <2>1. IsLanguage(G!OneOf({"BYTE", "WORD"})) /\ IsLanguage(G!OneOf(Members(Segments)))
    BY <1>2, SetsOfLexemes
  <2>2. IsLanguage(G!**(G!OneOf(Members(Segments)), G!Tok("COLON")))
    BY <1>1, <1>3, <2>1
  <2>. QED  BY <1>3, <2>1, <2>2, Productions
<1>. QED  BY <1>5, <1>6, <1>7, <1>8, <1>9, <1>10, <1>11, <1>12, <1>13

LEMMA TwoSpan ==
  ASSUME NEW ks, NEW i, NEW j, IsSpan(ks, i, j),
         NEW A, A \subseteq Lexemes, NEW B, B \subseteq Lexemes
  PROVE  Span(ks, i, j) \in G!**(G!OneOf(A), G!OneOf(B))
             <=> j = i + 2 /\ ks[i] \in A /\ ks[i + 1] \in B
<1>1. i \in Nat /\ j \in Nat /\ i <= j /\ \A m \in i .. j : IsSpan(ks, m, j)
  BY SpanParts
<1>2. Span(ks, i, j) \in G!**(G!OneOf(A), G!OneOf(B))
          <=> i < j /\ ks[i] \in A /\ Span(ks, i + 1, j) \in G!OneOf(B)
  BY OneOfIsLanguage, FirstOfSpan
<1>3. CASE i < j
  <2>1. IsSpan(ks, i + 1, j)
    BY <1>1, <1>3
  <2>2. Span(ks, i + 1, j) \in G!OneOf(B) <=> j = (i + 1) + 1 /\ ks[i + 1] \in B
    BY <2>1, OneOfSpan
  <2>. QED  BY <1>1, <1>2, <1>3, <2>2
<1>4. CASE ~ (i < j)
  BY <1>1, <1>2, <1>4
<1>. QED  BY <1>3, <1>4

LEMMA ThreeSpan ==
  ASSUME NEW ks, NEW i, NEW j, IsSpan(ks, i, j), NEW A, A \subseteq Lexemes,
         NEW B, B \subseteq Lexemes, NEW C, C \subseteq Lexemes
  PROVE  Span(ks, i, j) \in G!**(G!**(G!OneOf(A), G!OneOf(B)), G!OneOf(C))
             <=> j = i + 3 /\ ks[i] \in A /\ ks[i + 1] \in B /\ ks[i + 2] \in C
<1>. DEFINE L == G!**(G!OneOf(A), G!OneOf(B))
<1>1. i \in Nat /\ j \in Nat /\ i <= j /\ \A m \in i .. j : IsSpan(ks, i, m)
  BY SpanParts
<1>2. IsLanguage(L)
  BY OneOfIsLanguage, CatIsLanguage
<1>. HIDE DEF L
<1>3. Span(ks, i, j) \in G!**(L, G!OneOf(C)) <=> i < j /\ ks[j - 1] \in C /\ Span(ks, i, j - 1) \in L
  BY <1>2, LastOfSpan
<1>4. CASE i < j
  <2>1. IsSpan(ks, i, j - 1)
    BY <1>1, <1>4
  <2>2. Span(ks, i, j - 1) \in L <=> j - 1 = i + 2 /\ ks[i] \in A /\ ks[i + 1] \in B
    BY <2>1, TwoSpan DEF L
  <2>3. (j - 1 = i + 2 <=> j = i + 3) /\ (j = i + 3 => j - 1 = i + 2)
    BY <1>1
  <2>. QED  BY <1>3, <1>4, <2>2, <2>3 DEF L
<1>5. CASE ~ (i < j)
  BY <1>1, <1>3, <1>5 DEF L
<1>. QED  BY <1>4, <1>5

EaddrIn(ks, i, j) ==
    \/ /\ ks[i] \in Bases /\ ks[i + 1] = "PLUS" /\ ks[i + 2] \in Indices
       /\ j = i + 3 \/ SignedIn(ks, i + 3, j)
    \/ ks[i] \in Bases \cup Indices /\ (j = i + 1 \/ SignedIn(ks, i + 1, j))
    \/ DirectIn(ks, i, j)

LEMMA EaddrSpan ==
  ASSUME NEW ks, NEW i, NEW j, IsSpan(ks, i, j)
  PROVE  Span(ks, i, j) \in G!Eaddr <=> EaddrIn(ks, i, j) \/ ZeroIn(ks, i, j)
<1>. DEFINE X == G!**(G!**(G!OneOf(Bases), G!OneOf({"PLUS"})), G!OneOf(Indices))
            Y == G!OneOf(Bases \cup Indices)
<1>1. /\ i \in Nat /\ j \in Nat /\ i <= j /\ j \in i .. j
      /\ \A m \in i .. j : IsSpan(ks, i, m) /\ IsSpan(ks, m, j)
  BY SpanParts
<1>2. IsLanguage(X) /\ IsLanguage(Y) /\ IsLanguage(G!SignedNum)
  <2>1. IsLanguage(G!**(G!OneOf(Bases), G!OneOf({"PLUS"})))
    BY SetsOfLexemes, OneOfIsLanguage, CatIsLanguage
  <2>. QED  BY <2>1, SetsOfLexemes, OneOfIsLanguage, CatIsLanguage, Languages
<1>3. \A m \in i .. j :
         /\ Span(ks, i, m) \in X
                <=> m = i + 3 /\ ks[i] \in Bases /\ ks[i + 1] \in {"PLUS"} /\ ks[i + 2] \in Indices
         /\ Span(ks, i, m) \in Y <=> m = i + 1 /\ ks[i] \in Bases \cup Indices
         /\ Span(ks, m, j) \in G!SignedNum <=> SignedIn(ks, m, j)
  <2>. SUFFICES ASSUME NEW m \in i .. j
                PROVE  /\ Span(ks, i, m) \in X
                              <=> m = i + 3 /\ ks[i] \in Bases /\ ks[i + 1] \in {"PLUS"} /\ ks[i + 2] \in Indices
                       /\ Span(ks, i, m) \in Y <=> m = i + 1 /\ ks[i] \in Bases \cup Indices
                       /\ Span(ks, m, j) \in G!SignedNum <=> SignedIn(ks, m, j)
    OBVIOUS
  <2>1. IsSpan(ks, i, m) /\ IsSpan(ks, m, j)
    BY <1>1
  <2>2. Span(ks, i, m) \in X
            <=> m = i + 3 /\ ks[i] \in Bases /\ ks[i + 1] \in {"PLUS"} /\ ks[i + 2] \in Indices
    BY <2>1, ThreeSpan, SetsOfLexemes
  <2>3. Span(ks, i, m) \in Y <=> m = i + 1 /\ ks[i] \in Bases \cup Indices
    BY <2>1, OneOfSpan
  <2>4. Span(ks, m, j) \in G!SignedNum <=> SignedIn(ks, m, j)
    BY <2>1, SignedSpan
  <2>. QED  BY <2>2, <2>3, <2>4
<1>4. /\ G!Eaddr = G!**(X, G!Opt(G!SignedNum)) \cup G!**(Y, G!Opt(G!SignedNum)) \cup G!DirectAddr
  BY Productions, TokIsOneOf
<1>. HIDE DEF X, Y
<1>5. Span(ks, i, j) \in G!**(X, G!Opt(G!SignedNum))
          <=> \/ Span(ks, i, j) \in X
              \/ \E m \in i .. j : Span(ks, i, m) \in X /\ Span(ks, m, j) \in G!SignedNum
  BY <1>2, OptionalAtEnd
<1>6. Span(ks, i, j) \in G!**(Y, G!Opt(G!SignedNum))
          <=> \/ Span(ks, i, j) \in Y
              \/ \E m \in i .. j : Span(ks, i, m) \in Y /\ Span(ks, m, j) \in G!SignedNum
  BY <1>2, OptionalAtEnd
<1>7. \A m : SignedIn(ks, m, j) => j = m + 2
  BY DEF SignedIn
<1>8. /\ SignedIn(ks, i + 3, j) => i + 3 \in i .. j
      /\ SignedIn(ks, i + 1, j) => i + 1 \in i .. j
  BY <1>1, <1>7
<1>9. Span(ks, i, j) \in G!**(X, G!Opt(G!SignedNum))
          <=> /\ ks[i] \in Bases /\ ks[i + 1] = "PLUS" /\ ks[i + 2] \in Indices
              /\ j = i + 3 \/ SignedIn(ks, i + 3, j)
  BY <1>1, <1>3, <1>5, <1>8
<1>10. Span(ks, i, j) \in G!**(Y, G!Opt(G!SignedNum))
          <=> ks[i] \in Bases \cup Indices /\ (j = i + 1 \/ SignedIn(ks, i + 1, j))
  BY <1>1, <1>3, <1>6, <1>8
<1>11. Span(ks, i, j) \in G!DirectAddr <=> DirectIn(ks, i, j) \/ ZeroIn(ks, i, j)
  BY DirectSpan
<1>. QED  BY <1>4, <1>9, <1>10, <1>11 DEF EaddrIn

MemoryIn(ks, i, j) ==
    /\ ks[i] = "LSQUARE_BR" /\ i < j - 1 /\ ks[j - 1] = "RSQUARE_BR"
    /\ EaddrIn(ks, i + 1, j - 1) \/ (ks[i + 1] = "PLUS" /\ i + 1 < j - 1 /\ EaddrIn(ks, i + 2, j - 1))

(* A memory operand with 0 for its address, which the parser does not know.        *)
ZeroMemoryIn(ks, i, j) ==
    /\ ks[i] = "LSQUARE_BR" /\ i < j - 1 /\ ks[j - 1] = "RSQUARE_BR"
    /\ ZeroIn(ks, i + 1, j - 1) \/ (ks[i + 1] = "PLUS" /\ i + 1 < j - 1 /\ ZeroIn(ks, i + 2, j - 1))

LEMMA MemorySpan ==
  ASSUME NEW ks, NEW i, NEW j, IsSpan(ks, i, j)
  PROVE  Span(ks, i, j) \in G!Eaddr__ <=> MemoryIn(ks, i, j) \/ ZeroMemoryIn(ks, i, j)
<1>. DEFINE X == G!**(G!OneOf({"LSQUARE_BR"}), G!Opt(G!OneOf({"PLUS"})))
            B == {"LSQUARE_BR"}
            P == {"PLUS"}
            E(m) == EaddrIn(ks, m, j - 1) \/ ZeroIn(ks, m, j - 1)
<1>1. /\ i \in Nat /\ j \in Nat /\ i <= j /\ j \in i .. j
      /\ \A m \in i .. j : IsSpan(ks, i, m) /\ IsSpan(ks, m, j)
  BY SpanParts
<1>2. IsLanguage(X) /\ IsLanguage(G!Eaddr) /\ IsLanguage(G!OneOf(B)) /\ IsLanguage(G!OneOf(P))
      /\ IsLanguage(G!**(X, G!Eaddr))
  <2>1. IsLanguage(G!OneOf(B)) /\ IsLanguage(G!OneOf(P))
    BY SetsOfLexemes, OneOfIsLanguage
  <2>2. IsLanguage(X)
    BY <2>1, OptIsLanguage, CatIsLanguage
  <2>. HIDE DEF X
  <2>. QED  BY <2>1, <2>2, CatIsLanguage, Languages
<1>3. G!Eaddr__ = G!**(G!**(X, G!Eaddr), G!OneOf({"RSQUARE_BR"}))
  BY TokIsOneOf DEF G!Eaddr__
<1>4. ASSUME NEW m, IsSpan(ks, i, m)
      PROVE  Span(ks, i, m) \in X
                 <=> ks[i] \in B /\ (m = i + 1 \/ (m = i + 2 /\ ks[i + 1] \in P))
  <2>1. Span(ks, i, m) \in X
            <=> \/ Span(ks, i, m) \in G!OneOf(B)
                \/ \E n \in i .. m : Span(ks, i, n) \in G!OneOf(B) /\ Span(ks, n, m) \in G!OneOf(P)
    BY <1>2, <1>4, OptionalAtEnd
  <2>2. Span(ks, i, m) \in G!OneOf(B) <=> m = i + 1 /\ ks[i] \in B
    BY <1>4, OneOfSpan
  <2>3. /\ m \in Nat /\ i <= m /\ \A n \in i .. m : IsSpan(ks, i, n) /\ IsSpan(ks, n, m)
    BY <1>4, SpanParts
  <2>4. \A n \in i .. m : /\ Span(ks, i, n) \in G!OneOf(B) <=> n = i + 1 /\ ks[i] \in B
                          /\ Span(ks, n, m) \in G!OneOf(P) <=> m = n + 1 /\ ks[n] \in P
    BY <2>3, OneOfSpan
  <2>5. (\E n \in i .. m : n = i + 1 /\ ks[i] \in B /\ m = n + 1 /\ ks[n] \in P)
            <=> m = i + 2 /\ ks[i] \in B /\ ks[i + 1] \in P
    <3>. HIDE DEF B, P
    <3>. QED  BY <1>1, <2>3
  <2>. HIDE DEF X, B, P
  <2>. QED  BY <2>1, <2>2, <2>4, <2>5
<1>. HIDE DEF X
<1>5. Span(ks, i, j) \in G!Eaddr__
          <=> i < j /\ ks[j - 1] \in {"RSQUARE_BR"} /\ Span(ks, i, j - 1) \in G!**(X, G!Eaddr)
  BY <1>2, <1>3, LastOfSpan, SetsOfLexemes
<1>6. CASE i < j
  <2>1. IsSpan(ks, i, j - 1) /\ j - 1 \in Nat
    BY <1>1, <1>6
  <2>2. /\ i <= j - 1
        /\ \A m \in i .. j - 1 : IsSpan(ks, i, m) /\ IsSpan(ks, m, j - 1)
    BY <2>1, SpanParts
  <2>3. Span(ks, i, j - 1) \in G!**(X, G!Eaddr)
            <=> \E m \in i .. j - 1 : Span(ks, i, m) \in X /\ Span(ks, m, j - 1) \in G!Eaddr
    BY <1>2, <2>1, PartsOfSpan
  <2>4. \A m \in i .. j - 1 :
           /\ Span(ks, i, m) \in X <=> ks[i] \in B /\ (m = i + 1 \/ (m = i + 2 /\ ks[i + 1] \in P))
           /\ Span(ks, m, j - 1) \in G!Eaddr <=> E(m)
    BY <1>4, <2>2, EaddrSpan
  <2>5. (\E m \in i .. j - 1 : ks[i] \in B /\ (m = i + 1 \/ (m = i + 2 /\ ks[i + 1] \in P)) /\ E(m))
            <=> /\ ks[i] \in B /\ i < j - 1
                /\ E(i + 1) \/ (ks[i + 1] \in P /\ i + 1 < j - 1 /\ E(i + 2))
    <3>1. i + 1 \in i .. j - 1 <=> i < j - 1
      BY <1>1
    <3>2. i + 2 \in i .. j - 1 <=> i + 1 < j - 1
      BY <1>1
    <3>3. i + 1 < j - 1 => i < j - 1
      BY <1>1
    <3>. HIDE DEF B, P, E
    <3>. QED  BY <3>1, <3>2, <3>3
  <2>6. /\ ks[i] \in B <=> ks[i] = "LSQUARE_BR"
        /\ ks[i + 1] \in P <=> ks[i + 1] = "PLUS"
    OBVIOUS
  <2>. HIDE DEF B, P
  <2>. QED  BY <1>5, <1>6, <2>3, <2>4, <2>5, <2>6 DEF MemoryIn, ZeroMemoryIn
<1>7. CASE ~ (i < j)
  <2>1. ~ (i < j - 1)
    BY <1>1, <1>7
  <2>. QED  BY <1>5, <1>7, <2>1 DEF MemoryIn, ZeroMemoryIn
<1>. QED  BY <1>6, <1>7

PointerIn(ks, i, j) == j = i + 3 /\ ks[i] = "NUM" /\ ks[i + 1] = "COLON" /\ ks[i + 2] = "NUM"
ImmIn(ks, i, j) ==
    \/ j = i + 1 /\ ks[i] \in {"NUM", "ZERO"}
    \/ j = i + 2 /\ ks[i] \in OprMath /\ ks[i + 1] \in {"NUM", "ZERO"}
SingleIn(ks, i, j) == j = i + 1 /\ ks[i] \in General \cup Members(Segments) \cup {"LABEL"}
OperandIn(ks, i, j) ==
    SingleIn(ks, i, j) \/ MemoryIn(ks, i, j) \/ PointerIn(ks, i, j) \/ ImmIn(ks, i, j)
PrefixIn(ks, i, j) ==
    \/ j = i + 1 /\ ks[i] \in Sizes
    \/ j = i + 2 /\ ks[i] \in Members(Segments) /\ ks[i + 1] = "COLON"

LEMMA OperandSpan ==
  ASSUME NEW ks, NEW i, NEW j, IsSpan(ks, i, j)
  PROVE  Span(ks, i, j) \in G!Operand <=> OperandIn(ks, i, j) \/ ZeroMemoryIn(ks, i, j)
<1>1. Span(ks, i, j) \in G!Pointer <=> PointerIn(ks, i, j)
  <2>1. G!Pointer = G!**(G!**(G!OneOf({"NUM"}), G!OneOf({"COLON"})), G!OneOf({"NUM"}))
    BY TokIsOneOf DEF G!Pointer
  <2>. QED  BY <2>1, ThreeSpan, SetsOfLexemes DEF PointerIn
<1>2. Span(ks, i, j) \in G!Imm <=> ImmIn(ks, i, j)
  BY MaybeSigned, SetsOfLexemes DEF G!Imm, ImmIn
<1>3. Span(ks, i, j) \in G!Eaddr__ <=> MemoryIn(ks, i, j) \/ ZeroMemoryIn(ks, i, j)
  BY MemorySpan
<1>4. /\ Span(ks, i, j) \in G!OneOf(General) <=> j = i + 1 /\ ks[i] \in General
      /\ Span(ks, i, j) \in G!OneOf(Members(Segments)) <=> j = i + 1 /\ ks[i] \in Members(Segments)
      /\ Span(ks, i, j) \in G!Tok("LABEL") <=> j = i + 1 /\ ks[i] \in {"LABEL"}
  BY OneOfSpan, TokIsOneOf
<1>. QED  BY <1>1, <1>2, <1>3, <1>4, Productions DEF OperandIn, SingleIn

LEMMA PrefixSpan ==
  ASSUME NEW ks, NEW i, NEW j, IsSpan(ks, i, j)
  PROVE  Span(ks, i, j) \in G!OprPrefix <=> PrefixIn(ks, i, j)
<1>1. Span(ks, i, j) \in G!OneOf({"BYTE", "WORD"}) <=> j = i + 1 /\ ks[i] \in Sizes
  BY OneOfSpan DEF Sizes
<1>2. Span(ks, i, j) \in G!**(G!OneOf(Members(Segments)), G!Tok("COLON"))
          <=> j = i + 2 /\ ks[i] \in Members(Segments) /\ ks[i + 1] \in {"COLON"}
  BY TwoSpan, TokIsOneOf, SetsOfLexemes
<1>. QED  BY <1>1, <1>2, Productions DEF PrefixIn
-------------------------------------------------------------------------------
(* Each function recognizes its production: it ends where a span of it does, and   *)
(* it misses none that ends before a comma or the end of the line.                 *)
KindsOf(t) == [k \in DOMAIN t |-> t[k].kind]

LEMMA KindsText ==
  ASSUME NEW t, IsProgram(t)
  PROVE  /\ Len(t) \in Nat \ {0} /\ Len(KindsOf(t)) = Len(t)
         /\ \A k \in 1 .. Len(t) : KindsOf(t)[k] = t[k].kind
         /\ \A i \in 1 .. Len(t) + 1, j \in 1 .. Len(t) + 1 : i <= j => IsSpan(KindsOf(t), i, j)
         /\ \A k \in 1 .. Len(t) : \A A : Is(t, k, A) <=> KindsOf(t)[k] \in A
<1>1. Len(t) \in Nat \ {0} /\ DOMAIN t = 1 .. Len(t)
  BY Places
<1>2. KindsOf(t) = [k \in 1 .. Len(t) |-> t[k].kind]
  BY <1>1 DEF KindsOf
<1>. DEFINE S == {KindsOf(t)[k] : k \in DOMAIN KindsOf(t)}
<1>3. DOMAIN KindsOf(t) = 1 .. Len(t) /\ \A k \in 1 .. Len(t) : KindsOf(t)[k] = t[k].kind
  BY <1>2
<1>4. KindsOf(t) \in [1 .. Len(t) -> S]
  <2>1. KindsOf(t) = [k \in 1 .. Len(t) |-> KindsOf(t)[k]]
    BY <1>2
  <2>2. \A k \in 1 .. Len(t) : KindsOf(t)[k] \in S
    BY <1>3
  <2>. HIDE DEF S
  <2>. QED  BY <2>1, <2>2
<1>5. KindsOf(t) \in Seq(S)
  <2>. HIDE DEF S
  <2>. QED  BY <1>1, <1>4, SeqDef
<1>6. Len(KindsOf(t)) = Len(t)
  <2>1. DOMAIN KindsOf(t) = 1 .. Len(KindsOf(t)) /\ Len(KindsOf(t)) \in Nat
    <3>. HIDE DEF S
    <3>. QED  BY <1>5, LenProperties
  <2>. QED  BY <1>1, <1>3, <2>1
<1>7. ASSUME NEW i \in 1 .. Len(t) + 1, NEW j \in 1 .. Len(t) + 1, i <= j
      PROVE  IsSpan(KindsOf(t), i, j)
  <2>1. i \in 1 .. Len(KindsOf(t)) + 1 /\ j \in i .. Len(KindsOf(t)) + 1
    BY <1>1, <1>6, <1>7
  <2>. QED  BY <1>5, <2>1 DEF IsSpan
<1>8. \A k \in 1 .. Len(t) : \A A : Is(t, k, A) <=> KindsOf(t)[k] \in A
  BY <1>3 DEF Is
<1>. QED  BY <1>1, <1>3, <1>6, <1>7, <1>8

(* The looks at the tokens, in terms of their kinds.                               *)
LEMMA Looks ==
  ASSUME NEW t, IsProgram(t), NEW i \in 1 .. Len(t)
  PROVE  /\ \A A : Is(t, i, A) <=> KindsOf(t)[i] \in A
         /\ KindsOf(t)[i] # "EOL" =>
               /\ i + 1 \in 1 .. Len(t)
               /\ \A A : Is(t, i + 1, A) <=> KindsOf(t)[i + 1] \in A
               /\ KindsOf(t)[i + 1] # "EOL" =>
                     /\ i + 2 \in 1 .. Len(t)
                     /\ \A A : Is(t, i + 2, A) <=> KindsOf(t)[i + 2] \in A
                     /\ KindsOf(t)[i + 2] # "EOL" => i + 3 \in 1 .. Len(t)
<1>. DEFINE ks == KindsOf(t)
<1>1. /\ \A k \in 1 .. Len(t) : \A A : Is(t, k, A) <=> ks[k] \in A
      /\ \A k \in 1 .. Len(t) : ks[k] = t[k].kind
  BY KindsText
<1>2. \A k \in 1 .. Len(t) : ks[k] # "EOL" => k + 1 \in 1 .. Len(t)
  BY <1>1, Places
<1>. HIDE DEF ks
<1>3. ks[i] # "EOL" => i + 1 \in 1 .. Len(t)
  BY <1>2
<1>4. i + 1 \in 1 .. Len(t) /\ ks[i + 1] # "EOL" => i + 2 \in 1 .. Len(t)
  <2>1. i + 1 \in 1 .. Len(t) /\ ks[i + 1] # "EOL" => (i + 1) + 1 \in 1 .. Len(t)
    BY <1>2
  <2>. QED  BY <2>1
<1>5. i + 2 \in 1 .. Len(t) /\ ks[i + 2] # "EOL" => i + 3 \in 1 .. Len(t)
  <2>1. i + 2 \in 1 .. Len(t) /\ ks[i + 2] # "EOL" => (i + 2) + 1 \in 1 .. Len(t)
    BY <1>2
  <2>. QED  BY <2>1
<1>. QED  BY <1>1, <1>3, <1>4, <1>5 DEF ks

LEMMA SignedLink ==
  ASSUME NEW t, IsProgram(t), NEW i \in 1 .. Len(t)
  PROVE  /\ SignedAt(t, i) <=> KindsOf(t)[i] \in OprMath /\ KindsOf(t)[i + 1] = "NUM"
         /\ SignedIn(KindsOf(t), i, i + 2) <=> SignedAt(t, i)
<1>1. KindsOf(t)[i] \in OprMath => KindsOf(t)[i] # "EOL"
  BY DEF OprMath
<1>2. SignedAt(t, i) <=> KindsOf(t)[i] \in OprMath /\ KindsOf(t)[i + 1] \in {"NUM"}
  BY <1>1, Looks DEF SignedAt
<1>. QED  BY <1>2 DEF SignedIn

LEMMA DirectLink ==
  ASSUME NEW t, IsProgram(t), NEW i \in 1 .. Len(t)
  PROVE  /\ DirectEnd(t, i) # 0 => DirectIn(KindsOf(t), i, DirectEnd(t, i))
         /\ \A j : DirectIn(KindsOf(t), i, j) => DirectEnd(t, i) = j
<1>1. /\ Is(t, i, {"NUM"}) <=> KindsOf(t)[i] \in {"NUM"}
      /\ SignedAt(t, i) <=> KindsOf(t)[i] \in OprMath /\ KindsOf(t)[i + 1] = "NUM"
  BY Looks, SignedLink
<1>2. DirectEnd(t, i) = IF Is(t, i, {"NUM"}) THEN i + 1 ELSE IF SignedAt(t, i) THEN i + 2 ELSE 0
  BY DEF DirectEnd, SignedAt
<1>. QED  BY <1>1, <1>2 DEF DirectIn, SignedIn, OprMath

LEMMA EaddrLink ==
  ASSUME NEW t, IsProgram(t), NEW i \in 1 .. Len(t)
  PROVE  /\ EaddrEnd(t, i) # 0 => EaddrIn(KindsOf(t), i, EaddrEnd(t, i))
         /\ \A j \in 1 .. Len(t) : EaddrIn(KindsOf(t), i, j) /\ KindsOf(t)[j] = "RSQUARE_BR"
                                      => EaddrEnd(t, i) = j
<1>. DEFINE ks == KindsOf(t)
<1>1. ASSUME NEW k \in 1 .. Len(t)
      PROVE  /\ SignedEnd(t, k) = k \/ SignedIn(ks, k, SignedEnd(t, k))
             /\ \A j \in 1 .. Len(t) : (j = k \/ SignedIn(ks, k, j)) /\ ks[j] = "RSQUARE_BR"
                                           => SignedEnd(t, k) = j
  <2>1. SignedIn(ks, k, k + 2) <=> SignedAt(t, k)
    BY SignedLink
  <2>2. SignedAt(t, k) <=> ks[k] \in OprMath /\ ks[k + 1] = "NUM"
    BY SignedLink
  <2>3. "RSQUARE_BR" \notin OprMath
    BY DEF OprMath
  <2>. HIDE DEF ks
  <2>. QED  BY <2>1, <2>2, <2>3 DEF SignedEnd, SignedIn
<1>2. \A A : Is(t, i, A) <=> ks[i] \in A
  BY Looks
<1>3. ks[i] \in Bases \cup Indices =>
          i + 1 \in 1 .. Len(t) /\ \A A : Is(t, i + 1, A) <=> ks[i + 1] \in A
  BY Looks DEF Bases, Indices
<1>4. ks[i] \in Bases \cup Indices /\ ks[i + 1] = "PLUS" =>
          i + 2 \in 1 .. Len(t) /\ \A A : Is(t, i + 2, A) <=> ks[i + 2] \in A
  BY Looks DEF Bases, Indices
<1>5. ks[i] \in Bases \cup Indices /\ ks[i + 1] = "PLUS" /\ ks[i + 2] \in Indices => i + 3 \in 1 .. Len(t)
  BY Looks DEF Bases, Indices
<1>6. /\ \A j : DirectIn(ks, i, j) => ks[i] \notin Bases /\ ks[i] \notin Indices
      /\ ks[i] \in Bases => ks[i] \notin Indices
      /\ \A j \in 1 .. Len(t) : j = i + 1 /\ ks[i + 1] = "PLUS" => ks[j] # "RSQUARE_BR"
      /\ \A j : SignedIn(ks, i + 1, j) => ks[i + 2] \notin Indices
  <2>1. \A j : SignedIn(ks, i + 1, j) => ks[(i + 1) + 1] = "NUM"
    BY DEF SignedIn
  <2>2. (i + 1) + 1 = i + 2
    OBVIOUS
  <2>. HIDE DEF ks
  <2>. QED  BY <2>1, <2>2 DEF DirectIn, SignedIn, OprMath, Bases, Indices
<1>. HIDE DEF ks
<1>7. CASE ks[i] \in Bases /\ ks[i + 1] = "PLUS" /\ ks[i + 2] \in Indices
  <2>1. i + 3 \in 1 .. Len(t) /\ EaddrEnd(t, i) = SignedEnd(t, i + 3)
    BY <1>2, <1>3, <1>4, <1>5, <1>7 DEF EaddrEnd
  <2>2. \A j \in 1 .. Len(t) : EaddrIn(ks, i, j) /\ ks[j] = "RSQUARE_BR" => j = i + 3 \/ SignedIn(ks, i + 3, j)
    BY <1>6, <1>7 DEF EaddrIn
  <2>3. \A j : j = i + 3 \/ SignedIn(ks, i + 3, j) => EaddrIn(ks, i, j)
    BY <1>7 DEF EaddrIn
  <2>. QED  BY <1>1, <2>1, <2>2, <2>3 DEF ks
<1>8. CASE ks[i] \in Bases \cup Indices /\ ~ (ks[i] \in Bases /\ ks[i + 1] = "PLUS" /\ ks[i + 2] \in Indices)
  <2>1. i + 1 \in 1 .. Len(t) /\ EaddrEnd(t, i) = SignedEnd(t, i + 1)
    <3>1. i + 1 \in 1 .. Len(t)
      BY <1>3, <1>8
    <3>2. CASE ks[i] \in Bases
      <4>1. ~ (Is(t, i + 1, {"PLUS"}) /\ Is(t, i + 2, Indices))
        BY <1>3, <1>4, <1>8, <3>2
      <4>. QED  BY <1>2, <3>1, <3>2, <4>1 DEF EaddrEnd
    <3>3. CASE ks[i] \in Indices
      BY <1>2, <1>6, <3>1, <3>3 DEF EaddrEnd
    <3>. QED  BY <1>8, <3>2, <3>3
  <2>2. \A j : EaddrIn(ks, i, j) => j = i + 1 \/ SignedIn(ks, i + 1, j)
    BY <1>6, <1>8 DEF EaddrIn
  <2>3. \A j : j = i + 1 \/ SignedIn(ks, i + 1, j) => EaddrIn(ks, i, j)
    BY <1>8 DEF EaddrIn
  <2>. QED  BY <1>1, <2>1, <2>2, <2>3 DEF ks
<1>9. CASE ks[i] \notin Bases /\ ks[i] \notin Indices
  <2>1. EaddrEnd(t, i) = DirectEnd(t, i)
    BY <1>2, <1>9 DEF EaddrEnd
  <2>2. \A j : EaddrIn(ks, i, j) <=> DirectIn(ks, i, j)
    BY <1>9 DEF EaddrIn
  <2>. QED  BY <2>1, <2>2, DirectLink DEF ks
<1>. QED  BY <1>7, <1>8, <1>9

LEMMA MemoryLink ==
  ASSUME NEW t, IsProgram(t), NEW i \in 1 .. Len(t)
  PROVE  /\ MemoryEnd(t, i) # 0 => MemoryIn(KindsOf(t), i, MemoryEnd(t, i))
         /\ \A j \in 1 .. Len(t) : MemoryIn(KindsOf(t), i, j) => MemoryEnd(t, i) = j
<1>. DEFINE ks == KindsOf(t)
            k  == EaddrEnd(t, Inner(t, i))
<1>0. Len(t) \in Nat /\ \A m \in 1 .. Len(t) : \A A : Is(t, m, A) <=> ks[m] \in A
  BY KindsText
<1>1. CASE ks[i] # "LSQUARE_BR"
  <2>1. ~ Is(t, i, {"LSQUARE_BR"})
    BY <1>1, Looks
  <2>. QED  BY <1>1, <2>1 DEF MemoryEnd, MemoryIn
<1>2. CASE ks[i] = "LSQUARE_BR"
  <2>1. Is(t, i, {"LSQUARE_BR"}) /\ i + 1 \in 1 .. Len(t)
        /\ \A A : Is(t, i + 1, A) <=> ks[i + 1] \in A
    BY <1>2, Looks
  <2>2. ks[i + 1] = "PLUS" => i + 2 \in 1 .. Len(t)
    BY <1>2, Looks
  <2>3. Inner(t, i) = (IF ks[i + 1] = "PLUS" THEN i + 2 ELSE i + 1) /\ Inner(t, i) \in 1 .. Len(t)
    BY <2>1, <2>2 DEF Inner
  <2>4. /\ k # 0 => EaddrIn(ks, Inner(t, i), k) /\ k \in Inner(t, i) + 1 .. Len(t)
        /\ \A j \in 1 .. Len(t) : EaddrIn(ks, Inner(t, i), j) /\ ks[j] = "RSQUARE_BR" => k = j
    <3>1. IsAddress(NoAddress)
      BY ZeroFits DEF IsAddress, NoAddress
    <3>. QED  BY <2>3, <3>1, EaddrLink, EaddrResult
  <2>5. MemoryEnd(t, i) = IF k # 0 /\ Is(t, k, {"RSQUARE_BR"}) THEN k + 1 ELSE 0
    BY <2>1 DEF MemoryEnd
  <2>. HIDE DEF ks, k
  <2>6. ASSUME MemoryEnd(t, i) # 0 PROVE MemoryIn(ks, i, MemoryEnd(t, i))
    <3>1. k # 0 /\ Is(t, k, {"RSQUARE_BR"}) /\ MemoryEnd(t, i) = k + 1 /\ k \in 1 .. Len(t)
      BY <2>3, <2>4, <2>5, <2>6
    <3>2. ks[k] = "RSQUARE_BR" /\ k \in Nat
      BY <1>0, <3>1
    <3>3. (k + 1) - 1 = k /\ i < k /\ (ks[i + 1] = "PLUS" => i + 1 < k)
      BY <2>3, <2>4, <3>1
    <3>. QED  BY <1>2, <2>3, <2>4, <3>1, <3>2, <3>3 DEF MemoryIn
  <2>7. ASSUME NEW j \in 1 .. Len(t), MemoryIn(ks, i, j) PROVE MemoryEnd(t, i) = j
    <3>1. j - 1 \in 1 .. Len(t) /\ ks[j - 1] = "RSQUARE_BR" /\ i < j - 1
      BY <1>0, <2>7 DEF MemoryIn
    <3>2. EaddrIn(ks, Inner(t, i), j - 1)
      <4>1. CASE ks[i + 1] = "PLUS"
        <5>1. CASE EaddrIn(ks, i + 1, j - 1)
          <6>1. DirectIn(ks, i + 1, j - 1)
            BY <4>1, <5>1 DEF EaddrIn, Bases, Indices
          <6>2. SignedIn(ks, i + 1, j - 1)
            BY <4>1, <6>1 DEF DirectIn
          <6>3. j - 1 = (i + 1) + 2 /\ ks[(i + 1) + 1] = "NUM"
            BY <6>2 DEF SignedIn
          <6>4. j - 1 = (i + 2) + 1 /\ ks[i + 2] = "NUM"
            <7>1. (i + 1) + 1 = i + 2 /\ (i + 1) + 2 = (i + 2) + 1
              OBVIOUS
            <7>. QED  BY <6>3, <7>1
          <6>. QED  BY <2>3, <4>1, <6>4 DEF EaddrIn, DirectIn
        <5>2. CASE ~ EaddrIn(ks, i + 1, j - 1)
          BY <2>3, <2>7, <4>1, <5>2 DEF MemoryIn
        <5>. QED  BY <5>1, <5>2
      <4>2. CASE ks[i + 1] # "PLUS"
        BY <2>3, <2>7, <4>2 DEF MemoryIn
      <4>. QED  BY <4>1, <4>2
    <3>3. k = j - 1
      BY <2>4, <3>1, <3>2
    <3>4. k # 0 /\ Is(t, k, {"RSQUARE_BR"}) /\ k + 1 = j
      BY <1>0, <3>1, <3>3
    <3>. QED  BY <2>5, <3>4
  <2>. QED  BY <2>6, <2>7 DEF ks
<1>. QED  BY <1>1, <1>2

LEMMA OperandLink ==
  ASSUME NEW t, IsProgram(t), NEW i \in 1 .. Len(t)
  PROVE  /\ OperandEnd(t, i) # 0 => OperandIn(KindsOf(t), i, OperandEnd(t, i))
         /\ \A j \in 1 .. Len(t) : OperandIn(KindsOf(t), i, j) /\ KindsOf(t)[j] \in {"COMMA", "EOL"}
                                      => OperandEnd(t, i) = j
<1>. DEFINE ks == KindsOf(t)
            single == ks[i] \in General \cup Members(Segments) \cup {"LABEL"}
<1>1. /\ \A A : Is(t, i, A) <=> ks[i] \in A
      /\ ks[i] = t[i].kind
  BY Looks, KindsText
<1>2. Is(t, i, General) \/ Is(t, i, Members(Segments)) \/ Is(t, i, {"LABEL"}) <=> single
  BY <1>1
<1>3. PointerAt(t, i) <=> PointerIn(ks, i, i + 3)
  <2>1. ks[i] = "NUM" => \A A : Is(t, i + 1, A) <=> ks[i + 1] \in A
    BY Looks
  <2>2. ks[i] = "NUM" /\ ks[i + 1] = "COLON" => \A A : Is(t, i + 2, A) <=> ks[i + 2] \in A
    BY Looks
  <2>. QED  BY <1>1, <2>1, <2>2 DEF PointerAt, PointerIn
<1>4. /\ ImmEnd(t, i) # 0 => ImmIn(ks, i, ImmEnd(t, i))
      /\ \A j : ImmIn(ks, i, j) => ImmEnd(t, i) = j
  <2>1. ks[i] \in OprMath => \A A : Is(t, i + 1, A) <=> ks[i + 1] \in A
    BY Looks DEF OprMath
  <2>2. ImmEnd(t, i) = IF ks[i] \in {"NUM", "ZERO"} THEN i + 1
                       ELSE IF ks[i] \in OprMath /\ ks[i + 1] \in {"NUM", "ZERO"} THEN i + 2 ELSE 0
    BY <1>1, <2>1 DEF ImmEnd
  <2>. HIDE DEF ks
  <2>. QED  BY <2>2 DEF ImmIn, OprMath
<1>5. /\ MemoryEnd(t, i) # 0 => MemoryIn(ks, i, MemoryEnd(t, i))
      /\ \A j \in 1 .. Len(t) : MemoryIn(ks, i, j) => MemoryEnd(t, i) = j
  BY MemoryLink
<1>6. OperandEnd(t, i) = IF single THEN i + 1 ELSE IF MemoryEnd(t, i) # 0 THEN MemoryEnd(t, i)
                         ELSE IF PointerAt(t, i) THEN i + 3 ELSE ImmEnd(t, i)
  BY <1>2 DEF OperandEnd
<1>7. /\ single => ks[i] \notin {"LSQUARE_BR", "NUM", "ZERO", "PLUS", "MINUS"}
      /\ \A j : MemoryIn(ks, i, j) => ks[i] = "LSQUARE_BR"
      /\ \A j : PointerIn(ks, i, j) => ks[i] = "NUM"
      /\ \A j : ImmIn(ks, i, j) => ks[i] \in {"NUM", "ZERO", "PLUS", "MINUS"}
  <2>. HIDE DEF ks
  <2>1. single => ks[i] \notin {"LSQUARE_BR", "NUM", "ZERO", "PLUS", "MINUS"}
    BY RegisterSets DEF General
  <2>. QED  BY <2>1 DEF MemoryIn, PointerIn, ImmIn, OprMath
<1>. HIDE DEF ks
<1>8. OperandEnd(t, i) # 0 => OperandIn(ks, i, OperandEnd(t, i))
  BY <1>3, <1>4, <1>5, <1>6 DEF OperandIn, SingleIn
<1>9. ASSUME NEW j \in 1 .. Len(t), OperandIn(ks, i, j), ks[j] \in {"COMMA", "EOL"}
      PROVE  OperandEnd(t, i) = j
  <2>1. CASE SingleIn(ks, i, j)
    BY <1>6, <2>1 DEF SingleIn
  <2>2. CASE MemoryIn(ks, i, j)
    <3>1. MemoryEnd(t, i) = j /\ ~ single /\ j # 0
      BY <1>5, <1>7, <2>2
    <3>. QED  BY <1>6, <3>1
  <2>3. CASE PointerIn(ks, i, j)
    <3>1. j = i + 3 /\ PointerAt(t, i) /\ ~ single
      BY <1>3, <1>7, <2>3 DEF PointerIn
    <3>2. MemoryEnd(t, i) = 0
      BY <1>5, <1>7, <2>3
    <3>. QED  BY <1>6, <3>1, <3>2
  <2>4. CASE ImmIn(ks, i, j)
    <3>1. ImmEnd(t, i) = j /\ ~ single
      BY <1>4, <1>7, <2>4
    <3>2. MemoryEnd(t, i) = 0
      BY <1>5, <1>7, <2>4
    <3>3. ~ PointerAt(t, i)
      BY <1>3, <1>9, <2>4 DEF ImmIn, PointerIn, OprMath
    <3>. QED  BY <1>6, <3>1, <3>2, <3>3
  <2>. QED  BY <1>9, <2>1, <2>2, <2>3, <2>4 DEF OperandIn
<1>. QED  BY <1>8, <1>9 DEF ks

LEMMA PrefixLink ==
  ASSUME NEW t, IsProgram(t), NEW i \in 1 .. Len(t)
  PROVE  \A j : PrefixIn(KindsOf(t), i, j)
                   <=> parse_opr_prefix(t, i) # 0 /\ j = i + parse_opr_prefix(t, i)
<1>. DEFINE ks == KindsOf(t)
<1>1. /\ \A A : Is(t, i, A) <=> ks[i] \in A
      /\ ks[i] # "EOL" => \A A : Is(t, i + 1, A) <=> ks[i + 1] \in A
  BY Looks
<1>2. /\ parse_opr_prefix(t, i) \in 0 .. 2
      /\ parse_opr_prefix(t, i) = 1 <=> Is(t, i, Sizes)
      /\ parse_opr_prefix(t, i) = 2 <=> Is(t, i, Members(Segments)) /\ Is(t, i + 1, {"COLON"})
  BY PrefixLengths
<1>3. ks[i] \in Members(Segments) => ks[i] # "EOL"
  BY RegisterSets
<1>4. /\ parse_opr_prefix(t, i) = 1 <=> ks[i] \in Sizes
      /\ parse_opr_prefix(t, i) = 2 <=> ks[i] \in Members(Segments) /\ ks[i + 1] = "COLON"
  BY <1>1, <1>2, <1>3
<1>. HIDE DEF ks
<1>. QED  BY <1>2, <1>4 DEF PrefixIn, ks

(* A span of a span is a span of the text.                                         *)
LEMMA SpanOfSpan ==
  ASSUME NEW ks, NEW a, NEW e, IsSpan(ks, a, e),
         NEW k \in 1 .. e - a + 1, NEW j \in k .. e - a + 1
  PROVE  Span(Span(ks, a, e), k, j) = Span(ks, a + k - 1, a + j - 1)
<1>. DEFINE x == Span(ks, a, e)
            S == {ks[m] : m \in DOMAIN ks}
<1>1. ks \in Seq(S) /\ a \in 1 .. Len(ks) + 1 /\ e \in a .. Len(ks) + 1 /\ Len(ks) \in Nat
  BY SpanParts DEF IsSpan
<1>. HIDE DEF S
<1>2. /\ x \in Seq(S) /\ Len(x) = e - a
      /\ \A m \in 1 .. e - a : x[m] = ks[a + m - 1]
  BY <1>1, SpanProperties
<1>3. k \in 1 .. Len(x) + 1 /\ j \in k .. Len(x) + 1
  BY <1>1, <1>2
<1>. HIDE DEF x
<1>4. /\ Span(x, k, j) \in Seq(S) /\ Len(Span(x, k, j)) = j - k
      /\ \A m \in 1 .. j - k : Span(x, k, j)[m] = x[k + m - 1]
  <2>1. \A p \in 1 .. Len(x) + 1 : \A q \in p .. Len(x) + 1 :
           /\ Span(x, p, q) \in Seq(S) /\ Len(Span(x, p, q)) = q - p
           /\ \A m \in 1 .. q - p : Span(x, p, q)[m] = x[p + m - 1]
    <3>1. x \in Seq(S)
      BY <1>2
    <3>. QED  BY ONLY <3>1, SpanProperties
  <2>. QED  BY <1>3, <2>1
<1>. DEFINE b == a + k - 1
            c == a + j - 1
<1>5. b \in 1 .. Len(ks) + 1 /\ c \in b .. Len(ks) + 1 /\ c - b = j - k
  BY <1>1
<1>6. /\ Span(ks, b, c) \in Seq(S) /\ Len(Span(ks, b, c)) = c - b
      /\ \A m \in 1 .. c - b : Span(ks, b, c)[m] = ks[b + m - 1]
  <2>. HIDE DEF b, c
  <2>. QED  BY <1>1, <1>5, SpanProperties
<1>7. \A m \in 1 .. j - k : Span(x, k, j)[m] = Span(ks, b, c)[m]
  <2>. SUFFICES ASSUME NEW m \in 1 .. j - k PROVE Span(x, k, j)[m] = Span(ks, b, c)[m]
    OBVIOUS
  <2>1. k + m - 1 \in 1 .. e - a /\ a + (k + m - 1) - 1 = b + m - 1 /\ m \in 1 .. c - b
    BY <1>1, <1>5
  <2>2. x[k + m - 1] = ks[a + (k + m - 1) - 1]
    BY <1>2, <2>1
  <2>3. Span(x, k, j)[m] = x[k + m - 1] /\ Span(ks, b, c)[m] = ks[b + m - 1]
    <3>. HIDE DEF b, c
    <3>. QED  BY <1>4, <1>6, <2>1
  <2>. QED  BY <2>1, <2>2, <2>3
<1>. HIDE DEF b, c
<1>8. Span(x, k, j) = Span(ks, b, c)
  BY <1>4, <1>5, <1>6, <1>7, SeqEqual
<1>. QED  BY <1>8 DEF x, b, c

(* A step of the recursion of IsOperand_, at token p: either an operand reaches    *)
(* from p to e, or a prefix is there and the operand after it does.                *)
LEMMA PrefixStep ==
  ASSUME NEW t, IsProgram(t), NEW a \in 1 .. Len(t), NEW e \in a .. Len(t),
         KindsOf(t)[e] \in {"COMMA", "EOL"}, NEW p \in a .. e
  PROVE  OperandEnd(t, AfterOf(t, a)[p]) = e
             <=> \/ OperandIn(KindsOf(t), p, e)
                 \/ \E q \in p + 1 .. e - 1 :
                       PrefixIn(KindsOf(t), p, q) /\ OperandEnd(t, AfterOf(t, a)[q]) = e
<1>. DEFINE ks   == KindsOf(t)
            A(q) == AfterOf(t, a)[q]
            l(q) == parse_opr_prefix(t, q)
<1>1. Len(t) \in Nat /\ p \in 1 .. Len(t) /\ e \in 1 .. Len(t) /\ e \in Nat \ {0} /\ p \in a .. Len(t)
      /\ e \in a .. Len(t)
  BY Places
<1>2. \A q \in a .. Len(t) : A(q) = (IF l(q) = 0 THEN q ELSE A(q + l(q))) /\ A(q) \in q .. Len(t)
  BY AfterValues
<1>3. \A q \in 1 .. Len(t) :
         /\ \A j : PrefixIn(ks, q, j) <=> l(q) # 0 /\ j = q + l(q)
         /\ l(q) \in 0 .. 2 /\ q + l(q) \in 1 .. Len(t)
  BY PrefixLink, PrefixLengths
<1>4. \A q \in 1 .. Len(t) : /\ OperandEnd(t, q) # 0 => OperandIn(ks, q, OperandEnd(t, q))
                             /\ OperandIn(ks, q, e) => OperandEnd(t, q) = e
                             /\ OperandEnd(t, q) # 0 => OperandEnd(t, q) \in q + 1 .. Len(t)
  BY <1>1, OperandLink, OperandResult
<1>5. ASSUME NEW q \in 1 .. Len(t), l(q) # 0
      PROVE  ~ OperandIn(ks, q, e) /\ ks[q] \notin {"COMMA", "EOL"} /\ (l(q) = 2 => ks[q + 1] = "COLON")
  <2>1. PrefixIn(ks, q, q + l(q))
    BY <1>3, <1>5
  <2>2. CASE l(q) = 1
    <3>1. ks[q] \in Sizes
      BY <2>1, <2>2 DEF PrefixIn
    <3>. HIDE DEF ks
    <3>. QED  BY <2>2, <3>1, RegisterSets
              DEF OperandIn, SingleIn, MemoryIn, PointerIn, ImmIn, OprMath, General, Sizes
  <2>3. CASE l(q) = 2
    <3>1. ks[q] \in Members(Segments) /\ ks[q + 1] = "COLON"
      BY <2>1, <2>3 DEF PrefixIn
    <3>2. SingleIn(ks, q, e) => ks[e] = "COLON"
      BY <3>1 DEF SingleIn
    <3>3. ~ SingleIn(ks, q, e)
      BY <3>2
    <3>. HIDE DEF ks
    <3>. QED  BY <2>3, <3>1, <3>3, RegisterSets
              DEF OperandIn, MemoryIn, PointerIn, ImmIn, OprMath
  <2>. QED  BY <1>3, <1>5, <2>2, <2>3
<1>. HIDE DEF ks, A, l
<1>6. l(e) = 0 /\ A(e) = e /\ OperandEnd(t, e) # e
  <2>1. l(e) = 0
    BY <1>1, <1>5 DEF ks
  <2>2. OperandEnd(t, e) # e
    BY <1>1, <1>4
  <2>. QED  BY <1>1, <1>2, <2>1, <2>2
<1>7. OperandEnd(t, A(p)) = e
          <=> OperandIn(ks, p, e) \/ \E q \in p + 1 .. e - 1 : PrefixIn(ks, p, q) /\ OperandEnd(t, A(q)) = e
  <2>1. CASE p = e
    <3>1. OperandEnd(t, A(p)) # e
      BY <1>6, <2>1
    <3>2. ~ OperandIn(ks, p, e)
      BY <1>1, <1>4, <1>6, <2>1
    <3>3. \A q \in p + 1 .. e - 1 : FALSE
      BY <1>1, <2>1
    <3>. QED  BY <3>1, <3>2, <3>3
  <2>2. CASE l(p) = 0
    <3>1. A(p) = p /\ \A q : ~ PrefixIn(ks, p, q)
      BY <1>1, <1>2, <1>3, <2>2
    <3>2. OperandEnd(t, p) = e <=> OperandIn(ks, p, e)
      BY <1>1, <1>4
    <3>. QED  BY <3>1, <3>2
  <2>3. CASE l(p) # 0 /\ p # e
    <3>. DEFINE r == p + l(p)
    <3>1. /\ ~ OperandIn(ks, p, e) /\ l(p) \in 1 .. 2 /\ (l(p) = 2 => ks[p + 1] = "COLON")
          /\ \A q : PrefixIn(ks, p, q) <=> q = r
          /\ A(p) = A(r)
      <4>1. ~ OperandIn(ks, p, e) /\ (l(p) = 2 => ks[p + 1] = "COLON")
        BY <1>1, <1>5, <2>3
      <4>2. l(p) \in 0 .. 2 /\ \A q : PrefixIn(ks, p, q) <=> q = r
        BY <1>1, <1>3, <2>3
      <4>3. A(p) = A(r)
        BY <1>1, <1>2, <2>3
      <4>. QED  BY <2>3, <4>1, <4>2, <4>3
    <3>2. ks[e] # "COLON"
      BY DEF ks
    <3>3. r \in p + 1 .. e
      BY <1>1, <2>3, <3>1, <3>2
    <3>4. r \in p + 1 .. e - 1 \/ r = e
      <4>. HIDE DEF r
      <4>. QED  BY <1>1, <3>3
    <3>. HIDE DEF r
    <3>5. CASE r = e
      BY <1>1, <1>6, <3>1, <3>5
    <3>6. CASE r \in p + 1 .. e - 1
      BY <3>1, <3>6
    <3>. QED  BY <3>4, <3>5, <3>6
  <2>. QED  BY <2>1, <2>2, <2>3
<1>. QED  BY <1>7 DEF ks, A

(* The parser and grammar.txt agree where no address is the number 0.              *)
NoZeroAddress(ks, a, e) == \A k \in a .. e - 2 : ~ (ks[k] = "ZERO" /\ ks[k + 1] = "RSQUARE_BR")

LEMMA ZeroAddressPlace ==
  ASSUME NEW ks, NEW a \in Nat, NEW e \in Nat, NoZeroAddress(ks, a, e), NEW i \in a .. e
  PROVE  ~ ZeroMemoryIn(ks, i, e)
<1>. SUFFICES ASSUME ZeroMemoryIn(ks, i, e) PROVE FALSE
  OBVIOUS
<1>1. ks[e - 1] = "RSQUARE_BR" /\ (ZeroIn(ks, i + 1, e - 1) \/ ZeroIn(ks, i + 2, e - 1))
  BY DEF ZeroMemoryIn
<1>2. \A m \in {i + 1, i + 2} : ZeroIn(ks, m, e - 1) => e - 2 >= i + 1 /\ ks[e - 2] = "ZERO"
  <2>. SUFFICES ASSUME NEW m \in {i + 1, i + 2}, ZeroIn(ks, m, e - 1)
                PROVE  e - 2 >= i + 1 /\ ks[e - 2] = "ZERO"
    OBVIOUS
  <2>1. \/ e - 1 = m + 1 /\ ks[m] = "ZERO"
        \/ e - 1 = m + 2 /\ ks[m + 1] = "ZERO"
    BY DEF ZeroIn
  <2>2. CASE e - 1 = m + 1 /\ ks[m] = "ZERO"
    <3>1. m = e - 2
      BY <2>2
    <3>. QED  BY <2>2, <3>1
  <2>3. CASE e - 1 = m + 2 /\ ks[m + 1] = "ZERO"
    <3>1. m + 1 = e - 2
      BY <2>3
    <3>. QED  BY <2>3, <3>1
  <2>. QED  BY <2>1, <2>2, <2>3
<1>3. e - 2 \in a .. e - 2 /\ (e - 2) + 1 = e - 1 /\ ks[e - 2] = "ZERO"
  BY <1>1, <1>2
<1>. QED  BY <1>1, <1>3 DEF NoZeroAddress

LEMMA PrefixedLink ==
  ASSUME NEW t, IsProgram(t), NEW a \in 1 .. Len(t), NEW e \in a .. Len(t),
         KindsOf(t)[e] \in {"COMMA", "EOL"}, NoZeroAddress(KindsOf(t), a, e)
  PROVE  G!IsOperand_(Span(KindsOf(t), a, e)) <=> PrefixedEnd(t, a) = e
<1>. DEFINE ks == KindsOf(t)
            x  == Span(ks, a, e)
            n  == Len(x)
            H(k) == OperandEnd(t, AfterOf(t, a)[a + k - 1]) = e
            Q(k) == SubSeq(x, k, n) \in G!Operand
            R(k, j) == SubSeq(x, k, j - 1) \in G!OprPrefix
            Right(f) == f = [k \in 1 .. n + 1 |-> Q(k) \/ \E j \in k + 1 .. n : R(k, j) /\ f[j]]
<1>1. a \in Nat \ {0} /\ e \in Nat /\ a <= e /\ e <= Len(t) /\ Len(t) \in Nat
  BY Places
<1>2. IsSpan(ks, a, e) /\ \A i \in 1 .. Len(t) + 1, j \in 1 .. Len(t) + 1 : i <= j => IsSpan(ks, i, j)
  BY <1>1, KindsText
<1>3. n = e - a
  <2>1. ks \in Seq({ks[m] : m \in DOMAIN ks}) /\ a \in 1 .. Len(ks) + 1 /\ e \in a .. Len(ks) + 1
    BY <1>2 DEF IsSpan
  <2>. HIDE DEF ks
  <2>. QED  BY <2>1, SpanProperties
<1>4. \A k \in 1 .. n + 1 : Q(k) <=> OperandIn(ks, a + k - 1, e)
  <2>. SUFFICES ASSUME NEW k \in 1 .. n + 1 PROVE Q(k) <=> OperandIn(ks, a + k - 1, e)
    OBVIOUS
  <2>1. k \in 1 .. e - a + 1 /\ n + 1 \in k .. e - a + 1 /\ a + (n + 1) - 1 = e /\ (n + 1) - 1 = n
    <3>. HIDE DEF n
    <3>. QED  BY <1>1, <1>3
  <2>2. a + k - 1 \in 1 .. Len(t) + 1 /\ e \in 1 .. Len(t) + 1 /\ a + k - 1 <= e
    <3>. HIDE DEF n
    <3>. QED  BY <1>1, <2>1
  <2>. HIDE DEF ks, n
  <2>3. Span(x, k, n + 1) = Span(ks, a + k - 1, a + (n + 1) - 1)
    <3>1. \A j \in k .. e - a + 1 : Span(x, k, j) = Span(ks, a + k - 1, a + j - 1)
      BY <1>2, <2>1, SpanOfSpan
    <3>. QED  BY <2>1, <3>1
  <2>4. SubSeq(x, k, n) = Span(ks, a + k - 1, e)
    BY <2>1, <2>3 DEF Span
  <2>5. ~ ZeroMemoryIn(ks, a + k - 1, e)
    <3>1. a + k - 1 \in a .. e /\ a \in Nat
      <4>. HIDE DEF n
      <4>. QED  BY <1>1, <2>1
    <3>. QED  BY <1>1, <3>1, ZeroAddressPlace DEF ks
  <2>. QED  BY <1>2, <2>2, <2>4, <2>5, OperandSpan
<1>5. \A k \in 1 .. n + 1 : \A j \in k .. n + 1 : R(k, j) <=> PrefixIn(ks, a + k - 1, a + j - 1)
  <2>. SUFFICES ASSUME NEW k \in 1 .. n + 1, NEW j \in k .. n + 1
                PROVE  R(k, j) <=> PrefixIn(ks, a + k - 1, a + j - 1)
    OBVIOUS
  <2>1. k \in 1 .. e - a + 1 /\ j \in k .. e - a + 1
    <3>. HIDE DEF n
    <3>. QED  BY <1>1, <1>3
  <2>2. a + k - 1 \in 1 .. Len(t) + 1 /\ a + j - 1 \in 1 .. Len(t) + 1 /\ a + k - 1 <= a + j - 1
    <3>. HIDE DEF n
    <3>. QED  BY <1>1, <2>1
  <2>. HIDE DEF ks, n
  <2>3. Span(x, k, j) = Span(ks, a + k - 1, a + j - 1)
    <3>1. IsSpan(ks, a, e)
      BY <1>2
    <3>2. \A q \in 1 .. e - a + 1 : \A m \in q .. e - a + 1 :
             Span(Span(ks, a, e), q, m) = Span(ks, a + q - 1, a + m - 1)
      BY ONLY <3>1, SpanOfSpan
    <3>. QED  BY <2>1, <3>2
  <2>4. SubSeq(x, k, j - 1) = Span(ks, a + k - 1, a + j - 1)
    BY <2>3 DEF Span
  <2>. QED  BY <1>2, <2>2, <2>4, PrefixSpan
<1>6. \A k \in 1 .. n + 1 : H(k) <=> (Q(k) \/ \E j \in k + 1 .. n : R(k, j) /\ H(j))
  <2>. SUFFICES ASSUME NEW k \in 1 .. n + 1
                PROVE  H(k) <=> (Q(k) \/ \E j \in k + 1 .. n : R(k, j) /\ H(j))
    OBVIOUS
  <2>. HIDE DEF x, n, ks, Q, R
  <2>. DEFINE p == a + k - 1
  <2>1. p \in a .. e
    BY <1>1, <1>3
  <2>2. H(k) <=> \/ OperandIn(ks, p, e)
                 \/ \E q \in p + 1 .. e - 1 : PrefixIn(ks, p, q) /\ OperandEnd(t, AfterOf(t, a)[q]) = e
    <3>. HIDE DEF H, p
    <3>. QED  BY <2>1, PrefixStep DEF ks, H, p
  <2>3. (\E q \in p + 1 .. e - 1 : PrefixIn(ks, p, q) /\ OperandEnd(t, AfterOf(t, a)[q]) = e)
            <=> \E j \in k + 1 .. n : PrefixIn(ks, p, a + j - 1) /\ H(j)
    <3>1. ASSUME NEW q \in p + 1 .. e - 1 PROVE q - a + 1 \in k + 1 .. n /\ a + (q - a + 1) - 1 = q
      BY <1>1, <1>3
    <3>2. ASSUME NEW j \in k + 1 .. n PROVE a + j - 1 \in p + 1 .. e - 1
      BY <1>1, <1>3
    <3>. HIDE DEF p
    <3>. QED  BY <3>1, <3>2
  <2>4. \A j \in k + 1 .. n : R(k, j) <=> PrefixIn(ks, p, a + j - 1)
    <3>1. \A j \in k + 1 .. n : j \in k .. n + 1
      BY <1>1, <1>3
    <3>. QED  BY <1>5, <3>1
  <2>. HIDE DEF H, p
  <2>5. Q(k) <=> OperandIn(ks, p, e)
    BY <1>4 DEF p
  <2>. QED  BY <2>2, <2>3, <2>4, <2>5
<1>7. \E f : Right(f)
  <2>. DEFINE g == [k \in 1 .. n + 1 |-> H(k)]
  <2>. HIDE DEF x, n, ks, Q, R, H
  <2>1. \A k \in 1 .. n + 1 : \A j \in k + 1 .. n : g[j] <=> H(j)
    <3>1. \A k \in 1 .. n + 1 : \A j \in k + 1 .. n : j \in 1 .. n + 1
      BY <1>1, <1>3
    <3>. QED  BY <3>1
  <2>2. \A k \in 1 .. n + 1 : H(k) = (Q(k) \/ \E j \in k + 1 .. n : R(k, j) /\ g[j])
    <3>. HIDE DEF g
    <3>. SUFFICES ASSUME NEW k \in 1 .. n + 1
                  PROVE  H(k) = (Q(k) \/ \E j \in k + 1 .. n : R(k, j) /\ g[j])
      OBVIOUS
    <3>1. (\E j \in k + 1 .. n : R(k, j) /\ g[j]) <=> \E j \in k + 1 .. n : R(k, j) /\ H(j)
      BY <2>1
    <3>2. H(k) <=> (Q(k) \/ \E j \in k + 1 .. n : R(k, j) /\ H(j))
      BY <1>6
    <3>. QED  BY <3>1, <3>2 DEF H, Q
  <2>3. g = [k \in 1 .. n + 1 |-> Q(k) \/ \E j \in k + 1 .. n : R(k, j) /\ g[j]]
    BY <2>2
  <2>. QED  BY <2>3
<1>8. \E f : Right(f) /\ G!IsOperand_(x) = f[1]
  <2>. DEFINE from[k \in 1 .. n + 1] ==
                  \/ SubSeq(x, k, n) \in G!Operand
                  \/ \E j \in k + 1 .. n : SubSeq(x, k, j - 1) \in G!OprPrefix /\ from[j]
  <2>. HIDE DEF x, n
  <2>1. Right(from)
    <3>1. \E f : f = [k \in 1 .. n + 1 |-> \/ SubSeq(x, k, n) \in G!Operand
                                           \/ \E j \in k + 1 .. n : SubSeq(x, k, j - 1) \in G!OprPrefix /\ f[j]]
      BY <1>7
    <3>. QED  BY <3>1
  <2>2. G!IsOperand_(x) = from[1]
    BY DEF G!IsOperand_, n
  <2>. QED  BY <2>1, <2>2
<1>9. PICK f : Right(f) /\ G!IsOperand_(x) = f[1]
  BY <1>8
<1>10. \A k \in 1 .. n + 1 : f[k] <=> (Q(k) \/ \E j \in k + 1 .. n : R(k, j) /\ f[j])
  <2>. HIDE DEF x, n, Q, R
  <2>. QED  BY <1>9
<1>. DEFINE Good == {m \in Nat : \A k \in 1 .. n + 1 : n + 1 - k <= m => (f[k] <=> H(k))}
<1>11. 0 \in Good /\ \A m \in Good : m + 1 \in Good
  <2>. HIDE DEF x, n, ks, Q, R, H
  <2>1. ASSUME NEW k \in 1 .. n + 1, \A j \in k + 1 .. n : f[j] <=> H(j)
        PROVE  f[k] <=> H(k)
    BY <1>6, <1>10, <2>1
  <2>2. 0 \in Good
    <3>. SUFFICES ASSUME NEW k \in 1 .. n + 1, n + 1 - k <= 0 PROVE f[k] <=> H(k)
      OBVIOUS
    <3>1. \A j \in k + 1 .. n : FALSE
      BY <1>1, <1>3
    <3>. QED  BY <2>1, <3>1
  <2>3. ASSUME NEW m \in Good PROVE m + 1 \in Good
    <3>. SUFFICES ASSUME NEW k \in 1 .. n + 1, n + 1 - k <= m + 1 PROVE f[k] <=> H(k)
      OBVIOUS
    <3>1. m \in Nat
      OBVIOUS
    <3>2. \A j \in k + 1 .. n : j \in 1 .. n + 1 /\ n + 1 - j <= m
      <4>. HIDE DEF Good
      <4>. QED  BY <1>1, <1>3, <3>1
    <3>3. \A j \in k + 1 .. n : f[j] <=> H(j)
      BY <3>2
    <3>. QED  BY <2>1, <3>3
  <2>. QED  BY <2>2, <2>3
<1>12. Good = Nat
  <2>1. Good \in SUBSET Nat
    OBVIOUS
  <2>. HIDE DEF Good
  <2>. QED  BY <1>11, <2>1, SetInduction
<1>13. f[1] <=> H(1)
  <2>. HIDE DEF x, n, ks, Q, R, H
  <2>1. n \in Nat /\ 1 \in 1 .. n + 1 /\ n + 1 - 1 <= n
    BY <1>1, <1>3
  <2>2. n \in Good
    <3>. HIDE DEF Good
    <3>. QED  BY <1>12, <2>1
  <2>. QED  BY <2>1, <2>2
<1>14. H(1) <=> PrefixedEnd(t, a) = e
  <2>1. a + 1 - 1 = a
    BY <1>1
  <2>. QED  BY <2>1 DEF PrefixedEnd, Start
<1>. HIDE DEF x, H
<1>. QED  BY <1>9, <1>13, <1>14 DEF x

(* No function passes the end of the line.                                         *)
(* The tokens of prefixes.                                                         *)
Marks == Sizes \cup Members(Segments) \cup {"COLON"}

LEMMA PrefixTokens ==
  ASSUME NEW t, IsProgram(t), NEW i \in 1 .. Len(t)
  PROVE  \A k \in i .. Start(t, i) - 1 : KindsOf(t)[k] \in Marks
<1>. DEFINE L == Len(t)
            ks == KindsOf(t)
            p(j) == parse_opr_prefix(t, j)
            f == AfterOf(t, i)
            Good == {n \in Nat : \A j \in i .. L : L - j <= n => \A k \in j .. f[j] - 1 : ks[k] \in Marks}
<1>1. L \in Nat \ {0} /\ \A j \in 1 .. L : p(j) \in 0 .. 2 /\ j + p(j) \in 1 .. L
  BY Places, PrefixLengths
<1>2. \A j \in i .. L : f[j] = (IF p(j) = 0 THEN j ELSE f[j + p(j)]) /\ f[j] \in j .. L
  BY AfterValues
<1>3. ASSUME NEW j \in 1 .. L, p(j) # 0
      PROVE  \A k \in j .. j + p(j) - 1 : ks[k] \in Marks
  <2>1. PrefixIn(ks, j, j + p(j))
    BY <1>3, PrefixLink
  <2>2. \/ p(j) = 1 /\ ks[j] \in Sizes
        \/ p(j) = 2 /\ ks[j] \in Members(Segments) /\ ks[j + 1] = "COLON"
    <3>1. p(j) \in 1 .. 2
      BY <1>1, <1>3
    <3>. HIDE DEF p
    <3>. QED  BY <2>1, <3>1 DEF PrefixIn
  <2>3. ks[j] \in Marks /\ (p(j) = 2 => ks[j + 1] \in Marks)
    <3>. HIDE DEF ks
    <3>. QED  BY <2>2 DEF Marks
  <2>4. \A k \in j .. j + p(j) - 1 : k = j \/ (p(j) = 2 /\ k = j + 1)
    <3>. HIDE DEF p
    <3>. QED  BY <2>2
  <2>. QED  BY <2>3, <2>4
<1>. HIDE DEF p, f, ks
<1>4. 0 \in Good /\ \A n \in Good : n + 1 \in Good
  <2>1. ASSUME NEW j \in i .. L, p(j) # 0 => \A k \in j + p(j) .. f[j + p(j)] - 1 : ks[k] \in Marks
        PROVE  \A k \in j .. f[j] - 1 : ks[k] \in Marks
    <3>1. j \in 1 .. L /\ j \in Nat
      BY <1>1
    <3>2. CASE p(j) = 0
      <4>1. f[j] = j
        BY <1>2, <3>2
      <4>2. \A k \in j .. j - 1 : FALSE
        BY <3>1
      <4>. QED  BY <4>1, <4>2
    <3>3. CASE p(j) # 0
      <4>1. f[j] = f[j + p(j)] /\ f[j] \in j .. L
        BY <1>2, <3>3
      <4>2. p(j) \in Nat
        <5>1. p(j) \in 0 .. 2
          BY <1>1, <3>1
        <5>. QED  BY ONLY <5>1
      <4>3. \A k \in j .. f[j] - 1 : k \in j .. j + p(j) - 1 \/ k \in j + p(j) .. f[j] - 1
        <5>1. f[j] \in Nat /\ L \in Nat
          BY <1>1, <3>1, <4>1
        <5>. HIDE DEF L
        <5>. QED  BY <3>1, <4>2, <5>1
      <4>. QED  BY <1>3, <2>1, <3>1, <3>3, <4>1, <4>3
    <3>. QED  BY <3>2, <3>3
  <2>2. 0 \in Good
    <3>. SUFFICES ASSUME NEW j \in i .. L, L - j <= 0 PROVE \A k \in j .. f[j] - 1 : ks[k] \in Marks
      OBVIOUS
    <3>. HIDE DEF L
    <3>1. j \in 1 .. L /\ j = L
      BY <1>1
    <3>2. p(j) = 0
      <4>1. p(j) \in 0 .. 2 /\ j + p(j) \in 1 .. L
        BY <1>1, <3>1
      <4>2. j = L /\ L \in Nat
        BY <1>1, <3>1
      <4>. QED  BY ONLY <4>1, <4>2
    <3>. QED  BY <2>1, <3>2
  <2>3. ASSUME NEW n \in Good PROVE n + 1 \in Good
    <3>. SUFFICES ASSUME NEW j \in i .. L, L - j <= n + 1 PROVE \A k \in j .. f[j] - 1 : ks[k] \in Marks
      OBVIOUS
    <3>1. j \in 1 .. L /\ n \in Nat /\ j \in Nat /\ i \in Nat /\ L \in Nat
      BY <1>1
    <3>2. p(j) \in Nat /\ j + p(j) \in 1 .. L
      BY <1>1, <3>1
    <3>3. p(j) # 0 => j + p(j) \in i .. L /\ L - (j + p(j)) <= n
      <4>. HIDE DEF L, Good
      <4>. QED  BY <3>1, <3>2
    <3>4. p(j) # 0 => \A k \in j + p(j) .. f[j + p(j)] - 1 : ks[k] \in Marks
      BY <3>3
    <3>. QED  BY <2>1, <3>4
  <2>. QED  BY <2>2, <2>3
<1>5. Good = Nat
  <2>1. Good \in SUBSET Nat
    OBVIOUS
  <2>. HIDE DEF Good
  <2>. QED  BY <1>4, <2>1, SetInduction
<1>6. \A k \in i .. f[i] - 1 : ks[k] \in Marks
  <2>1. L - i \in Nat /\ i \in i .. L /\ L - i <= L - i
    <3>. HIDE DEF L, Good
    <3>. QED  BY <1>1 DEF L
  <2>2. L - i \in Good
    <3>. HIDE DEF Good
    <3>. QED  BY <1>5, <2>1
  <2>. QED  BY <2>1, <2>2
<1>. QED  BY <1>6 DEF Start, f, ks

(* What ends an operand, and is no part of one.                                    *)
Enders == {"EOL", "COMMA"}

LEMMA MarksAreNoEnd == \A a \in Marks : a \notin Enders
BY RegisterSets DEF Marks, Sizes, Enders

LEMMA OperandTokens ==
  ASSUME NEW t, IsProgram(t), NEW i \in 1 .. Len(t), OperandEnd(t, i) # 0
  PROVE  \A k \in i .. OperandEnd(t, i) - 1 : KindsOf(t)[k] \notin Enders
<1>. DEFINE ks == KindsOf(t)
            e  == OperandEnd(t, i)
            x  == Span(ks, i, e)
<1>1. e \in i + 1 .. Len(t) /\ Len(t) \in Nat
  BY OperandResult, Places
<1>2. IsSpan(ks, i, e)
  <2>. HIDE DEF e
  <2>. QED  BY <1>1, KindsText
<1>3. x \in G!Operand
  BY <1>2, OperandLink, OperandSpan
<1>4. x \in Seq(Lexemes)
  BY <1>3, Languages DEF IsLanguage
<1>5. Len(x) = e - i /\ \A m \in 1 .. e - i : x[m] = ks[i + m - 1]
  <2>1. ks \in Seq({ks[m] : m \in DOMAIN ks}) /\ i \in 1 .. Len(ks) + 1 /\ e \in i .. Len(ks) + 1
    BY <1>2 DEF IsSpan
  <2>. HIDE DEF ks, e
  <2>. QED  BY <2>1, SpanProperties
<1>6. \A a \in Lexemes : a \notin Enders
  BY RegisterSets DEF Lexemes, General, Bases, Indices, Enders
<1>. HIDE DEF x, ks, e
<1>7. ASSUME NEW k \in i .. e - 1 PROVE ks[k] \notin Enders
  <2>1. k - i + 1 \in 1 .. e - i /\ i + (k - i + 1) - 1 = k
    BY <1>1
  <2>2. x[k - i + 1] = ks[k]
    BY <1>5, <2>1
  <2>3. x[k - i + 1] \in Lexemes
    BY <1>4, <1>5, <2>1, ElementOfSeq
  <2>. QED  BY <1>6, <2>2, <2>3
<1>. QED  BY <1>7 DEF ks, e

LEMMA PrefixedTokens ==
  ASSUME NEW t, IsProgram(t), NEW i \in 1 .. Len(t), PrefixedEnd(t, i) # 0
  PROVE  \A k \in i .. PrefixedEnd(t, i) - 1 : KindsOf(t)[k] \notin Enders
<1>. DEFINE s == Start(t, i)
            e == PrefixedEnd(t, i)
<1>1. s \in i .. Len(t) /\ s \in 1 .. Len(t) /\ e \in i + 1 .. Len(t) /\ Len(t) \in Nat /\ i \in Nat
  BY PrefixedResult, Places DEF PrefixedEnd
<1>2. \A k \in i .. s - 1 : KindsOf(t)[k] \notin Enders
  BY PrefixTokens, MarksAreNoEnd
<1>3. \A k \in s .. e - 1 : KindsOf(t)[k] \notin Enders
  BY <1>1, OperandTokens DEF PrefixedEnd
<1>4. \A k \in i .. e - 1 : k \in i .. s - 1 \/ k \in s .. e - 1
  <2>. HIDE DEF s, e
  <2>. QED  BY <1>1
<1>. QED  BY <1>2, <1>3, <1>4

LEMMA TailTokens ==
  ASSUME NEW t, IsProgram(t), NEW i \in 1 .. Len(t)
  PROVE  \A k \in i .. TailEnd(t, i) - 1 : KindsOf(t)[k] # "EOL"
<1>. DEFINE e == PrefixedEnd(t, i)
            f == PrefixedEnd(t, e + 1)
<1>0. Len(t) \in Nat /\ i \in Nat
  BY Places
<1>1. CASE e = 0
  <2>1. TailEnd(t, i) = i
    BY <1>1 DEF TailEnd
  <2>2. \A k \in i .. TailEnd(t, i) - 1 : FALSE
    BY <1>0, <2>1
  <2>. QED  BY <2>2
<1>2. CASE e # 0 /\ ~ (Is(t, e, {"COMMA"}) /\ f # 0)
  <2>1. TailEnd(t, i) = e
    BY <1>2 DEF TailEnd
  <2>. QED  BY <1>2, <2>1, PrefixedTokens DEF Enders
<1>3. CASE e # 0 /\ Is(t, e, {"COMMA"}) /\ f # 0
  <2>1. TailEnd(t, i) = f
    BY <1>3 DEF TailEnd
  <2>2. e \in i + 1 .. Len(t) /\ e \in 1 .. Len(t)
    BY <1>0, <1>3, PrefixedResult DEF PrefixedEnd
  <2>3. KindsOf(t)[e] = "COMMA" /\ e + 1 \in 1 .. Len(t)
    BY <1>3, <2>2, Looks
  <2>4. /\ \A k \in i .. e - 1 : KindsOf(t)[k] # "EOL"
        /\ \A k \in e + 1 .. f - 1 : KindsOf(t)[k] # "EOL"
    BY <1>3, <2>3, PrefixedTokens DEF Enders
  <2>5. f \in Nat
    BY <1>0, <1>3, <2>3, PrefixedResult DEF PrefixedEnd
  <2>. HIDE DEF e, f
  <2>6. \A k \in i .. f - 1 : k \in i .. e - 1 \/ k = e \/ k \in e + 1 .. f - 1
    BY <1>0, <2>2, <2>5
  <2>. QED  BY <2>1, <2>3, <2>4, <2>6
<1>. QED  BY <1>1, <1>2, <1>3

(* The operands that the parser takes have no such address.                        *)
LEMMA EaddrPairs ==
  ASSUME NEW ks, NEW i \in Nat, NEW j \in Nat, EaddrIn(ks, i, j)
  PROVE  \A k \in i .. j - 1 : ks[k] # "ZERO"
<1>1. \A a \in Bases \cup Indices \cup OprMath \cup {"NUM", "PLUS"} : a # "ZERO"
  BY DEF Bases, Indices, OprMath
<1>2. ASSUME NEW m \in Nat, SignedIn(ks, m, j)
      PROVE  j = m + 2 /\ ks[m] # "ZERO" /\ ks[m + 1] # "ZERO"
  BY <1>1, <1>2 DEF SignedIn
<1>3. CASE /\ ks[i] \in Bases /\ ks[i + 1] = "PLUS" /\ ks[i + 2] \in Indices
           /\ j = i + 3 \/ SignedIn(ks, i + 3, j)
  <2>1. ks[i] # "ZERO" /\ ks[i + 1] # "ZERO" /\ ks[i + 2] # "ZERO"
    BY <1>1, <1>3
  <2>2. j = i + 3 \/ (j = i + 5 /\ ks[i + 3] # "ZERO" /\ ks[i + 4] # "ZERO")
    <3>1. (i + 3) + 1 = i + 4 /\ (i + 3) + 2 = i + 5 /\ i + 3 \in Nat
      OBVIOUS
    <3>. QED  BY <1>2, <1>3, <3>1
  <2>3. \A k \in i .. j - 1 : k = i \/ k = i + 1 \/ k = i + 2 \/ (j = i + 5 /\ (k = i + 3 \/ k = i + 4))
    BY <2>2
  <2>. QED  BY <2>1, <2>2, <2>3
<1>4. CASE ks[i] \in Bases \cup Indices /\ (j = i + 1 \/ SignedIn(ks, i + 1, j))
  <2>1. ks[i] # "ZERO"
    BY <1>1, <1>4
  <2>2. j = i + 1 \/ (j = i + 3 /\ ks[i + 1] # "ZERO" /\ ks[i + 2] # "ZERO")
    <3>1. (i + 1) + 1 = i + 2 /\ (i + 1) + 2 = i + 3 /\ i + 1 \in Nat
      OBVIOUS
    <3>. QED  BY <1>2, <1>4, <3>1
  <2>3. \A k \in i .. j - 1 : k = i \/ (j = i + 3 /\ (k = i + 1 \/ k = i + 2))
    BY <2>2
  <2>. QED  BY <2>1, <2>2, <2>3
<1>5. CASE DirectIn(ks, i, j)
  <2>1. (j = i + 1 /\ ks[i] # "ZERO") \/ (j = i + 2 /\ ks[i] # "ZERO" /\ ks[i + 1] # "ZERO")
    BY <1>2, <1>5 DEF DirectIn
  <2>2. \A k \in i .. j - 1 : k = i \/ (j = i + 2 /\ k = i + 1)
    BY <2>1
  <2>. QED  BY <2>1, <2>2
<1>. QED  BY <1>3, <1>4, <1>5 DEF EaddrIn

LEMMA OperandPairs ==
  ASSUME NEW ks, NEW i \in Nat, NEW j \in Nat, OperandIn(ks, i, j)
  PROVE  NoZeroAddress(ks, i, j)
<1>. SUFFICES ASSUME NEW k \in i .. j - 2, ks[k] = "ZERO", ks[k + 1] = "RSQUARE_BR" PROVE FALSE
  BY DEF NoZeroAddress
<1>1. CASE SingleIn(ks, i, j)
  BY <1>1 DEF SingleIn
<1>2. CASE MemoryIn(ks, i, j)
  <2>1. k # i /\ i < j - 1 /\ j - 1 \in Nat
    BY <1>2 DEF MemoryIn
  <2>2. CASE EaddrIn(ks, i + 1, j - 1)
    <3>1. k \in i + 1 .. (j - 1) - 1 /\ i + 1 \in Nat
      BY <2>1
    <3>. QED  BY <2>1, <2>2, <3>1, EaddrPairs
  <2>3. CASE ks[i + 1] = "PLUS" /\ EaddrIn(ks, i + 2, j - 1)
    <3>1. k # i + 1
      BY <2>3
    <3>2. k \in i + 2 .. (j - 1) - 1 /\ i + 2 \in Nat
      BY <2>1, <3>1
    <3>. QED  BY <2>1, <2>3, <3>2, EaddrPairs
  <2>. QED  BY <1>2, <2>2, <2>3 DEF MemoryIn
<1>3. CASE PointerIn(ks, i, j)
  <2>1. k = i \/ k = i + 1
    BY <1>3 DEF PointerIn
  <2>. QED  BY <1>3, <2>1 DEF PointerIn
<1>4. CASE ImmIn(ks, i, j)
  <2>1. j = i + 1 \/ j = i + 2
    BY <1>4 DEF ImmIn
  <2>2. j = i + 2 /\ k = i
    BY <2>1
  <2>. QED  BY <1>4, <2>2 DEF ImmIn
<1>. QED  BY <1>1, <1>2, <1>3, <1>4 DEF OperandIn

LEMMA PrefixedPairs ==
  ASSUME NEW t, IsProgram(t), NEW a \in 1 .. Len(t), PrefixedEnd(t, a) # 0
  PROVE  NoZeroAddress(KindsOf(t), a, PrefixedEnd(t, a))
<1>. DEFINE s == Start(t, a)
            e == PrefixedEnd(t, a)
<1>1. s \in 1 .. Len(t) /\ s \in a .. Len(t) /\ e \in a + 1 .. Len(t) /\ Len(t) \in Nat /\ a \in Nat
  BY PrefixedResult, Places DEF PrefixedEnd
<1>2. \A k \in a .. s - 1 : KindsOf(t)[k] # "ZERO"
  BY PrefixTokens, RegisterSets DEF Marks, Sizes
<1>3. NoZeroAddress(KindsOf(t), s, e)
  <2>1. OperandIn(KindsOf(t), s, e)
    BY <1>1, OperandLink DEF PrefixedEnd
  <2>2. s \in Nat /\ e \in Nat
    <3>. HIDE DEF s, e
    <3>. QED  BY <1>1
  <2>. QED  BY <2>1, <2>2, OperandPairs
<1>4. \A k \in a .. e - 2 : k \in a .. s - 1 \/ k \in s .. e - 2
  <2>. HIDE DEF s, e
  <2>. QED  BY <1>1
<1>. QED  BY <1>2, <1>3, <1>4 DEF NoZeroAddress

LEMMA TailPairs ==
  ASSUME NEW t, IsProgram(t), NEW a \in 1 .. Len(t)
  PROVE  NoZeroAddress(KindsOf(t), a, TailEnd(t, a))
<1>. DEFINE p  == PrefixedEnd(t, a)
            f  == PrefixedEnd(t, p + 1)
            ks == KindsOf(t)
<1>0. Len(t) \in Nat /\ a \in Nat
  BY Places
<1>1. CASE p = 0
  <2>1. TailEnd(t, a) = a
    BY <1>1 DEF TailEnd
  <2>. QED  BY <1>0, <2>1 DEF NoZeroAddress
<1>2. CASE p # 0 /\ ~ (Is(t, p, {"COMMA"}) /\ f # 0)
  <2>1. TailEnd(t, a) = p
    BY <1>2 DEF TailEnd
  <2>. QED  BY <1>2, <2>1, PrefixedPairs
<1>3. CASE p # 0 /\ Is(t, p, {"COMMA"}) /\ f # 0
  <2>1. TailEnd(t, a) = f
    BY <1>3 DEF TailEnd
  <2>2. p \in a + 1 .. Len(t) /\ p \in 1 .. Len(t)
    BY <1>0, <1>3, PrefixedResult DEF PrefixedEnd
  <2>3. ks[p] = "COMMA" /\ p + 1 \in 1 .. Len(t)
    BY <1>3, <2>2, Looks
  <2>4. NoZeroAddress(ks, a, p) /\ NoZeroAddress(ks, p + 1, f)
    BY <1>3, <2>3, PrefixedPairs
  <2>5. f \in Nat
    BY <1>0, <1>3, <2>3, PrefixedResult DEF PrefixedEnd
  <2>. HIDE DEF p, f, ks
  <2>6. \A k \in a .. f - 2 : k \in a .. p - 2 \/ k = p - 1 \/ k = p \/ k \in p + 1 .. f - 2
    BY <1>0, <2>2, <2>5
  <2>7. ASSUME NEW k \in a .. f - 2, ks[k] = "ZERO", ks[k + 1] = "RSQUARE_BR" PROVE FALSE
    <3>1. k # p /\ k # p - 1
      <4>1. (p - 1) + 1 = p
        BY <2>2
      <4>. QED  BY <2>3, <2>7, <4>1
    <3>. QED  BY <2>4, <2>6, <2>7, <3>1 DEF NoZeroAddress
  <2>8. NoZeroAddress(ks, a, f)
    BY <2>7 DEF NoZeroAddress
  <2>. QED  BY <2>1, <2>8 DEF ks
<1>. QED  BY <1>1, <1>2, <1>3

LEMMA TailLink ==
  ASSUME NEW t, IsProgram(t), NEW a \in 1 .. Len(t), NEW e \in a .. Len(t),
         KindsOf(t)[e] = "EOL", \A k \in a .. e - 1 : KindsOf(t)[k] # "EOL",
         NoZeroAddress(KindsOf(t), a, e)
  PROVE  G!IsTail(Span(KindsOf(t), a, e)) <=> TailEnd(t, a) = e
<1>. DEFINE ks == KindsOf(t)
            x  == Span(ks, a, e)
            p  == PrefixedEnd(t, a)
            f  == PrefixedEnd(t, p + 1)
<1>1. a \in Nat \ {0} /\ e \in Nat \ {0} /\ a <= e /\ e <= Len(t) /\ Len(t) \in Nat
  BY Places
<1>2. IsSpan(ks, a, e) /\ Len(ks) = Len(t)
  <2>1. a \in 1 .. Len(t) + 1 /\ e \in 1 .. Len(t) + 1
    BY <1>1
  <2>. QED  BY <1>1, <2>1, KindsText
<1>3. /\ Len(x) = e - a /\ DOMAIN x = 1 .. e - a
      /\ x = <<>> <=> a = e
      /\ \A m \in 1 .. e - a : x[m] = ks[a + m - 1]
  <2>. DEFINE S == {ks[m] : m \in DOMAIN ks}
  <2>1. ks \in Seq(S) /\ a \in 1 .. Len(ks) + 1 /\ e \in a .. Len(ks) + 1
    BY <1>2 DEF IsSpan
  <2>. HIDE DEF ks, S
  <2>2. x \in Seq(S) /\ Len(x) = e - a /\ \A m \in 1 .. e - a : x[m] = ks[a + m - 1]
    BY <2>1, SpanProperties
  <2>. HIDE DEF x
  <2>. QED  BY <1>1, <2>2
<1>0. \A m \in a .. e : NoZeroAddress(ks, a, m) /\ NoZeroAddress(ks, m, e)
  <2>. SUFFICES ASSUME NEW m \in a .. e PROVE NoZeroAddress(ks, a, m) /\ NoZeroAddress(ks, m, e)
    OBVIOUS
  <2>1. a .. m - 2 \subseteq a .. e - 2 /\ m .. e - 2 \subseteq a .. e - 2
    BY <1>1
  <2>. HIDE DEF ks
  <2>. QED  BY <2>1 DEF NoZeroAddress, ks
<1>4. G!IsOperand_(x) <=> p = e
  BY PrefixedLink
<1>5. ASSUME NEW i \in 1 .. e - a, x[i] = "COMMA"
      PROVE  /\ ks[a + i - 1] = "COMMA" /\ a + i - 1 \in a .. e - 1
             /\ G!IsOperand_(SubSeq(x, 1, i - 1)) <=> p = a + i - 1
             /\ G!IsOperand_(SubSeq(x, i + 1, Len(x))) <=> PrefixedEnd(t, (a + i - 1) + 1) = e
  <2>. DEFINE m == a + i - 1
  <2>1. /\ m \in a .. e - 1 /\ m \in a .. Len(t) /\ m + 1 \in 1 .. Len(t) /\ e \in m + 1 .. Len(t)
        /\ m \in a .. e /\ m + 1 \in a .. e
        /\ 1 \in 1 .. e - a + 1 /\ i \in 1 .. e - a + 1
        /\ i + 1 \in 1 .. e - a + 1 /\ e - a + 1 \in i + 1 .. e - a + 1
        /\ a + 1 - 1 = a /\ a + (i + 1) - 1 = m + 1 /\ a + (e - a + 1) - 1 = e /\ (e - a + 1) - 1 = e - a
    BY <1>1
  <2>2. ks[m] = "COMMA"
    BY <1>3, <1>5
  <2>. HIDE DEF ks, x, m, p
  <2>3. Span(x, 1, i) = Span(ks, a, m)
    <3>1. Span(x, 1, i) = Span(ks, a + 1 - 1, a + i - 1)
      BY <1>2, <2>1, SpanOfSpan DEF x
    <3>. QED  BY <2>1, <3>1 DEF m
  <2>4. Span(x, i + 1, e - a + 1) = Span(ks, m + 1, e)
    <3>1. Span(x, i + 1, e - a + 1) = Span(ks, a + (i + 1) - 1, a + (e - a + 1) - 1)
      BY <1>2, <2>1, SpanOfSpan DEF x
    <3>. QED  BY <2>1, <3>1
  <2>5. SubSeq(x, 1, i - 1) = Span(ks, a, m) /\ SubSeq(x, i + 1, Len(x)) = Span(ks, m + 1, e)
    BY <1>3, <2>1, <2>3, <2>4 DEF Span
  <2>6. G!IsOperand_(Span(ks, a, m)) <=> p = m
    BY <1>0, <2>1, <2>2, PrefixedLink DEF ks, p
  <2>7. G!IsOperand_(Span(ks, m + 1, e)) <=> PrefixedEnd(t, m + 1) = e
    BY <1>0, <2>1, PrefixedLink DEF ks
  <2>. QED  BY <2>1, <2>2, <2>5, <2>6, <2>7 DEF m
<1>6. G!IsTail(x) <=> \/ a = e \/ p = e
                      \/ p \in a .. e - 1 /\ ks[p] = "COMMA" /\ f = e
  <2>1. G!IsTail(x) <=>
            \/ a = e \/ p = e
            \/ \E i \in 1 .. e - a : /\ x[i] = "COMMA"
                                     /\ G!IsOperand_(SubSeq(x, 1, i - 1))
                                     /\ G!IsOperand_(SubSeq(x, i + 1, Len(x)))
    <3>. HIDE DEF x, p
    <3>. QED  BY <1>3, <1>4 DEF G!IsTail
  <2>2. ASSUME NEW i \in 1 .. e - a, x[i] = "COMMA", G!IsOperand_(SubSeq(x, 1, i - 1)),
               G!IsOperand_(SubSeq(x, i + 1, Len(x)))
        PROVE  p \in a .. e - 1 /\ ks[p] = "COMMA" /\ f = e
    <3>. HIDE DEF x, ks, p
    <3>. QED  BY <1>5, <2>2
  <2>3. ASSUME p \in a .. e - 1, ks[p] = "COMMA", f = e
        PROVE  \E i \in 1 .. e - a : /\ x[i] = "COMMA"
                                     /\ G!IsOperand_(SubSeq(x, 1, i - 1))
                                     /\ G!IsOperand_(SubSeq(x, i + 1, Len(x)))
    <3>. HIDE DEF x, ks, p
    <3>1. p - a + 1 \in 1 .. e - a /\ a + (p - a + 1) - 1 = p
      BY <1>1, <2>3
    <3>2. x[p - a + 1] = "COMMA"
      BY <1>3, <2>3, <3>1
    <3>. QED  BY <1>5, <2>3, <3>1, <3>2
  <2>. QED  BY <2>1, <2>2, <2>3
<1>7. CASE p = 0
  <2>1. TailEnd(t, a) = a
    BY <1>7 DEF TailEnd
  <2>. HIDE DEF x, ks, p
  <2>. QED  BY <1>1, <1>6, <1>7, <2>1 DEF ks, x
<1>8. CASE p # 0
  <2>1. p \in a + 1 .. Len(t) /\ \A k \in a .. p - 1 : ks[k] # "EOL"
    <3>1. \A k \in a .. p - 1 : ks[k] # "EOL"
      BY <1>8, PrefixedTokens DEF Enders
    <3>2. p \in a + 1 .. Len(t)
      BY <1>8, PrefixedResult DEF PrefixedEnd
    <3>. QED  BY <3>1, <3>2
  <2>. HIDE DEF ks, x, p
  <2>2. p \in a + 1 .. e /\ p \in 1 .. Len(t) /\ a # e
    <3>1. ~ (e < p)
      <4>1. e < p => e \in a .. p - 1
        BY <1>1, <2>1
      <4>2. ks[e] = "EOL"
        BY DEF ks
      <4>. QED  BY <2>1, <4>1, <4>2
    <3>. QED  BY <1>1, <2>1, <3>1
  <2>3. Is(t, p, {"COMMA"}) <=> ks[p] = "COMMA"
    <3>1. Is(t, p, {"COMMA"}) <=> ks[p] \in {"COMMA"}
      BY <2>2, KindsText DEF ks
    <3>. QED  BY <3>1
  <2>4. ks[p] = "COMMA" => p \in a .. e - 1 /\ p # e
    <3>1. ks[e] = "EOL"
      BY DEF ks
    <3>2. p # e => p \in a .. e - 1
      BY <1>1, <2>2
    <3>. QED  BY <3>1, <3>2
  <2>5. CASE ks[p] = "COMMA" /\ f # 0
    <3>1. TailEnd(t, a) = f
      BY <1>8, <2>3, <2>5 DEF TailEnd, p
    <3>. HIDE DEF f
    <3>. QED  BY <1>6, <2>2, <2>4, <2>5, <3>1 DEF ks, x
  <2>6. CASE ~ (ks[p] = "COMMA" /\ f # 0)
    <3>1. TailEnd(t, a) = p
      BY <1>8, <2>3, <2>6 DEF TailEnd, p
    <3>. HIDE DEF f
    <3>. QED  BY <1>1, <1>6, <2>2, <2>6, <3>1 DEF ks, x
  <2>. QED  BY <2>5, <2>6
<1>. QED  BY <1>7, <1>8

LEMMA LineLink ==
  ASSUME NEW t, IsProgram(t), NEW s \in 1 .. Len(t), NEW e \in s + 1 .. Len(t),
         KindsOf(t)[e] = "EOL", \A k \in s .. e - 1 : KindsOf(t)[k] # "EOL"
  PROVE  IsParsed(Span(KindsOf(t), s, e))
             <=> \/ KindsOf(t)[s] = "BITS" /\ KindsOf(t)[s + 1] = "NUM" /\ e = s + 2
                 \/ KindsOf(t)[s] = "LABEL" /\ KindsOf(t)[s + 1] = "COLON" /\ e = s + 2
                 \/ KindsOf(t)[s] \in Mnemonics /\ TailEnd(t, s + 1) = e
<1>. DEFINE ks == KindsOf(t)
            x  == Span(ks, s, e)
            S  == {ks[m] : m \in DOMAIN ks}
<1>1. s \in Nat \ {0} /\ e \in Nat \ {0} /\ s < e /\ e <= Len(t) /\ Len(t) \in Nat
      /\ s + 1 \in 1 .. Len(t) /\ e \in s + 1 .. Len(t)
  BY Places
<1>2. IsSpan(ks, s, e) /\ Len(ks) = Len(t)
  BY <1>1, KindsText
<1>3. ks \in Seq(S) /\ s \in 1 .. Len(ks) + 1 /\ e \in s .. Len(ks) + 1
  BY <1>2 DEF IsSpan
<1>4. x \in G!**(G!Tok("BITS"), G!Tok("NUM")) <=> e = s + 2 /\ ks[s] = "BITS" /\ ks[s + 1] = "NUM"
  <2>1. x \in G!**(G!OneOf({"BITS"}), G!OneOf({"NUM"})) <=> e = s + 2 /\ ks[s] \in {"BITS"} /\ ks[s + 1] \in {"NUM"}
    <3>. HIDE DEF ks
    <3>. QED  BY <1>2, TwoSpan, SetsOfLexemes
  <2>. QED  BY <2>1, TokIsOneOf
<1>5. x \in G!**(G!Tok("LABEL"), G!Tok("COLON")) <=> e = s + 2 /\ ks[s] = "LABEL" /\ ks[s + 1] = "COLON"
  <2>1. x \in G!**(G!OneOf({"LABEL"}), G!OneOf({"COLON"})) <=> e = s + 2 /\ ks[s] \in {"LABEL"} /\ ks[s + 1] \in {"COLON"}
    <3>. HIDE DEF ks
    <3>. QED  BY <1>2, TwoSpan, SetsOfLexemes
  <2>. QED  BY <2>1, TokIsOneOf
<1>6. /\ Len(x) = e - s /\ DOMAIN x = 1 .. e - s /\ \A m \in 1 .. e - s : x[m] = ks[s + m - 1]
      /\ x[1] = ks[s] /\ SubSeq(x, 2, Len(x)) = Span(ks, s + 1, e)
  <2>. HIDE DEF S, ks
  <2>1. x \in Seq(S) /\ Len(x) = e - s /\ \A m \in 1 .. e - s : x[m] = ks[s + m - 1]
    BY <1>3, SpanProperties
  <2>2. 1 \in 1 .. e - s /\ s + 1 - 1 = s
    BY <1>1
  <2>3. x[1] = ks[s]
    BY <2>1, <2>2
  <2>4. 2 \in 1 .. e - s + 1 /\ e - s + 1 \in 2 .. e - s + 1 /\ s + 2 - 1 = s + 1
        /\ s + (e - s + 1) - 1 = e /\ (e - s + 1) - 1 = e - s
    BY <1>1
  <2>5. Span(x, 2, e - s + 1) = Span(ks, s + 1, e)
    <3>1. Span(x, 2, e - s + 1) = Span(ks, s + 2 - 1, s + (e - s + 1) - 1)
      BY <1>2, <2>4, SpanOfSpan
    <3>. QED  BY <2>4, <3>1
  <2>6. SubSeq(x, 2, Len(x)) = Span(ks, s + 1, e)
    BY <2>1, <2>4, <2>5 DEF Span
  <2>. HIDE DEF x
  <2>7. DOMAIN x = 1 .. e - s
    BY <2>1
  <2>. QED  BY <2>1, <2>3, <2>6, <2>7
<1>7. NoZeroAddress(ks, s + 1, e) => (G!IsTail(Span(ks, s + 1, e)) <=> TailEnd(t, s + 1) = e)
  <2>1. \A k \in s + 1 .. e - 1 : ks[k] # "EOL"
    <3>1. \A k \in s + 1 .. e - 1 : k \in s .. e - 1
      BY <1>1
    <3>. QED  BY <3>1
  <2>. QED  BY <1>1, <2>1, TailLink
<1>. HIDE DEF x, ks, S
<1>8. ks[s] \notin G!Prefixes =>
          (G!IsInstruction(Mnemonics, x) <=> ks[s] \in Mnemonics /\ G!IsTail(Span(ks, s + 1, e)))
  <2>. SUFFICES ASSUME ks[s] \notin G!Prefixes
                PROVE  G!IsInstruction(Mnemonics, x) <=> ks[s] \in Mnemonics /\ G!IsTail(Span(ks, s + 1, e))
    OBVIOUS
  <2>1. G!IsInstruction(Mnemonics, x)
            <=> \E i \in 1 .. e - s : /\ \A k \in 1 .. i - 1 : x[k] \in G!Prefixes
                                      /\ x[i] \in Mnemonics /\ G!IsTail(SubSeq(x, i + 1, Len(x)))
    BY <1>6 DEF G!IsInstruction
  <2>2. \A i \in 1 .. e - s : (\A k \in 1 .. i - 1 : x[k] \in G!Prefixes) <=> i = 1
    <3>1. \A i \in 1 .. e - s : i # 1 => 1 \in 1 .. i - 1
      BY <1>1
    <3>2. \A k \in 1 .. 1 - 1 : FALSE
      OBVIOUS
    <3>. QED  BY <1>6, <3>1, <3>2
  <2>3. 1 \in 1 .. e - s /\ 1 + 1 = 2 /\ \A k \in 1 .. 1 - 1 : x[k] \in G!Prefixes
    BY <1>1
  <2>4. SubSeq(x, 1 + 1, Len(x)) = Span(ks, s + 1, e) /\ x[1] = ks[s]
    BY <1>6, <2>3
  <2>5. ASSUME NEW i \in 1 .. e - s, \A k \in 1 .. i - 1 : x[k] \in G!Prefixes,
               x[i] \in Mnemonics, G!IsTail(SubSeq(x, i + 1, Len(x)))
        PROVE  ks[s] \in Mnemonics /\ G!IsTail(Span(ks, s + 1, e))
    <3>1. i = 1
      BY <2>2, <2>5
    <3>. QED  BY <2>4, <2>5, <3>1
  <2>6. ASSUME ks[s] \in Mnemonics, G!IsTail(Span(ks, s + 1, e)) PROVE G!IsInstruction(Mnemonics, x)
    <3>1. x[1] \in Mnemonics /\ G!IsTail(SubSeq(x, 1 + 1, Len(x)))
      BY <2>4, <2>6
    <3>. QED  BY <2>1, <2>3, <3>1, Zenon
  <2>. QED  BY <2>1, <2>5, <2>6
<1>9. IsParsed(x) <=> G!IsLine(Mnemonics, x) /\ ks[s] \notin G!Prefixes /\ NoZeroAddress(ks, s, e)
  <2>1. (\A k \in 1 .. Len(x) - 1 : ~ (x[k] = "ZERO" /\ x[k + 1] = "RSQUARE_BR")) <=> NoZeroAddress(ks, s, e)
    <3>1. ASSUME NEW k \in 1 .. Len(x) - 1
          PROVE  s + k - 1 \in s .. e - 2 /\ x[k] = ks[s + k - 1] /\ x[k + 1] = ks[(s + k - 1) + 1]
      <4>1. k \in 1 .. e - s /\ k + 1 \in 1 .. e - s /\ s + k - 1 \in s .. e - 2 /\ s + (k + 1) - 1 = (s + k - 1) + 1
        BY <1>1, <1>6
      <4>. QED  BY <1>6, <4>1
    <3>2. ASSUME NEW m \in s .. e - 2 PROVE m - s + 1 \in 1 .. Len(x) - 1 /\ s + (m - s + 1) - 1 = m
      BY <1>1, <1>6
    <3>3. ASSUME NoZeroAddress(ks, s, e), NEW k \in 1 .. Len(x) - 1
          PROVE  ~ (x[k] = "ZERO" /\ x[k + 1] = "RSQUARE_BR")
      BY <3>1, <3>3 DEF NoZeroAddress
    <3>4. ASSUME \A k \in 1 .. Len(x) - 1 : ~ (x[k] = "ZERO" /\ x[k + 1] = "RSQUARE_BR"), NEW m \in s .. e - 2
          PROVE  ~ (ks[m] = "ZERO" /\ ks[m + 1] = "RSQUARE_BR")
      <4>. DEFINE k == m - s + 1
      <4>1. k \in 1 .. Len(x) - 1 /\ s + k - 1 = m
        BY <3>2
      <4>2. x[k] = ks[m] /\ x[k + 1] = ks[m + 1]
        <5>. HIDE DEF k
        <5>. QED  BY <3>1, <4>1
      <4>. HIDE DEF k
      <4>. QED  BY <3>4, <4>1, <4>2
    <3>. QED  BY <3>3, <3>4 DEF NoZeroAddress
  <2>. QED  BY <1>6, <2>1 DEF IsParsed
<1>10. G!IsLine(Mnemonics, x) <=> \/ e = s + 2 /\ ks[s] = "BITS" /\ ks[s + 1] = "NUM"
                                  \/ e = s + 2 /\ ks[s] = "LABEL" /\ ks[s + 1] = "COLON"
                                  \/ G!IsInstruction(Mnemonics, x)
  BY <1>4, <1>5 DEF G!IsLine
<1>11. NoZeroAddress(ks, s, e) <=> NoZeroAddress(ks, s + 1, e) /\ ~ (s + 1 < e /\ ks[s] = "ZERO" /\ ks[s + 1] = "RSQUARE_BR")
  <2>1. /\ s + 1 < e => s \in s .. e - 2
        /\ \A k \in s + 1 .. e - 2 : k \in s .. e - 2
        /\ \A k \in s .. e - 2 : k \in s + 1 .. e - 2 \/ (k = s /\ s + 1 < e)
    BY <1>1
  <2>. QED  BY <2>1 DEF NoZeroAddress
<1>12. CASE ks[s] = "BITS" \/ ks[s] = "LABEL"
  <2>1. ks[s] \notin G!Prefixes /\ ks[s] \notin Mnemonics /\ ks[s] # "ZERO"
    BY <1>12, MnemonicsAssumption DEF G!Prefixes
  <2>2. e = s + 2 => NoZeroAddress(ks, s + 1, e)
    <3>1. e = s + 2 => \A k \in s + 1 .. e - 2 : FALSE
      BY <1>1
    <3>. QED  BY <3>1 DEF NoZeroAddress
  <2>. QED  BY <1>8, <1>9, <1>10, <1>11, <2>1, <2>2 DEF x, ks
<1>13. CASE ks[s] \in Mnemonics
  <2>1. ks[s] \notin G!Prefixes /\ ks[s] # "BITS" /\ ks[s] # "LABEL" /\ ks[s] # "ZERO"
    BY <1>13, MnemonicsAssumption DEF G!Prefixes
  <2>2. TailEnd(t, s + 1) = e => NoZeroAddress(ks, s + 1, e)
    BY <1>1, TailPairs DEF ks
  <2>. QED  BY <1>7, <1>8, <1>9, <1>10, <1>11, <1>13, <2>1, <2>2 DEF x, ks
<1>14. CASE ks[s] \notin Mnemonics \cup {"BITS", "LABEL"}
  BY <1>8, <1>9, <1>10, <1>14 DEF x, ks
<1>. QED  BY <1>12, <1>13, <1>14
-------------------------------------------------------------------------------
(* LinesInGrammar with the state as parameters, once as it is stated of the text   *)
(* and once of where the line begins and ends.                                     *)
LineEnd(t, s) == CHOOSE j \in s .. Len(t) :
                     t[j].kind = "EOL" /\ \A k \in s .. j - 1 : t[k].kind # "EOL"

TextInGrammar(t, s, i, p) ==
    LET text  == SubSeq(t, s, LineEnd(t, s) - 1)
        kinds == [k \in DOMAIN text |-> text[k].kind]
    IN  /\ (p # "aborted" /\ i > s) => (text = <<>> \/ IsParsed(kinds)) /\ (p = "parsing" => i = LineEnd(t, s) + 1)
        /\ p = "refused" => ~ IsParsed(kinds) /\ i = s

LineInGrammar(t, s, i, p) ==
    LET e == LineEnd(t, s)
    IN  /\ p # "aborted" /\ i > s => (e = s \/ IsParsed(Span(KindsOf(t), s, e))) /\ (p = "parsing" => i = e + 1)
        /\ p = "refused" => ~ IsParsed(Span(KindsOf(t), s, e)) /\ i = s

LEMMA LineEndProperties ==
  ASSUME NEW t, IsProgram(t), NEW s \in 1 .. Len(t)
  PROVE  /\ LineEnd(t, s) \in s .. Len(t) /\ KindsOf(t)[LineEnd(t, s)] = "EOL"
         /\ \A k \in s .. LineEnd(t, s) - 1 : KindsOf(t)[k] # "EOL"
         /\ \A e \in s .. Len(t) :
               KindsOf(t)[e] = "EOL" /\ (\A k \in s .. e - 1 : KindsOf(t)[k] # "EOL") => LineEnd(t, s) = e
<1>. DEFINE ks == KindsOf(t)
            T  == {j \in s .. Len(t) : t[j].kind = "EOL"}
            First(j) == t[j].kind = "EOL" /\ \A k \in s .. j - 1 : t[k].kind # "EOL"
<1>1. s \in Nat \ {0} /\ Len(t) \in Nat /\ t[Len(t)].kind = "EOL" /\ Len(t) \in s .. Len(t)
  BY Places DEF IsProgram
<1>2. \A k \in 1 .. Len(t) : ks[k] = t[k].kind
  BY KindsText
<1>3. \A j \in s .. Len(t) : j \in 1 .. Len(t) /\ \A k \in s .. j - 1 : k \in 1 .. Len(t)
  BY <1>1
<1>4. \A j \in s .. Len(t) : First(j) <=> ks[j] = "EOL" /\ \A k \in s .. j - 1 : ks[k] # "EOL"
  <2>. HIDE DEF ks
  <2>. QED  BY <1>2, <1>3
<1>5. \E j \in s .. Len(t) : First(j)
  <2>1. T \in SUBSET Nat /\ T # {}
    BY <1>1
  <2>2. PICK j \in T : \A y \in T : j <= y
    <3>. HIDE DEF T
    <3>. QED  BY <2>1, LeastNat
  <2>3. \A k \in s .. j - 1 : k \in s .. Len(t) /\ ~ (j <= k)
    BY <1>1
  <2>. QED  BY <2>2, <2>3
<1>6. ASSUME NEW j \in s .. Len(t), First(j), NEW e \in s .. Len(t), First(e) PROVE j = e
  <2>1. ~ (j < e) /\ ~ (e < j)
    <3>1. (j < e => j \in s .. e - 1) /\ (e < j => e \in s .. j - 1)
      BY <1>1
    <3>. QED  BY <1>6, <3>1
  <2>. QED  BY <1>1, <2>1
<1>7. LineEnd(t, s) = CHOOSE j \in s .. Len(t) : First(j)
  BY DEF LineEnd
<1>. HIDE DEF First, ks
<1>8. LineEnd(t, s) \in s .. Len(t) /\ First(LineEnd(t, s))
  BY <1>5, <1>7
<1>. QED  BY <1>4, <1>6, <1>8 DEF ks

LEMMA LineText ==
  ASSUME NEW t, IsProgram(t), NEW s \in 1 .. Len(t), NEW i, NEW p
  PROVE  TextInGrammar(t, s, i, p) <=> LineInGrammar(t, s, i, p)
<1>. DEFINE e    == LineEnd(t, s)
            ks   == KindsOf(t)
            text == SubSeq(t, s, e - 1)
            S    == {t[k] : k \in DOMAIN t}
<1>1. e \in s .. Len(t) /\ s \in Nat \ {0} /\ Len(t) \in Nat /\ e \in Nat
  BY LineEndProperties, Places
<1>2. t \in Seq(S) /\ Span(t, s, e) = text /\ s \in 1 .. Len(t) + 1 /\ e \in s .. Len(t) + 1
  <2>. HIDE DEF e
  <2>. QED  BY <1>1 DEF Span, IsProgram
<1>3. text \in Seq(S) /\ Len(text) = e - s /\ \A m \in 1 .. e - s : text[m] = t[s + m - 1]
  <2>. HIDE DEF e, S, text
  <2>. QED  BY <1>2, SpanProperties
<1>4. DOMAIN text = 1 .. e - s /\ (text = <<>> <=> e = s)
  <2>. HIDE DEF e, S, text
  <2>. QED  BY <1>1, <1>3
<1>5. IsSpan(ks, s, e) /\ \A k \in 1 .. Len(t) : ks[k] = t[k].kind
  <2>. HIDE DEF e
  <2>. QED  BY <1>1, KindsText
<1>6. [k \in DOMAIN text |-> text[k].kind] = Span(ks, s, e)
  <2>. DEFINE K == [k \in DOMAIN text |-> text[k].kind]
              R == {ks[m] : m \in DOMAIN ks}
  <2>1. ks \in Seq(R) /\ s \in 1 .. Len(ks) + 1 /\ e \in s .. Len(ks) + 1
    BY <1>5 DEF IsSpan
  <2>2. /\ Span(ks, s, e) \in Seq(R) /\ Len(Span(ks, s, e)) = e - s
        /\ \A m \in 1 .. e - s : Span(ks, s, e)[m] = ks[s + m - 1]
    <3>. HIDE DEF ks, e, R
    <3>. QED  BY <2>1, SpanProperties
  <2>3. DOMAIN Span(ks, s, e) = 1 .. e - s /\ Span(ks, s, e) = [m \in 1 .. e - s |-> Span(ks, s, e)[m]]
    <3>1. \A q \in Seq(R) : DOMAIN q = 1 .. Len(q) /\ q = [m \in 1 .. Len(q) |-> q[m]]
      <4>. HIDE DEF R
      <4>. QED  OBVIOUS
    <3>. HIDE DEF ks, e, R
    <3>. QED  BY <2>2, <3>1
  <2>4. \A m \in 1 .. e - s : text[m].kind = Span(ks, s, e)[m]
    <3>. SUFFICES ASSUME NEW m \in 1 .. e - s PROVE text[m].kind = Span(ks, s, e)[m]
      OBVIOUS
    <3>. HIDE DEF ks, e, text
    <3>1. s + m - 1 \in 1 .. Len(t)
      BY <1>1
    <3>. QED  BY <1>3, <1>5, <2>2, <3>1
  <2>5. K = [m \in 1 .. e - s |-> text[m].kind]
    BY <1>4
  <2>. HIDE DEF ks, e, text, R
  <2>. QED  BY <2>3, <2>4, <2>5
<1>7. TextInGrammar(t, s, i, p) <=>
         /\ (p # "aborted" /\ i > s) => (text = <<>> \/ IsParsed(Span(ks, s, e))) /\ (p = "parsing" => i = e + 1)
         /\ p = "refused" => ~ IsParsed(Span(ks, s, e)) /\ i = s
  BY <1>6 DEF TextInGrammar
<1>8. LineInGrammar(t, s, i, p) <=>
         /\ (p # "aborted" /\ i > s) => (e = s \/ IsParsed(Span(ks, s, e))) /\ (p = "parsing" => i = e + 1)
         /\ p = "refused" => ~ IsParsed(Span(ks, s, e)) /\ i = s
  BY DEF LineInGrammar
<1>. HIDE DEF ks, e, text
<1>. QED  BY <1>4, <1>7, <1>8

(* What the line at token s is, read off its first token and where it ends.        *)
LEMMA LineAt ==
  ASSUME NEW t, IsProgram(t), NEW s \in 1 .. Len(t), KindsOf(t)[s] # "EOL"
  PROVE  IsParsed(Span(KindsOf(t), s, LineEnd(t, s)))
             <=> \/ Is(t, s, {"BITS"}) /\ Is(t, s + 1, {"NUM"}) /\ Is(t, s + 2, {"EOL"})
                 \/ Is(t, s, {"LABEL"}) /\ Is(t, s + 1, {"COLON"}) /\ Is(t, s + 2, {"EOL"})
                 \/ Is(t, s, Mnemonics) /\ Is(t, TailEnd(t, s + 1), {"EOL"})
<1>. DEFINE ks == KindsOf(t)
            e  == LineEnd(t, s)
<1>1. s \in Nat /\ Len(t) \in Nat
  BY Places
<1>2. /\ e \in s .. Len(t) /\ ks[e] = "EOL" /\ \A k \in s .. e - 1 : ks[k] # "EOL"
      /\ \A f \in s .. Len(t) : ks[f] = "EOL" /\ (\A k \in s .. f - 1 : ks[k] # "EOL") => e = f
  BY LineEndProperties
<1>. HIDE DEF e
<1>3. e \in s + 1 .. Len(t)
  BY <1>1, <1>2
<1>4. IsParsed(Span(ks, s, e)) <=> \/ ks[s] = "BITS" /\ ks[s + 1] = "NUM" /\ e = s + 2
                                   \/ ks[s] = "LABEL" /\ ks[s + 1] = "COLON" /\ e = s + 2
                                   \/ ks[s] \in Mnemonics /\ TailEnd(t, s + 1) = e
  BY <1>2, <1>3, LineLink
<1>5. /\ s + 1 \in 1 .. Len(t)
      /\ \A A : (Is(t, s, A) <=> ks[s] \in A) /\ (Is(t, s + 1, A) <=> ks[s + 1] \in A)
  BY Looks
<1>6. ks[s + 1] # "EOL" => s + 2 \in 1 .. Len(t) /\ (Is(t, s + 2, {"EOL"}) <=> e = s + 2)
  <2>. SUFFICES ASSUME ks[s + 1] # "EOL"
                PROVE  s + 2 \in 1 .. Len(t) /\ (Is(t, s + 2, {"EOL"}) <=> e = s + 2)
    OBVIOUS
  <2>1. s + 2 \in 1 .. Len(t) /\ \A A : Is(t, s + 2, A) <=> ks[s + 2] \in A
    BY Looks
  <2>2. s + 2 \in s .. Len(t)
    BY <1>1, <2>1
  <2>. HIDE DEF ks
  <2>3. \A k \in s .. (s + 2) - 1 : k = s \/ k = s + 1
    BY <1>1
  <2>4. \A k \in s .. (s + 2) - 1 : ks[k] # "EOL"
    <3>1. ks[s] # "EOL" /\ ks[s + 1] # "EOL"
      BY DEF ks
    <3>. QED  BY <2>3, <3>1
  <2>5. ks[s + 2] = "EOL" <=> e = s + 2
    BY <1>2, <2>2, <2>4
  <2>6. Is(t, s + 2, {"EOL"}) <=> ks[s + 2] \in {"EOL"}
    BY <2>1
  <2>. QED  BY <2>1, <2>5, <2>6
<1>7. Is(t, s, Mnemonics) => (Is(t, TailEnd(t, s + 1), {"EOL"}) <=> TailEnd(t, s + 1) = e)
  <2>. SUFFICES ASSUME Is(t, s, Mnemonics)
                PROVE  Is(t, TailEnd(t, s + 1), {"EOL"}) <=> TailEnd(t, s + 1) = e
    OBVIOUS
  <2>. DEFINE f == TailEnd(t, s + 1)
  <2>1. f \in s + 1 .. Len(t)
    BY InstructionResult
  <2>2. \A k \in s + 1 .. f - 1 : ks[k] # "EOL"
    BY <1>5, TailTokens
  <2>. HIDE DEF f
  <2>3. f \in 1 .. Len(t) /\ f \in s .. Len(t) /\ \A k \in s .. f - 1 : k = s \/ k \in s + 1 .. f - 1
    BY <1>1, <2>1
  <2>4. Is(t, f, {"EOL"}) <=> ks[f] \in {"EOL"}
    BY <2>3, KindsText
  <2>5. \A k \in s .. f - 1 : ks[k] # "EOL"
    BY <2>2, <2>3
  <2>. HIDE DEF ks
  <2>6. ks[f] = "EOL" <=> f = e
    BY <1>2, <2>3, <2>5
  <2>. QED  BY <2>4, <2>6 DEF f
<1>. HIDE DEF ks
<1>8. \A A : (Is(t, s, A) <=> ks[s] \in A) /\ (Is(t, s + 1, A) <=> ks[s + 1] \in A)
  BY <1>5
<1>9. /\ Is(t, s, {"BITS"}) <=> ks[s] = "BITS"
      /\ Is(t, s, {"LABEL"}) <=> ks[s] = "LABEL"
      /\ Is(t, s, Mnemonics) <=> ks[s] \in Mnemonics
      /\ Is(t, s + 1, {"NUM"}) <=> ks[s + 1] = "NUM"
      /\ Is(t, s + 1, {"COLON"}) <=> ks[s + 1] = "COLON"
  BY <1>8
<1>10. /\ ks[s + 1] \in {"NUM", "COLON"} => (Is(t, s + 2, {"EOL"}) <=> e = s + 2)
       /\ ks[s] \in Mnemonics => (Is(t, TailEnd(t, s + 1), {"EOL"}) <=> TailEnd(t, s + 1) = e)
  BY <1>6, <1>7, <1>9
<1>11. IsParsed(Span(ks, s, e)) <=>
          \/ Is(t, s, {"BITS"}) /\ Is(t, s + 1, {"NUM"}) /\ Is(t, s + 2, {"EOL"})
          \/ Is(t, s, {"LABEL"}) /\ Is(t, s + 1, {"COLON"}) /\ Is(t, s + 2, {"EOL"})
          \/ Is(t, s, Mnemonics) /\ Is(t, TailEnd(t, s + 1), {"EOL"})
  BY <1>4, <1>9, <1>10
<1>. QED  BY <1>11 DEF ks, e

LEMMA TextNow == LinesInGrammar <=> TextInGrammar(token, line, idx, pc)
BY DEF LinesInGrammar, TextInGrammar, Text, EndOf, LineEnd, Accepted

LEMMA TextNext == LinesInGrammar' <=> TextInGrammar(token', line', idx', pc')
BY DEF LinesInGrammar, TextInGrammar, Text, EndOf, LineEnd, Accepted

(* A round that reads a line accepts it with its end or refuses it.                *)
LEMMA RoundInGrammar ==
  ASSUME Typed, EmptyLine \/ BitsLine \/ LabelLine \/ InstructionLine
  PROVE  LineInGrammar(token, idx, idx', pc')
<1>. DEFINE ks == KindsOf(token)
            e  == LineEnd(token, idx)
<1>1. /\ IsProgram(token) /\ idx \in 1 .. Len(token) /\ Parsing /\ idx \in 1 .. Len(token) + 1
      /\ Len(token) \in Nat
  BY Places DEF Typed, TypeOK, EmptyLine, BitsLine, LabelLine, InstructionLine, Parsing
<1>2. /\ e \in idx .. Len(token)
      /\ \A f \in idx .. Len(token) :
            ks[f] = "EOL" /\ (\A k \in idx .. f - 1 : ks[k] # "EOL") => e = f
  BY <1>1, LineEndProperties
<1>3. /\ \A A : Is(token, idx, A) <=> ks[idx] \in A
      /\ ks[idx] # "EOL" => /\ idx + 1 \in 1 .. Len(token)
                            /\ \A A : Is(token, idx + 1, A) <=> ks[idx + 1] \in A
  BY <1>1, Looks
<1>4. CASE EmptyLine
  <2>1. Is(token, idx, {"EOL"}) /\ idx' = idx + 1 /\ pc' = "parsing"
    BY <1>4 DEF EmptyLine, Parsing
  <2>2. ks[idx] = "EOL" /\ idx \in idx .. Len(token) /\ \A k \in idx .. idx - 1 : FALSE
    BY <1>1, <1>3, <2>1
  <2>. HIDE DEF e, ks
  <2>3. e = idx
    BY <1>2, <2>2
  <2>. QED  BY <2>1, <2>3 DEF LineInGrammar, e
<1>5. ASSUME NEW f \in idx .. Len(token), ks[idx] # "EOL",
             \/ idx' = f + 1 /\ pc' = pc /\ Is(token, f, {"EOL"}) /\ e = f
             \/ idx' = idx /\ pc' = "refused" /\ ~ Is(token, f, {"EOL"}),
             IsParsed(Span(ks, idx, e)) <=> Is(token, f, {"EOL"})
      PROVE  LineInGrammar(token, idx, idx', pc')
  <2>1. LineInGrammar(token, idx, idx', pc') <=>
            /\ (pc' # "aborted" /\ idx' > idx) => (e = idx \/ IsParsed(Span(ks, idx, e)))
                                                     /\ (pc' = "parsing" => idx' = e + 1)
            /\ pc' = "refused" => ~ IsParsed(Span(ks, idx, e)) /\ idx' = idx
    BY DEF LineInGrammar
  <2>2. pc = "parsing" /\ f \in Nat /\ idx \in Nat
    BY <1>1 DEF Parsing
  <2>. HIDE DEF ks, e
  <2>. QED  BY <1>5, <2>1, <2>2
<1>6. CASE BitsLine \/ LabelLine
  <2>1. \/ Is(token, idx, {"BITS"}) /\ Is(token, idx + 1, {"NUM"})
        \/ Is(token, idx, {"LABEL"}) /\ Is(token, idx + 1, {"COLON"})
    BY <1>6 DEF BitsLine, LabelLine, AtBits, AtLabel
  <2>2. \/ ks[idx] = "BITS" /\ ks[idx + 1] = "NUM"
        \/ ks[idx] = "LABEL" /\ ks[idx + 1] = "COLON"
    <3>. HIDE DEF ks
    <3>. QED  BY <1>3, <2>1
  <2>3. idx + 1 \in 1 .. Len(token) /\ idx + 2 \in 1 .. Len(token) /\ ks[idx] # "EOL" /\ ks[idx + 1] # "EOL"
    BY <1>1, <2>2, Looks
  <2>4. idx + 2 \in idx .. Len(token)
    BY <1>1, <2>3
  <2>5. EndLine(Parsed(idx + 2, NoInstruction))
    BY <1>6 DEF BitsLine, LabelLine
  <2>6. \/ idx' = (idx + 2) + 1 /\ pc' = pc /\ Is(token, idx + 2, {"EOL"})
        \/ idx' = idx /\ pc' = "refused" /\ ~ Is(token, idx + 2, {"EOL"})
    BY <1>1, <2>4, <2>5, EndLineStep, NoInstructionType
  <2>7. IsParsed(Span(ks, idx, e)) <=> Is(token, idx + 2, {"EOL"})
    <3>1. ks[idx] \notin Mnemonics
      <4>. HIDE DEF ks
      <4>. QED  BY <2>2, MnemonicsAssumption
    <3>2. ~ Is(token, idx, Mnemonics)
      BY <1>3, <3>1
    <3>3. IsParsed(Span(ks, idx, e))
             <=> \/ Is(token, idx, {"BITS"}) /\ Is(token, idx + 1, {"NUM"}) /\ Is(token, idx + 2, {"EOL"})
                 \/ Is(token, idx, {"LABEL"}) /\ Is(token, idx + 1, {"COLON"}) /\ Is(token, idx + 2, {"EOL"})
                 \/ Is(token, idx, Mnemonics) /\ Is(token, TailEnd(token, idx + 1), {"EOL"})
      BY <1>1, <2>3, LineAt
    <3>. HIDE DEF ks, e
    <3>. QED  BY <2>1, <3>2, <3>3
  <2>8. Is(token, idx + 2, {"EOL"}) => e = idx + 2
    <3>1. Is(token, idx + 2, {"EOL"}) => ks[idx + 2] = "EOL"
      BY <1>1, <2>3, KindsText
    <3>2. \A k \in idx .. (idx + 2) - 1 : k = idx \/ k = idx + 1
      BY <1>1
    <3>. HIDE DEF ks, e
    <3>. QED  BY <1>2, <2>3, <2>4, <3>1, <3>2
  <2>. HIDE DEF ks, e
  <2>. QED  BY <1>5, <2>3, <2>4, <2>6, <2>7, <2>8
<1>7. CASE InstructionLine
  <2>1. /\ EndLine(parse_instruction(token, idx))
        /\ ~ (Is(token, idx, {"BITS"}) /\ Is(token, idx + 1, {"NUM"}))
        /\ ~ (Is(token, idx, {"LABEL"}) /\ Is(token, idx + 1, {"COLON"}))
        /\ ~ Is(token, idx, {"EOL"})
    BY <1>7 DEF InstructionLine, AtBits, AtLabel
  <2>2. ks[idx] # "EOL"
    <3>. HIDE DEF ks
    <3>. QED  BY <1>3, <2>1
  <2>3. IsParsed(Span(ks, idx, e))
           <=> Is(token, idx, Mnemonics) /\ Is(token, TailEnd(token, idx + 1), {"EOL"})
    BY <1>1, <2>1, <2>2, LineAt
  <2>4. CASE Is(token, idx, Mnemonics)
    <3>. DEFINE f == TailEnd(token, idx + 1)
    <3>1. PICK n : /\ idx + 1 \in 1 .. Len(token) /\ f \in idx + 1 .. Len(token)
                   /\ IsInstruction(n) /\ parse_instruction(token, idx) = Parsed(f, n)
      BY <1>1, <2>4, InstructionResult
    <3>2. \A k \in idx + 1 .. f - 1 : ks[k] # "EOL"
      BY <1>1, <3>1, TailTokens
    <3>3. f \in idx .. Len(token) /\ f \in 1 .. Len(token)
      <4>. HIDE DEF f
      <4>. QED  BY <1>1, <3>1
    <3>4. \/ idx' = f + 1 /\ pc' = pc /\ Is(token, f, {"EOL"})
          \/ idx' = idx /\ pc' = "refused" /\ ~ Is(token, f, {"EOL"})
      <4>. HIDE DEF f
      <4>. QED  BY <1>1, <2>1, <3>1, <3>3, EndLineStep
    <3>5. Is(token, f, {"EOL"}) => e = f
      <4>1. Is(token, f, {"EOL"}) => ks[f] = "EOL"
        <5>. HIDE DEF f
        <5>. QED  BY <1>1, <3>3, KindsText
      <4>. HIDE DEF f, ks, e
      <4>2. \A k \in idx .. f - 1 : k = idx \/ k \in idx + 1 .. f - 1
        BY <1>1, <3>3
      <4>. QED  BY <1>2, <2>2, <3>2, <3>3, <4>1, <4>2
    <3>. HIDE DEF f, ks, e
    <3>6. IsParsed(Span(ks, idx, e)) <=> Is(token, f, {"EOL"})
      BY <2>3, <2>4 DEF f
    <3>. QED  BY <1>5, <2>2, <3>3, <3>4, <3>5, <3>6
  <2>5. CASE ~ Is(token, idx, Mnemonics)
    <3>1. parse_instruction(token, idx) = NotParsed(idx, NoInstruction)
      BY <1>1, <2>5, InstructionResult
    <3>2. idx' = idx /\ pc' = "refused"
      <4>1. NotParsed(idx, NoInstruction).ok = FALSE
        BY ParsedParts
      <4>. QED  BY <2>1, <3>1, <4>1 DEF EndLine
    <3>3. LineInGrammar(token, idx, idx', pc') <=>
              /\ (pc' # "aborted" /\ idx' > idx) => (e = idx \/ IsParsed(Span(ks, idx, e)))
                                                       /\ (pc' = "parsing" => idx' = e + 1)
              /\ pc' = "refused" => ~ IsParsed(Span(ks, idx, e)) /\ idx' = idx
      BY DEF LineInGrammar
    <3>4. ~ (idx' > idx)
      BY <1>1, <3>2
    <3>. HIDE DEF ks, e
    <3>. QED  BY <2>3, <2>5, <3>2, <3>3, <3>4
  <2>. QED  BY <2>4, <2>5
<1>. QED  BY <1>4, <1>6, <1>7

LEMMA StepInGrammar ==
  ASSUME Typed, LinesInGrammar, [Next]_vars
  PROVE  LinesInGrammar'
<1>1. IsProgram(token) /\ line \in 1 .. Len(token) /\ idx \in 1 .. Len(token) + 1 /\ Len(token) \in Nat
  BY Places DEF Typed, TypeOK
<1>2. CASE EmptyLine \/ BitsLine \/ LabelLine \/ InstructionLine
  <2>1. token' = token /\ line' = idx
    BY <1>2 DEF EmptyLine, BitsLine, LabelLine, InstructionLine, EndLine
  <2>2. idx \in 1 .. Len(token)
    BY <1>1, <1>2 DEF EmptyLine, BitsLine, LabelLine, InstructionLine, Parsing
  <2>3. LineInGrammar(token, idx, idx', pc')
    BY <1>2, RoundInGrammar
  <2>4. TextInGrammar(token, idx, idx', pc')
    BY <1>1, <2>2, <2>3, LineText
  <2>. QED  BY <2>1, <2>4, TextNext
<1>3. CASE DuplicateLabel
  <2>1. pc' = "aborted"
    BY <1>3 DEF DuplicateLabel
  <2>2. TextInGrammar(token', line', idx', pc')
    BY <2>1 DEF TextInGrammar
  <2>. QED  BY <2>2, TextNext
<1>4. CASE Finish \/ UNCHANGED vars
  <2>1. /\ token' = token /\ line' = line /\ idx' = idx
        /\ pc' = pc \/ (pc = "parsing" /\ pc' = "done")
    BY <1>4 DEF Finish, vars
  <2>2. TextInGrammar(token, line, idx, pc)
    BY TextNow
  <2>3. TextInGrammar(token, line, idx, pc')
    <3>1. LineInGrammar(token, line, idx, pc)
      BY <1>1, <2>2, LineText
    <3>2. LineInGrammar(token, line, idx, pc')
      BY <2>1, <3>1 DEF LineInGrammar
    <3>. QED  BY <1>1, <3>2, LineText
  <2>. QED  BY <2>1, <2>3, TextNext
<1>. QED  BY <1>2, <1>3, <1>4 DEF Next

(* Of the lines with neither a prefix of the mnemonic nor 0 for an address, one is  *)
(* accepted exactly if grammar.txt derives it, and then it is consumed with its     *)
(* EOL; all others are refused, with idx where they began (parser.c:70-691,        *)
(* asm8086.c:51-58).                                                               *)
THEOREM GrammarCorrect == Spec => []LinesInGrammar
<1>1. Init => LinesInGrammar
  <2>. SUFFICES ASSUME Init PROVE LinesInGrammar
    OBVIOUS
  <2>1. ~ (idx > line) /\ pc # "refused"
    BY DEF Init
  <2>. QED  BY <2>1 DEF LinesInGrammar, Accepted
<1>2. Typed /\ LinesInGrammar /\ [Next]_vars => LinesInGrammar'
  BY StepInGrammar
<1>. QED  BY <1>1, <1>2, AlwaysTyped, PTL DEF Spec

(* A line that is accepted has been consumed with the EOL that ends it.              *)
LEMMA LineConsumed ==
  ASSUME Typed, LinesInGrammar', Next, pc' = "parsing"
  PROVE  /\ idx \in 1 .. Len(token) /\ token' = token /\ idx' - 1 \in idx .. Len(token)
         /\ token[idx' - 1].kind = "EOL"
         /\ \A k \in idx .. idx' - 2 : token[k].kind # "EOL"
<1>1. IsProgram(token) /\ idx \in 1 .. Len(token) + 1 /\ Len(token) \in Nat
  BY Places DEF Typed, TypeOK
<1>2. idx \in 1 .. Len(token) /\ token' = token /\ line' = idx
  BY <1>1 DEF Next, EmptyLine, BitsLine, LabelLine, DuplicateLabel, InstructionLine, Finish, EndLine, Parsing
<1>3. idx' > idx
  <2>1. CASE EmptyLine
    BY <1>2, <2>1 DEF EmptyLine
  <2>2. CASE BitsLine \/ LabelLine \/ InstructionLine
    BY <1>2, <2>2, LineStep
  <2>. QED  BY <2>1, <2>2 DEF Next, DuplicateLabel, Finish
<1>4. idx' = LineEnd(token, idx) + 1
  <2>1. TextInGrammar(token', line', idx', pc')
    BY TextNext
  <2>. QED  BY <1>2, <1>3, <2>1 DEF TextInGrammar
<1>. HIDE DEF LineEnd
<1>5. /\ LineEnd(token, idx) \in idx .. Len(token) /\ KindsOf(token)[LineEnd(token, idx)] = "EOL"
      /\ \A k \in idx .. LineEnd(token, idx) - 1 : KindsOf(token)[k] # "EOL"
  BY <1>1, <1>2, LineEndProperties
<1>6. \A k \in 1 .. Len(token) : KindsOf(token)[k] = token[k].kind
  BY <1>1, KindsText
<1>7. idx' - 1 = LineEnd(token, idx) /\ idx' - 2 = LineEnd(token, idx) - 1
  BY <1>1, <1>2, <1>4, <1>5
<1>. QED  BY <1>1, <1>2, <1>5, <1>6, <1>7
-------------------------------------------------------------------------------
(* What an operand says. The kinds and the places of numbers in a stretch of tokens *)
(* are those of its parts.                                                         *)
LEMMA PartsOfText ==
  ASSUME NEW t, NEW i \in Nat, NEW j \in Nat, NEW m \in i .. j
  PROVE  /\ G!KindsIn(t, i, j) = G!KindsIn(t, i, m) \cup G!KindsIn(t, m, j)
         /\ G!NumbersIn(t, i, j) = G!NumbersIn(t, i, m) \cup G!NumbersIn(t, m, j)
<1>1. i .. j - 1 = (i .. m - 1) \cup (m .. j - 1)
  OBVIOUS
<1>2. G!KindsIn(t, i, j) = G!KindsIn(t, i, m) \cup G!KindsIn(t, m, j)
  BY <1>1 DEF G!KindsIn
<1>3. G!NumbersIn(t, i, j) = G!NumbersIn(t, i, m) \cup G!NumbersIn(t, m, j)
  BY <1>1 DEF G!NumbersIn
<1>. QED  BY <1>2, <1>3

LEMMA TokenText ==
  ASSUME NEW t, NEW i \in Nat
  PROVE  /\ G!KindsIn(t, i, i) = {} /\ G!NumbersIn(t, i, i) = {}
         /\ G!KindsIn(t, i, i + 1) = {t[i].kind}
         /\ G!NumbersIn(t, i, i + 1) = IF t[i].kind \in {"NUM", "ZERO"} THEN {i} ELSE {}
<1>1. i .. i - 1 = {} /\ i .. (i + 1) - 1 = {i}
  OBVIOUS
<1>. QED  BY <1>1 DEF G!KindsIn, G!NumbersIn

LEMMA TwoTokenText ==
  ASSUME NEW t, NEW i \in Nat
  PROVE  /\ G!KindsIn(t, i, i + 2) = {t[i].kind, t[i + 1].kind}
         /\ t[i].kind \notin {"NUM", "ZERO"} =>
               G!NumbersIn(t, i, i + 2) = IF t[i + 1].kind \in {"NUM", "ZERO"} THEN {i + 1} ELSE {}
<1>1. i + 1 \in i .. i + 2 /\ i + 1 \in Nat /\ i + 2 \in Nat /\ (i + 1) + 1 = i + 2
  OBVIOUS
<1>2. /\ G!KindsIn(t, i, i + 2) = G!KindsIn(t, i, i + 1) \cup G!KindsIn(t, i + 1, i + 2)
      /\ G!NumbersIn(t, i, i + 2) = G!NumbersIn(t, i, i + 1) \cup G!NumbersIn(t, i + 1, i + 2)
  BY <1>1, PartsOfText
<1>3. /\ G!KindsIn(t, i, i + 1) = {t[i].kind}
      /\ G!NumbersIn(t, i, i + 1) = IF t[i].kind \in {"NUM", "ZERO"} THEN {i} ELSE {}
  BY TokenText
<1>4. /\ G!KindsIn(t, i + 1, (i + 1) + 1) = {t[i + 1].kind}
      /\ G!NumbersIn(t, i + 1, (i + 1) + 1) = IF t[i + 1].kind \in {"NUM", "ZERO"} THEN {i + 1} ELSE {}
  BY <1>1, TokenText
<1>. QED  BY <1>1, <1>2, <1>3, <1>4

(* The fields of the records that the functions make.                              *)
FieldsAre(o, reg, base, index, numbers, seg, label) ==
    /\ DOMAIN o = DOMAIN NoOperand
    /\ o.reg = reg /\ o.base = base /\ o.index = index
    /\ <<o.disp, o.daddr, o.imm, o.selector, o.offset>> = numbers
    /\ o.seg = seg /\ o.label = label /\ o.prefix_size = {} /\ o.prefix_seg_ovr = {}

LEMMA FieldsOfOperands ==
  /\ \A r : FieldsAre(RegisterOperand(r), r, "NULL", "NULL", <<0, 0, 0, 0, 0>>, "NULL", NoName)
  /\ \A r : FieldsAre(SegmentOperand(r), "NULL", "NULL", "NULL", <<0, 0, 0, 0, 0>>, r, NoName)
  /\ \A a, b : FieldsAre(PointerOperand(a, b), "NULL", "NULL", "NULL",
                         <<0, 0, 0, S16(a), S16(b)>>, "NULL", NoName)
  /\ \A n : FieldsAre(ImmediateOperand(n), "NULL", "NULL", "NULL", <<0, 0, n, 0, 0>>, "NULL", NoName)
  /\ \A n : FieldsAre(LabelOperand(n), "NULL", "NULL", "NULL", <<0, 0, 0, 0, 0>>, "NULL", n)
  /\ \A e : FieldsAre(MemoryOperand(e), "NULL", e.base, e.index,
                      <<e.disp, e.daddr, 0, 0, 0>>, "NULL", NoName)
<1>1. \A r : FieldsAre(RegisterOperand(r), r, "NULL", "NULL", <<0, 0, 0, 0, 0>>, "NULL", NoName)
  BY DEF FieldsAre, RegisterOperand, NoOperand
<1>2. \A r : FieldsAre(SegmentOperand(r), "NULL", "NULL", "NULL", <<0, 0, 0, 0, 0>>, r, NoName)
  BY DEF FieldsAre, SegmentOperand, NoOperand
<1>3. \A a, b : FieldsAre(PointerOperand(a, b), "NULL", "NULL", "NULL",
                          <<0, 0, 0, S16(a), S16(b)>>, "NULL", NoName)
  BY DEF FieldsAre, PointerOperand, NoOperand
<1>4. \A n : FieldsAre(ImmediateOperand(n), "NULL", "NULL", "NULL", <<0, 0, n, 0, 0>>, "NULL", NoName)
  BY DEF FieldsAre, ImmediateOperand, NoOperand
<1>5. \A n : FieldsAre(LabelOperand(n), "NULL", "NULL", "NULL", <<0, 0, 0, 0, 0>>, "NULL", n)
  BY DEF FieldsAre, LabelOperand, NoOperand
<1>6. \A e : FieldsAre(MemoryOperand(e), "NULL", e.base, e.index,
                       <<e.disp, e.daddr, 0, 0, 0>>, "NULL", NoName)
  BY DEF FieldsAre, MemoryOperand, NoOperand
<1>. QED  BY <1>1, <1>2, <1>3, <1>4, <1>5, <1>6

(* A negated number is cut to 16 bits once more, which does not change it.          *)
LEMMA SignedMeans ==
  ASSUME NEW n \in Int, NEW sign
  PROVE  Signed(sign, n) = S16(IF sign = "MINUS" THEN - n ELSE n)
<1>1. PICK q \in Int : S16(n) = n + 65536 * q
  <2>1. \A a \in Int : \E q \in Int : a % 65536 = a + 65536 * q
    <3>. SUFFICES ASSUME NEW a \in Int PROVE \E q \in Int : a % 65536 = a + 65536 * q
      OBVIOUS
    <3>. DEFINE d == - (a \div 65536)
                r == a % 65536
    <3>1. r = a + 65536 * d /\ d \in Int
      OBVIOUS
    <3>. HIDE DEF d, r
    <3>2. \E q \in Int : r = a + 65536 * q
      BY <3>1
    <3>. QED  BY <3>2 DEF r
  <2>2. PICK q \in Int : (n + 32768) % 65536 = (n + 32768) + 65536 * q
    <3>1. n + 32768 \in Int
      OBVIOUS
    <3>. QED  BY <2>1, <3>1
  <2>3. S16(n) = n + 65536 * q
    BY <2>2 DEF S16
  <2>. QED  BY <2>3
<1>2. S16(- S16(n)) = S16(- n)
  <2>1. \A a \in Int, k \in Int : (a + 65536 * k) % 65536 = a % 65536
    OBVIOUS
  <2>2. - S16(n) + 32768 = (- n + 32768) + 65536 * (- q) /\ - q \in Int /\ - n + 32768 \in Int
    BY <1>1
  <2>3. (- S16(n) + 32768) % 65536 = (- n + 32768) % 65536
    BY <2>1, <2>2
  <2>. QED  BY <2>3 DEF S16
<1>. QED  BY <1>2 DEF Signed

LEMMA MarksApart ==
  /\ \A a \in Marks : /\ a \notin Bases /\ a \notin Indices /\ a \notin General
                      /\ a # "MINUS" /\ a # "NUM" /\ a # "ZERO"
  /\ Sizes \subseteq Marks /\ Members(Segments) \subseteq Marks
<1>1. \A a \in Marks : a \in {"BYTE", "WORD", "ES", "CS", "SS", "DS", "COLON"}
  BY RegisterSets DEF Marks, Sizes
<1>2. \A a \in {"BYTE", "WORD", "ES", "CS", "SS", "DS", "COLON"} :
         /\ a \notin Bases /\ a \notin Indices /\ a \notin General
         /\ a # "MINUS" /\ a # "NUM" /\ a # "ZERO"
  BY RegisterSets DEF Bases, Indices, General
<1>. QED  BY <1>1, <1>2 DEF Marks

(* The definitions of Operands are those that Grammar extends.                     *)
LEMMA SameDefinitions ==
  /\ \A n : G!S16(n) = S16(n)
  /\ G!Bases = Bases /\ G!Indices = Indices /\ G!General = General
  /\ G!Members(G!Segments) = Members(Segments)
  /\ G!Members(G!Registers8) = Members(Registers8) /\ G!Members(G!Registers16) = Members(Registers16)
  /\ \A n : G!IsByte(n) <=> IsByte(n)
<1>1. /\ G!Registers8 = Registers8 /\ G!Registers16 = Registers16 /\ \A s : G!Members(s) = Members(s)
  BY DEF G!Registers8, Registers8, G!Registers16, Registers16, G!Members, Members
<1>2. \A n : G!IsByte(n) <=> IsByte(n)
  BY DEF G!IsByte, IsByte
<1>. QED  BY <1>1, <1>2, SameSets DEF G!S16, S16

LEMMA SaysParts ==
  ASSUME NEW t, NEW i, NEW j, NEW o
  PROVE  LET kinds  == G!KindsIn(t, i, j)
             last   == t[j - 1]
             memory == last.kind = "RSQUARE_BR"
         IN  G!Says(t, i, j, o) <=>
                /\ memory => /\ o.reg = "NULL"
                             /\ G!Shows(kinds \cap Bases, o.base) /\ G!Shows(kinds \cap Indices, o.index)
                /\ ~ memory => G!Shows(kinds \cap General, o.reg) /\ o.base = "NULL" /\ o.index = "NULL"
                /\ G!SaysNumbers(t, G!NumbersIn(t, i, j), kinds, memory, o)
                /\ G!SaysKind(last.kind, kinds \cap (Bases \cup Indices), G!NumbersIn(t, i, j) # {j - 1}, o)
                /\ o.seg = IF last.kind \in Members(Segments) THEN last.kind ELSE "NULL"
                /\ o.label = IF last.kind = "LABEL" THEN last.val ELSE NoName
                /\ o.prefix_size = kinds \cap Sizes
                /\ o.prefix_seg_ovr = G!KindsIn(t, i, j - 1) \cap Members(Segments)
<1>. DEFINE shows(K, v) == G!Shows(K, v)
            A == G!KindsIn(t, i, j)
            B == G!KindsIn(t, i, j - 1)
            F == G!SaysNumbers(t, G!NumbersIn(t, i, j), A, t[j - 1].kind = "RSQUARE_BR", o)
            kind(R) == G!SaysKind(t[j - 1].kind, R, G!NumbersIn(t, i, j) # {j - 1}, o)
<1>1. G!Says(t, i, j, o) <=>
         /\ IF t[j - 1].kind = "RSQUARE_BR"
            THEN o.reg = "NULL" /\ shows(A \cap Bases, o.base) /\ shows(A \cap Indices, o.index)
            ELSE shows(A \cap General, o.reg) /\ o.base = "NULL" /\ o.index = "NULL"
         /\ F /\ kind(A \cap (Bases \cup Indices))
         /\ o.seg = IF t[j - 1].kind \in Members(Segments) THEN t[j - 1].kind ELSE "NULL"
         /\ o.label = IF t[j - 1].kind = "LABEL" THEN t[j - 1].val ELSE NoName
         /\ o.prefix_size = A \cap {"BYTE", "WORD"}
         /\ o.prefix_seg_ovr = B \cap Members(Segments)
  <2>1. G!Says(t, i, j, o) <=>
         /\ IF t[j - 1].kind = "RSQUARE_BR"
            THEN o.reg = "NULL" /\ shows(A \cap G!Bases, o.base) /\ shows(A \cap G!Indices, o.index)
            ELSE shows(A \cap G!General, o.reg) /\ o.base = "NULL" /\ o.index = "NULL"
         /\ F /\ kind(A \cap (G!Bases \cup G!Indices))
         /\ o.seg = IF t[j - 1].kind \in G!Members(G!Segments) THEN t[j - 1].kind ELSE "NULL"
         /\ o.label = IF t[j - 1].kind = "LABEL" THEN t[j - 1].val ELSE NoName
         /\ o.prefix_size = A \cap {"BYTE", "WORD"}
         /\ o.prefix_seg_ovr = B \cap G!Members(G!Segments)
    BY Zenon DEF G!Says
  <2>. HIDE DEF shows, A, B, F, kind
  <2>. QED  BY <2>1, SameSets
<1>. QED  BY <1>1, Zenon DEF Sizes, shows, A, B, F, kind

LEMMA SameNumbers ==
  ASSUME NEW t, NEW N, NEW K, NEW L, NEW memory, NEW o, NEW q,
         G!SaysNumbers(t, N, K, memory, o),
         "MINUS" \in L <=> "MINUS" \in K,
         L \cap (Bases \cup Indices) = K \cap (Bases \cup Indices),
         q.disp = o.disp, q.daddr = o.daddr, q.imm = o.imm, q.selector = o.selector,
         q.offset = o.offset
  PROVE  G!SaysNumbers(t, N, L, memory, q)
<1>1. L \cap (G!Bases \cup G!Indices) = K \cap (G!Bases \cup G!Indices)
  BY SameDefinitions
<1>. QED  BY <1>1, Zenon DEF G!SaysNumbers

LEMMA SameKind ==
  ASSUME NEW last, NEW R, NEW two, NEW o, NEW q, G!SaysKind(last, R, two, o),
         q.kind = o.kind, q.mod = o.mod, q.rm = o.rm, q.disp = o.disp, q.imm = o.imm
  PROVE  G!SaysKind(last, R, two, q)
BY Zenon DEF G!SaysKind, G!SaysAddress

(* The flags of the operands, and the encoding of an address.                       *)
LEMMA NoAddressKind ==
  ASSUME NEW last, NEW R, NEW two, NEW o, last # "RSQUARE_BR", o.mod = 0, o.rm = 0,
         last \in Members(Registers8)  => o.kind = {"REG8"} \cup (IF last = "AL" THEN {"ACC8"} ELSE {}),
         last \in Members(Registers16) => o.kind = {"REG16"} \cup (IF last = "AX" THEN {"ACC16"} ELSE {}),
         last \in Members(Segments) => o.kind = {"SEGREG"}, last = "LABEL" => o.kind = {"LABEL"},
         last \in {"NUM", "ZERO"} =>
             o.kind = IF two THEN {"POINTER"}
                      ELSE {"IMMEDIATE", IF IsByte(o.imm) THEN "IMMEDIATE8" ELSE "IMMEDIATE16"}
  PROVE  G!SaysKind(last, R, two, o)
<1>1. IsByte(o.imm) <=> G!IsByte(o.imm)
  BY SameDefinitions
<1>2. last \in {"NUM", "ZERO"} =>
             o.kind = IF two THEN {"POINTER"}
                      ELSE {"IMMEDIATE", IF G!IsByte(o.imm) THEN "IMMEDIATE8" ELSE "IMMEDIATE16"}
  BY <1>1, Zenon
<1>. QED  BY <1>2, SameDefinitions, Zenon DEF G!SaysKind

LEMMA KindsOfOperands ==
  ASSUME NEW R
  PROVE  /\ \A two : \A r \in General : G!SaysKind(r, R, two, RegisterOperand(r))
         /\ \A two : \A r \in Members(Segments) : G!SaysKind(r, R, two, SegmentOperand(r))
         /\ \A two, n : G!SaysKind("LABEL", R, two, LabelOperand(n))
         /\ \A a, b : G!SaysKind("NUM", R, TRUE, PointerOperand(a, b))
         /\ \A n : \A last \in {"NUM", "ZERO"} : G!SaysKind(last, R, FALSE, ImmediateOperand(n))
<1>1. ASSUME NEW two, NEW r \in General PROVE G!SaysKind(r, R, two, RegisterOperand(r))
  <2>. DEFINE o == RegisterOperand(r)
  <2>1. o.kind = op_kind_from_reg(r) /\ o.mod = 0 /\ o.rm = 0
    BY DEF RegisterOperand, NoOperand
  <2>. HIDE DEF o
  <2>2. r \notin {"RSQUARE_BR", "LABEL", "NUM", "ZERO"} /\ r \notin Members(Segments)
        /\ ~ (r \in Members(Registers8) /\ r \in Members(Registers16))
    BY RegisterSets DEF General
  <2>3. /\ r \in Members(Registers8) => r # "AX"
        /\ r \in Members(Registers16) => r # "AL"
    BY RegisterSets
  <2>4. /\ r \in Members(Registers8)  => o.kind = {"REG8"} \cup (IF r = "AL" THEN {"ACC8"} ELSE {})
        /\ r \in Members(Registers16) => o.kind = {"REG16"} \cup (IF r = "AX" THEN {"ACC16"} ELSE {})
    BY <2>1, <2>2, <2>3 DEF op_kind_from_reg
  <2>5. G!SaysKind(r, R, two, o)
    BY <2>1, <2>2, <2>4, NoAddressKind
  <2>. QED  BY <2>5 DEF o
<1>2. ASSUME NEW two, NEW r \in Members(Segments) PROVE G!SaysKind(r, R, two, SegmentOperand(r))
  <2>. DEFINE o == SegmentOperand(r)
  <2>1. o.kind = {"SEGREG"} /\ o.mod = 0 /\ o.rm = 0
    BY DEF SegmentOperand, NoOperand
  <2>. HIDE DEF o
  <2>2. r \notin {"RSQUARE_BR", "LABEL", "NUM", "ZERO"} /\ r \notin Members(Registers8) /\ r \notin Members(Registers16)
    BY RegisterSets
  <2>5. G!SaysKind(r, R, two, o)
    BY <2>1, <2>2, NoAddressKind
  <2>. QED  BY <2>5 DEF o
<1>3. "LABEL" \notin Members(Registers8) \cup Members(Registers16) \cup Members(Segments)
      /\ "NUM" \notin Members(Registers8) \cup Members(Registers16) \cup Members(Segments)
      /\ "ZERO" \notin Members(Registers8) \cup Members(Registers16) \cup Members(Segments)
  BY RegisterSets
<1>4. ASSUME NEW two, NEW n PROVE G!SaysKind("LABEL", R, two, LabelOperand(n))
  <2>. DEFINE o == LabelOperand(n)
  <2>1. o.kind = {"LABEL"} /\ o.mod = 0 /\ o.rm = 0
    BY DEF LabelOperand, NoOperand
  <2>. HIDE DEF o
  <2>5. G!SaysKind("LABEL", R, two, o)
    BY <1>3, <2>1, NoAddressKind
  <2>. QED  BY <2>5 DEF o
<1>5. ASSUME NEW a, NEW b PROVE G!SaysKind("NUM", R, TRUE, PointerOperand(a, b))
  <2>. DEFINE o == PointerOperand(a, b)
  <2>1. o.kind = {"POINTER"} /\ o.mod = 0 /\ o.rm = 0
    BY DEF PointerOperand, NoOperand
  <2>. HIDE DEF o
  <2>5. G!SaysKind("NUM", R, TRUE, o)
    BY <1>3, <2>1, NoAddressKind
  <2>. QED  BY <2>5 DEF o
<1>6. ASSUME NEW n, NEW last \in {"NUM", "ZERO"} PROVE G!SaysKind(last, R, FALSE, ImmediateOperand(n))
  <2>. DEFINE o == ImmediateOperand(n)
  <2>1. o.kind = {"IMMEDIATE", IF IsByte(o.imm) THEN "IMMEDIATE8" ELSE "IMMEDIATE16"} /\ o.mod = 0 /\ o.rm = 0
    BY DEF ImmediateOperand, NoOperand
  <2>. HIDE DEF o
  <2>5. G!SaysKind(last, R, FALSE, o)
    BY <1>3, <2>1, NoAddressKind
  <2>. QED  BY <2>5 DEF o
<1>. QED  BY <1>1, <1>2, <1>4, <1>5, <1>6

LEMMA MemoryKind ==
  ASSUME NEW e, NEW R, NEW two, e.base \in Bases \cup {"NULL"}, e.index \in Indices \cup {"NULL"},
         R = {e.base, e.index} \ {"NULL"}, R = {} => e.disp = 0, R # {} => e.daddr = 0
  PROVE  G!SaysKind("RSQUARE_BR", R, two, MemoryOperand(e))
<1>. DEFINE o   == MemoryOperand(e)
            mod == eaddr_encode_mod(e.base, e.index, e.disp, e.daddr)
            rm  == eaddr_encode_rm(e.base, e.index)
<1>1. /\ o.kind = IF e.base # "NULL" \/ e.index # "NULL" THEN {"MEM"} ELSE {"MEM", "DADDR"}
      /\ o.mod = mod /\ o.rm = rm /\ o.disp = e.disp
  <2>. HIDE DEF mod, rm
  <2>. QED  BY DEF MemoryOperand, NoOperand, mod, rm
<1>2. /\ e.base \in {"NULL", "BX", "BP"} /\ e.index \in {"NULL", "SI", "DI"}
      /\ R = {} <=> e.base = "NULL" /\ e.index = "NULL"
  BY DEF Bases, Indices
<1>3. R = {} => mod = 0 /\ rm = 6
  BY <1>2 DEF eaddr_encode_mod, eaddr_encode_rm
<1>4. R # {} => /\ \E n \in 1 .. 8 : rm = n - 1 /\ G!Addresses[n] = R
                /\ mod = IF e.disp = 0 /\ R # {"BP"} THEN 0 ELSE IF IsByte(e.disp) THEN 1 ELSE 2
  <2>. SUFFICES ASSUME R # {}
                PROVE  /\ \E n \in 1 .. 8 : rm = n - 1 /\ G!Addresses[n] = R
                       /\ mod = IF e.disp = 0 /\ R # {"BP"} THEN 0 ELSE IF IsByte(e.disp) THEN 1 ELSE 2
    OBVIOUS
  <2>1. R = {"BP"} <=> e.base = "BP" /\ e.index = "NULL"
    BY <1>2
  <2>2. IsByte(0) /\ e.daddr = 0
    BY DEF IsByte
  <2>3. mod = IF e.disp = 0 /\ R # {"BP"} THEN 0 ELSE IF IsByte(e.disp) THEN 1 ELSE 2
    <3>1. mod = IF e.base = "BP" /\ e.index = "NULL" /\ IsByte(e.disp) THEN 1
                ELSE IF e.disp = 0 THEN 0 ELSE IF IsByte(e.disp) THEN 1 ELSE 2
      BY <2>2 DEF eaddr_encode_mod
    <3>. HIDE DEF mod
    <3>. QED  BY <2>1, <2>2, <3>1
  <2>4. /\ G!Addresses[1] = {"BX", "SI"} /\ G!Addresses[2] = {"BX", "DI"}
        /\ G!Addresses[3] = {"BP", "SI"} /\ G!Addresses[4] = {"BP", "DI"}
        /\ G!Addresses[5] = {"SI"} /\ G!Addresses[6] = {"DI"}
        /\ G!Addresses[7] = {"BP"} /\ G!Addresses[8] = {"BX"}
    BY DEF G!Addresses
  <2>5. CASE e.base # "NULL" /\ e.index # "NULL"
    <3>1. R = {e.base, e.index}
      BY <2>5
    <3>2. rm = 2 * (IF e.base = "BP" THEN 1 ELSE 0) + (IF e.index = "DI" THEN 1 ELSE 0)
      BY <1>2, <2>5 DEF eaddr_encode_rm
    <3>3. \/ (rm = 1 - 1 /\ R = {"BX", "SI"})
          \/ (rm = 2 - 1 /\ R = {"BX", "DI"})
          \/ (rm = 3 - 1 /\ R = {"BP", "SI"})
          \/ (rm = 4 - 1 /\ R = {"BP", "DI"})
      <4>. HIDE DEF rm
      <4>. QED  BY <1>2, <2>5, <3>1, <3>2
    <3>4. {1, 2, 3, 4} \subseteq 1 .. 8
      OBVIOUS
    <3>. HIDE DEF rm, mod
    <3>. QED  BY <2>3, <2>4, <3>3, <3>4
  <2>6. CASE e.base = "NULL" \/ e.index = "NULL"
    <3>1. \/ (rm = 5 - 1 /\ R = {"SI"})
          \/ (rm = 6 - 1 /\ R = {"DI"})
          \/ (rm = 7 - 1 /\ R = {"BP"})
          \/ (rm = 8 - 1 /\ R = {"BX"})
      BY <1>2, <2>6 DEF eaddr_encode_rm
    <3>2. {5, 6, 7, 8} \subseteq 1 .. 8
      OBVIOUS
    <3>. HIDE DEF rm, mod
    <3>. QED  BY <2>3, <2>4, <3>1, <3>2
  <2>. QED  BY <2>5, <2>6
<1>. HIDE DEF o, mod, rm
<1>5. G!SaysAddress(R, o)
  <2>1. DOMAIN G!Addresses = 1 .. 8 /\ (G!IsByte(o.disp) <=> IsByte(e.disp))
    BY <1>1, SameDefinitions DEF G!Addresses
  <2>. QED  BY <1>1, <1>3, <1>4, <2>1 DEF G!SaysAddress
<1>6. o.kind = {"MEM"} \cup (IF R = {} THEN {"DADDR"} ELSE {})
  BY <1>1, <1>2
<1>7. G!SaysKind("RSQUARE_BR", R, two, o)
  <2>1. "RSQUARE_BR" \notin Members(Registers8) \cup Members(Registers16) \cup Members(Segments)
    BY RegisterSets
  <2>. QED  BY <1>5, <1>6, <2>1, SameDefinitions DEF G!SaysKind
<1>. QED  BY <1>7 DEF o

(* The sign that a direct address has lost is no matter of its prefixes.            *)
WithPrefixes(o, A, B) == [o EXCEPT !.prefix_size = A, !.prefix_seg_ovr = B]

LEMMA SignAndPrefixes ==
  ASSUME NEW t, NEW i \in Nat, NEW j \in Nat, NEW s \in i .. j - 1, NEW o,
         G!KindsIn(t, i, s) \subseteq Marks, DOMAIN o = DOMAIN NoOperand, NEW A, NEW B
  PROVE  WithSign(t, i, j, WithPrefixes(o, A, B)) = WithPrefixes(WithSign(t, s, j, o), A, B)
<1>. DEFINE P == G!KindsIn(t, i, s)
            K == G!KindsIn(t, s, j)
            C(L) == t[j - 1].kind = "RSQUARE_BR" /\ L \cap (Bases \cup Indices) = {} /\ "MINUS" \in L
            p == [o EXCEPT !.prefix_size = A, !.prefix_seg_ovr = B]
            signed(x) == [x EXCEPT !.daddr = S16(- x.daddr)]
<1>1. G!KindsIn(t, i, j) = P \cup K
  <2>1. s \in i .. j
    OBVIOUS
  <2>. QED  BY ONLY <2>1, PartsOfText, i \in Nat, j \in Nat
<1>2. C(P \cup K) <=> C(K)
  <2>1. P \subseteq Marks
    OBVIOUS
  <2>. HIDE DEF P, K
  <2>. QED  BY <2>1, MarksApart
<1>3. /\ WithSign(t, i, j, p) = IF C(P \cup K) THEN signed(p) ELSE p
      /\ WithSign(t, s, j, o) = IF C(K) THEN signed(o) ELSE o
  <2>1. WithSign(t, s, j, o) = IF C(K) THEN signed(o) ELSE o
    BY DEF WithSign
  <2>2. WithSign(t, i, j, p) = IF C(P \cup K) THEN signed(p) ELSE p
    <3>. HIDE DEF p
    <3>. QED  BY <1>1 DEF WithSign
  <2>. QED  BY <2>1, <2>2
<1>4. signed(p) = [signed(o) EXCEPT !.prefix_size = A, !.prefix_seg_ovr = B]
  <2>1. p.daddr = o.daddr
    OBVIOUS
  <2>2. \A v : [[o EXCEPT !.prefix_size = A, !.prefix_seg_ovr = B] EXCEPT !.daddr = v]
                   = [[o EXCEPT !.daddr = v] EXCEPT !.prefix_size = A, !.prefix_seg_ovr = B]
    OBVIOUS
  <2>. QED  BY <2>1, <2>2
<1>5. WithSign(t, i, j, p) = WithPrefixes(WithSign(t, s, j, o), A, B)
  <2>. HIDE DEF C, signed, p
  <2>. QED  BY <1>2, <1>3, <1>4 DEF WithPrefixes, p
<1>. QED  BY <1>5, Zenon DEF p, WithPrefixes

LEMMA SignedFields ==
  ASSUME NEW t, NEW i, NEW j, NEW o, DOMAIN o = DOMAIN NoOperand
  PROVE  LET q == WithSign(t, i, j, o)
         IN  /\ t[j - 1].kind # "RSQUARE_BR" => q = o
             /\ DOMAIN q = DOMAIN o /\ q.kind = o.kind /\ q.reg = o.reg /\ q.seg = o.seg
             /\ q.base = o.base /\ q.index = o.index /\ q.disp = o.disp /\ q.mod = o.mod /\ q.rm = o.rm
             /\ q.imm = o.imm /\ q.label = o.label /\ q.selector = o.selector /\ q.offset = o.offset
             /\ q.prefix_size = o.prefix_size /\ q.prefix_seg_ovr = o.prefix_seg_ovr
             /\ q.daddr = IF /\ t[j - 1].kind = "RSQUARE_BR" /\ "MINUS" \in G!KindsIn(t, i, j)
                             /\ G!KindsIn(t, i, j) \cap (Bases \cup Indices) = {}
                          THEN S16(- o.daddr) ELSE o.daddr
<1>1. DOMAIN o = {"kind", "reg", "seg", "base", "index", "disp", "daddr", "mod", "rm", "imm",
                  "label", "selector", "offset", "prefix_size", "prefix_seg_ovr"}
  BY DEF NoOperand
<1>. QED  BY <1>1 DEF WithSign

(* Prefixes before an operand add themselves to what it says, and nothing else.      *)
LEMMA PrefixedSays ==
  ASSUME NEW t, NEW i \in Nat, NEW j \in Nat, NEW s \in i .. j - 1, NEW o,
         G!KindsIn(t, i, s) \subseteq Marks, G!Says(t, s, j, o), DOMAIN o = DOMAIN NoOperand,
         o.prefix_size = {}, o.prefix_seg_ovr = {}
  PROVE  G!Says(t, i, j, [o EXCEPT !.prefix_size = G!KindsIn(t, i, s) \cap Sizes,
                                   !.prefix_seg_ovr = G!KindsIn(t, i, s) \cap Members(Segments)])
<1>. DEFINE P == G!KindsIn(t, i, s)
            K == G!KindsIn(t, s, j)
            F == G!KindsIn(t, s, j - 1)
            N == G!NumbersIn(t, s, j)
            q == [o EXCEPT !.prefix_size = P \cap Sizes, !.prefix_seg_ovr = P \cap Members(Segments)]
            last == t[j - 1]
            memory == last.kind = "RSQUARE_BR"
<1>1. s \in Nat /\ s \in i .. j /\ j - 1 \in Nat /\ s \in i .. j - 1
  OBVIOUS
<1>2. G!KindsIn(t, i, j) = P \cup K /\ G!KindsIn(t, i, j - 1) = P \cup F
  <2>. HIDE DEF q, last, memory, N
  <2>1. G!KindsIn(t, i, j) = P \cup K
    BY ONLY <1>1, PartsOfText, i \in Nat, j \in Nat
  <2>2. G!KindsIn(t, i, j - 1) = P \cup F
    BY ONLY <1>1, PartsOfText, i \in Nat
  <2>. QED  BY <2>1, <2>2
<1>3. G!NumbersIn(t, i, j) = N
  <2>1. G!NumbersIn(t, i, j) = G!NumbersIn(t, i, s) \cup N
    BY ONLY <1>1, PartsOfText, i \in Nat, j \in Nat
  <2>2. \A k \in i .. s - 1 : t[k].kind \in P
    BY DEF G!KindsIn
  <2>3. G!NumbersIn(t, i, s) = {}
    BY <2>2, MarksApart DEF G!NumbersIn
  <2>. QED  BY <2>1, <2>3
<1>4. /\ DOMAIN q = DOMAIN o /\ q.reg = o.reg /\ q.seg = o.seg /\ q.base = o.base /\ q.index = o.index
      /\ q.disp = o.disp /\ q.daddr = o.daddr /\ q.imm = o.imm /\ q.label = o.label
      /\ q.selector = o.selector /\ q.offset = o.offset
      /\ q.kind = o.kind /\ q.mod = o.mod /\ q.rm = o.rm
      /\ q.prefix_size = P \cap Sizes /\ q.prefix_seg_ovr = P \cap Members(Segments)
  <2>1. DOMAIN o = {"kind", "reg", "seg", "base", "index", "disp", "daddr", "mod", "rm", "imm",
                    "label", "selector", "offset", "prefix_size", "prefix_seg_ovr"}
    BY DEF NoOperand
  <2>. HIDE DEF P
  <2>. QED  BY <2>1
<1>5. /\ IF memory THEN o.reg = "NULL" /\ G!Shows(K \cap Bases, o.base) /\ G!Shows(K \cap Indices, o.index)
                   ELSE G!Shows(K \cap General, o.reg) /\ o.base = "NULL" /\ o.index = "NULL"
      /\ G!SaysNumbers(t, N, K, memory, o)
      /\ G!SaysKind(last.kind, K \cap (Bases \cup Indices), N # {j - 1}, o)
      /\ o.seg = IF last.kind \in Members(Segments) THEN last.kind ELSE "NULL"
      /\ o.label = IF last.kind = "LABEL" THEN last.val ELSE NoName
      /\ K \cap Sizes = {} /\ F \cap Members(Segments) = {}
  <2>1. G!Says(t, s, j, o) /\ o.prefix_size = {} /\ o.prefix_seg_ovr = {}
    OBVIOUS
  <2>. QED  BY ONLY <2>1, SaysParts
<1>6. /\ (P \cup K) \cap Bases = K \cap Bases /\ (P \cup K) \cap Indices = K \cap Indices
      /\ (P \cup K) \cap General = K \cap General
      /\ (P \cup K) \cap (Bases \cup Indices) = K \cap (Bases \cup Indices)
      /\ "MINUS" \in P \cup K <=> "MINUS" \in K
      /\ (P \cup K) \cap Sizes = P \cap Sizes
      /\ (P \cup F) \cap Members(Segments) = P \cap Members(Segments)
  <2>. HIDE DEF P, K, F, q, N
  <2>1. P \subseteq Marks
    BY DEF P
  <2>. QED  BY <1>5, <2>1, MarksApart
<1>. HIDE DEF P, K, F, N, q
<1>7. G!SaysNumbers(t, N, P \cup K, memory, q)
  BY <1>4, <1>5, <1>6, SameNumbers
<1>8. G!SaysKind(last.kind, (P \cup K) \cap (Bases \cup Indices), N # {j - 1}, q)
  BY <1>4, <1>5, <1>6, SameKind
<1>9. G!Says(t, i, j, q)
  BY <1>2, <1>3, <1>4, <1>5, <1>6, <1>7, <1>8, SaysParts
<1>. QED  BY <1>9 DEF q, P

LEMMA NumbersSaid ==
  ASSUME NEW t, NEW K, NEW memory, NEW o
  PROVE  /\ <<o.disp, o.daddr, o.imm, o.selector, o.offset>> = <<0, 0, 0, 0, 0>>
               => G!SaysNumbers(t, {}, K, memory, o)
         /\ \A k : LET v == S16(IF "MINUS" \in K THEN - t[k].val ELSE t[k].val) IN
               <<o.disp, o.daddr, o.imm, o.selector, o.offset>>
                   = (IF ~ memory THEN <<0, 0, v, 0, 0>>
                      ELSE IF K \cap (Bases \cup Indices) = {} THEN <<0, v, 0, 0, 0>>
                      ELSE <<v, 0, 0, 0, 0>>)
               => G!SaysNumbers(t, {k}, K, memory, o)
         /\ \A k, m : /\ k < m
                      /\ <<o.disp, o.daddr, o.imm, o.selector, o.offset>>
                             = <<0, 0, 0, S16(t[k].val), S16(t[m].val)>>
               => G!SaysNumbers(t, {k, m}, K, memory, o)
<1>. DEFINE numbers == <<o.disp, o.daddr, o.imm, o.selector, o.offset>>
            value(k) == S16(IF "MINUS" \in K THEN - t[k].val ELSE t[k].val)
            number(k) == IF ~ memory THEN <<0, 0, value(k), 0, 0>>
                         ELSE IF K \cap (Bases \cup Indices) = {} THEN <<0, value(k), 0, 0, 0>>
                         ELSE <<value(k), 0, 0, 0, 0>>
            two(k, m) == <<0, 0, 0, S16(t[k].val), S16(t[m].val)>>
<1>1. \A N : G!SaysNumbers(t, N, K, memory, o) <=>
                \/ N = {} /\ numbers = <<0, 0, 0, 0, 0>>
                \/ \E k \in N : N = {k} /\ numbers = number(k)
                \/ \E k, m \in N : k < m /\ N = {k, m} /\ numbers = two(k, m)
  <2>1. /\ \A n : G!S16(n) = S16(n)
        /\ K \cap (G!Bases \cup G!Indices) = K \cap (Bases \cup Indices)
    BY SameDefinitions
  <2>. DEFINE gvalue(k) == G!S16(IF "MINUS" \in K THEN - t[k].val ELSE t[k].val)
              gnumber(k) == IF ~ memory THEN <<0, 0, gvalue(k), 0, 0>>
                            ELSE IF K \cap (G!Bases \cup G!Indices) = {} THEN <<0, gvalue(k), 0, 0, 0>>
                            ELSE <<gvalue(k), 0, 0, 0, 0>>
              gtwo(k, m) == <<0, 0, 0, G!S16(t[k].val), G!S16(t[m].val)>>
  <2>2. \A k : gnumber(k) = number(k)
    BY <2>1
  <2>3. \A k, m : gtwo(k, m) = two(k, m)
    BY <2>1
  <2>4. \A N : G!SaysNumbers(t, N, K, memory, o) <=>
                \/ N = {} /\ numbers = <<0, 0, 0, 0, 0>>
                \/ \E k \in N : N = {k} /\ numbers = gnumber(k)
                \/ \E k, m \in N : k < m /\ N = {k, m} /\ numbers = gtwo(k, m)
    BY Zenon DEF G!SaysNumbers
  <2>. HIDE DEF numbers, number, gnumber, two, gtwo
  <2>. QED  BY <2>2, <2>3, <2>4, Zenon
<1>. HIDE DEF numbers, number, two
<1>2. numbers = <<0, 0, 0, 0, 0>> => G!SaysNumbers(t, {}, K, memory, o)
  BY <1>1
<1>3. \A k : numbers = number(k) => G!SaysNumbers(t, {k}, K, memory, o)
  BY <1>1
<1>4. \A k, m : k < m /\ numbers = two(k, m) => G!SaysNumbers(t, {k, m}, K, memory, o)
  BY <1>1
<1>. QED  BY <1>2, <1>3, <1>4, Zenon DEF numbers, number, two

(* What follows a base or an index: nothing, or a sign and a number.                *)
LEMMA SignedMeant ==
  ASSUME NEW t, IsProgram(t), NEW i \in 1 .. Len(t), NEW e, IsAddress(e)
  PROVE  \E f : /\ Optional(parse_signed_num(t, i, e)) = Parsed(SignedEnd(t, i), f)
                /\ f.base = e.base /\ f.index = e.index /\ f.daddr = e.daddr
                /\ \/ /\ SignedEnd(t, i) = i /\ f.disp = e.disp
                   \/ /\ SignedEnd(t, i) = i + 2 /\ t[i].kind \in OprMath /\ t[i + 1].kind = "NUM"
                      /\ f.disp = S16(IF t[i].kind = "MINUS" THEN - t[i + 1].val ELSE t[i + 1].val)
<1>1. CASE SignedAt(t, i)
  <2>1. t[i].kind \in OprMath /\ t[i + 1].kind = "NUM" /\ SignedEnd(t, i) = i + 2
    BY <1>1 DEF SignedAt, Is, SignedEnd
  <2>2. i + 1 \in 1 .. Len(t)
    BY <2>1, Places DEF OprMath
  <2>3. t[i + 1].val \in Int
    BY <2>1, <2>2, Numbers
  <2>. DEFINE v == Signed(t[i].kind, t[i + 1].val)
              f == [e EXCEPT !.disp = v]
  <2>4. v = S16(IF t[i].kind = "MINUS" THEN - t[i + 1].val ELSE t[i + 1].val)
    BY <2>3, SignedMeans
  <2>5. f.base = e.base /\ f.index = e.index /\ f.daddr = e.daddr /\ f.disp = v
    <3>. HIDE DEF v
    <3>. QED  BY DEF IsAddress
  <2>6. parse_signed_num(t, i, e) = Parsed(i + 2, f)
    BY <1>1 DEF parse_signed_num, SignedAt
  <2>7. Optional(parse_signed_num(t, i, e)) = Parsed(SignedEnd(t, i), f)
    <3>. HIDE DEF f
    <3>. QED  BY <2>1, <2>6, OptionalParts
  <2>. HIDE DEF f, v
  <2>. QED  BY <2>1, <2>4, <2>5, <2>7
<1>2. CASE ~ SignedAt(t, i)
  <2>1. SignedEnd(t, i) = i /\ parse_signed_num(t, i, e) = NotParsed(i, e)
    BY <1>2, SignedNumResult DEF SignedEnd
  <2>. QED  BY <2>1, OptionalParts
<1>. QED  BY <1>1, <1>2

(* What the tokens i .. j - 1 of an effective address say: the record f.            *)
EaddrSays(t, i, j, f) ==
    LET K == G!KindsIn(t, i, j)
        N == G!NumbersIn(t, i, j)
        direct == K \cap (Bases \cup Indices) = {}
    IN  /\ K \subseteq Bases \cup Indices \cup {"PLUS", "MINUS", "NUM"}
        /\ G!Shows(K \cap Bases, f.base) /\ G!Shows(K \cap Indices, f.index)
        /\ \/ N = {} /\ f.disp = 0 /\ f.daddr = 0
           \/ \E k \in N : /\ N = {k} /\ ~ direct /\ f.daddr = 0
                           /\ f.disp = S16(IF "MINUS" \in K THEN - t[k].val ELSE t[k].val)
           \/ \E k \in N : N = {k} /\ direct /\ f.disp = 0 /\ f.daddr = S16(t[k].val)

(* A base, an index or both, and what follows.                                      *)
LEMMA RegistersMeant ==
  ASSUME NEW t, IsProgram(t), NEW i \in Nat, NEW m \in 1 .. Len(t), i <= m, NEW e, IsAddress(e),
         G!NumbersIn(t, i, m) = {}, G!KindsIn(t, i, m) \subseteq Bases \cup Indices \cup {"PLUS"},
         G!KindsIn(t, i, m) \cap (Bases \cup Indices) # {},
         G!Shows(G!KindsIn(t, i, m) \cap Bases, e.base),
         G!Shows(G!KindsIn(t, i, m) \cap Indices, e.index), e.disp = 0, e.daddr = 0
  PROVE  \E f : /\ Optional(parse_signed_num(t, m, e)) = Parsed(SignedEnd(t, m), f)
                /\ EaddrSays(t, i, SignedEnd(t, m), f)
<1>. DEFINE H == G!KindsIn(t, i, m)
            j == SignedEnd(t, m)
            K == G!KindsIn(t, i, j)
            N == G!NumbersIn(t, i, j)
<1>1. PICK f : /\ Optional(parse_signed_num(t, m, e)) = Parsed(j, f)
               /\ f.base = e.base /\ f.index = e.index /\ f.daddr = e.daddr
               /\ \/ /\ j = m /\ f.disp = e.disp
                  \/ /\ j = m + 2 /\ t[m].kind \in OprMath /\ t[m + 1].kind = "NUM"
                     /\ f.disp = S16(IF t[m].kind = "MINUS" THEN - t[m + 1].val ELSE t[m + 1].val)
  BY ONLY SignedMeant, IsProgram(t), m \in 1 .. Len(t), IsAddress(e)
<1>2. m \in Nat /\ Len(t) \in Nat
  BY Places
<1>3. OprMath = {"PLUS", "MINUS"}
  BY DEF OprMath
<1>4. CASE j = m /\ f.disp = e.disp
  <2>1. EaddrSays(t, i, m, f)
    BY <1>1, <1>4 DEF EaddrSays
  <2>. HIDE DEF j
  <2>. QED  BY <1>1, <1>4, <2>1 DEF j
<1>5. CASE /\ j = m + 2 /\ t[m].kind \in OprMath /\ t[m + 1].kind = "NUM"
           /\ f.disp = S16(IF t[m].kind = "MINUS" THEN - t[m + 1].val ELSE t[m + 1].val)
  <2>. DEFINE s == t[m].kind
  <2>1. m \in i .. m + 2 /\ m + 2 \in Nat
    BY <1>2
  <2>2. /\ G!KindsIn(t, i, m + 2) = H \cup G!KindsIn(t, m, m + 2)
        /\ G!NumbersIn(t, i, m + 2) = G!NumbersIn(t, i, m) \cup G!NumbersIn(t, m, m + 2)
    BY ONLY <2>1, PartsOfText, i \in Nat
  <2>3. /\ G!KindsIn(t, m, m + 2) = {s, "NUM"}
        /\ s \notin {"NUM", "ZERO"} => G!NumbersIn(t, m, m + 2) = {m + 1}
    BY <1>2, <1>5, TwoTokenText
  <2>4. s \in {"PLUS", "MINUS"}
    BY <1>3, <1>5
  <2>5. K = H \cup {s, "NUM"} /\ N = {m + 1}
    <3>1. G!KindsIn(t, i, m + 2) = H \cup {s, "NUM"} /\ G!NumbersIn(t, i, m + 2) = {m + 1}
      <4>. HIDE DEF H, s
      <4>. QED  BY <2>2, <2>3, <2>4
    <3>2. j = m + 2
      BY <1>5
    <3>. HIDE DEF j, H, s
    <3>. QED  BY <3>1, <3>2
  <2>. HIDE DEF H, K, N, j
  <2>6. /\ K \cap Bases = H \cap Bases /\ K \cap Indices = H \cap Indices
        /\ K \cap (Bases \cup Indices) # {}
        /\ K \subseteq Bases \cup Indices \cup {"PLUS", "MINUS", "NUM"}
        /\ "MINUS" \in K <=> s = "MINUS"
    <3>1. /\ H \subseteq Bases \cup Indices \cup {"PLUS"} /\ H \cap (Bases \cup Indices) # {}
      BY DEF H
    <3>. HIDE DEF s
    <3>. QED  BY <2>4, <2>5, <3>1 DEF Bases, Indices
  <2>7. f.disp = S16(IF "MINUS" \in K THEN - t[m + 1].val ELSE t[m + 1].val)
    BY <1>5, <2>6
  <2>8. G!Shows(K \cap Bases, f.base) /\ G!Shows(K \cap Indices, f.index) /\ f.daddr = 0
    BY <1>1, <2>6 DEF H
  <2>9. EaddrSays(t, i, j, f)
    BY <2>5, <2>6, <2>7, <2>8 DEF EaddrSays, K, N
  <2>. QED  BY <1>1, <2>9 DEF j
<1>. QED  BY <1>1, <1>4, <1>5

LEMMA DirectMeant ==
  ASSUME NEW t, IsProgram(t), NEW i \in 1 .. Len(t), DirectEnd(t, i) # 0
  PROVE  \E f : /\ parse_direct_address(t, i, NoAddress) = Parsed(DirectEnd(t, i), f)
                /\ EaddrSays(t, i, DirectEnd(t, i), f)
<1>. DEFINE n == IF Is(t, i, OprMath) THEN i + 1 ELSE i
            f == [NoAddress EXCEPT !.daddr = S16(t[n].val)]
            j == DirectEnd(t, i)
            K == G!KindsIn(t, i, j)
            N == G!NumbersIn(t, i, j)
<1>0. i \in Nat /\ OprMath = {"PLUS", "MINUS"}
  BY Places DEF OprMath
<1>1. /\ t[n].kind = "NUM" /\ j = n + 1
      /\ n = i \/ (n = i + 1 /\ t[i].kind \in OprMath)
  BY DEF DirectEnd, Is, OprMath
<1>2. parse_direct_address(t, i, NoAddress) = Parsed(j, f)
  BY <1>1 DEF parse_direct_address, Is
<1>3. f.base = "NULL" /\ f.index = "NULL" /\ f.disp = 0 /\ f.daddr = S16(t[n].val)
  BY DEF NoAddress
<1>. HIDE DEF f, n
<1>4. K \subseteq {"NUM", "PLUS", "MINUS"} /\ N = {n}
  <2>1. CASE n = i
    <3>1. /\ G!KindsIn(t, i, i + 1) = {t[i].kind}
          /\ G!NumbersIn(t, i, i + 1) = IF t[i].kind \in {"NUM", "ZERO"} THEN {i} ELSE {}
      BY <1>0, TokenText
    <3>2. j = i + 1 /\ t[i].kind = "NUM"
      BY <1>1, <2>1
    <3>. HIDE DEF j
    <3>. QED  BY <2>1, <3>1, <3>2
  <2>2. CASE n = i + 1 /\ t[i].kind \in OprMath
    <3>1. j = i + 2 /\ t[i + 1].kind = "NUM" /\ t[i].kind \in {"PLUS", "MINUS"}
      BY <1>0, <1>1, <2>2
    <3>2. /\ G!KindsIn(t, i, i + 2) = {t[i].kind, t[i + 1].kind}
          /\ G!NumbersIn(t, i, i + 2) = {i + 1}
      BY <1>0, <3>1, TwoTokenText
    <3>. HIDE DEF j
    <3>. QED  BY <2>2, <3>1, <3>2
  <2>. QED  BY <1>1, <2>1, <2>2
<1>. HIDE DEF j, K, N
<1>5. /\ K \cap Bases = {} /\ K \cap Indices = {} /\ K \cap (Bases \cup Indices) = {}
      /\ K \subseteq Bases \cup Indices \cup {"PLUS", "MINUS", "NUM"}
  BY <1>4 DEF Bases, Indices
<1>6. G!Shows({}, "NULL")
  BY DEF G!Shows
<1>7. EaddrSays(t, i, j, f)
  BY <1>3, <1>4, <1>5, <1>6 DEF EaddrSays, K, N
<1>. QED  BY <1>2, <1>7 DEF j

LEMMA EaddrMeant ==
  ASSUME NEW t, IsProgram(t), NEW i \in 1 .. Len(t), EaddrEnd(t, i) # 0
  PROVE  \E f : /\ parse_eaddr(t, i, NoAddress) = Parsed(EaddrEnd(t, i), f)
                /\ EaddrSays(t, i, EaddrEnd(t, i), f)
<1>. DEFINE b == t[i].kind
            x == t[i + 2].kind
            based   == [NoAddress EXCEPT !.base = b]
            both    == [based EXCEPT !.index = x]
            indexed == [NoAddress EXCEPT !.index = b]
<1>0. i \in Nat /\ Len(t) \in Nat /\ i + 1 \in Nat /\ i + 2 \in Nat
  BY Places
<1>1. G!Shows({}, "NULL") /\ \A r \in Bases \cup Indices : G!Shows({r}, r)
  BY DEF G!Shows, Bases, Indices
<1>2. CASE Is(t, i, Bases) /\ Is(t, i + 1, {"PLUS"}) /\ Is(t, i + 2, Indices)
  <2>1. b \in Bases /\ t[i + 1].kind = "PLUS" /\ x \in Indices
    BY <1>2 DEF Is
  <2>2. i + 3 \in 1 .. Len(t) /\ i + 3 \in Nat
    <3>1. i + 1 \in 1 .. Len(t)
      BY <2>1, Places DEF Bases
    <3>2. (i + 1) + 1 \in 1 .. Len(t)
      BY <2>1, <3>1, Places
    <3>3. ((i + 1) + 1) + 1 \in 1 .. Len(t)
      BY <2>1, <3>2, Places DEF Indices
    <3>. QED  BY <3>3
  <2>3. G!KindsIn(t, i, i + 3) = {b, "PLUS", x} /\ G!NumbersIn(t, i, i + 3) = {}
    <3>1. i + 2 \in i .. i + 3
      BY <1>0
    <3>2. /\ G!KindsIn(t, i, i + 3) = G!KindsIn(t, i, i + 2) \cup G!KindsIn(t, i + 2, i + 3)
          /\ G!NumbersIn(t, i, i + 3) = G!NumbersIn(t, i, i + 2) \cup G!NumbersIn(t, i + 2, i + 3)
      <4>. DEFINE j == i + 3
                  m == i + 2
      <4>1. i \in Nat /\ j \in Nat /\ m \in i .. j
        BY <1>0, <2>2, <3>1
      <4>. HIDE DEF j, m
      <4>2. /\ G!KindsIn(t, i, j) = G!KindsIn(t, i, m) \cup G!KindsIn(t, m, j)
            /\ G!NumbersIn(t, i, j) = G!NumbersIn(t, i, m) \cup G!NumbersIn(t, m, j)
        BY ONLY <4>1, PartsOfText
      <4>. QED  BY <4>2 DEF j, m
    <3>3. /\ G!KindsIn(t, i, i + 2) = {b, "PLUS"}
          /\ b \notin {"NUM", "ZERO"} => G!NumbersIn(t, i, i + 2) = {}
      <4>1. /\ G!KindsIn(t, i, i + 2) = {t[i].kind, t[i + 1].kind}
            /\ t[i].kind \notin {"NUM", "ZERO"} =>
                  G!NumbersIn(t, i, i + 2) = IF t[i + 1].kind \in {"NUM", "ZERO"} THEN {i + 1} ELSE {}
        BY ONLY <1>0, TwoTokenText
      <4>. QED  BY ONLY <2>1, <4>1
    <3>4. /\ G!KindsIn(t, i + 2, (i + 2) + 1) = {x}
          /\ G!NumbersIn(t, i + 2, (i + 2) + 1) = IF x \in {"NUM", "ZERO"} THEN {i + 2} ELSE {}
      BY <1>0, TokenText
    <3>5. (i + 2) + 1 = i + 3 /\ b \notin {"NUM", "ZERO"} /\ x \notin {"NUM", "ZERO"}
      BY <1>0, <2>1 DEF Bases, Indices
    <3>. HIDE DEF b, x
    <3>. QED  BY <3>2, <3>3, <3>4, <3>5
  <2>4. IsAddress(both) /\ both.base = b /\ both.index = x /\ both.disp = 0 /\ both.daddr = 0
    BY <2>1, ZeroFits DEF IsAddress, NoAddress
  <2>5. parse_eaddr(t, i, NoAddress) = Optional(parse_signed_num(t, i + 3, both))
        /\ EaddrEnd(t, i) = SignedEnd(t, i + 3)
    BY <1>2 DEF parse_eaddr, EaddrEnd
  <2>. DEFINE H == {b, "PLUS", x}
  <2>. HIDE DEF both, b, x
  <2>6. /\ H \cap Bases = {b} /\ H \cap Indices = {x} /\ H \subseteq Bases \cup Indices \cup {"PLUS"}
        /\ H \cap (Bases \cup Indices) # {}
    BY <2>1 DEF Bases, Indices
  <2>7. i <= i + 3 /\ G!Shows({b}, b) /\ G!Shows({x}, x)
    BY <1>0, <1>1, <2>1
  <2>8. \E f : /\ Optional(parse_signed_num(t, i + 3, both)) = Parsed(SignedEnd(t, i + 3), f)
               /\ EaddrSays(t, i, SignedEnd(t, i + 3), f)
    <3>. DEFINE m == i + 3
    <3>1. /\ m \in 1 .. Len(t) /\ i <= m /\ G!KindsIn(t, i, m) = H /\ G!NumbersIn(t, i, m) = {}
          /\ H \cap Bases = {b} /\ H \cap Indices = {x} /\ H \subseteq Bases \cup Indices \cup {"PLUS"}
          /\ H \cap (Bases \cup Indices) # {}
          /\ IsAddress(both) /\ both.disp = 0 /\ both.daddr = 0
          /\ G!Shows({b}, both.base) /\ G!Shows({x}, both.index)
      BY <2>2, <2>3, <2>4, <2>6, <2>7
    <3>. HIDE DEF m, H
    <3>2. \E f : /\ Optional(parse_signed_num(t, m, both)) = Parsed(SignedEnd(t, m), f)
                 /\ EaddrSays(t, i, SignedEnd(t, m), f)
      BY ONLY <1>0, <3>1, IsProgram(t), RegistersMeant
    <3>. QED  BY <3>2 DEF m
  <2>. QED  BY <2>5, <2>8
<1>3. ASSUME NEW e, IsAddress(e), b \in Bases \cup Indices, e.disp = 0, e.daddr = 0,
             G!Shows({b} \cap Bases, e.base), G!Shows({b} \cap Indices, e.index),
             parse_eaddr(t, i, NoAddress) = Optional(parse_signed_num(t, i + 1, e)),
             EaddrEnd(t, i) = SignedEnd(t, i + 1)
      PROVE  \E f : /\ parse_eaddr(t, i, NoAddress) = Parsed(EaddrEnd(t, i), f)
                    /\ EaddrSays(t, i, EaddrEnd(t, i), f)
  <2>1. i + 1 \in 1 .. Len(t) /\ i <= i + 1
    BY <1>0, <1>3, Places DEF Bases, Indices
  <2>2. G!KindsIn(t, i, i + 1) = {b} /\ G!NumbersIn(t, i, i + 1) = {}
    <3>1. /\ G!KindsIn(t, i, i + 1) = {b}
          /\ G!NumbersIn(t, i, i + 1) = IF b \in {"NUM", "ZERO"} THEN {i} ELSE {}
      BY <1>0, TokenText
    <3>2. b \notin {"NUM", "ZERO"}
      BY <1>3 DEF Bases, Indices
    <3>. QED  BY <3>1, <3>2
  <2>. HIDE DEF b
  <2>3. {b} \cap (Bases \cup Indices) # {} /\ {b} \subseteq Bases \cup Indices \cup {"PLUS"}
    BY <1>3
  <2>4. \E f : /\ Optional(parse_signed_num(t, i + 1, e)) = Parsed(SignedEnd(t, i + 1), f)
               /\ EaddrSays(t, i, SignedEnd(t, i + 1), f)
    BY <1>0, <1>3, <2>1, <2>2, <2>3, RegistersMeant
  <2>. QED  BY <1>3, <2>4
<1>4. CASE Is(t, i, Bases) /\ ~ (Is(t, i + 1, {"PLUS"}) /\ Is(t, i + 2, Indices))
  <2>1. b \in Bases
    BY <1>4 DEF Is
  <2>2. parse_eaddr(t, i, NoAddress) = Optional(parse_signed_num(t, i + 1, based))
        /\ EaddrEnd(t, i) = SignedEnd(t, i + 1)
    BY <1>4 DEF parse_eaddr, EaddrEnd
  <2>3. IsAddress(based) /\ based.base = b /\ based.index = "NULL" /\ based.disp = 0 /\ based.daddr = 0
    BY <2>1, ZeroFits DEF IsAddress, NoAddress
  <2>. HIDE DEF b, based
  <2>4. {b} \cap Bases = {b} /\ {b} \cap Indices = {} /\ b \in Bases \cup Indices
    BY <2>1 DEF Bases, Indices
  <2>5. G!Shows({b} \cap Bases, based.base) /\ G!Shows({b} \cap Indices, based.index)
    BY <1>1, <2>3, <2>4
  <2>. QED  BY <1>3, <2>2, <2>3, <2>4, <2>5
<1>5. CASE ~ Is(t, i, Bases) /\ Is(t, i, Indices)
  <2>1. b \in Indices
    BY <1>5 DEF Is
  <2>2. parse_eaddr(t, i, NoAddress) = Optional(parse_signed_num(t, i + 1, indexed))
        /\ EaddrEnd(t, i) = SignedEnd(t, i + 1)
    BY <1>5 DEF parse_eaddr, EaddrEnd
  <2>3. IsAddress(indexed) /\ indexed.index = b /\ indexed.base = "NULL" /\ indexed.disp = 0 /\ indexed.daddr = 0
    BY <2>1, ZeroFits DEF IsAddress, NoAddress
  <2>. HIDE DEF b, indexed
  <2>4. {b} \cap Bases = {} /\ {b} \cap Indices = {b} /\ b \in Bases \cup Indices
    BY <2>1 DEF Bases, Indices
  <2>5. G!Shows({b} \cap Bases, indexed.base) /\ G!Shows({b} \cap Indices, indexed.index)
    BY <1>1, <2>3, <2>4
  <2>. QED  BY <1>3, <2>2, <2>3, <2>4, <2>5
<1>6. CASE ~ Is(t, i, Bases) /\ ~ Is(t, i, Indices)
  <2>1. EaddrEnd(t, i) = DirectEnd(t, i)
        /\ parse_eaddr(t, i, NoAddress) = parse_direct_address(t, i, NoAddress)
    BY <1>6 DEF EaddrEnd, parse_eaddr
  <2>. QED  BY <2>1, DirectMeant
<1>. QED  BY <1>2, <1>4, <1>5, <1>6

(* An operand record that says what the tokens say, and has no prefixes yet.        *)
Meant(t, i, j, o) == /\ G!Says(t, i, j, WithSign(t, i, j, o)) /\ DOMAIN o = DOMAIN NoOperand
                     /\ o.prefix_size = {} /\ o.prefix_seg_ovr = {}

LEMMA BracketText ==
  ASSUME NEW t, IsProgram(t), NEW i \in 1 .. Len(t), t[i].kind = "LSQUARE_BR"
  PROVE  /\ Inner(t, i) \in i + 1 .. i + 2 /\ Inner(t, i) \in 1 .. Len(t)
         /\ G!NumbersIn(t, i, Inner(t, i)) = {}
         /\ G!KindsIn(t, i, Inner(t, i)) \subseteq {"LSQUARE_BR", "PLUS"}
<1>0. i \in Nat /\ Len(t) \in Nat
  BY Places
<1>1. i + 1 \in 1 .. Len(t) /\ (t[i + 1].kind = "PLUS" => i + 2 \in 1 .. Len(t))
  <2>1. i + 1 \in 1 .. Len(t)
    BY Places
  <2>2. t[i + 1].kind = "PLUS" => (i + 1) + 1 \in 1 .. Len(t)
    BY <2>1, Places
  <2>. QED  BY <1>0, <2>1, <2>2
<1>2. CASE t[i + 1].kind = "PLUS"
  <2>1. Inner(t, i) = i + 2
    BY <1>2 DEF Inner, Is
  <2>2. /\ G!KindsIn(t, i, i + 2) = {t[i].kind, t[i + 1].kind}
        /\ t[i].kind \notin {"NUM", "ZERO"} =>
              G!NumbersIn(t, i, i + 2) = IF t[i + 1].kind \in {"NUM", "ZERO"} THEN {i + 1} ELSE {}
    BY ONLY <1>0, TwoTokenText
  <2>. QED  BY <1>0, <1>1, <1>2, <2>1, <2>2
<1>3. CASE t[i + 1].kind # "PLUS"
  <2>1. Inner(t, i) = i + 1
    BY <1>3 DEF Inner, Is
  <2>2. /\ G!KindsIn(t, i, i + 1) = {t[i].kind}
        /\ G!NumbersIn(t, i, i + 1) = IF t[i].kind \in {"NUM", "ZERO"} THEN {i} ELSE {}
    BY ONLY <1>0, TokenText
  <2>. QED  BY <1>0, <1>1, <2>1, <2>2
<1>. QED  BY <1>2, <1>3

LEMMA MemoryMeant ==
  ASSUME NEW t, IsProgram(t), NEW i \in 1 .. Len(t), MemoryEnd(t, i) # 0
  PROVE  \E o : parse_eaddr__(t, i) = Parsed(MemoryEnd(t, i), o) /\ Meant(t, i, MemoryEnd(t, i), o)
<1>. DEFINE m == Inner(t, i)
            k == EaddrEnd(t, m)
            j == k + 1
            B == G!KindsIn(t, i, m)
            E == G!KindsIn(t, m, k)
            N == G!NumbersIn(t, m, k)
            r == parse_eaddr_(t, i + 1, NoAddress)
<1>1. /\ t[i].kind = "LSQUARE_BR" /\ Is(t, i, {"LSQUARE_BR"}) /\ k # 0 /\ t[k].kind = "RSQUARE_BR"
      /\ Is(t, k, {"RSQUARE_BR"}) /\ MemoryEnd(t, i) = j
  BY DEF MemoryEnd, Is
<1>2. /\ m \in i + 1 .. i + 2 /\ m \in 1 .. Len(t)
      /\ G!NumbersIn(t, i, m) = {} /\ B \subseteq {"LSQUARE_BR", "PLUS"}
  BY <1>1, BracketText
<1>3. PICK f : parse_eaddr(t, m, NoAddress) = Parsed(k, f) /\ EaddrSays(t, m, k, f)
  <2>. HIDE DEF m
  <2>. QED  BY <1>1, <1>2, EaddrMeant
<1>4. i \in Nat /\ m \in Nat /\ k \in Nat /\ k \in m .. k /\ m \in i .. k /\ k \in 1 .. Len(t)
  <2>1. IsAddress(NoAddress)
    BY ZeroFits DEF IsAddress, NoAddress
  <2>2. k \in m + 1 .. Len(t)
    <3>. HIDE DEF m
    <3>. QED  BY <1>1, <1>2, <2>1, EaddrResult
  <2>3. i \in Nat /\ Len(t) \in Nat
    BY Places
  <2>. HIDE DEF k, m
  <2>. QED  BY <1>2, <2>2, <2>3
<1>5. parse_eaddr__(t, i) = Parsed(j, MemoryOperand(f))
  <2>1. r = IF parse_eaddr(t, m, NoAddress).ok THEN parse_eaddr(t, m, NoAddress)
            ELSE NotParsed(i + 1, parse_eaddr(t, m, NoAddress).out)
    <3>1. (IF Is(t, i + 1, {"PLUS"}) THEN (i + 1) + 1 ELSE i + 1) = m
      BY <1>4 DEF Inner
    <3>. QED  BY <3>1 DEF parse_eaddr_
  <2>2. r.ok = TRUE /\ r.at = k /\ r.out = f
    BY <1>3, <2>1, ParsedParts
  <2>. HIDE DEF r, k
  <2>. QED  BY <1>1, <2>2 DEF parse_eaddr__, r
<1>. DEFINE o == MemoryOperand(f)
            K == G!KindsIn(t, i, j)
<1>. HIDE DEF k, m
<1>6. /\ G!KindsIn(t, i, k) = B \cup E /\ G!NumbersIn(t, i, k) = N
      /\ K = B \cup E \cup {"RSQUARE_BR"} /\ G!NumbersIn(t, i, j) = N
  <2>1. /\ G!KindsIn(t, i, k) = B \cup E
        /\ G!NumbersIn(t, i, k) = G!NumbersIn(t, i, m) \cup N
    BY ONLY <1>4, PartsOfText
  <2>3. /\ G!KindsIn(t, i, j) = G!KindsIn(t, i, k) \cup G!KindsIn(t, k, j)
        /\ G!NumbersIn(t, i, j) = G!NumbersIn(t, i, k) \cup G!NumbersIn(t, k, j)
    <3>1. i \in Nat /\ k \in i .. j /\ j \in Nat
      BY <1>4
    <3>. HIDE DEF j
    <3>. QED  BY ONLY <3>1, PartsOfText
  <2>4. /\ G!KindsIn(t, k, k + 1) = {t[k].kind}
        /\ G!NumbersIn(t, k, k + 1) = IF t[k].kind \in {"NUM", "ZERO"} THEN {k} ELSE {}
    BY ONLY <1>4, TokenText
  <2>. HIDE DEF B, E, N
  <2>. QED  BY <1>1, <1>2, <2>1, <2>3, <2>4
<1>7. /\ E \subseteq Bases \cup Indices \cup {"PLUS", "MINUS", "NUM"}
      /\ G!Shows(E \cap Bases, f.base) /\ G!Shows(E \cap Indices, f.index)
      /\ \/ N = {} /\ f.disp = 0 /\ f.daddr = 0
         \/ \E n \in N : /\ N = {n} /\ E \cap (Bases \cup Indices) # {} /\ f.daddr = 0
                         /\ f.disp = S16(IF "MINUS" \in E THEN - t[n].val ELSE t[n].val)
         \/ \E n \in N : /\ N = {n} /\ E \cap (Bases \cup Indices) = {}
                         /\ f.disp = 0 /\ f.daddr = S16(t[n].val)
  BY <1>3 DEF EaddrSays
<1>8. FieldsAre(o, "NULL", f.base, f.index, <<f.disp, f.daddr, 0, 0, 0>>, "NULL", NoName)
  BY FieldsOfOperands
<1>. HIDE DEF o, B, E, N, K
<1>9. /\ K \cap Bases = E \cap Bases /\ K \cap Indices = E \cap Indices
      /\ K \cap (Bases \cup Indices) = E \cap (Bases \cup Indices)
      /\ "MINUS" \in K <=> "MINUS" \in E
      /\ K \cap Sizes = {} /\ (B \cup E) \cap Members(Segments) = {}
  BY <1>2, <1>6, <1>7, RegisterSets DEF Bases, Indices, Sizes
<1>. DEFINE q == WithSign(t, i, j, o)
            minus == K \cap (Bases \cup Indices) = {} /\ "MINUS" \in K
<1>13. /\ DOMAIN o = DOMAIN NoOperand /\ o.reg = "NULL" /\ o.base = f.base /\ o.index = f.index
       /\ o.disp = f.disp /\ o.daddr = f.daddr /\ o.imm = 0 /\ o.selector = 0 /\ o.offset = 0
       /\ o.seg = "NULL" /\ o.label = NoName /\ o.prefix_size = {} /\ o.prefix_seg_ovr = {}
  BY <1>8 DEF FieldsAre
<1>14. /\ q.reg = "NULL" /\ q.base = f.base /\ q.index = f.index /\ q.seg = "NULL" /\ q.label = NoName
       /\ q.prefix_size = {} /\ q.prefix_seg_ovr = {} /\ q.kind = o.kind /\ q.mod = o.mod /\ q.rm = o.rm
       /\ q.disp = f.disp /\ q.imm = 0 /\ q.selector = 0 /\ q.offset = 0
       /\ q.daddr = IF minus THEN S16(- f.daddr) ELSE f.daddr
  <2>1. j - 1 = k
    BY <1>4
  <2>. HIDE DEF j
  <2>. QED  BY <1>1, <1>13, <2>1, SignedFields DEF K
<1>. HIDE DEF q, minus
<1>15. \A n \in N : t[n].val \in Int
  <2>. SUFFICES ASSUME NEW n \in N PROVE t[n].val \in Int
    OBVIOUS
  <2>1. n \in m .. k - 1 /\ t[n].kind \in {"NUM", "ZERO"}
    BY DEF N, G!NumbersIn
  <2>2. n \in 1 .. Len(t)
    BY <1>2, <1>4, <2>1, Places
  <2>. QED  BY <2>1, <2>2, Numbers
<1>10. G!SaysNumbers(t, N, K, TRUE, q)
  <2>. DEFINE numbers == <<q.disp, q.daddr, q.imm, q.selector, q.offset>>
  <2>1. numbers = <<f.disp, IF minus THEN S16(- f.daddr) ELSE f.daddr, 0, 0, 0>>
    BY <1>14
  <2>2. CASE N = {} /\ f.disp = 0 /\ f.daddr = 0
    <3>1. S16(- 0) = 0
      BY DEF S16
    <3>. QED  BY <2>1, <2>2, <3>1, NumbersSaid
  <2>3. ASSUME NEW n \in N, N = {n}, E \cap (Bases \cup Indices) # {}, f.daddr = 0,
               f.disp = S16(IF "MINUS" \in E THEN - t[n].val ELSE t[n].val)
        PROVE  G!SaysNumbers(t, N, K, TRUE, q)
    <3>. DEFINE v == S16(IF "MINUS" \in K THEN - t[n].val ELSE t[n].val)
    <3>1. f.disp = v /\ ~ minus
      BY <1>9, <2>3 DEF minus
    <3>2. numbers = IF ~ TRUE THEN <<0, 0, v, 0, 0>>
                    ELSE IF K \cap (Bases \cup Indices) = {} THEN <<0, v, 0, 0, 0>>
                    ELSE <<v, 0, 0, 0, 0>>
      <4>. HIDE DEF v, numbers
      <4>. QED  BY <1>9, <2>1, <2>3, <3>1
    <3>. QED  BY <2>3, <3>2, NumbersSaid
  <2>4. ASSUME NEW n \in N, N = {n}, E \cap (Bases \cup Indices) = {}, f.disp = 0, f.daddr = S16(t[n].val)
        PROVE  G!SaysNumbers(t, N, K, TRUE, q)
    <3>. DEFINE v == S16(IF "MINUS" \in K THEN - t[n].val ELSE t[n].val)
    <3>1. (IF minus THEN S16(- f.daddr) ELSE f.daddr) = v
      <4>1. S16(- S16(t[n].val)) = S16(- t[n].val)
        BY <1>15, SignedMeans DEF Signed
      <4>2. minus <=> "MINUS" \in K
        BY <1>9, <2>4 DEF minus
      <4>. QED  BY <2>4, <4>1, <4>2
    <3>2. numbers = IF ~ TRUE THEN <<0, 0, v, 0, 0>>
                    ELSE IF K \cap (Bases \cup Indices) = {} THEN <<0, v, 0, 0, 0>>
                    ELSE <<v, 0, 0, 0, 0>>
      <4>. HIDE DEF v, numbers
      <4>. QED  BY <1>9, <2>1, <2>4, <3>1
    <3>. QED  BY <2>4, <3>2, NumbersSaid
  <2>. QED  BY <1>7, <2>2, <2>3, <2>4
<1>16. \A two : G!SaysKind("RSQUARE_BR", K \cap (Bases \cup Indices), two, q)
  <2>. DEFINE R == K \cap (Bases \cup Indices)
  <2>1. E \cap Bases = {f.base} \ {"NULL"} /\ E \cap Indices = {f.index} \ {"NULL"}
    BY <1>7 DEF G!Shows
  <2>2. R = {f.base, f.index} \ {"NULL"}
    BY <1>9, <2>1
  <2>3. f.base \in Bases \cup {"NULL"} /\ f.index \in Indices \cup {"NULL"}
    BY <2>1
  <2>4. (R = {} => f.disp = 0) /\ (R # {} => f.daddr = 0)
    BY <1>7, <1>9
  <2>. HIDE DEF R
  <2>5. \A two : G!SaysKind("RSQUARE_BR", R, two, o)
    BY <2>2, <2>3, <2>4, MemoryKind DEF o
  <2>6. \A two : G!SaysKind("RSQUARE_BR", R, two, q)
    BY <1>13, <1>14, <2>5, SameKind
  <2>. QED  BY <2>6 DEF R
<1>11. G!Says(t, i, j, q)
  <2>1. j - 1 = k /\ "RSQUARE_BR" \notin Members(Segments)
    BY <1>4, RegisterSets
  <2>. DEFINE last == t[j - 1]
              two  == G!NumbersIn(t, i, j) # {j - 1}
  <2>2. last.kind = "RSQUARE_BR" /\ G!KindsIn(t, i, j - 1) = B \cup E /\ G!NumbersIn(t, i, j) = N
    BY <1>1, <1>6, <2>1
  <2>3. G!Shows(K \cap Bases, q.base) /\ G!Shows(K \cap Indices, q.index)
    BY <1>7, <1>9, <1>14
  <2>4. (last.kind = "RSQUARE_BR") = TRUE
    BY <2>2
  <2>5. G!SaysKind(last.kind, K \cap (Bases \cup Indices), two, q)
    BY <1>16, <2>2
  <2>6. /\ q.seg = IF last.kind \in Members(Segments) THEN last.kind ELSE "NULL"
        /\ q.label = IF last.kind = "LABEL" THEN last.val ELSE NoName
        /\ q.prefix_size = K \cap Sizes
        /\ q.prefix_seg_ovr = (B \cup E) \cap Members(Segments)
        /\ q.reg = "NULL"
    <3>. HIDE DEF last
    <3>. QED  BY <1>9, <1>14, <2>1, <2>2
  <2>7. G!SaysNumbers(t, G!NumbersIn(t, i, j), K, last.kind = "RSQUARE_BR", q)
    <3>. HIDE DEF last
    <3>. QED  BY ONLY <1>10, <2>2, <2>4, Zenon
  <2>8. K = G!KindsIn(t, i, j)
    BY DEF K
  <2>. HIDE DEF j
  <2>. QED  BY ONLY <2>2, <2>3, <2>5, <2>6, <2>7, <2>8, SaysParts, Zenon DEF last, two
<1>12. Meant(t, i, j, o)
  BY <1>11, <1>13 DEF Meant, q
<1>. QED  BY <1>1, <1>5, <1>12 DEF o

(* A register, a segment register or a label.                                       *)
LEMMA SingleMeant ==
  ASSUME NEW t, NEW i \in Nat
  PROVE  /\ t[i].kind \in General => Meant(t, i, i + 1, RegisterOperand(t[i].kind))
         /\ t[i].kind \in Members(Segments) => Meant(t, i, i + 1, SegmentOperand(t[i].kind))
         /\ t[i].kind = "LABEL" => Meant(t, i, i + 1, LabelOperand(t[i].val))
<1>. DEFINE k == t[i].kind
            j == i + 1
<1>1. /\ (i + 1) - 1 = i
      /\ G!KindsIn(t, i, i) = {} /\ G!KindsIn(t, i, i + 1) = {k}
      /\ G!NumbersIn(t, i, i + 1) = IF k \in {"NUM", "ZERO"} THEN {i} ELSE {}
  <2>1. /\ G!KindsIn(t, i, i) = {} /\ G!KindsIn(t, i, i + 1) = {t[i].kind}
        /\ G!NumbersIn(t, i, i + 1) = IF t[i].kind \in {"NUM", "ZERO"} THEN {i} ELSE {}
    BY TokenText
  <2>2. (i + 1) - 1 = i
    OBVIOUS
  <2>. QED  BY <2>1, <2>2
<1>2. j - 1 = i /\ G!KindsIn(t, i, j - 1) = {} /\ G!KindsIn(t, i, j) = {k}
      /\ G!NumbersIn(t, i, j) = IF k \in {"NUM", "ZERO"} THEN {i} ELSE {}
  BY <1>1
<1>. HIDE DEF j, k
<1>3. ASSUME NEW o, NEW reg, NEW seg, NEW label,
             FieldsAre(o, reg, "NULL", "NULL", <<0, 0, 0, 0, 0>>, seg, label),
             k \notin {"NUM", "ZERO", "RSQUARE_BR", "BYTE", "WORD"},
             G!Shows({k} \cap General, reg),
             seg = IF k \in Members(Segments) THEN k ELSE "NULL",
             label = IF k = "LABEL" THEN t[i].val ELSE NoName,
             \A R, two : G!SaysKind(k, R, two, o)
      PROVE  Meant(t, i, j, o)
  <2>1. /\ o.reg = reg /\ o.base = "NULL" /\ o.index = "NULL" /\ o.seg = seg /\ o.label = label
        /\ o.prefix_size = {} /\ o.prefix_seg_ovr = {} /\ DOMAIN o = DOMAIN NoOperand
        /\ <<o.disp, o.daddr, o.imm, o.selector, o.offset>> = <<0, 0, 0, 0, 0>>
    BY <1>3 DEF FieldsAre
  <2>2. G!SaysNumbers(t, {}, {k}, FALSE, o)
    BY <2>1, NumbersSaid
  <2>3. G!NumbersIn(t, i, j) = {} /\ k # "RSQUARE_BR" /\ {k} \cap Sizes = {}
    BY <1>2, <1>3 DEF Sizes
  <2>4. G!Says(t, i, j, o)
    BY <1>2, <1>3, <2>1, <2>2, <2>3, SaysParts DEF k
  <2>5. WithSign(t, i, j, o) = o
    BY <1>2, <2>1, <2>3, SignedFields DEF k
  <2>. QED  BY <2>1, <2>4, <2>5 DEF Meant
<1>4. CASE k \in General
  <2>1. /\ k \notin {"NUM", "ZERO", "RSQUARE_BR", "BYTE", "WORD"} /\ G!Shows({k} \cap General, k)
        /\ k \notin Members(Segments) /\ k # "LABEL"
    BY <1>4, RegisterSets DEF General, G!Shows
  <2>2. FieldsAre(RegisterOperand(k), k, "NULL", "NULL", <<0, 0, 0, 0, 0>>, "NULL", NoName)
    BY FieldsOfOperands
  <2>3. \A R, two : G!SaysKind(k, R, two, RegisterOperand(k))
    BY <1>4, KindsOfOperands
  <2>. QED  BY <1>3, <2>1, <2>2, <2>3 DEF k, j
<1>5. CASE k \in Members(Segments)
  <2>1. /\ k \notin {"NUM", "ZERO", "RSQUARE_BR", "BYTE", "WORD"} /\ G!Shows({k} \cap General, "NULL")
        /\ k \notin General /\ k # "LABEL"
    BY <1>5, RegisterSets DEF General, G!Shows
  <2>2. FieldsAre(SegmentOperand(k), "NULL", "NULL", "NULL", <<0, 0, 0, 0, 0>>, k, NoName)
    BY FieldsOfOperands
  <2>3. \A R, two : G!SaysKind(k, R, two, SegmentOperand(k))
    BY <1>5, KindsOfOperands
  <2>. QED  BY <1>3, <1>5, <2>1, <2>2, <2>3 DEF k, j
<1>6. CASE k = "LABEL"
  <2>1. /\ k \notin {"NUM", "ZERO", "RSQUARE_BR", "BYTE", "WORD"} /\ G!Shows({k} \cap General, "NULL")
        /\ k \notin General /\ k \notin Members(Segments)
    BY <1>6, RegisterSets DEF General, G!Shows
  <2>2. FieldsAre(LabelOperand(t[i].val), "NULL", "NULL", "NULL", <<0, 0, 0, 0, 0>>, "NULL", t[i].val)
    BY FieldsOfOperands
  <2>3. \A R, two : G!SaysKind(k, R, two, LabelOperand(t[i].val))
    BY <1>6, KindsOfOperands
  <2>. QED  BY <1>3, <1>6, <2>1, <2>2, <2>3 DEF k, j
<1>. QED  BY <1>4, <1>5, <1>6 DEF k, j

LEMMA PointerMeant ==
  ASSUME NEW t, IsProgram(t), NEW i \in 1 .. Len(t), PointerAt(t, i)
  PROVE  \E o : parse_pointer(t, i) = Parsed(i + 3, o) /\ Meant(t, i, i + 3, o)
<1>. DEFINE j == i + 3
            m == i + 2
            o == PointerOperand(t[i].val, t[m].val)
            K == {"NUM", "COLON"}
<1>1. t[i].kind = "NUM" /\ t[i + 1].kind = "COLON" /\ t[m].kind = "NUM"
  BY DEF PointerAt, Is
<1>2. parse_pointer(t, i) = Parsed(j, o)
  BY DEF PointerAt, parse_pointer
<1>3. i \in Nat /\ i + 1 \in Nat /\ m \in Nat /\ j \in Nat /\ m \in i .. j /\ j - 1 = m /\ j = m + 1
      /\ i + 1 \in i .. m /\ m = (i + 1) + 1 /\ i < m
  BY Places
<1>4. FieldsAre(o, "NULL", "NULL", "NULL", <<0, 0, 0, S16(t[i].val), S16(t[m].val)>>, "NULL", NoName)
  BY FieldsOfOperands
<1>5. /\ G!KindsIn(t, i, i + 1) = {"NUM"} /\ G!NumbersIn(t, i, i + 1) = {i}
      /\ G!KindsIn(t, i + 1, m) = {"COLON"} /\ G!NumbersIn(t, i + 1, m) = {}
      /\ G!KindsIn(t, m, j) = {"NUM"} /\ G!NumbersIn(t, m, j) = {m}
  <2>1. \A n \in Nat : /\ G!KindsIn(t, n, n + 1) = {t[n].kind}
                       /\ t[n].kind \in {"NUM", "ZERO"} => G!NumbersIn(t, n, n + 1) = {n}
                       /\ t[n].kind \notin {"NUM", "ZERO"} => G!NumbersIn(t, n, n + 1) = {}
    BY TokenText
  <2>2. G!KindsIn(t, i, i + 1) = {"NUM"} /\ G!NumbersIn(t, i, i + 1) = {i}
    BY <1>1, <1>3, <2>1
  <2>3. G!KindsIn(t, i + 1, (i + 1) + 1) = {"COLON"} /\ G!NumbersIn(t, i + 1, (i + 1) + 1) = {}
    BY <1>1, <1>3, <2>1
  <2>4. G!KindsIn(t, m, m + 1) = {"NUM"} /\ G!NumbersIn(t, m, m + 1) = {m}
    <3>. HIDE DEF m
    <3>. QED  BY <1>1, <1>3, <2>1
  <2>. HIDE DEF m, j
  <2>. QED  BY <1>3, <2>2, <2>3, <2>4
<1>. HIDE DEF j, m, o
<1>6. /\ G!KindsIn(t, i, m) = K /\ G!NumbersIn(t, i, m) = {i}
      /\ G!KindsIn(t, i, j) = K /\ G!NumbersIn(t, i, j) = {i, m}
  <2>. DEFINE n == i + 1
  <2>1. n \in i .. m
    BY <1>3
  <2>2. /\ G!KindsIn(t, i, n) = {"NUM"} /\ G!NumbersIn(t, i, n) = {i}
        /\ G!KindsIn(t, n, m) = {"COLON"} /\ G!NumbersIn(t, n, m) = {}
    BY <1>5
  <2>. HIDE DEF n
  <2>3. /\ G!KindsIn(t, i, m) = G!KindsIn(t, i, n) \cup G!KindsIn(t, n, m)
        /\ G!NumbersIn(t, i, m) = G!NumbersIn(t, i, n) \cup G!NumbersIn(t, n, m)
    <3>1. i \in Nat /\ m \in Nat /\ n \in i .. m
      BY <1>3, <2>1
    <3>. QED  BY ONLY <3>1, PartsOfText
  <2>4. /\ G!KindsIn(t, i, j) = G!KindsIn(t, i, m) \cup G!KindsIn(t, m, j)
        /\ G!NumbersIn(t, i, j) = G!NumbersIn(t, i, m) \cup G!NumbersIn(t, m, j)
    <3>1. i \in Nat /\ j \in Nat /\ m \in i .. j
      BY <1>3
    <3>. QED  BY ONLY <3>1, PartsOfText
  <2>. QED  BY <1>5, <2>2, <2>3, <2>4
<1>7. /\ o.reg = "NULL" /\ o.base = "NULL" /\ o.index = "NULL" /\ o.seg = "NULL" /\ o.label = NoName
      /\ o.prefix_size = {} /\ o.prefix_seg_ovr = {} /\ DOMAIN o = DOMAIN NoOperand
      /\ <<o.disp, o.daddr, o.imm, o.selector, o.offset>> = <<0, 0, 0, S16(t[i].val), S16(t[m].val)>>
  BY <1>4 DEF FieldsAre
<1>8. G!SaysNumbers(t, {i, m}, K, FALSE, o)
  BY <1>3, <1>7, NumbersSaid
<1>9. /\ G!Shows(K \cap General, "NULL") /\ "NUM" \notin Members(Segments) /\ K \cap Sizes = {}
      /\ K \cap Members(Segments) = {}
  BY RegisterSets DEF General, Sizes, G!Shows
<1>12. \A R : G!SaysKind("NUM", R, {i, m} # {j - 1}, o)
  <2>1. ({i, m} # {j - 1}) = TRUE
    BY <1>3
  <2>. QED  BY <2>1, KindsOfOperands DEF o
<1>. HIDE DEF K
<1>10. G!Says(t, i, j, o)
  BY <1>1, <1>3, <1>6, <1>7, <1>8, <1>9, <1>12, SaysParts
<1>13. WithSign(t, i, j, o) = o
  BY <1>1, <1>3, <1>7, SignedFields
<1>11. Meant(t, i, j, o)
  BY <1>7, <1>10, <1>13 DEF Meant
<1>. QED  BY <1>2, <1>11 DEF j

LEMMA ImmMeant ==
  ASSUME NEW t, IsProgram(t), NEW i \in 1 .. Len(t), ImmEnd(t, i) # 0
  PROVE  \E o : parse_imm(t, i) = Parsed(ImmEnd(t, i), o) /\ Meant(t, i, ImmEnd(t, i), o)
<1>. DEFINE n == IF Is(t, i, OprMath) THEN i + 1 ELSE i
            j == ImmEnd(t, i)
            v == Signed(t[i].kind, t[n].val)
            o == ImmediateOperand(v)
            K == G!KindsIn(t, i, j)
            F == G!KindsIn(t, i, j - 1)
            N == G!NumbersIn(t, i, j)
<1>0. i \in Nat /\ OprMath = {"PLUS", "MINUS"}
  BY Places DEF OprMath
<1>1. /\ Is(t, n, {"NUM", "ZERO"}) /\ t[n].kind \in {"NUM", "ZERO"} /\ j = n + 1
      /\ n = i \/ (n = i + 1 /\ t[i].kind \in OprMath)
  BY DEF ImmEnd, Is, OprMath
<1>2. parse_imm(t, i) = Parsed(j, o)
  BY <1>1 DEF parse_imm
<1>3. n \in 1 .. Len(t)
  <2>1. t[i].kind \in OprMath => i + 1 \in 1 .. Len(t)
    BY Places DEF OprMath
  <2>. QED  BY <1>1, <2>1
<1>4. v = S16(IF t[i].kind = "MINUS" THEN - t[n].val ELSE t[n].val)
  <2>. HIDE DEF n
  <2>. QED  BY <1>1, <1>3, Numbers, SignedMeans
<1>5. FieldsAre(o, "NULL", "NULL", "NULL", <<0, 0, v, 0, 0>>, "NULL", NoName)
  BY FieldsOfOperands
<1>. HIDE DEF n, o, v
<1>6. /\ j - 1 = n /\ N = {n} /\ K \subseteq {"NUM", "ZERO", "PLUS", "MINUS"}
      /\ F \subseteq {"PLUS", "MINUS"} /\ ("MINUS" \in K <=> t[i].kind = "MINUS")
  <2>. HIDE DEF j
  <2>1. CASE n = i
    <3>1. /\ G!KindsIn(t, i, i) = {} /\ G!KindsIn(t, i, i + 1) = {t[i].kind}
          /\ G!NumbersIn(t, i, i + 1) = IF t[i].kind \in {"NUM", "ZERO"} THEN {i} ELSE {}
      BY <1>0, TokenText
    <3>2. j = i + 1 /\ j - 1 = i /\ t[i].kind \in {"NUM", "ZERO"}
      BY <1>0, <1>1, <2>1
    <3>. QED  BY <2>1, <3>1, <3>2
  <2>2. CASE n = i + 1 /\ t[i].kind \in OprMath
    <3>1. /\ G!KindsIn(t, i, i + 2) = {t[i].kind, t[i + 1].kind}
          /\ t[i].kind \notin {"NUM", "ZERO"} =>
                G!NumbersIn(t, i, i + 2) = IF t[i + 1].kind \in {"NUM", "ZERO"} THEN {i + 1} ELSE {}
      BY <1>0, TwoTokenText
    <3>2. G!KindsIn(t, i, i + 1) = {t[i].kind}
      BY <1>0, TokenText
    <3>3. j = i + 2 /\ j - 1 = i + 1 /\ t[i + 1].kind \in {"NUM", "ZERO"} /\ t[i].kind \in {"PLUS", "MINUS"}
      BY <1>0, <1>1, <2>2
    <3>. QED  BY <2>2, <3>1, <3>2, <3>3
  <2>. QED  BY <1>1, <2>1, <2>2
<1>. HIDE DEF j, K, F, N
<1>7. /\ o.reg = "NULL" /\ o.base = "NULL" /\ o.index = "NULL" /\ o.seg = "NULL" /\ o.label = NoName
      /\ o.prefix_size = {} /\ o.prefix_seg_ovr = {} /\ DOMAIN o = DOMAIN NoOperand
      /\ <<o.disp, o.daddr, o.imm, o.selector, o.offset>> = <<0, 0, v, 0, 0>>
  BY <1>5 DEF FieldsAre
<1>8. G!SaysNumbers(t, {n}, K, FALSE, o)
  <2>1. v = S16(IF "MINUS" \in K THEN - t[n].val ELSE t[n].val)
    BY <1>4, <1>6
  <2>. QED  BY <1>7, <2>1, NumbersSaid
<1>9. /\ G!Shows(K \cap General, "NULL") /\ t[n].kind \notin Members(Segments) /\ K \cap Sizes = {}
      /\ F \cap Members(Segments) = {} /\ t[n].kind # "RSQUARE_BR" /\ t[n].kind # "LABEL"
  <2>1. K \cap General = {}
    BY <1>6, RegisterSets DEF General
  <2>2. G!Shows({}, "NULL")
    BY DEF G!Shows
  <2>. QED  BY <1>1, <1>6, <2>1, <2>2, RegisterSets DEF Sizes
<1>12. \A R : G!SaysKind(t[n].kind, R, N # {j - 1}, o)
  <2>1. (N # {j - 1}) = FALSE
    BY <1>6
  <2>. QED  BY <1>1, <2>1, KindsOfOperands DEF o
<1>10. G!Says(t, i, j, o)
  BY <1>6, <1>7, <1>8, <1>9, <1>12, SaysParts DEF K, F, N
<1>13. WithSign(t, i, j, o) = o
  BY <1>6, <1>7, <1>9, SignedFields
<1>11. Meant(t, i, j, o)
  BY <1>7, <1>10, <1>13 DEF Meant
<1>. QED  BY <1>2, <1>11 DEF j

(* Whatever the operand is, its record says what its tokens say.                    *)
LEMMA OperandMeant ==
  ASSUME NEW t, IsProgram(t), NEW i \in 1 .. Len(t), OperandEnd(t, i) # 0
  PROVE  \E o : parse_operand(t, i) = Parsed(OperandEnd(t, i), o) /\ Meant(t, i, OperandEnd(t, i), o)
<1>1. i \in Nat
  BY Places
<1>2. /\ Is(t, i, General) => Meant(t, i, i + 1, RegisterOperand(t[i].kind))
      /\ Is(t, i, Members(Segments)) => Meant(t, i, i + 1, SegmentOperand(t[i].kind))
      /\ Is(t, i, {"LABEL"}) => Meant(t, i, i + 1, LabelOperand(t[i].val))
  BY <1>1, SingleMeant DEF Is
<1>3. CASE Is(t, i, General) \/ Is(t, i, Members(Segments)) \/ Is(t, i, {"LABEL"})
  BY <1>2, <1>3, OperandChoice
<1>4. CASE MemoryEnd(t, i) # 0
  BY <1>4, MemoryMeant, OperandChoice
<1>5. CASE PointerAt(t, i)
  BY <1>5, PointerMeant, OperandChoice
<1>6. CASE ImmEnd(t, i) # 0 /\ ~ PointerAt(t, i)
  BY <1>6, ImmMeant, OperandChoice
<1>. QED  BY <1>3, <1>4, <1>5, <1>6, OperandChoice

(* With its prefixes, and the sign of a direct address put back.                    *)
SaysOperand(t, i, j, o) == IF i >= j THEN o = NoOperand ELSE G!Says(t, i, j, WithSign(t, i, j, o))

LEMMA PrefixedMeant ==
  ASSUME NEW t, IsProgram(t), NEW i \in 1 .. Len(t), PrefixedEnd(t, i) # 0
  PROVE  \E o : /\ parse_operand_(t, i) = Parsed(PrefixedEnd(t, i), o)
                /\ SaysOperand(t, i, PrefixedEnd(t, i), o)
<1>. DEFINE s == Start(t, i)
            j == PrefixedEnd(t, i)
            P == G!KindsIn(t, i, s)
            after[k \in i .. Len(t)] ==
                IF parse_opr_prefix(t, k) = 0 THEN k ELSE after[k + parse_opr_prefix(t, k)]
            prefixed(o) == [o EXCEPT !.prefix_size = P \cap Sizes, !.prefix_seg_ovr = P \cap Members(Segments)]
            r == parse_operand(t, s)
<1>1. after[i] = s
  BY DEF Start, AfterOf, IsAfter
<1>2. parse_operand_(t, i) = IF r.ok THEN Parsed(r.at, prefixed(r.out))
                                     ELSE NotParsed(i, prefixed(NoOperand))
  <2>1. parse_operand_(t, i) =
            LET ps == {t[k].kind : k \in i .. after[i] - 1}
                pr(o) == [o EXCEPT !.prefix_size = ps \cap Sizes,
                                   !.prefix_seg_ovr = ps \cap Members(Segments)]
                q == parse_operand(t, after[i])
            IN  IF q.ok THEN Parsed(q.at, pr(q.out)) ELSE NotParsed(i, pr(NoOperand))
    BY DEF parse_operand_
  <2>. HIDE DEF after
  <2>. QED  BY <1>1, <2>1 DEF G!KindsIn
<1>. HIDE DEF after, r
<1>3. /\ s \in i .. Len(t) /\ s \in 1 .. Len(t) /\ i \in Nat /\ Len(t) \in Nat
      /\ OperandEnd(t, s) = j
  BY AfterValues, Places DEF Start, PrefixedEnd
<1>4. j \in s + 1 .. Len(t)
  BY <1>3, OperandResult
<1>5. PICK o : r = Parsed(j, o) /\ Meant(t, s, j, o)
  BY <1>3, OperandMeant DEF r
<1>6. parse_operand_(t, i) = Parsed(j, prefixed(o))
  <2>1. r.ok = TRUE /\ r.at = j /\ r.out = o
    BY <1>5, ParsedParts
  <2>. QED  BY <1>2, <2>1
<1>7. P \subseteq Marks
  <2>1. \A k \in i .. s - 1 : t[k].kind \in Marks
    <3>1. \A k \in i .. s - 1 : KindsOf(t)[k] \in Marks /\ k \in 1 .. Len(t)
      BY <1>3, PrefixTokens
    <3>. QED  BY <3>1, KindsText
  <2>. QED  BY <2>1 DEF G!KindsIn
<1>8. G!Says(t, i, j, WithSign(t, i, j, prefixed(o)))
  <2>1. i \in Nat /\ j \in Nat /\ s \in i .. j - 1
    BY <1>3, <1>4
  <2>. DEFINE q == WithSign(t, s, j, o)
  <2>. HIDE DEF s, j, q
  <2>2. /\ G!Says(t, s, j, q) /\ DOMAIN o = DOMAIN NoOperand
        /\ o.prefix_size = {} /\ o.prefix_seg_ovr = {}
    BY <1>5 DEF Meant, q
  <2>3. DOMAIN q = DOMAIN NoOperand /\ q.prefix_size = {} /\ q.prefix_seg_ovr = {}
    BY <2>2, SignedFields DEF q
  <2>4. G!Says(t, i, j, prefixed(q))
    BY <1>7, <2>1, <2>2, <2>3, PrefixedSays
  <2>5. \A A, B : WithSign(t, i, j, WithPrefixes(o, A, B)) = WithPrefixes(q, A, B)
    <3>1. G!KindsIn(t, i, s) \subseteq Marks
      BY <1>7
    <3>2. DOMAIN o = DOMAIN NoOperand
      BY <2>2
    <3>. HIDE DEF P, prefixed
    <3>3. ASSUME NEW A, NEW B
          PROVE  WithSign(t, i, j, WithPrefixes(o, A, B)) = WithPrefixes(WithSign(t, s, j, o), A, B)
      BY ONLY <3>1, <3>2, <2>1, SignAndPrefixes
    <3>. QED  BY ONLY <3>3, Zenon DEF q
  <2>6. WithSign(t, i, j, prefixed(o)) = prefixed(q)
    BY <2>5, Zenon DEF WithPrefixes
  <2>. QED  BY <2>4, <2>6
<1>9. ~ (i >= j)
  BY <1>3, <1>4
<1>. QED  BY <1>6, <1>8, <1>9 DEF SaysOperand
-------------------------------------------------------------------------------
(* What the operands i .. e - 1 of a line say: the comma that parts them, or none. *)
PartedAt(t, i, c, e)      == IF c < e THEN t[c].kind = "COMMA"
                                      ELSE \A k \in i .. e - 1 : ~ (t[k].kind = "COMMA")
SaysOperands(t, i, e, n)  == \E c \in i .. e : /\ PartedAt(t, i, c, e)
                                               /\ SaysOperand(t, i, c, n.dst)
                                               /\ SaysOperand(t, c + 1, e, n.src)

LEMMA NoComma ==
  ASSUME NEW t, IsProgram(t), NEW i \in 1 .. Len(t), PrefixedEnd(t, i) # 0
  PROVE  PartedAt(t, i, PrefixedEnd(t, i), PrefixedEnd(t, i))
<1>. DEFINE e == PrefixedEnd(t, i)
<1>1. e \in i + 1 .. Len(t) /\ Len(t) \in Nat /\ i \in Nat
  BY PrefixedResult, Places DEF PrefixedEnd
<1>2. \A k \in i .. e - 1 : KindsOf(t)[k] \notin Enders
  BY PrefixedTokens
<1>. HIDE DEF e
<1>3. \A k \in i .. e - 1 : k \in 1 .. Len(t)
  BY <1>1
<1>4. \A k \in i .. e - 1 : t[k].kind # "COMMA"
  BY <1>2, <1>3, KindsText DEF Enders
<1>. QED  BY <1>1, <1>4 DEF PartedAt, e

LEMMA TailMeant ==
  ASSUME NEW t, IsProgram(t), NEW i \in 1 .. Len(t), NEW m
  PROVE  \E n : /\ Optional(parse_instruction_tail(t, i, [NoInstruction EXCEPT !.mnemonic = m]))
                       = Parsed(TailEnd(t, i), n)
                /\ n.mnemonic = m /\ SaysOperands(t, i, TailEnd(t, i), n)
<1>. DEFINE inst == [NoInstruction EXCEPT !.mnemonic = m]
            dst  == parse_operand_(t, i)
            src  == parse_operand_(t, dst.at + 1)
            e    == PrefixedEnd(t, i)
<1>1. inst = [mnemonic |-> m, dst |-> NoOperand, src |-> NoOperand]
  BY DEF NoInstruction
<1>2. parse_instruction_tail(t, i, inst)
          = IF ~ dst.ok THEN NotParsed(i, inst)
            ELSE IF Is(t, dst.at, {"COMMA"}) /\ src.ok
                 THEN Parsed(src.at, [inst EXCEPT !.dst = dst.out, !.src = src.out])
                 ELSE Parsed(dst.at, [inst EXCEPT !.dst = dst.out])
  BY DEF parse_instruction_tail
<1>3. i \in Nat /\ Len(t) \in Nat
  BY Places
<1>4. CASE e = 0
  <2>1. dst.ok = FALSE
    BY <1>4, PrefixedResult, ParsedParts DEF PrefixedEnd
  <2>2. parse_instruction_tail(t, i, inst) = NotParsed(i, inst)
    BY <1>2, <2>1
  <2>3. TailEnd(t, i) = i
    BY <1>4 DEF TailEnd
  <2>4. SaysOperands(t, i, i, inst)
    <3>1. i \in i .. i /\ PartedAt(t, i, i, i) /\ i >= i /\ i + 1 >= i
      BY <1>3 DEF PartedAt
    <3>2. SaysOperand(t, i, i, inst.dst) /\ SaysOperand(t, i + 1, i, inst.src)
      BY <1>1, <3>1 DEF SaysOperand
    <3>. QED  BY <3>1, <3>2 DEF SaysOperands
  <2>5. inst.mnemonic = m
    BY <1>1
  <2>. HIDE DEF inst
  <2>6. Optional(parse_instruction_tail(t, i, inst)) = Parsed(TailEnd(t, i), inst)
    BY <2>2, <2>3, OptionalParts
  <2>. QED  BY <2>3, <2>4, <2>5, <2>6 DEF inst
<1>5. CASE e # 0
  <2>1. PICK o : dst = Parsed(e, o) /\ SaysOperand(t, i, e, o)
    BY <1>5, PrefixedMeant
  <2>2. dst.ok = TRUE /\ dst.at = e /\ dst.out = o
    BY <2>1, ParsedParts
  <2>3. e \in i + 1 .. Len(t) /\ e \in 1 .. Len(t)
    <3>1. e \in i + 1 .. Len(t)
      BY <1>5, PrefixedResult DEF PrefixedEnd
    <3>. HIDE DEF e
    <3>. QED  BY <1>3, <3>1
  <2>4. SaysOperand(t, i, e, o)
    BY <2>1
  <2>. DEFINE f == PrefixedEnd(t, e + 1)
  <2>5. CASE Is(t, e, {"COMMA"}) /\ f # 0
    <3>1. e + 1 \in 1 .. Len(t)
      BY <2>3, <2>5, Places DEF Is
    <3>2. PICK q : parse_operand_(t, e + 1) = Parsed(f, q) /\ SaysOperand(t, e + 1, f, q)
      BY <2>5, <3>1, PrefixedMeant
    <3>3. f \in (e + 1) + 1 .. Len(t)
      BY <2>5, <3>1, PrefixedResult DEF PrefixedEnd
    <3>4. src.ok = TRUE /\ src.at = f /\ src.out = q
      BY <2>2, <3>2, ParsedParts
    <3>. DEFINE n == [inst EXCEPT !.dst = o, !.src = q]
    <3>5. parse_instruction_tail(t, i, inst) = Parsed(f, n)
      BY <1>2, <2>2, <2>5, <3>4
    <3>6. n.mnemonic = m /\ n.dst = o /\ n.src = q
      BY <1>1
    <3>7. TailEnd(t, i) = f
      BY <1>5, <2>5 DEF TailEnd
    <3>8. SaysOperands(t, i, f, n)
      <4>1. t[e].kind = "COMMA"
        BY <2>5 DEF Is
      <4>. HIDE DEF n, f, e
      <4>2. e \in i .. f /\ e < f
        BY <1>3, <2>3, <3>3
      <4>3. PartedAt(t, i, e, f)
        BY <4>1, <4>2 DEF PartedAt
      <4>4. SaysOperand(t, e + 1, f, q)
        BY <3>2
      <4>. QED  BY <2>4, <3>6, <4>2, <4>3, <4>4 DEF SaysOperands
    <3>. HIDE DEF inst, n
    <3>. QED  BY <3>5, <3>6, <3>7, <3>8, OptionalParts DEF inst
  <2>6. CASE ~ (Is(t, e, {"COMMA"}) /\ f # 0)
    <3>1. Is(t, e, {"COMMA"}) => src.ok = FALSE
      <4>. SUFFICES ASSUME Is(t, e, {"COMMA"}) PROVE src.ok = FALSE
        OBVIOUS
      <4>1. e + 1 \in 1 .. Len(t) /\ f = 0
        BY <2>3, <2>6, Places DEF Is
      <4>. QED  BY <2>2, <4>1, PrefixedResult, ParsedParts DEF PrefixedEnd
    <3>. DEFINE n == [inst EXCEPT !.dst = o]
    <3>2. parse_instruction_tail(t, i, inst) = Parsed(e, n)
      BY <1>2, <2>2, <3>1
    <3>3. n.mnemonic = m /\ n.dst = o /\ n.src = NoOperand
      BY <1>1
    <3>4. TailEnd(t, i) = e
      BY <1>5, <2>6 DEF TailEnd
    <3>5. SaysOperands(t, i, e, n)
      <4>1. PartedAt(t, i, e, e)
        BY <1>5, NoComma
      <4>. HIDE DEF n, e
      <4>2. e \in i .. e /\ e + 1 >= e
        BY <1>3, <2>3
      <4>3. SaysOperand(t, e + 1, e, n.src)
        BY <3>3, <4>2 DEF SaysOperand
      <4>. QED  BY <2>4, <3>3, <4>1, <4>2, <4>3 DEF SaysOperands
    <3>. HIDE DEF inst, n
    <3>. QED  BY <3>2, <3>3, <3>4, <3>5, OptionalParts DEF inst
  <2>. QED  BY <2>5, <2>6
<1>. QED  BY <1>4, <1>5

(* OperandsMeant with the state as parameters.                                     *)
LineMeant(t, s, i, p, n) ==
    p # "aborted" /\ i > s =>
        IF s < LineEnd(t, s) /\ t[s].kind \in Mnemonics
        THEN n.mnemonic = t[s].kind /\ SaysOperands(t, s + 1, LineEnd(t, s), n)
        ELSE n = NoInstruction

LEMMA MeantNow == OperandsMeant <=> LineMeant(token, line, idx, pc, instruction)
BY DEF OperandsMeant, LineMeant, SaysOperands, SaysOperand, PartedAt, EndOf, LineEnd, Accepted

LEMMA MeantNext == OperandsMeant' <=> LineMeant(token', line', idx', pc', instruction')
BY DEF OperandsMeant, LineMeant, SaysOperands, SaysOperand, PartedAt, EndOf, LineEnd, Accepted

(* A round that accepts a line leaves in the record what the line says: an          *)
(* instruction line its mnemonic and operands, another line nothing.               *)
LEMMA RoundMeant ==
  ASSUME Typed, EmptyLine \/ BitsLine \/ LabelLine \/ InstructionLine
  PROVE  LineMeant(token, idx, idx', pc', instruction')
<1>. DEFINE e == LineEnd(token, idx)
<1>1. /\ IsProgram(token) /\ idx \in 1 .. Len(token) /\ Parsing
      /\ Len(token) \in Nat /\ idx \in Nat
  BY Places DEF Typed, TypeOK, EmptyLine, BitsLine, LabelLine, InstructionLine, Parsing
<1>2. /\ \A A : Is(token, idx, A) <=> token[idx].kind \in A
      /\ KindsOf(token)[idx] = token[idx].kind
  BY <1>1, KindsText DEF Is
<1>3. CASE EmptyLine
  <2>1. token[idx].kind = "EOL" /\ instruction' = NoInstruction
    BY <1>2, <1>3 DEF EmptyLine
  <2>2. token[idx].kind \notin Mnemonics
    BY <2>1, MnemonicsAssumption
  <2>. QED  BY <2>1, <2>2 DEF LineMeant
<1>4. CASE BitsLine \/ LabelLine
  <2>1. token[idx].kind \in {"BITS", "LABEL"} /\ EndLine(Parsed(idx + 2, NoInstruction))
    BY <1>4 DEF BitsLine, LabelLine, AtBits, AtLabel, Is
  <2>2. token[idx].kind \notin Mnemonics
    BY <2>1, MnemonicsAssumption
  <2>3. instruction' = NoInstruction
    BY <2>1, ParsedParts DEF EndLine
  <2>. QED  BY <2>2, <2>3 DEF LineMeant
<1>5. CASE InstructionLine
  <2>1. EndLine(parse_instruction(token, idx)) /\ token[idx].kind # "EOL"
    BY <1>5 DEF InstructionLine, Is
  <2>2. CASE Is(token, idx, Mnemonics)
    <3>. DEFINE f == TailEnd(token, idx + 1)
    <3>1. idx + 1 \in 1 .. Len(token) /\ f \in idx + 1 .. Len(token)
      BY <1>1, <2>2, InstructionResult
    <3>2. PICK n : /\ parse_instruction(token, idx) = Parsed(f, n)
                   /\ n.mnemonic = token[idx].kind /\ SaysOperands(token, idx + 1, f, n)
      BY <1>1, <2>2, <3>1, TailMeant DEF parse_instruction
    <3>3. /\ instruction' = n
          /\ \/ Is(token, f, {"EOL"})
             \/ idx' = idx
      <4>1. Parsed(f, n).ok = TRUE /\ Parsed(f, n).at = f /\ Parsed(f, n).out = n
        BY ParsedParts
      <4>. HIDE DEF f
      <4>. QED  BY <2>1, <3>2, <4>1 DEF EndLine
    <3>4. CASE Is(token, f, {"EOL"})
      <4>1. \A k \in idx + 1 .. f - 1 : KindsOf(token)[k] # "EOL"
        BY <1>1, <3>1, TailTokens
      <4>. HIDE DEF f, e
      <4>2. f \in idx .. Len(token) /\ f \in 1 .. Len(token) /\ idx < f
            /\ \A k \in idx .. f - 1 : k = idx \/ k \in idx + 1 .. f - 1
        BY <1>1, <3>1
      <4>3. KindsOf(token)[f] = "EOL"
        BY <1>1, <3>4, <4>2, KindsText
      <4>4. \A k \in idx .. f - 1 : KindsOf(token)[k] # "EOL"
        BY <1>2, <2>1, <4>1, <4>2
      <4>5. e = f
        BY <1>1, <4>2, <4>3, <4>4, LineEndProperties DEF e
      <4>6. token[idx].kind \in Mnemonics
        BY <2>2 DEF Is
      <4>. QED  BY <3>2, <3>3, <4>2, <4>5, <4>6 DEF LineMeant, e
    <3>5. CASE idx' = idx
      BY <1>1, <3>5 DEF LineMeant
    <3>. QED  BY <3>3, <3>4, <3>5
  <2>3. CASE ~ Is(token, idx, Mnemonics)
    <3>1. parse_instruction(token, idx) = NotParsed(idx, NoInstruction)
      BY <1>1, <2>3, InstructionResult
    <3>2. instruction' = NoInstruction
      BY <2>1, <3>1, ParsedParts DEF EndLine
    <3>. QED  BY <2>3, <3>2 DEF LineMeant, Is
  <2>. QED  BY <2>2, <2>3
<1>. QED  BY <1>3, <1>4, <1>5

LEMMA StepMeant ==
  ASSUME Typed, OperandsMeant, [Next]_vars
  PROVE  OperandsMeant'
<1>1. CASE EmptyLine \/ BitsLine \/ LabelLine \/ InstructionLine
  <2>1. token' = token /\ line' = idx
    BY <1>1 DEF EmptyLine, BitsLine, LabelLine, InstructionLine, EndLine
  <2>2. LineMeant(token, idx, idx', pc', instruction')
    BY <1>1, RoundMeant
  <2>. QED  BY <2>1, <2>2, MeantNext
<1>2. CASE DuplicateLabel
  <2>1. pc' = "aborted"
    BY <1>2 DEF DuplicateLabel
  <2>2. LineMeant(token', line', idx', pc', instruction')
    BY <2>1 DEF LineMeant
  <2>. QED  BY <2>2, MeantNext
<1>3. CASE Finish \/ UNCHANGED vars
  <2>1. /\ token' = token /\ line' = line /\ idx' = idx /\ instruction' = instruction
        /\ pc' = pc \/ (pc = "parsing" /\ pc' = "done")
    BY <1>3 DEF Finish, vars
  <2>2. LineMeant(token, line, idx, pc, instruction)
    BY MeantNow
  <2>3. LineMeant(token, line, idx, pc', instruction)
    BY <2>1, <2>2 DEF LineMeant
  <2>. QED  BY <2>1, <2>3, MeantNext
<1>. QED  BY <1>1, <1>2, <1>3 DEF Next

(* The record that codegen reads after an accepted line is what its tokens say:    *)
(* each register, number, label and prefix of both operands, their flags, mod and  *)
(* rm, but for the sign of a direct address; nothing of an alternative of the       *)
(* grammar that was tried and given up, and nothing of the line before              *)
(* (parser.c:17-68, 272-364, 457-569 and 605-691; asm8086.c:54).                   *)
THEOREM OperandsCorrect == Spec => []OperandsMeant
<1>1. Init => OperandsMeant
  <2>. SUFFICES ASSUME Init PROVE OperandsMeant
    OBVIOUS
  <2>1. ~ (idx > line)
    BY DEF Init
  <2>. QED  BY <2>1 DEF OperandsMeant, Accepted
<1>2. Typed /\ OperandsMeant /\ [Next]_vars => OperandsMeant'
  BY StepMeant
<1>. QED  BY <1>1, <1>2, AlwaysTyped, PTL DEF Spec
-------------------------------------------------------------------------------
(* What codegen takes for the target of a jump: an operand that is a label is      *)
(* nothing else, and has the name of a label of the program; one that is an         *)
(* immediate is nothing else either, and has the value of a number of it.          *)
IsTarget(t, o) ==
    /\ "LABEL" \in o.kind =>
           o.kind = {"LABEL"} /\ \E k \in 1 .. Len(t) : t[k].kind = "LABEL" /\ o.label = t[k].val
    /\ "IMMEDIATE" \in o.kind =>
           /\ o.kind \subseteq {"IMMEDIATE", "IMMEDIATE8", "IMMEDIATE16"}
           /\ \E k \in 1 .. Len(t) : /\ t[k].kind \in {"NUM", "ZERO"}
                                     /\ o.imm \in {S16(t[k].val), S16(- t[k].val)}

(* The same of both operands of the instruction in the state.                      *)
TargetsInText == IsTarget(token, instruction.dst) /\ IsTarget(token, instruction.src)

(* An operand of another kind is no target.                                        *)
LEMMA NoTarget ==
  ASSUME NEW t, NEW o, "LABEL" \notin o.kind, "IMMEDIATE" \notin o.kind
  PROVE  IsTarget(t, o)
BY DEF IsTarget

LEMMA KindsMade ==
  /\ "LABEL" \notin NoOperand.kind /\ "IMMEDIATE" \notin NoOperand.kind
  /\ \A r : "LABEL" \notin RegisterOperand(r).kind /\ "IMMEDIATE" \notin RegisterOperand(r).kind
  /\ \A r : "LABEL" \notin SegmentOperand(r).kind /\ "IMMEDIATE" \notin SegmentOperand(r).kind
  /\ \A e : "LABEL" \notin MemoryOperand(e).kind /\ "IMMEDIATE" \notin MemoryOperand(e).kind
  /\ \A m, n : "LABEL" \notin PointerOperand(m, n).kind /\ "IMMEDIATE" \notin PointerOperand(m, n).kind
  /\ \A n : LabelOperand(n).kind = {"LABEL"} /\ LabelOperand(n).label = n
  /\ \A n : /\ ImmediateOperand(n).kind \subseteq {"IMMEDIATE", "IMMEDIATE8", "IMMEDIATE16"}
            /\ ImmediateOperand(n).imm = n
<1>1. "LABEL" \notin NoOperand.kind /\ "IMMEDIATE" \notin NoOperand.kind
  BY DEF NoOperand
<1>2. \A r : "LABEL" \notin RegisterOperand(r).kind /\ "IMMEDIATE" \notin RegisterOperand(r).kind
  BY DEF RegisterOperand, NoOperand, op_kind_from_reg
<1>3. \A r : "LABEL" \notin SegmentOperand(r).kind /\ "IMMEDIATE" \notin SegmentOperand(r).kind
  BY DEF SegmentOperand, NoOperand
<1>4. \A e : "LABEL" \notin MemoryOperand(e).kind /\ "IMMEDIATE" \notin MemoryOperand(e).kind
  <2>. SUFFICES ASSUME NEW e
                PROVE  "LABEL" \notin MemoryOperand(e).kind /\ "IMMEDIATE" \notin MemoryOperand(e).kind
    OBVIOUS
  <2>1. MemoryOperand(e).kind \in {{"MEM"}, {"MEM", "DADDR"}}
    BY DEF MemoryOperand, NoOperand
  <2>. QED  BY <2>1
<1>5. \A m, n : "LABEL" \notin PointerOperand(m, n).kind /\ "IMMEDIATE" \notin PointerOperand(m, n).kind
  BY DEF PointerOperand, NoOperand
<1>6. \A n : LabelOperand(n).kind = {"LABEL"} /\ LabelOperand(n).label = n
  BY DEF LabelOperand, NoOperand
<1>7. \A n : /\ ImmediateOperand(n).kind \subseteq {"IMMEDIATE", "IMMEDIATE8", "IMMEDIATE16"}
             /\ ImmediateOperand(n).imm = n
  BY DEF ImmediateOperand, NoOperand
<1>. QED  BY <1>1, <1>2, <1>3, <1>4, <1>5, <1>6, <1>7

LEMMA ImmTarget ==
  ASSUME NEW t, IsProgram(t), NEW i \in 1 .. Len(t)
  PROVE  IsTarget(t, parse_imm(t, i).out)
<1>. DEFINE n == IF Is(t, i, OprMath) THEN i + 1 ELSE i
<1>1. n \in 1 .. Len(t)
  BY Places DEF Is, OprMath
<1>2. CASE Is(t, n, {"NUM", "ZERO"})
  <2>. DEFINE v == Signed(t[i].kind, t[n].val)
  <2>1. parse_imm(t, i) = Parsed(n + 1, ImmediateOperand(v))
    BY <1>2 DEF parse_imm
  <2>. HIDE DEF n
  <2>2. t[n].kind \in {"NUM", "ZERO"} /\ t[n].val \in Int
    BY <1>1, <1>2, Numbers DEF Is
  <2>3. v \in {S16(t[n].val), S16(- t[n].val)}
    BY <2>2, SignedMeans
  <2>. HIDE DEF v
  <2>4. parse_imm(t, i).out = ImmediateOperand(v)
    BY <2>1, ParsedParts
  <2>5. "LABEL" \notin ImmediateOperand(v).kind
    BY KindsMade
  <2>. QED  BY <1>1, <2>2, <2>3, <2>4, <2>5, KindsMade DEF IsTarget
<1>3. CASE ~ Is(t, n, {"NUM", "ZERO"})
  <2>1. parse_imm(t, i) = NotParsed(i, NoOperand)
    BY <1>3 DEF parse_imm
  <2>2. parse_imm(t, i).out = NoOperand
    BY <2>1, ParsedParts
  <2>. QED  BY <2>2, KindsMade, NoTarget
<1>. QED  BY <1>2, <1>3

LEMMA OperandTarget ==
  ASSUME NEW t, IsProgram(t), NEW i \in 1 .. Len(t)
  PROVE  IsTarget(t, parse_operand(t, i).out)
<1>1. CASE Is(t, i, General)
  <2>1. parse_operand(t, i).out = RegisterOperand(t[i].kind)
    BY <1>1, OperandChoice, ParsedParts
  <2>. QED  BY <2>1, KindsMade, NoTarget
<1>2. CASE MemoryEnd(t, i) # 0
  <2>1. parse_operand(t, i).out = parse_eaddr__(t, i).out
    BY <1>2, OperandChoice
  <2>2. \/ \E at, e : parse_eaddr__(t, i) = Parsed(at, MemoryOperand(e))
        \/ parse_eaddr__(t, i) = NotParsed(i, NoOperand)
    BY DEF parse_eaddr__
  <2>3. (\E e : parse_eaddr__(t, i).out = MemoryOperand(e)) \/ parse_eaddr__(t, i).out = NoOperand
    BY <2>2, ParsedParts
  <2>. QED  BY <2>1, <2>3, KindsMade, NoTarget
<1>3. CASE Is(t, i, Members(Segments))
  <2>1. parse_operand(t, i).out = SegmentOperand(t[i].kind)
    BY <1>3, OperandChoice, ParsedParts
  <2>. QED  BY <2>1, KindsMade, NoTarget
<1>4. CASE PointerAt(t, i)
  <2>1. parse_operand(t, i).out = parse_pointer(t, i).out
    BY <1>4, OperandChoice
  <2>2. parse_pointer(t, i) = Parsed(i + 3, PointerOperand(t[i].val, t[i + 2].val))
    BY <1>4 DEF parse_pointer, PointerAt
  <2>3. parse_pointer(t, i).out = PointerOperand(t[i].val, t[i + 2].val)
    BY <2>2, ParsedParts
  <2>. QED  BY <2>1, <2>3, KindsMade, NoTarget
<1>5. CASE ImmEnd(t, i) # 0 /\ ~ PointerAt(t, i)
  <2>1. parse_operand(t, i).out = parse_imm(t, i).out
    BY <1>5, OperandChoice
  <2>. QED  BY <2>1, ImmTarget
<1>6. CASE Is(t, i, {"LABEL"})
  <2>1. parse_operand(t, i).out = LabelOperand(t[i].val)
    BY <1>6, OperandChoice, ParsedParts
  <2>2. t[i].kind = "LABEL"
    BY <1>6 DEF Is
  <2>. QED  BY <2>1, <2>2, KindsMade DEF IsTarget
<1>7. CASE parse_operand(t, i) = NotParsed(i, NoOperand)
  <2>1. parse_operand(t, i).out = NoOperand
    BY <1>7, ParsedParts
  <2>. QED  BY <2>1, KindsMade, NoTarget
<1>. QED  BY <1>1, <1>2, <1>3, <1>4, <1>5, <1>6, <1>7, OperandChoice

LEMMA PrefixedTarget ==
  ASSUME NEW t, IsProgram(t), NEW i \in 1 .. Len(t), PrefixedEnd(t, i) # 0
  PROVE  IsTarget(t, parse_operand_(t, i).out)
<1>. DEFINE s == Start(t, i)
            P == {t[k].kind : k \in i .. s - 1}
            after[k \in i .. Len(t)] ==
                IF parse_opr_prefix(t, k) = 0 THEN k ELSE after[k + parse_opr_prefix(t, k)]
            prefixed(o) == [o EXCEPT !.prefix_size = P \cap Sizes, !.prefix_seg_ovr = P \cap Members(Segments)]
            r == parse_operand(t, s)
<1>1. after[i] = s
  BY DEF Start, AfterOf, IsAfter
<1>2. parse_operand_(t, i) = IF r.ok THEN Parsed(r.at, prefixed(r.out))
                                     ELSE NotParsed(i, prefixed(NoOperand))
  <2>1. parse_operand_(t, i) =
            LET ps == {t[k].kind : k \in i .. after[i] - 1}
                pr(o) == [o EXCEPT !.prefix_size = ps \cap Sizes,
                                   !.prefix_seg_ovr = ps \cap Members(Segments)]
                q == parse_operand(t, after[i])
            IN  IF q.ok THEN Parsed(q.at, pr(q.out)) ELSE NotParsed(i, pr(NoOperand))
    BY DEF parse_operand_
  <2>. HIDE DEF after
  <2>. QED  BY <1>1, <2>1
<1>. HIDE DEF after, r, P
<1>3. s \in 1 .. Len(t) /\ OperandEnd(t, s) # 0
  BY AfterValues, Places DEF Start, PrefixedEnd
<1>4. PICK o : IsOperand(o) /\ r = Parsed(OperandEnd(t, s), o)
  BY <1>3, OperandResult DEF r
<1>5. r.ok = TRUE /\ r.out = o
  BY <1>4, ParsedParts
<1>6. parse_operand_(t, i).out = prefixed(o)
  BY <1>2, <1>5, ParsedParts
<1>7. prefixed(o).kind = o.kind /\ prefixed(o).label = o.label /\ prefixed(o).imm = o.imm
  BY <1>4 DEF IsOperand, NoOperand
<1>8. IsTarget(t, o)
  BY <1>3, <1>5, OperandTarget DEF r
<1>. HIDE DEF prefixed
<1>. QED  BY <1>6, <1>7, <1>8 DEF IsTarget

(* Both operands of an instruction, whatever becomes of its line.                   *)
BothTargets(t, n) == IsTarget(t, n.dst) /\ IsTarget(t, n.src)

LEMMA NoInstructionTargets == \A t : BothTargets(t, NoInstruction)
BY KindsMade, NoTarget DEF BothTargets, NoInstruction

LEMMA TailTarget ==
  ASSUME NEW t, IsProgram(t), NEW i \in 1 .. Len(t), NEW m
  PROVE  BothTargets(t, Optional(parse_instruction_tail(t, i, [NoInstruction EXCEPT !.mnemonic = m])).out)
<1>. DEFINE inst == [NoInstruction EXCEPT !.mnemonic = m]
            dst  == parse_operand_(t, i)
            src  == parse_operand_(t, dst.at + 1)
            e    == PrefixedEnd(t, i)
<1>1. inst = [mnemonic |-> m, dst |-> NoOperand, src |-> NoOperand]
  BY DEF NoInstruction
<1>2. parse_instruction_tail(t, i, inst)
          = IF ~ dst.ok THEN NotParsed(i, inst)
            ELSE IF Is(t, dst.at, {"COMMA"}) /\ src.ok
                 THEN Parsed(src.at, [inst EXCEPT !.dst = dst.out, !.src = src.out])
                 ELSE Parsed(dst.at, [inst EXCEPT !.dst = dst.out])
  BY DEF parse_instruction_tail
<1>3. IsTarget(t, NoOperand)
  BY KindsMade, NoTarget
<1>4. \A at, n : /\ Optional(Parsed(at, n)).out = n
                 /\ Optional(NotParsed(at, n)).out = n
  BY OptionalParts, ParsedParts
<1>5. CASE ~ dst.ok
  <2>1. parse_instruction_tail(t, i, inst) = NotParsed(i, inst)
    BY <1>2, <1>5
  <2>2. BothTargets(t, inst)
    BY <1>1, <1>3 DEF BothTargets
  <2>. HIDE DEF inst
  <2>. QED  BY <1>4, <2>1, <2>2 DEF inst
<1>6. CASE dst.ok
  <2>1. e # 0
    BY <1>6, PrefixedResult, ParsedParts DEF PrefixedEnd
  <2>2. e \in i + 1 .. Len(t) /\ dst.at = e
    BY <2>1, PrefixedResult, ParsedParts DEF PrefixedEnd
  <2>3. IsTarget(t, dst.out) /\ e \in 1 .. Len(t)
    BY <2>1, <2>2, PrefixedTarget, Places
  <2>4. CASE Is(t, dst.at, {"COMMA"}) /\ src.ok
    <3>. DEFINE n == [inst EXCEPT !.dst = dst.out, !.src = src.out]
    <3>1. e + 1 \in 1 .. Len(t)
      BY <2>2, <2>3, <2>4, Places DEF Is
    <3>2. PrefixedEnd(t, e + 1) # 0
      BY <2>2, <2>4, <3>1, PrefixedResult, ParsedParts DEF PrefixedEnd
    <3>3. IsTarget(t, src.out)
      BY <2>2, <3>1, <3>2, PrefixedTarget
    <3>4. parse_instruction_tail(t, i, inst) = Parsed(src.at, n)
      BY <1>2, <1>6, <2>4
    <3>5. BothTargets(t, n)
      BY <1>1, <2>3, <3>3 DEF BothTargets
    <3>. HIDE DEF inst, n
    <3>. QED  BY <1>4, <3>4, <3>5 DEF inst
  <2>5. CASE ~ (Is(t, dst.at, {"COMMA"}) /\ src.ok)
    <3>. DEFINE n == [inst EXCEPT !.dst = dst.out]
    <3>1. parse_instruction_tail(t, i, inst) = Parsed(dst.at, n)
      BY <1>2, <1>6, <2>5
    <3>2. BothTargets(t, n)
      BY <1>1, <1>3, <2>3 DEF BothTargets
    <3>. HIDE DEF inst, n
    <3>. QED  BY <1>4, <3>1, <3>2 DEF inst
  <2>. QED  BY <2>4, <2>5
<1>. QED  BY <1>5, <1>6

LEMMA InstructionTarget ==
  ASSUME NEW t, IsProgram(t), NEW i \in 1 .. Len(t)
  PROVE  BothTargets(t, parse_instruction(t, i).out)
<1>1. CASE Is(t, i, Mnemonics)
  <2>1. i + 1 \in 1 .. Len(t)
    BY <1>1, InstructionResult
  <2>. QED  BY <1>1, <2>1, TailTarget DEF parse_instruction
<1>2. CASE ~ Is(t, i, Mnemonics)
  <2>1. parse_instruction(t, i).out = NoInstruction
    BY <1>2, ParsedParts DEF parse_instruction
  <2>. QED  BY <2>1, NoInstructionTargets
<1>. QED  BY <1>1, <1>2

LEMMA StepTargets ==
  ASSUME Typed, TargetsInText, [Next]_vars
  PROVE  TargetsInText'
<1>1. IsProgram(token) /\ idx \in Nat
  BY Places DEF Typed, TypeOK
<1>2. CASE EmptyLine \/ DuplicateLabel
  <2>1. instruction' = NoInstruction /\ token' = token
    BY <1>2 DEF EmptyLine, DuplicateLabel
  <2>. QED  BY <2>1, NoInstructionTargets DEF BothTargets, TargetsInText
<1>3. CASE BitsLine \/ LabelLine
  <2>1. instruction' = NoInstruction /\ token' = token
    BY <1>3, ParsedParts DEF BitsLine, LabelLine, EndLine
  <2>. QED  BY <2>1, NoInstructionTargets DEF BothTargets, TargetsInText
<1>4. CASE InstructionLine
  <2>1. instruction' = parse_instruction(token, idx).out /\ token' = token
    BY <1>4 DEF InstructionLine, EndLine
  <2>2. idx \in 1 .. Len(token)
    BY <1>1, <1>4, Places DEF InstructionLine, Parsing, Typed, TypeOK
  <2>. QED  BY <1>1, <2>1, <2>2, InstructionTarget DEF BothTargets, TargetsInText
<1>5. CASE Finish \/ UNCHANGED vars
  BY <1>5 DEF Finish, vars, TargetsInText
<1>. QED  BY <1>2, <1>3, <1>4, <1>5 DEF Next

(* A jump goes to a label or a number that the program says: an operand of the      *)
(* instruction that has the flag LABEL has no other and is the name of a label       *)
(* token, one that has IMMEDIATE only the widths of an immediate and the value of a   *)
(* number token with or without its sign (parser.c:289-364, 587-615).                *)
THEOREM TargetsCorrect == Spec => []TargetsInText
<1>1. Init => TargetsInText
  BY NoInstructionTargets DEF Init, TargetsInText, BothTargets
<1>2. Typed /\ TargetsInText /\ [Next]_vars => TargetsInText'
  BY StepTargets
<1>. QED  BY <1>1, <1>2, AlwaysTyped, PTL DEF Spec
===============================================================================
