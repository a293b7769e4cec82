-------------------------------- MODULE Parser --------------------------------
(* The parser: main's loop over the lines of a program (asm8086.c:51-58) and the  *)
(* functions of parser.c:70-691, one for each production of grammar.txt. A step   *)
(* is a round of the loop, that is, a call of parse.                              *)
(*                                                                                *)
(* A function that tries something at token i for a record out gives a result     *)
(* [ok, at, out]: `at' is what it leaves in *idx, which is i when it fails. A      *)
(* chain of parse_terminal that restores *idx is a look at the tokens i, i+1, ... *)
EXTENDS Operands

CONSTANTS Programs,     \* the token lists to parse
          Mnemonics     \* TOK_MOV .. TOK_JE

(* What tokenize hands over: a list that ends with TOK_EOL, with the value of each  *)
(* number. The kinds of mnemonics are apart from those of other tokens.             *)
IsProgram(p) ==
    /\ p \in Seq({p[i] : i \in DOMAIN p})
    /\ p # <<>> /\ p[Len(p)].kind = "EOL"
    /\ \A i \in DOMAIN p : p[i].kind \in {"NUM", "ZERO"} => p[i].val \in Nat
ASSUME ProgramsAssumption  == \A p \in Programs : IsProgram(p)
ASSUME MnemonicsAssumption ==
    Mnemonics \cap {"EOL", "BITS", "LABEL", "ZERO", "LOCK", "REP", "REPE", "REPNE", "REPZ", "REPNZ"} = {}

VARIABLES token,        \* token_list.token, from 1 on, as idx in main is
          idx,
          pc,           \* "parsing", "done", or how the program ended before
          instruction,  \* instruction_data, what codegen reads after the line
          labels,       \* the names in g_map_label
          line          \* history: where the line begins that was read last
vars == <<token, idx, pc, instruction, labels, line>>

NoInstruction == [mnemonic |-> "NULL", dst |-> NoOperand, src |-> NoOperand]

Parsed(at, out)    == [ok |-> TRUE, at |-> at, out |-> out]
NotParsed(at, out) == [ok |-> FALSE, at |-> at, out |-> out]
(* "signed_num?": what cannot be parsed is left.                                  *)
Optional(r)        == [r EXCEPT !.ok = TRUE]

Is(t, i, kinds) == t[i].kind \in kinds
-------------------------------------------------------------------------------
(* Effective addresses.                                                           *)
OprMath == {"PLUS", "MINUS"}

Signed(sign, num) == IF sign = "MINUS" THEN S16(- S16(num)) ELSE S16(num)

(* Mutant: the sign is not given back when no number follows.                     *)
parse_signed_num_KeepsSign(t, i, eaddr) ==
    IF ~ Is(t, i, OprMath) THEN NotParsed(i, eaddr)
    ELSE IF Is(t, i + 1, {"NUM"})
         THEN Parsed(i + 2, [eaddr EXCEPT !.disp = Signed(t[i].kind, t[i + 1].val)])
         ELSE NotParsed(i + 1, eaddr)

parse_signed_num(t, i, eaddr) ==
    IF Is(t, i, OprMath) /\ Is(t, i + 1, {"NUM"})
    THEN Parsed(i + 2, [eaddr EXCEPT !.disp = Signed(t[i].kind, t[i + 1].val)])
    ELSE NotParsed(i, eaddr)

(* The sign of a direct address is read and dropped.                              *)
parse_direct_address(t, i, eaddr) ==
    LET n == IF Is(t, i, OprMath) THEN i + 1 ELSE i
    IN  IF Is(t, n, {"NUM"}) THEN Parsed(n + 1, [eaddr EXCEPT !.daddr = S16(t[n].val)])
                             ELSE NotParsed(i, eaddr)

(* The base that a failed first alternative leaves in the record is the base that *)
(* the second one parses at the same token.                                       *)
parse_eaddr(t, i, eaddr) ==
    LET indexed(e, j) == [e EXCEPT !.index = t[j].kind]
        based         == [eaddr EXCEPT !.base = t[i].kind]
    IN  IF Is(t, i, Bases)
        THEN IF Is(t, i + 1, {"PLUS"}) /\ Is(t, i + 2, Indices)
             THEN Optional(parse_signed_num(t, i + 3, indexed(based, i + 2)))
             ELSE Optional(parse_signed_num(t, i + 1, based))
        ELSE IF Is(t, i, Indices)
             THEN Optional(parse_signed_num(t, i + 1, indexed(eaddr, i)))
             ELSE parse_direct_address(t, i, eaddr)

parse_eaddr_(t, i, eaddr) ==
    LET r == parse_eaddr(t, IF Is(t, i, {"PLUS"}) THEN i + 1 ELSE i, eaddr)
    IN  IF r.ok THEN r ELSE NotParsed(i, r.out)

NoAddress == [base |-> "NULL", index |-> "NULL", disp |-> 0, daddr |-> 0]

parse_eaddr__(t, i) ==
    LET r == parse_eaddr_(t, i + 1, NoAddress)
    IN  IF Is(t, i, {"LSQUARE_BR"}) /\ r.ok /\ Is(t, r.at, {"RSQUARE_BR"})
        THEN Parsed(r.at + 1, MemoryOperand(r.out))
        ELSE NotParsed(i, NoOperand)
-------------------------------------------------------------------------------
(* The other operands.                                                            *)
parse_pointer(t, i) ==
    IF Is(t, i, {"NUM"}) /\ Is(t, i + 1, {"COLON"}) /\ Is(t, i + 2, {"NUM"})
    THEN Parsed(i + 3, PointerOperand(t[i].val, t[i + 2].val))
    ELSE NotParsed(i, NoOperand)

parse_imm(t, i) ==
    LET n == IF Is(t, i, OprMath) THEN i + 1 ELSE i
    IN  IF Is(t, n, {"NUM", "ZERO"})
        THEN Parsed(n + 1, ImmediateOperand(Signed(t[i].kind, t[n].val)))
        ELSE NotParsed(i, NoOperand)

parse_operand(t, i) ==
    LET memory  == parse_eaddr__(t, i)
        pointer == parse_pointer(t, i)
        imm     == parse_imm(t, i)
    IN  CASE Is(t, i, General)           -> Parsed(i + 1, RegisterOperand(t[i].kind))
          [] memory.ok                   -> memory
          [] Is(t, i, Members(Segments)) -> Parsed(i + 1, SegmentOperand(t[i].kind))
          [] pointer.ok                  -> pointer
          [] imm.ok /\ ~ pointer.ok      -> imm
          [] Is(t, i, {"LABEL"})         -> Parsed(i + 1, LabelOperand(t[i].val))
          [] OTHER                       -> NotParsed(i, NoOperand)

(* How many tokens the prefix at token i has, 0 if there is none.                 *)
Sizes == {"BYTE", "WORD"}
parse_opr_prefix(t, i) ==
    CASE Is(t, i, Sizes)                                             -> 1
      [] Is(t, i, Members(Segments)) /\ Is(t, i + 1, {"COLON"})      -> 2
      [] OTHER                                                       -> 0

(* The prefixes collect in two sets of flags, which stay when no operand follows. *)
parse_operand_(t, i) ==
    LET after[j \in i .. Len(t)] ==
            IF parse_opr_prefix(t, j) = 0 THEN j ELSE after[j + parse_opr_prefix(t, j)]
        prefixes == {t[j].kind : j \in i .. after[i] - 1}
        prefixed(o) == [o EXCEPT !.prefix_size = prefixes \cap Sizes,
                                 !.prefix_seg_ovr = prefixes \cap Members(Segments)]
        r == parse_operand(t, after[i])
    IN  IF r.ok THEN Parsed(r.at, prefixed(r.out)) ELSE NotParsed(i, prefixed(NoOperand))
-------------------------------------------------------------------------------
(* Lines.                                                                         *)
(* The tail is optional: the caller ignores the result, and when the second       *)
(* operand fails the first is parsed once more. The last alternative, a lone      *)
(* label, is an operand already.                                                  *)
parse_instruction_tail(t, i, inst) ==
    LET dst == parse_operand_(t, i)
        src == parse_operand_(t, dst.at + 1)
    IN  IF ~ dst.ok THEN NotParsed(i, inst)
        ELSE IF Is(t, dst.at, {"COMMA"}) /\ src.ok
             THEN Parsed(src.at, [inst EXCEPT !.dst = dst.out, !.src = src.out])
             ELSE Parsed(dst.at, [inst EXCEPT !.dst = dst.out])

(* mnemonic_ has no prefixes yet (parser.c:264-270).                              *)
parse_instruction(t, i) ==
    IF Is(t, i, Mnemonics)
    THEN Optional(parse_instruction_tail(t, i + 1, [NoInstruction EXCEPT !.mnemonic = t[i].kind]))
    ELSE NotParsed(i, NoInstruction)

AtBits  == Is(token, idx, {"BITS"}) /\ Is(token, idx + 1, {"NUM"})
AtLabel == Is(token, idx, {"LABEL"}) /\ Is(token, idx + 1, {"COLON"})

Init ==
    /\ token \in Programs
    /\ idx = 1
    /\ pc = "parsing"
    /\ instruction = NoInstruction
    /\ labels = {}
    /\ line = 1

(* Mutant: instruction_data is not reset before a line.                           *)
EndLine_NoReset(r) ==
    /\ instruction' = IF r.out = NoInstruction THEN instruction ELSE r.out
    /\ line' = idx
    /\ IF r.ok /\ Is(token, r.at, {"EOL"})
       THEN idx' = r.at + 1 /\ UNCHANGED pc
       ELSE pc' = "refused" /\ UNCHANGED idx
    /\ UNCHANGED token

(* The rest of parse_line_: a line ends here, or the program is refused with idx   *)
(* where the line began.                                                          *)
EndLine(r) ==
    /\ instruction' = r.out
    /\ line' = idx
    /\ IF r.ok /\ Is(token, r.at, {"EOL"})
       THEN idx' = r.at + 1 /\ UNCHANGED pc
       ELSE pc' = "refused" /\ UNCHANGED idx
    /\ UNCHANGED token

Parsing == pc = "parsing" /\ idx <= Len(token)

(* Mutants: the EOL is passed twice, or not at all.                               *)
EmptyLine_Twice ==
    /\ Parsing /\ Is(token, idx, {"EOL"})
    /\ idx' = idx + 2
    /\ line' = idx
    /\ instruction' = NoInstruction
    /\ UNCHANGED <<token, pc, labels>>

EmptyLine_Stays ==
    /\ Parsing /\ Is(token, idx, {"EOL"})
    /\ line' = idx
    /\ instruction' = NoInstruction
    /\ UNCHANGED <<token, idx, pc, labels>>

EmptyLine ==
    /\ Parsing /\ Is(token, idx, {"EOL"})
    /\ idx' = idx + 1
    /\ line' = idx
    /\ instruction' = NoInstruction
    /\ UNCHANGED <<token, pc, labels>>

BitsLine ==
    /\ Parsing /\ AtBits
    /\ EndLine(Parsed(idx + 2, NoInstruction))
    /\ UNCHANGED labels

(* The label is inserted before the end of the line is seen; a name that is there *)
(* already fails the assertion of maplabel_insert.                                *)
LabelLine ==
    /\ Parsing /\ AtLabel
    /\ token[idx].val \notin labels
    /\ labels' = labels \cup {token[idx].val}
    /\ EndLine(Parsed(idx + 2, NoInstruction))

DuplicateLabel ==
    /\ Parsing /\ AtLabel
    /\ token[idx].val \in labels
    /\ pc' = "aborted"
    /\ instruction' = NoInstruction
    /\ line' = idx
    /\ UNCHANGED <<token, idx, labels>>

InstructionLine ==
    /\ Parsing /\ ~ AtBits /\ ~ AtLabel /\ ~ Is(token, idx, {"EOL"})
    /\ EndLine(parse_instruction(token, idx))
    /\ UNCHANGED labels

Finish ==
    /\ pc = "parsing" /\ idx > Len(token)
    /\ pc' = "done"
    /\ UNCHANGED <<token, idx, instruction, labels, line>>

Next == \/ EmptyLine \/ BitsLine \/ LabelLine \/ DuplicateLabel \/ InstructionLine \/ Finish

Spec == Init /\ [][Next]_vars
-------------------------------------------------------------------------------
(* Properties. Text is the line that was read last.                               *)
G == INSTANCE Grammar

EndOf(i) == CHOOSE j \in i .. Len(token) :
                token[j].kind = "EOL" /\ \A k \in i .. j - 1 : token[k].kind # "EOL"
Text     == SubSeq(token, line, EndOf(line) - 1)
Accepted == pc # "aborted" /\ idx > line

(* Every variable keeps its type, the operands are such as codegen takes, and idx   *)
(* never passes the last token by more than one: no function reads behind the token *)
(* list.                                                                          *)
TypeOK ==
    /\ idx \in 1 .. Len(token) + 1
    /\ line \in 1 .. Len(token)
    /\ pc \in {"parsing", "done", "refused", "aborted"}
    /\ instruction.mnemonic \in Mnemonics \cup {"NULL"}
    /\ IsOperand(instruction.dst) /\ IsOperand(instruction.src)
    /\ labels \subseteq {token[i].val : i \in DOMAIN token}

(* What the parser leaves out of grammar.txt: prefix* before a mnemonic, since      *)
(* parse_prefix always fails (parser.c:264-270), and NUM_ZERO as an address, since   *)
(* parse_direct_address tries TOK_NUM alone (parser.c:541-569).                     *)
IsParsed(kinds) ==
    /\ G!IsLine(Mnemonics, kinds)
    /\ kinds[1] \notin G!Prefixes
    /\ \A k \in 1 .. Len(kinds) - 1 : ~ (kinds[k] = "ZERO" /\ kinds[k + 1] = "RSQUARE_BR")

(* Trying alternatives in turn, with restored positions and ignored results,      *)
(* recognizes the lines of grammar.txt with neither of the two: parse_line_ accepts *)
(* a line only if it is one of them and has then consumed it with its EOL, and      *)
(* refuses a line only if it is none of them, with idx back at its beginning.       *)
LinesInGrammar ==
    LET kinds == [i \in DOMAIN Text |-> Text[i].kind]
    IN  /\ Accepted => (Text = <<>> \/ IsParsed(kinds)) /\ (pc = "parsing" => idx = EndOf(line) + 1)
        /\ pc = "refused" => ~ IsParsed(kinds) /\ idx = line

(* No line that grammar.txt derives is refused. The code refuses those with 0 as an *)
(* address (parser.c:549) and those with a prefix (parser.c:264-270).               *)
GrammarLinesAccepted == pc = "refused" => ~ G!IsLine(G!Listed, [i \in DOMAIN Text |-> Text[i].kind])

(* The sign of a direct address is lost on the way (parser.c:558-562): [-5] is      *)
(* handed over as [5]. This puts it back.                                         *)
WithSign(t, i, j, o) ==
    LET kinds == G!KindsIn(t, i, j)
    IN  IF t[j - 1].kind = "RSQUARE_BR" /\ kinds \cap (Bases \cup Indices) = {} /\ "MINUS" \in kinds
        THEN [o EXCEPT !.daddr = S16(- o.daddr)] ELSE o

(* What codegen reads after an accepted line is what that line says, but for that  *)
(* sign: both operands with all their parts, nothing of an alternative that failed, *)
(* and nothing of an earlier line when the line is a label, bits or empty.         *)
OperandsMeant ==
    \A end \in {EndOf(line)} :
        LET comma(c)     == token[c].kind = "COMMA"
            split(c)     == IF c < end THEN comma(c) ELSE \A k \in line + 1 .. end - 1 : ~ comma(k)
            says(i, j, o) == IF i >= j THEN o = NoOperand ELSE G!Says(token, i, j, WithSign(token, i, j, o))
        IN  Accepted =>
                IF line < end /\ token[line].kind \in Mnemonics
                THEN /\ instruction.mnemonic = token[line].kind
                     /\ \E c \in line + 1 .. end :
                            split(c) /\ says(line + 1, c, instruction.dst) /\ says(c + 1, end, instruction.src)
                ELSE instruction = NoInstruction

(* No round of main's loop leaves the parser where it was: it passes at least one  *)
(* token, or it is the last. With idx bounded by TypeOK the loop ends.             *)
RoundsAdvance == [][pc' = "parsing" => idx' > idx]_vars
===============================================================================
