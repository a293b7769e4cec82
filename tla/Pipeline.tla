------------------------------- MODULE Pipeline --------------------------------
(* main (asm8086.c:44-115) with the whole of parser and codegen: each line is     *)
(* parsed, encoded field by field and stored; then the list of addresses is patched *)
(* into the bytes.  A composition of Parser and Encoder that gives both the label   *)
(* map and the instruction pointer they share; Assembler.tla, where an instruction   *)
(* is a number of bytes and a jump its operand, is what it implements.              *)
EXTENDS Integers, Sequences, FiniteSets

CONSTANTS
    Programs,   \* token lists
    Mnemonics,  \* those in Programs
    Names,      \* the names of labels in Programs
    Numbers,    \* the numbers in Programs, as s16, with a sign and without
    NoName,     \* the name of an operand that is no label
    PatchLen,   \* length of list_addrtopatch, 100 in the code
    MaxLines, MaxCode \* bounds of Assembler: lines and bytes of Programs

VARIABLES
    token, idx, parser_pc, instruction, line, \* of the parser
    position,                                 \* g_map_label: name -> position
    call, encoder_pc, fields, encoding, bitlen, patches, bytes, \* of codegen
    phase,                 \* "lines", "encode", "patch" or how the program ended
    g_instruction_pointer,
    code,                  \* the bytes in codegen_arena
    list_addrtopatch,
    i,                     \* loop counter of the patch loop
    lines,                 \* history: lines that are not assembled yet
    listing,               \* history: the instructions stored, and where
    jumps                  \* history: those with a label or a number, as in Assembler

parser  == <<token, idx, parser_pc, instruction, line>>
encoder == <<call, encoder_pc, fields, encoding, bitlen, patches, bytes>>
output  == <<g_instruction_pointer, code, list_addrtopatch, listing, jumps>>
vars    == <<parser, position, encoder, phase, output, i, lines>>

P == INSTANCE Parser WITH pc <- parser_pc, labels <- DOMAIN position
E == INSTANCE Encoder WITH pc <- encoder_pc, Calls <- {}

(* Programs are what tokenize makes; the other constants are what they contain.     *)
Of(p, kinds)      == {k \in DOMAIN p : p[k].kind \in kinds}
SignedValues(val) == {P!S16(val), P!S16(- val)}

ASSUME ProgramsAssumption ==
    \A p \in Programs :
        /\ P!IsProgram(p)
        /\ Cardinality(Of(p, {"EOL"})) <= MaxLines
        /\ \A k \in Of(p, {"LABEL"}) : p[k].val \in Names
        /\ \A k \in Of(p, {"NUM", "ZERO"}) : SignedValues(p[k].val) \subseteq Numbers
ASSUME MnemonicsAssumption ==
    P!MnemonicsAssumption /\ Mnemonics \subseteq DOMAIN E!Table \ {"NULL"}
ASSUME NamesAssumption  == Numbers \subseteq Int /\ Names \cap Numbers = {}
ASSUME RowsAssumption   == E!TableAssumption /\ E!JumpRowsAssumption
ASSUME BoundsAssumption == MaxLines \in Nat /\ MaxCode \in Nat /\ PatchLen \in Nat

(* maplabel_find gives the position of a label, or slot 0.                         *)
Find(name) == IF name \in DOMAIN position THEN position[name] ELSE E!NoPosition
CallOf(inst) == [inst |-> inst, ip |-> g_instruction_pointer, pos |-> Find(inst.dst.label)]

StartEncoder(inst) ==
    /\ call' = CallOf(inst)
    /\ encoder_pc' = "searching"
    /\ fields' = <<>> /\ encoding' = <<>> /\ bitlen' = 0 /\ patches' = <<>> /\ bytes' = <<>>

Init ==
    /\ position = <<>>
    /\ P!Init
    /\ g_instruction_pointer = 0
    /\ call = CallOf(P!NoInstruction)
    /\ encoder_pc = "dropped"
    /\ fields = <<>> /\ encoding = <<>> /\ bitlen = 0 /\ patches = <<>> /\ bytes = <<>>
    /\ phase = "lines"
    /\ code = <<>>
    /\ list_addrtopatch = <<>>
    /\ i = 0
    /\ listing = <<>> /\ jumps = {}
    /\ lines = Cardinality(Of(token, {"EOL"}))

------------------------------------------------------------------------------
(* A round of the loop parses one line; a label gets the current position.        *)
Insert(name) == [n \in DOMAIN position \cup {name} |->
                    IF n = name THEN g_instruction_pointer ELSE position[n]]

ParseLine ==
    /\ phase = "lines"
    /\ position' \in {position} \cup {Insert(name) : name \in Names \ DOMAIN position}
    /\ P!Next
    /\ phase' = CASE parser_pc' = "parsing" -> "encode"
                  [] parser_pc' = "done"    -> "patch"
                  [] parser_pc' = "refused" -> "rejected"
                  [] parser_pc' = "aborted" -> "aborted"
    /\ IF parser_pc' = "parsing" THEN StartEncoder(instruction') ELSE UNCHANGED encoder
    /\ lines' = IF \/ parser_pc' = "refused"
                   \/ parser_pc' = "parsing" /\ instruction'.mnemonic = "NULL"
                THEN lines - 1 ELSE lines
    /\ UNCHANGED <<output, i>>

(* codegen; list_addrtopatch_add asserts that the list is not full.                *)
Full == Len(list_addrtopatch) = PatchLen

EncodeField ==
    /\ phase = "encode"
    /\ E!Next
    /\ patches' # patches => ~Full
    /\ phase' = IF encoder_pc' = "aborted" THEN "unencodable" ELSE phase
    /\ UNCHANGED <<parser, position, output, i, lines>>

PatchListFull ==
    /\ phase = "encode"
    /\ Full
    /\ E!At("LBL") \/ E!At("LBL8")
    /\ call.pos = E!NoPosition
    /\ phase' = "aborted"
    /\ UNCHANGED <<parser, position, encoder, output, i, lines>>

(* What main keeps of a line: nothing if it has no instruction, or one without a row. *)
IsJump(inst) == inst.mnemonic \in {"JMP", "JE"} /\ inst.dst.kind \cap {"LABEL", "IMMEDIATE"} # {}
JumpOf(inst) ==
    [at   |-> g_instruction_pointer,
     kind |-> IF inst.mnemonic = "JMP" THEN "jmp" ELSE "je",
     to   |-> IF "LABEL" \in inst.dst.kind THEN inst.dst.label ELSE inst.dst.imm]

Store(num_bytes) ==
    /\ phase = "encode"
    /\ encoder_pc \in {"done", "dropped"}
    /\ g_instruction_pointer' = g_instruction_pointer + num_bytes
    /\ code' = code \o bytes
    /\ list_addrtopatch' = list_addrtopatch \o patches
    /\ IF encoder_pc = "done"
       THEN /\ listing' = Append(listing, [at |-> g_instruction_pointer, inst |-> instruction])
            /\ jumps' = jumps \cup IF IsJump(instruction) THEN {JumpOf(instruction)} ELSE {}
       ELSE UNCHANGED <<listing, jumps>>
    /\ lines' = IF instruction.mnemonic = "NULL" THEN lines ELSE lines - 1
    /\ phase' = "lines"
    /\ UNCHANGED <<parser, position, encoder, i>>

(* Mutant: the instruction pointer counts a byte for every line. *)
StoreLine_AtLeastOne == Store(IF bytes = <<>> THEN 1 ELSE Len(bytes))

StoreLine == Store(Len(bytes))

------------------------------------------------------------------------------
(* The patch loop, on the bytes.  Slot 0 has the position 0.                       *)
addr == list_addrtopatch[i + 1]
address_to_write == (IF Find(addr.labelname) = E!NoPosition THEN 0 ELSE Find(addr.labelname)) % 65536
start_write == addr.inst_pointer % 65536
Patching == phase = "patch" /\ i < Len(list_addrtopatch)

(* Mutant: the first byte of the code is byte 1.                                   *)
PatchNext_FromOne ==
    /\ Patching /\ address_to_write > start_write
    /\ LET diff == (address_to_write - (start_write + addr.bytelen)) % 65536 IN
           code' = [p \in DOMAIN code |->
               IF p = start_write THEN diff % 256
               ELSE IF p = start_write + 1 /\ addr.bytelen = 2 THEN diff \div 256 ELSE code[p]]
    /\ i' = i + 1
    /\ UNCHANGED <<parser, position, encoder, phase, g_instruction_pointer, list_addrtopatch, listing, jumps, lines>>

PatchNext ==
    /\ Patching /\ address_to_write > start_write
    /\ LET diff == (address_to_write - (start_write + addr.bytelen)) % 65536 IN
           code' = [p \in DOMAIN code |->
               IF p = start_write + 1 THEN diff % 256
               ELSE IF p = start_write + 2 /\ addr.bytelen = 2 THEN diff \div 256 ELSE code[p]]
    /\ i' = i + 1
    /\ UNCHANGED <<parser, position, encoder, phase, g_instruction_pointer, list_addrtopatch, listing, jumps, lines>>

PatchAbort ==
    /\ Patching /\ address_to_write <= start_write
    /\ phase' = "aborted"
    /\ UNCHANGED <<parser, position, encoder, output, i, lines>>

Write ==
    /\ phase = "patch" /\ i = Len(list_addrtopatch)
    /\ phase' = "written"
    /\ UNCHANGED <<parser, position, encoder, output, i, lines>>

Next ==
    \/ ParseLine
    \/ EncodeField \/ PatchListFull \/ StoreLine
    \/ PatchNext \/ PatchAbort \/ Write

Spec == Init /\ [][Next]_vars

------------------------------------------------------------------------------
(* The listing as calls of codegen that know all labels: what each instruction     *)
(* says, in the terms of the decoder.                                              *)
Final(entry) == [inst |-> entry.inst, ip |-> entry.at, pos |-> Find(entry.inst.dst.label)]
Said(entry) == INSTANCE Encoder WITH call <- Final(entry), pc <- encoder_pc, Calls <- {}

EndOf(k) == IF k = Len(listing) THEN Len(code) ELSE listing[k + 1].at

(* The code is one instruction after the other, of 1 to 6 bytes each, and a label   *)
(* is the beginning of one or the end of the code (asm8086.c:51-76).                 *)
Tiled ==
    /\ code # <<>> => listing # <<>> /\ listing[1].at = 0
    /\ \A k \in 1 .. Len(listing) : EndOf(k) - listing[k].at \in 1 .. 6
    /\ \A name \in DOMAIN position :
           position[name] \in {listing[k].at : k \in 1 .. Len(listing)} \cup {Len(code)}

(* What the 8086 runs is the program that was written: the bytes of the file are   *)
(* one instruction after the other, each of them, decoded where it lies, the one     *)
(* that its line says with its jumps to where the labels came to be                  *)
(* (asm8086.c:51-112).                                                              *)
ProgramDecodes ==
    phase = "written" =>
        /\ \A k \in 1 .. Len(listing) : LET entry == listing[k] IN
               Said(entry)!InLanguage =>
               \E d \in {E!M!Decode(SubSeq(code, entry.at + 1, EndOf(k)) \o <<0, 0, 0, 0, 0>>, entry.at)} :
                   /\ d.mnemonic = entry.inst.mnemonic
                   /\ d.operands = Said(entry)!Operands
                   /\ d.len = EndOf(k) - entry.at
        /\ Tiled

------------------------------------------------------------------------------
JumpBytes == UNION {j.at + 1 .. j.at + (IF j.kind = "jmp" THEN 2 ELSE 1) : j \in jumps}

(* What Assembler's phase, labels and image are here. *)
Phase  == IF phase = "encode" THEN "lines" ELSE phase
Labels == [n \in Names |-> Find(n)]
Image  == [p \in JumpBytes |-> code[p + 1]]

A == INSTANCE Assembler WITH
         None <- E!NoPosition, BlockSizes <- 0 .. 6,
         phase <- Phase, labels <- Labels, image <- Image

(* The composition does what Assembler says of main, so that what is proved of     *)
(* Assembler for all programs is about this one: codegen's fields add up to the      *)
(* bytes and the patches of a block, a jump or a label, whatever the parser makes    *)
(* of a line (asm8086.c:51-115; parser.c:85-155; codegen.c:322-381).                 *)
ImplementsAssembler == A!Init /\ [][A!Next]_(A!vars)
===============================================================================
