------------------------------- MODULE Assembler -------------------------------
(* The main loop (asm8086.c:51-115) with the parts of the parser and of codegen *)
(* that read or change the instruction pointer, the label map and the list of   *)
(* addresses to patch.  Reading a line is one step: the program is sequential    *)
(* and the label map's operations are atomic for it (LabelMap.tla).              *)
(*                                                                             *)
(* Code bytes that are not the operand of a jump are not represented, so image   *)
(* is a partial function; a block is a run of lines that hold neither labels     *)
(* nor jumps: blank lines, BITS, instructions (0 bytes if no row of the table    *)
(* fits, codegen.c:410-411).                                                     *)
EXTENDS Integers, Sequences

CONSTANTS
    Names,       \* label names
    Numbers,     \* immediate operands of jumps, of type s16
    BlockSizes,  \* bytes of code a block can take
    MaxLines,    \* bound: lines or blocks of the input
    MaxCode,     \* bound: bytes of code
    PatchLen,    \* length of list_addrtopatch, 100 in the code
    None         \* the position of a label that is not in the map

ASSUME NumbersAssumption  == Numbers \subseteq Int
ASSUME NamesAssumption    == Names \cap Numbers = {}
ASSUME BlocksAssumption   == BlockSizes \subseteq Nat
ASSUME BoundsAssumption   == MaxLines \in Nat /\ MaxCode \in Nat /\ PatchLen \in Nat
ASSUME NoneAssumption     == None \notin Nat

VARIABLES
    phase,                \* "lines", "patch" or the way the program ended
    lines,                \* lines left: token_list.cnt - idx
    g_instruction_pointer,
    labels,               \* what maplabel_find tells of each name
    image,                \* bytes of jump operands in codegen_arena, by position
    list_addrtopatch,
    i,                    \* loop counter of the patch loop
    jumps                 \* history: the jumps read

vars == <<phase, lines, g_instruction_pointer, labels, image, list_addrtopatch, i, jumps>>

Word     == 65536
Kinds    == {"jmp", "je"}
Ended    == {"written", "rejected", "aborted", "unencodable"}
Operands == Names \cup Numbers

(* JMP LABEL is 11101001 LBL, JE LABEL is 01110100 LBL8: one opcode byte. *)
OperandLen(kind) == IF kind = "jmp" THEN 2 ELSE 1
JumpLen(kind)    == 1 + OperandLen(kind)

(* Mutant: the cast to a byte is missing. *)
HighByte_NoCast(value) == value \div 256

LowByte(value)  == value % 256
HighByte(value) == (value \div 256) % 256

(* The image after the len low bytes of value are stored from position at on,   *)
(* the least significant one first.                                             *)
Store(at, len, value) ==
    [p \in at .. at + len - 1 \cup DOMAIN image |->
        IF p = at THEN LowByte(value)
        ELSE IF p \in at .. at + len - 1 THEN HighByte(value)
        ELSE image[p]]

Init ==
    /\ phase = "lines"
    /\ lines \in 0 .. MaxLines
    /\ g_instruction_pointer = 0
    /\ labels = [n \in Names |-> None]
    /\ image = <<>>
    /\ list_addrtopatch = <<>>
    /\ i = 0
    /\ jumps = {}

------------------------------------------------------------------------------
(* One round of the main loop that emits n bytes of code. *)
ReadLine(n) ==
    /\ phase = "lines"
    /\ lines > 0
    /\ g_instruction_pointer + n <= MaxCode
    /\ lines' = lines - 1
    /\ g_instruction_pointer' = g_instruction_pointer + n
    /\ UNCHANGED i

ReadBlock(n) ==
    /\ ReadLine(n)
    /\ UNCHANGED <<phase, labels, image, list_addrtopatch, jumps>>

DefineLabel(name) ==
    /\ ReadLine(0)
    /\ labels[name] = None
    /\ labels' = [labels EXCEPT ![name] = g_instruction_pointer]
    /\ UNCHANGED <<phase, image, list_addrtopatch, jumps>>

(* Emit a jump whose operand bytes hold value.                                  *)
EmitJump(kind, to, value) ==
    /\ ReadLine(JumpLen(kind))
    /\ image' = Store(g_instruction_pointer + 1, OperandLen(kind), value)
    /\ jumps' = jumps \cup {[at |-> g_instruction_pointer, kind |-> kind, to |-> to]}
    /\ UNCHANGED <<phase, labels>>

(* Mutant: the distance is counted from the start of the jump. *)
JumpToKnown_FromStart(kind, name) ==
    /\ labels[name] # None
    /\ EmitJump(kind, name, labels[name] - g_instruction_pointer)
    /\ UNCHANGED list_addrtopatch

JumpToKnown(kind, name) ==
    /\ labels[name] # None
    /\ EmitJump(kind, name, labels[name] - (g_instruction_pointer + JumpLen(kind)))
    /\ UNCHANGED list_addrtopatch

(* Mutant: the width of a jmp for every kind. *)
JumpToUnknown_TwoBytes(kind, name) ==
    /\ labels[name] = None
    /\ Len(list_addrtopatch) < PatchLen
    /\ list_addrtopatch' = Append(list_addrtopatch,
           [labelname |-> name, inst_pointer |-> g_instruction_pointer + 1, bytelen |-> 2])
    /\ EmitJump(kind, name, 0)

JumpToUnknown(kind, name) ==
    /\ labels[name] = None
    /\ Len(list_addrtopatch) < PatchLen
    /\ list_addrtopatch' = Append(list_addrtopatch,
           [labelname    |-> name,
            inst_pointer |-> g_instruction_pointer + 1,
            bytelen      |-> OperandLen(kind)])
    /\ EmitJump(kind, name, 0)

(* IMM16 of a jmp is made relative, IMM8 of a je is emitted as it stands. *)
JumpToNumber(kind, imm) ==
    /\ EmitJump(kind, imm, IF kind = "jmp"
           THEN imm - (g_instruction_pointer + JumpLen(kind)) ELSE imm)
    /\ UNCHANGED list_addrtopatch

(* parse fails and main returns 1; the label of a line that goes on after the  *)
(* colon is already in the map then.                                            *)
RejectLine ==
    /\ phase = "lines"
    /\ lines > 0
    /\ phase' = "rejected"
    /\ lines' = lines - 1
    /\ \/ UNCHANGED labels
       \/ \E n \in Names :
              /\ labels[n] = None
              /\ labels' = [labels EXCEPT ![n] = g_instruction_pointer]
    /\ UNCHANGED <<g_instruction_pointer, image, list_addrtopatch, i, jumps>>

Abort ==
    /\ phase' = "aborted"
    /\ UNCHANGED <<lines, g_instruction_pointer, labels, image, list_addrtopatch, i, jumps>>

(* assert(maplabel_find(maplabel, label.name) == 0), parser.c:736. *)
DuplicateLabel(name) ==
    /\ phase = "lines"
    /\ lines > 0
    /\ labels[name] # None
    /\ Abort

(* assert(list->cnt != list->len), parser.c:794. *)
PatchListFull(name) ==
    /\ phase = "lines"
    /\ lines > 0
    /\ labels[name] = None
    /\ Len(list_addrtopatch) = PatchLen
    /\ Abort

(* assert(0), codegen.c:122: an instruction whose row has a field RM and whose     *)
(* operands have nothing for it (AbortRm of Encoder.tla).                          *)
Unencodable ==
    /\ phase = "lines"
    /\ lines > 0
    /\ phase' = "unencodable"
    /\ UNCHANGED <<lines, g_instruction_pointer, labels, image, list_addrtopatch, i, jumps>>

EndOfInput ==
    /\ phase = "lines"
    /\ lines = 0
    /\ phase' = "patch"
    /\ UNCHANGED <<lines, g_instruction_pointer, labels, image, list_addrtopatch, i, jumps>>

------------------------------------------------------------------------------
(* The patch loop.  A name that is not in the map is found at slot 0, which was *)
(* never written: its position is 0.                                            *)
addr             == list_addrtopatch[i + 1]
address_to_write == (IF labels[addr.labelname] = None THEN 0 ELSE labels[addr.labelname]) % Word
start_write      == addr.inst_pointer % Word

(* Mutants: two bytes whatever the width; a distance from the operand, not from *)
(* its end; an index that stays.                                                 *)
PatchWith(len, value, next) ==
    /\ phase = "patch"
    /\ i < Len(list_addrtopatch)
    /\ address_to_write > start_write
    /\ image' = Store(start_write, len, value)
    /\ i' = next
    /\ UNCHANGED <<phase, lines, g_instruction_pointer, labels, list_addrtopatch, jumps>>

PatchNext_TwoBytes   == PatchWith(2, address_to_write - (start_write + 2), i + 1)
PatchNext_FromStart  == PatchWith(addr.bytelen, address_to_write - start_write, i + 1)
PatchNext_SameIndex  == PatchWith(addr.bytelen, address_to_write - (start_write + addr.bytelen), i)

PatchNext ==
    /\ phase = "patch"
    /\ i < Len(list_addrtopatch)
    /\ address_to_write > start_write
    /\ image' = Store(start_write, addr.bytelen,
                      address_to_write - (start_write + addr.bytelen))
    /\ i' = i + 1
    /\ UNCHANGED <<phase, lines, g_instruction_pointer, labels, list_addrtopatch, jumps>>

(* assert(address_to_write > start_write), asm8086.c:95. *)
PatchAbort ==
    /\ phase = "patch"
    /\ i < Len(list_addrtopatch)
    /\ address_to_write <= start_write
    /\ Abort

(* fwrite and fclose: the file holds image. *)
Write ==
    /\ phase = "patch"
    /\ i = Len(list_addrtopatch)
    /\ phase' = "written"
    /\ UNCHANGED <<lines, g_instruction_pointer, labels, image, list_addrtopatch, i, jumps>>

Next ==
    \/ \E n \in BlockSizes : ReadBlock(n)
    \/ \E name \in Names : DefineLabel(name) \/ DuplicateLabel(name) \/ PatchListFull(name)
    \/ \E kind \in Kinds, name \in Names : JumpToKnown(kind, name) \/ JumpToUnknown(kind, name)
    \/ \E kind \in Kinds, imm \in Numbers : JumpToNumber(kind, imm)
    \/ RejectLine
    \/ Unencodable
    \/ EndOfInput
    \/ PatchNext \/ PatchAbort \/ Write

(* One thread that waits for nothing: as long as it can step it does.           *)
Spec == Init /\ [][Next]_vars /\ WF_vars(Next)

------------------------------------------------------------------------------
Jumps   == [at : 0 .. MaxCode, kind : Kinds, to : Operands]
Entries == [labelname : Names, inst_pointer : 1 .. MaxCode, bytelen : 1 .. 2]

(* The instruction pointer stays within the segment, labels are given positions  *)
(* that have been reached, the image holds bytes, and the list of addresses never *)
(* outgrows its array nor `i` the list (asm8086.c:47-110, parser.c:782-796).      *)
TypeOK ==
    /\ phase \in Ended \cup {"lines", "patch"}
    /\ lines \in 0 .. MaxLines
    /\ g_instruction_pointer \in 0 .. MaxCode
    /\ labels \in [Names -> Nat \cup {None}]
    /\ \A n \in Names : labels[n] # None => labels[n] <= g_instruction_pointer
    /\ image \in [DOMAIN image -> 0 .. 255]
    /\ DOMAIN image \subseteq 0 .. MaxCode
    /\ list_addrtopatch \in Seq(Entries)
    /\ Len(list_addrtopatch) <= PatchLen
    /\ i \in 0 .. Len(list_addrtopatch)
    /\ jumps \subseteq Jumps

OperandBytes(j) == j.at + 1 .. j.at + OperandLen(j.kind)

(* Where the processor goes: past the jump, plus the signed displacement. *)
Displacement(j) ==
    IF j.kind = "jmp" THEN image[j.at + 1] + 256 * image[j.at + 2]
    ELSE IF image[j.at + 1] < 128 THEN image[j.at + 1] ELSE image[j.at + 1] - 256
Landing(j) == (j.at + JumpLen(j.kind) + Displacement(j)) % Word
Target(j)  == IF j.to \in Names THEN labels[j.to] ELSE j.to

Reaches(j) ==
    \/ j.kind = "jmp"
    \/ j.to \in Names /\ Target(j) - (j.at + JumpLen(j.kind)) \in -128 .. 127

Lands(j) == Landing(j) = Target(j) % Word

(* A jump whose operand the patch loop has still to write. *)
Waits(j) ==
    \E k \in i + 1 .. Len(list_addrtopatch) : list_addrtopatch[k].inst_pointer = j.at + 1

(* Every jump that can reach its target and does not wait for the patch loop    *)
(* lands on it, and stays so whatever is read or patched later; in the written   *)
(* file no jump waits.  codegen computes the displacement of a backward jump     *)
(* (codegen.c:342-350, 373-379), asm8086.c:93-109 that of a forward one.         *)
JumpsLand == \A j \in jumps : ~Waits(j) => (Reaches(j) => Lands(j))

(* The list holds one entry for each jump read before its label, with the       *)
(* name, the place and the width of its operand, and no other entry: a jump     *)
(* is neither forgotten nor patched twice (codegen.c:327-338, 358-370).          *)
ForwardJumps == {j \in jumps : j.to \in Names /\ (labels[j.to] = None \/ labels[j.to] > j.at)}
Entry(j) == [labelname |-> j.to, inst_pointer |-> j.at + 1, bytelen |-> OperandLen(j.kind)]

PatchListExact ==
    /\ {Entry(j) : j \in ForwardJumps} = {list_addrtopatch[k] : k \in DOMAIN list_addrtopatch}
    /\ \A k, m \in DOMAIN list_addrtopatch :
           list_addrtopatch[k] = list_addrtopatch[m] => k = m

(* A patch writes the operand of one jump, all of it, and no other byte of the  *)
(* image (asm8086.c:99-109).                                                     *)
PatchesInPlace ==
    [][i' = i + 1 =>
          /\ DOMAIN image' = DOMAIN image
          /\ \E j \in jumps : \A a \in DOMAIN image :
                 image'[a] # image[a] => a \in OperandBytes(j)]_vars

(* What the comparison with NASM expects of every jump that is accepted, in the *)
(* reach of a signed byte or not (README.md:65, build.sh:66-68).  LBL8 keeps    *)
(* the low byte of the distance, whatever the distance (codegen.c:375-378;       *)
(* asm8086.c:101-104).                                                           *)
ShortJumpsLand ==
    phase = "written" => \A j \in jumps : j.kind = "je" /\ j.to \in Names => Lands(j)

(* Every input is assembled or refused: the program ends.                       *)
Terminates == <>(phase \in Ended)

------------------------------------------------------------------------------
(* Patching is invisible: the main loop and the patch loop implement an         *)
(* assembler that resolves all jumps at once when the input is read.             *)
Resolution == INSTANCE JumpResolution WITH
    phase   <- IF phase \in {"lines", "patch"} THEN "reading" ELSE phase,
    here    <- g_instruction_pointer,
    waiting <- Len(list_addrtopatch),
    landing <- IF phase = "written" THEN [j \in jumps |-> Landing(j)] ELSE <<>>
ImplementsResolution == Resolution!Spec
===============================================================================
