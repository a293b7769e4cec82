---------------------------- MODULE JumpResolution ----------------------------
(* What assembling a program promises about its jumps, without saying how      *)
(* forward references are kept: the lines are read, and when all are read the   *)
(* whole image is there at once and every jump that can reach its target lands   *)
(* on it.  Assembler.tla, which leaves holes and patches them, implements this. *)
EXTENDS Integers

CONSTANTS
    Names,       \* label names
    Numbers,     \* numbers a jump can have for operand
    BlockSizes,  \* bytes a block of lines that are no labels or jumps can take
    MaxLines,    \* bound: lines or blocks of a program
    MaxCode,     \* bound: bytes of code
    PatchLen,    \* jumps that can wait for their label
    None         \* the position of a label that is not defined

Word     == 65536                \* positions and displacements are 16 bits wide
Kinds    == {"jmp", "je"}
Ended    == {"written", "rejected", "aborted", "unencodable"}
Operands == Names \cup Numbers

OperandLen(kind) == IF kind = "jmp" THEN 2 ELSE 1
JumpLen(kind)    == 1 + OperandLen(kind)

VARIABLES
    phase,    \* "reading" or the way the program ended
    lines,    \* lines not read yet
    here,     \* the position of the next line
    labels,   \* the position of each label
    jumps,    \* the jumps read
    waiting,  \* jumps that were read before their label, so far
    landing   \* where each jump of the written file goes

vars == <<phase, lines, here, labels, jumps, waiting, landing>>

Init ==
    /\ phase = "reading"
    /\ lines \in 0 .. MaxLines
    /\ here = 0
    /\ labels = [n \in Names |-> None]
    /\ jumps = {}
    /\ waiting = 0
    /\ landing = <<>>

Take(n) ==
    /\ phase = "reading"
    /\ lines > 0
    /\ here + n <= MaxCode
    /\ lines' = lines - 1
    /\ here' = here + n
    /\ UNCHANGED landing

Plain(n) == Take(n) /\ UNCHANGED <<phase, labels, jumps, waiting>>

Define(n) ==
    /\ Take(0)
    /\ labels[n] = None
    /\ labels' = [labels EXCEPT ![n] = here]
    /\ UNCHANGED <<phase, jumps, waiting>>

Jump(kind, to) ==
    /\ Take(JumpLen(kind))
    /\ jumps' = jumps \cup {[at |-> here, kind |-> kind, to |-> to]}
    /\ IF to \in Names /\ labels[to] = None
         THEN waiting < PatchLen /\ waiting' = waiting + 1
         ELSE UNCHANGED waiting
    /\ UNCHANGED <<phase, labels>>

Target(j) == IF j.to \in Names THEN labels[j.to] ELSE j.to

(* A jmp reaches all of its segment; a je whose operand is a label reaches it   *)
(* when the distance fits in a signed byte.                                     *)
Reaches(j) ==
    \/ j.kind = "jmp"
    \/ j.to \in Names /\ Target(j) - (j.at + JumpLen(j.kind)) \in -128 .. 127

Resolved == \A j \in jumps : j.to \in Names => labels[j.to] # None

Finish ==
    /\ phase = "reading"
    /\ lines = 0
    /\ Resolved
    /\ phase' = "written"
    /\ landing' \in {f \in [jumps -> 0 .. Word - 1] :
                         \A j \in jumps : Reaches(j) => f[j] = Target(j) % Word}
    /\ UNCHANGED <<lines, here, labels, jumps, waiting>>

Reject ==
    /\ phase = "reading"
    /\ lines > 0
    /\ phase' = "rejected"
    /\ lines' = lines - 1
    /\ \/ UNCHANGED labels
       \/ \E n \in Names : labels[n] = None /\ labels' = [labels EXCEPT ![n] = here]
    /\ UNCHANGED <<here, jumps, waiting, landing>>

(* A line with an instruction that has no encoding. *)
Unencodable ==
    /\ phase = "reading"
    /\ lines > 0
    /\ phase' = "unencodable"
    /\ UNCHANGED <<lines, here, labels, jumps, waiting, landing>>

(* The only other reasons to stop: a label defined twice, a jump more than the list   *)
(* of waiting jumps has room for, and a jump to a label that is nowhere.        *)
Abort ==
    /\ phase = "reading"
    /\ \/ lines > 0 /\ \E n \in Names : labels[n] # None
       \/ lines > 0 /\ waiting = PatchLen
       \/ lines = 0 /\ ~Resolved
    /\ phase' = "aborted"
    /\ UNCHANGED <<lines, here, labels, jumps, waiting, landing>>

Next ==
    \/ \E n \in BlockSizes : Plain(n)
    \/ \E n \in Names : Define(n)
    \/ \E kind \in Kinds, to \in Operands : Jump(kind, to)
    \/ Finish
    \/ Reject
    \/ Unencodable
    \/ Abort

Spec == Init /\ [][Next]_vars
===============================================================================
