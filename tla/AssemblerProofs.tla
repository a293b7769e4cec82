---------------------------- MODULE AssemblerProofs ---------------------------
(* The code of one segment: JumpsLand, PatchListExact, PatchesInPlace and the    *)
(* safety part of ImplementsResolution hold for every input, whatever names,     *)
(* numbers, block sizes and length of the patch list.                            *)
EXTENDS Assembler, TLAPS

(* Positions fit in 16 bits, so (u16) changes none of them.                     *)
OneSegment == MaxCode < Word

End(j) == j.at + JumpLen(j.kind)

(* Jumps lie one after the other below the instruction pointer, and the bytes   *)
(* of image are their operands.                                                  *)
JumpsApart ==
    /\ \A j \in jumps : End(j) <= g_instruction_pointer
    /\ \A j, k \in jumps : j # k => End(j) <= k.at \/ End(k) <= j.at
    /\ \A j \in jumps : OperandBytes(j) \subseteq DOMAIN image
    /\ \A p \in DOMAIN image : p < g_instruction_pointer

(* Entry k is that of a jump that does not know its label or lies before it,    *)
(* and entries are in the order of the code.                                     *)
EntriesForward ==
    /\ \A k \in 1 .. Len(list_addrtopatch) :
           \E j \in ForwardJumps : list_addrtopatch[k] = Entry(j)
    /\ \A k, m \in 1 .. Len(list_addrtopatch) :
           k < m => list_addrtopatch[k].inst_pointer < list_addrtopatch[m].inst_pointer

(* A label never lies inside a jump.                                            *)
LabelsBetween ==
    \A j \in jumps, n \in Names :
        labels[n] # None => labels[n] <= j.at \/ labels[n] >= End(j)

AllListed ==
    \A j \in ForwardJumps : \E k \in 1 .. Len(list_addrtopatch) : list_addrtopatch[k] = Entry(j)

(* The patch loop starts when all lines are read, and gets past an entry only   *)
(* if its label is defined.                                                      *)
PatchProgress ==
    /\ phase = "lines" => i = 0
    /\ phase \in {"patch", "written"} => lines = 0
    /\ \A k \in 1 .. i : labels[list_addrtopatch[k].labelname] # None

Inv ==
    /\ OneSegment
    /\ TypeOK
    /\ PatchProgress
    /\ JumpsApart
    /\ EntriesForward
    /\ LabelsBetween
    /\ AllListed
    /\ JumpsLand

------------------------------------------------------------------------------
(* Store writes the bytes it is told and leaves the others alone. *)
LEMMA StoreWrites ==
  ASSUME image \in [DOMAIN image -> 0 .. 255],
         NEW at \in Int, NEW len \in 1 .. 2, NEW value \in Int,
         image' = Store(at, len, value)
  PROVE  /\ DOMAIN image' = at .. at + len - 1 \cup DOMAIN image
         /\ image' \in [DOMAIN image' -> 0 .. 255]
         /\ image'[at] = LowByte(value)
         /\ len = 2 => image'[at + 1] = HighByte(value)
         /\ \A p \in DOMAIN image : p \notin at .. at + len - 1 => image'[p] = image[p]
<1>. DEFINE D == at .. at + len - 1 \cup DOMAIN image
<1>1. image' = [p \in D |-> IF p = at THEN LowByte(value)
                            ELSE IF p \in at .. at + len - 1 THEN HighByte(value)
                            ELSE image[p]]
  BY DEF Store
<1>2. LowByte(value) \in 0 .. 255 /\ HighByte(value) \in 0 .. 255
  BY DEF LowByte, HighByte
<1>3. DOMAIN image' = D
  BY <1>1
<1>4. ASSUME NEW p \in D PROVE image'[p] \in 0 .. 255
  BY <1>1, <1>2
<1>5. at \in D /\ (len = 2 => at + 1 \in D)
  OBVIOUS
<1>6. image' \in [D -> 0 .. 255]
  BY <1>1, <1>4
<1>7. \A p \in DOMAIN image : p \notin at .. at + len - 1 => image'[p] = image[p]
  BY <1>1
<1>. QED  BY <1>1, <1>3, <1>5, <1>6, <1>7

(* A signed byte keeps a value from -128 to 127. *)
LEMMA ByteLands ==
  ASSUME NEW v \in -128 .. 127
  PROVE  (IF LowByte(v) < 128 THEN LowByte(v) ELSE LowByte(v) - 256) = v
  BY DEF LowByte


(* A jump is two or three bytes long. *)
LEMMA Lengths ==
  ASSUME NEW kind \in Kinds
  PROVE  /\ OperandLen(kind) \in 1 .. 2
         /\ JumpLen(kind) = 1 + OperandLen(kind)
         /\ kind = "jmp" <=> OperandLen(kind) = 2
         /\ kind = "je" <=> OperandLen(kind) = 1
  BY DEF Kinds, OperandLen, JumpLen

(* A jump lands where it landed if its operand and its target stay. *)
LEMMA LandsStable ==
  ASSUME NEW j \in Jumps,
         \A p \in OperandBytes(j) : image'[p] = image[p],
         Target(j)' = Target(j)
  PROVE  /\ Lands(j)' <=> Lands(j)
         /\ Reaches(j)' <=> Reaches(j)
<1>1. j.at \in Nat /\ j.kind \in Kinds
  BY BoundsAssumption DEF Jumps
<1>2. /\ j.at + 1 \in OperandBytes(j)
      /\ j.kind = "jmp" => j.at + 2 \in OperandBytes(j)
  BY <1>1, Lengths DEF OperandBytes
<1>3. Displacement(j)' = Displacement(j)
  BY <1>2 DEF Displacement
<1>. QED  BY <1>3 DEF Lands, Landing, Reaches

(* A value stored as the operand of a jump makes the jump land on a target it    *)
(* reaches, if it is the distance from the end of the jump, modulo 2^16.         *)
LEMMA StoredLands ==
  ASSUME NEW j \in Jumps, NEW t \in Int, NEW S,
         S[j.at + 1] = LowByte(t - End(j)),
         j.kind = "jmp" => S[j.at + 2] = HighByte(t - End(j)),
         image' = S, Target(j)' = t,
         Reaches(j)'
  PROVE  Lands(j)'
<1>1. j.at \in Nat /\ j.kind \in Kinds /\ End(j) \in Nat
  BY BoundsAssumption, Lengths DEF Jumps, End
<1>2. CASE j.kind = "jmp"
  <2>1. PICK e \in Int : e = End(j)
    BY <1>1
  <2>2. Displacement(j)' = LowByte(t - End(j)) + 256 * HighByte(t - End(j))
    BY <1>2 DEF Displacement
  <2>3. (e + (LowByte(t - e) + 256 * HighByte(t - e))) % Word = t % Word
    BY DEF Word, LowByte, HighByte
  <2>4. Landing(j)' = (End(j) + Displacement(j)') % Word
    BY DEF Landing, End
  <2>. QED  BY <2>1, <2>2, <2>3, <2>4 DEF Lands
<1>3. CASE j.kind # "jmp"
  <2>1. t - End(j) \in -128 .. 127
    BY <1>3 DEF Reaches, End
  <2>2. Displacement(j)' = IF LowByte(t - End(j)) < 128 THEN LowByte(t - End(j))
                           ELSE LowByte(t - End(j)) - 256
    BY <1>3 DEF Displacement
  <2>3. Displacement(j)' = t - End(j)
    BY <2>1, <2>2, ByteLands
  <2>. QED  BY <1>1, <2>3 DEF Lands, Landing, End, Word
<1>. QED  BY <1>2, <1>3

------------------------------------------------------------------------------
(* Nothing is read yet. *)
LEMMA InitInv == Init /\ OneSegment => Inv
<1>. SUFFICES ASSUME Init, OneSegment PROVE Inv
  OBVIOUS
<1>1. DOMAIN image = {} /\ Len(list_addrtopatch) = 0
  BY DEF Init
<1>2. TypeOK
  <2>1. image \in [DOMAIN image -> 0 .. 255]
    BY <1>1 DEF Init
  <2>2. list_addrtopatch \in Seq(Entries)
    BY DEF Init
  <2>. QED  BY <1>1, <2>1, <2>2, BoundsAssumption DEF Init, TypeOK, Ended
<1>. QED  BY <1>1, <1>2 DEF Inv, Init, JumpsApart, EntriesForward, LabelsBetween, AllListed,
            ForwardJumps, JumpsLand, PatchProgress

(* A step that emits code without jumps, or only moves between the phases.     *)
LEMMA FrameInv ==
  ASSUME Inv, UNCHANGED <<labels, image, list_addrtopatch, i, jumps>>,
         phase' \in Ended \cup {"lines", "patch"},
         phase' = "lines" => phase = "lines",
         lines' \in 0 .. MaxLines,
         g_instruction_pointer' \in 0 .. MaxCode,
         g_instruction_pointer <= g_instruction_pointer',
         phase' \in {"patch", "written"} => lines' = 0
  PROVE  Inv'
<1>1. TypeOK'
  BY SMTT(30) DEF Inv, TypeOK
<1>2. JumpsApart'
  <2>1. \A j \in jumps : End(j) \in Nat
    BY Lengths DEF Inv, TypeOK, Jumps, End
  <2>2. \A j \in jumps : End(j) <= g_instruction_pointer'
    BY <2>1 DEF Inv, TypeOK, JumpsApart
  <2>3. \A p \in DOMAIN image : p < g_instruction_pointer'
    BY DEF Inv, TypeOK, JumpsApart
  <2>. QED  BY <2>2, <2>3 DEF Inv, JumpsApart, End, OperandBytes
<1>3. EntriesForward' /\ LabelsBetween' /\ AllListed'
  BY DEF Inv, EntriesForward, LabelsBetween, AllListed, ForwardJumps, End
<1>4. JumpsLand'
  <2>. SUFFICES ASSUME NEW j \in jumps, ~Waits(j), Reaches(j)' PROVE Lands(j)'
    BY DEF JumpsLand, Waits
  <2>1. j \in Jumps /\ Target(j)' = Target(j)
    BY DEF Inv, TypeOK, Target
  <2>2. (Lands(j)' <=> Lands(j)) /\ (Reaches(j)' <=> Reaches(j))
    BY <2>1, LandsStable
  <2>. QED  BY <2>2 DEF Inv, JumpsLand
<1>5. PatchProgress'
  BY DEF Inv, PatchProgress
<1>. QED  BY <1>1, <1>2, <1>3, <1>4, <1>5 DEF Inv, OneSegment


(* A label is defined at the instruction pointer, behind all jumps: those that   *)
(* wait for it still do, and are still forward jumps.                            *)
LEMMA LabelInv ==
  ASSUME Inv, phase = "lines", NEW n \in Names, labels[n] = None,
         labels' = [labels EXCEPT ![n] = g_instruction_pointer],
         UNCHANGED <<g_instruction_pointer, image, list_addrtopatch, i, jumps>>,
         phase' \in {"lines", "rejected"}, lines' \in 0 .. MaxLines
  PROVE  Inv'
<1>1. /\ g_instruction_pointer \in Nat
      /\ g_instruction_pointer # None
      /\ labels' \in [Names -> Nat \cup {None}]
      /\ labels'[n] = g_instruction_pointer
      /\ \A m \in Names : m # n => labels'[m] = labels[m]
  BY NoneAssumption, BoundsAssumption DEF Inv, TypeOK
<1>2. TypeOK'
  BY <1>1 DEF Inv, TypeOK, Ended
<1>3. JumpsApart'
  BY DEF Inv, JumpsApart, End
<1>4. \A j \in jumps : j.at \in Nat /\ j.at < End(j) /\ End(j) \in Nat /\ End(j) <= g_instruction_pointer
  BY Lengths, BoundsAssumption DEF Inv, TypeOK, Jumps, JumpsApart, End
<1>5. ForwardJumps' = ForwardJumps
  BY <1>1, <1>4 DEF ForwardJumps
<1>6. EntriesForward' /\ AllListed'
  BY <1>5 DEF Inv, EntriesForward, AllListed, Entry
<1>7. LabelsBetween'
  BY <1>1, <1>4 DEF Inv, LabelsBetween, End
<1>8. JumpsLand'
  <2>. SUFFICES ASSUME NEW j \in jumps, ~Waits(j), Reaches(j)' PROVE Lands(j)'
    BY DEF JumpsLand, Waits
  <2>1. j \in Jumps
    BY DEF Inv, TypeOK
  <2>2. j.to # n
    <3>. SUFFICES ASSUME j.to = n PROVE FALSE
      OBVIOUS
    <3>1. PICK k \in 1 .. Len(list_addrtopatch) : list_addrtopatch[k] = Entry(j)
      BY DEF ForwardJumps, Inv, AllListed
    <3>. QED  BY <3>1 DEF Inv, PatchProgress, Waits, Entry
  <2>3. Target(j)' = Target(j)
    BY <1>1, <2>2 DEF Target
  <2>4. Lands(j)' <=> Lands(j)
    BY <2>1, <2>3, LandsStable
  <2>5. Reaches(j)' <=> Reaches(j)
    BY <2>1, <2>3, LandsStable
  <2>. QED  BY <2>4, <2>5 DEF Inv, JumpsLand
<1>9. PatchProgress'
  BY <1>1 DEF Inv, PatchProgress
<1>. QED  BY <1>2, <1>3, <1>6, <1>7, <1>8, <1>9 DEF Inv, OneSegment


(* What the three jump actions have in common: a jump behind the others, whose  *)
(* operand is new and is all that changes of the image.                         *)
LEMMA EmitFrame ==
  ASSUME Inv, NEW kind \in Kinds, NEW to \in Operands, NEW value \in Int,
         EmitJump(kind, to, value),
         NEW j0, j0 = [at |-> g_instruction_pointer, kind |-> kind, to |-> to]
  PROVE  /\ j0 \in Jumps /\ j0 \notin jumps /\ jumps' = jumps \cup {j0}
         /\ phase = "lines" /\ phase' = "lines" /\ i' = 0 /\ i = 0
         /\ lines' \in 0 .. MaxLines /\ g_instruction_pointer' \in 0 .. MaxCode
         /\ labels' = labels
         /\ \A n \in Names : labels[n] # None => labels[n] <= g_instruction_pointer'
         /\ image' \in [DOMAIN image' -> 0 .. 255] /\ DOMAIN image' \subseteq 0 .. MaxCode
         /\ image'[j0.at + 1] = LowByte(value)
         /\ j0.kind = "jmp" => image'[j0.at + 2] = HighByte(value)
         /\ \A j \in jumps : \A p \in OperandBytes(j) : image'[p] = image[p]
         /\ JumpsApart'
         /\ LabelsBetween'
<1>. DEFINE g == g_instruction_pointer
<1>1. /\ g \in Nat /\ g' \in 0 .. MaxCode /\ g' = g + JumpLen(kind)
      /\ phase = "lines" /\ phase' = "lines" /\ i' = i /\ i = 0
      /\ lines' \in 0 .. MaxLines /\ labels' = labels
      /\ jumps' = jumps \cup {j0}
      /\ image' = Store(g + 1, OperandLen(kind), value)
  BY BoundsAssumption, Lengths DEF Inv, TypeOK, PatchProgress, EmitJump, ReadLine
<1>2. \A j \in jumps : /\ j.at \in Nat /\ j.kind \in Kinds /\ End(j) \in Nat
                       /\ End(j) = j.at + 1 + OperandLen(j.kind)
                       /\ OperandLen(j.kind) \in 1 .. 2
                       /\ End(j) <= g
  BY Lengths, BoundsAssumption DEF Inv, TypeOK, Jumps, JumpsApart, End
<1>3. /\ j0 \in Jumps /\ End(j0) = g' /\ j0.at = g
      /\ OperandBytes(j0) = g + 1 .. g + OperandLen(kind)
      /\ OperandLen(kind) \in 1 .. 2 /\ g' = g + 1 + OperandLen(kind)
  BY <1>1, Lengths, BoundsAssumption DEF Jumps, End, OperandBytes, Inv, TypeOK
<1>4. j0 \notin jumps
  BY <1>1, <1>2, <1>3
<1>5. image \in [DOMAIN image -> 0 .. 255]
  BY DEF Inv, TypeOK
<1>6. /\ DOMAIN image' = g + 1 .. g + 1 + OperandLen(kind) - 1 \cup DOMAIN image
      /\ image' \in [DOMAIN image' -> 0 .. 255]
      /\ image'[g + 1] = LowByte(value)
      /\ OperandLen(kind) = 2 => image'[g + 1 + 1] = HighByte(value)
      /\ \A p \in DOMAIN image :
             p \notin g + 1 .. g + 1 + OperandLen(kind) - 1 => image'[p] = image[p]
  <2>1. PICK at \in Int : at = g + 1
    BY <1>1
  <2>2. PICK len \in 1 .. 2 : len = OperandLen(kind)
    BY <1>3
  <2>3. image' = Store(at, len, value)
    BY <1>1, <2>1, <2>2
  <2>4. /\ DOMAIN image' = at .. at + len - 1 \cup DOMAIN image
        /\ image' \in [DOMAIN image' -> 0 .. 255]
        /\ image'[at] = LowByte(value)
        /\ len = 2 => image'[at + 1] = HighByte(value)
        /\ \A p \in DOMAIN image : p \notin at .. at + len - 1 => image'[p] = image[p]
    BY <1>5, <2>3, StoreWrites
  <2>. QED  BY <2>1, <2>2, <2>4
<1>7. /\ image'[j0.at + 1] = LowByte(value)
      /\ j0.kind = "jmp" => image'[j0.at + 2] = HighByte(value)
  BY <1>1, <1>3, <1>6, Lengths
<1>bytes. DOMAIN image' = OperandBytes(j0) \cup DOMAIN image
  <2>1. g + 1 .. g + 1 + OperandLen(kind) - 1 = OperandBytes(j0)
    BY <1>1, <1>3
  <2>. QED  BY <1>6, <2>1, Zenon
<1>8. \A p \in DOMAIN image : p \in Nat /\ p < g
  BY <1>1, BoundsAssumption DEF Inv, TypeOK, JumpsApart
<1>9. \A j \in jumps : \A p \in OperandBytes(j) : p \in DOMAIN image /\ image'[p] = image[p]
  BY <1>1, <1>3, <1>6, <1>8 DEF Inv, JumpsApart
<1>10. DOMAIN image' \subseteq 0 .. MaxCode
  BY <1>1, <1>3, <1>8, <1>bytes, BoundsAssumption
<1>11. JumpsApart'
  <2>1. \A j \in jumps' : End(j) <= g'
    BY <1>1, <1>2, <1>3
  <2>2. \A j, k \in jumps' : j # k => End(j) <= k.at \/ End(k) <= j.at
    BY <1>1, <1>2, <1>3 DEF Inv, JumpsApart
  <2>3. \A j \in jumps' : OperandBytes(j) \subseteq DOMAIN image'
    BY <1>1, <1>9, <1>bytes
  <2>4. \A p \in DOMAIN image' : p < g'
    BY <1>1, <1>3, <1>6, <1>8
  <2>. QED  BY <2>1, <2>2, <2>3, <2>4 DEF JumpsApart, End, OperandBytes
<1>12. LabelsBetween'
  <2>1. \A n \in Names : labels[n] # None => labels[n] <= g
    BY DEF Inv, TypeOK
  <2>. QED  BY <1>1, <1>3, <2>1 DEF Inv, LabelsBetween, End
<1>13. \A n \in Names : labels[n] # None => labels[n] <= g'
  BY <1>1, <1>3 DEF Inv, TypeOK
<1>. QED  BY <1>1, <1>3, <1>4, <1>6, <1>7, <1>9, <1>10, <1>11, <1>12, <1>13


(* A jump whose target is known when it is read: it lands there at once.        *)
LEMMA ResolvedJumpInv ==
  ASSUME Inv, NEW kind \in Kinds, NEW to \in Operands, NEW value \in Int,
         EmitJump(kind, to, value),
         UNCHANGED list_addrtopatch,
         to \in Names => labels[to] # None,
         NEW t \in Int, t = IF to \in Names THEN labels[to] ELSE to,
         kind = "jmp" \/ to \in Names =>
             value = t - (g_instruction_pointer + JumpLen(kind))
  PROVE  Inv'
<1>. DEFINE g == g_instruction_pointer
<1>1. PICK j0 : j0 = [at |-> g, kind |-> kind, to |-> to]
  OBVIOUS
<1>2. /\ j0 \in Jumps /\ j0 \notin jumps /\ jumps' = jumps \cup {j0}
      /\ phase = "lines" /\ phase' = "lines" /\ i' = 0 /\ i = 0
      /\ lines' \in 0 .. MaxLines /\ g_instruction_pointer' \in 0 .. MaxCode
      /\ labels' = labels
      /\ \A n \in Names : labels[n] # None => labels[n] <= g_instruction_pointer'
      /\ image' \in [DOMAIN image' -> 0 .. 255] /\ DOMAIN image' \subseteq 0 .. MaxCode
      /\ image'[j0.at + 1] = LowByte(value)
      /\ j0.kind = "jmp" => image'[j0.at + 2] = HighByte(value)
      /\ \A j \in jumps : \A p \in OperandBytes(j) : image'[p] = image[p]
      /\ JumpsApart' /\ LabelsBetween'
  BY <1>1, EmitFrame
<1>3. TypeOK'
  BY <1>2 DEF Inv, TypeOK
<1>4. ForwardJumps' = ForwardJumps
  <2>1. to \in Names => labels[to] \in Nat /\ labels[to] <= g /\ g \in Nat
    BY BoundsAssumption DEF Inv, TypeOK
  <2>2. j0 \notin ForwardJumps'
    BY <1>1, <1>2, <2>1 DEF ForwardJumps
  <2>. QED  BY <1>2, <2>2 DEF ForwardJumps
<1>5. EntriesForward' /\ AllListed'
  BY <1>4 DEF Inv, EntriesForward, AllListed, Entry
<1>6. Target(j0)' = t
  BY <1>1, <1>2 DEF Target
<1>7. Reaches(j0)' => Lands(j0)'
  <2>. SUFFICES ASSUME Reaches(j0)' PROVE Lands(j0)'
    OBVIOUS
  <2>1. value = t - End(j0)
    BY <1>1 DEF Reaches, End
  <2>. QED  BY <1>2, <1>6, <2>1, StoredLands
<1>8. \A j \in jumps : ~Waits(j)' => (Reaches(j)' => Lands(j)')
  <2>. SUFFICES ASSUME NEW j \in jumps, ~Waits(j)', Reaches(j)' PROVE Lands(j)'
    OBVIOUS
  <2>1. j \in Jumps /\ Target(j)' = Target(j) /\ (Waits(j)' <=> Waits(j))
    BY <1>2 DEF Inv, TypeOK, Target, Waits
  <2>2. (Lands(j)' <=> Lands(j)) /\ (Reaches(j)' <=> Reaches(j))
    BY <1>2, <2>1, LandsStable
  <2>. QED  BY <2>1, <2>2 DEF Inv, JumpsLand
<1>9. JumpsLand'
  BY <1>2, <1>7, <1>8 DEF JumpsLand
<1>10. PatchProgress'
  BY <1>2 DEF PatchProgress
<1>. QED  BY <1>2, <1>3, <1>5, <1>9, <1>10 DEF Inv, OneSegment

(* A jump to a name that is not defined yet: it is listed, and waits.           *)
LEMMA UnknownJumpInv ==
  ASSUME Inv, NEW kind \in Kinds, NEW name \in Names, JumpToUnknown(kind, name)
  PROVE  Inv'
<1>. DEFINE g == g_instruction_pointer
            n == Len(list_addrtopatch)
<1>1. PICK j0 : j0 = [at |-> g, kind |-> kind, to |-> name]
  OBVIOUS
<1>2. name \in Operands /\ EmitJump(kind, name, 0) /\ labels[name] = None
  BY DEF JumpToUnknown, Operands
<1>3. /\ j0 \in Jumps /\ j0 \notin jumps /\ jumps' = jumps \cup {j0}
      /\ phase = "lines" /\ phase' = "lines" /\ i' = 0 /\ i = 0
      /\ lines' \in 0 .. MaxLines /\ g_instruction_pointer' \in 0 .. MaxCode
      /\ labels' = labels
      /\ \A m \in Names : labels[m] # None => labels[m] <= g_instruction_pointer'
      /\ image' \in [DOMAIN image' -> 0 .. 255] /\ DOMAIN image' \subseteq 0 .. MaxCode
      /\ \A j \in jumps : \A p \in OperandBytes(j) : image'[p] = image[p]
      /\ JumpsApart' /\ LabelsBetween'
  BY <1>1, <1>2, EmitFrame
<1>4. /\ list_addrtopatch \in Seq(Entries) /\ n \in Nat /\ n + 1 <= PatchLen
      /\ list_addrtopatch' = Append(list_addrtopatch, Entry(j0))
  BY <1>1, BoundsAssumption DEF Inv, TypeOK, JumpToUnknown, Entry
<1>5. Entry(j0) \in Entries
  <2>1. g \in Nat /\ g + 1 \in 1 .. MaxCode
    <3>1. g + JumpLen(kind) <= MaxCode /\ g \in Nat
      BY <1>2, BoundsAssumption DEF EmitJump, ReadLine, Inv, TypeOK
    <3>. QED  BY <3>1, Lengths, BoundsAssumption
  <2>. QED  BY <1>1, <2>1, Lengths DEF Entry, Entries
<1>6. /\ list_addrtopatch' \in Seq(Entries)
      /\ Len(list_addrtopatch') = n + 1
      /\ \A k \in 1 .. n : list_addrtopatch'[k] = list_addrtopatch[k]
      /\ list_addrtopatch'[n + 1] = Entry(j0)
  BY <1>4, <1>5
<1>7. TypeOK'
  BY <1>3, <1>4, <1>6 DEF Inv, TypeOK
<1>8. ForwardJumps' = ForwardJumps \cup {j0}
  BY <1>1, <1>2, <1>3 DEF ForwardJumps
<1>9. EntriesForward'
  <2>1. ASSUME NEW k \in 1 .. n + 1
        PROVE  \E j \in ForwardJumps' : list_addrtopatch'[k] = Entry(j)
    <3>1. CASE k = n + 1
      BY <3>1, <1>6, <1>8
    <3>2. CASE k # n + 1
      BY <3>2, <1>4, <1>6, <1>8 DEF Inv, EntriesForward
    <3>. QED  BY <3>1, <3>2
  <2>2. ASSUME NEW k \in 1 .. n + 1, NEW m \in 1 .. n + 1, k < m
        PROVE  list_addrtopatch'[k].inst_pointer < list_addrtopatch'[m].inst_pointer
    <3>1. k \in 1 .. n
      BY <1>4, <2>2
    <3>2. CASE m = n + 1
      <4>1. PICK j \in ForwardJumps : list_addrtopatch[k] = Entry(j)
        BY <3>1 DEF Inv, EntriesForward
      <4>2. j.at + 1 <= g /\ j.at \in Nat /\ g \in Nat
        BY Lengths, BoundsAssumption DEF Inv, TypeOK, Jumps, JumpsApart, End, ForwardJumps
      <4>. QED  BY <1>1, <1>6, <3>1, <3>2, <4>1, <4>2 DEF Entry
    <3>3. CASE m # n + 1
      BY <1>4, <1>6, <3>1, <3>3, <2>2 DEF Inv, EntriesForward
    <3>. QED  BY <3>2, <3>3
  <2>. QED  BY <1>6, <2>1, <2>2 DEF EntriesForward, Entry
<1>10. AllListed'
  <2>. SUFFICES ASSUME NEW j \in ForwardJumps'
                PROVE  \E k \in 1 .. n + 1 : list_addrtopatch'[k] = Entry(j)
    BY <1>6 DEF AllListed, Entry
  <2>1. CASE j = j0
    BY <1>4, <1>6, <2>1
  <2>2. CASE j # j0
    <3>1. PICK k \in 1 .. n : list_addrtopatch[k] = Entry(j)
      BY <1>8, <2>2 DEF Inv, AllListed
    <3>. QED  BY <1>4, <1>6, <3>1
  <2>. QED  BY <2>1, <2>2
<1>11. JumpsLand'
  <2>. SUFFICES ASSUME NEW j \in jumps', ~Waits(j)', Reaches(j)' PROVE Lands(j)'
    BY DEF JumpsLand
  <2>1. j # j0
    BY <1>3, <1>4, <1>6 DEF Waits, Entry
  <2>2. j \in jumps /\ j \in Jumps /\ Target(j)' = Target(j)
    BY <1>3, <2>1 DEF Inv, TypeOK, Target
  <2>3. ~Waits(j)
    BY <1>3, <1>4, <1>6 DEF Waits
  <2>4. (Lands(j)' <=> Lands(j)) /\ (Reaches(j)' <=> Reaches(j))
    BY <1>3, <2>2, LandsStable
  <2>. QED  BY <2>2, <2>3, <2>4 DEF Inv, JumpsLand
<1>12. PatchProgress'
  BY <1>3 DEF PatchProgress
<1>. QED  BY <1>3, <1>7, <1>9, <1>10, <1>11, <1>12 DEF Inv, OneSegment


(* A round of the patch loop: entry i + 1 is that of a jump whose label is       *)
(* defined, and its operand, with the distance to the label, is all that is      *)
(* written.                                                                      *)
LEMMA PatchWrites ==
  ASSUME Inv, PatchNext
  PROVE  \E j \in ForwardJumps :
            /\ addr = Entry(j)
            /\ labels[j.to] \in Nat
            /\ DOMAIN image' = DOMAIN image
            /\ image' \in [DOMAIN image -> 0 .. 255]
            /\ image'[j.at + 1] = LowByte(labels[j.to] - End(j))
            /\ j.kind = "jmp" => image'[j.at + 2] = HighByte(labels[j.to] - End(j))
            /\ \A p \in DOMAIN image : p \notin OperandBytes(j) => image'[p] = image[p]
<1>1. i \in Nat /\ Len(list_addrtopatch) \in Nat /\ i + 1 \in 1 .. Len(list_addrtopatch)
  BY DEF Inv, TypeOK, PatchNext
<1>2. PICK j \in ForwardJumps : addr = Entry(j)
  BY <1>1 DEF addr, Inv, EntriesForward
<1>3. /\ j \in jumps /\ j.at \in Nat /\ j.kind \in Kinds /\ j.to \in Names
      /\ End(j) = j.at + 1 + OperandLen(j.kind) /\ OperandLen(j.kind) \in 1 .. 2
      /\ End(j) <= MaxCode
  BY <1>2, Lengths, BoundsAssumption DEF ForwardJumps, Inv, TypeOK, Jumps, JumpsApart, End
<1>4. start_write = j.at + 1 /\ addr.bytelen = OperandLen(j.kind) /\ addr.labelname = j.to
  <2>1. addr.inst_pointer = j.at + 1
    BY <1>2 DEF Entry
  <2>2. (j.at + 1) % Word = j.at + 1
    BY <1>3, BoundsAssumption DEF Inv, OneSegment, Word
  <2>. QED  BY <1>2, <2>1, <2>2 DEF start_write, Entry
<1>5. labels[j.to] # None
  <2>. SUFFICES ASSUME labels[j.to] = None PROVE FALSE
    OBVIOUS
  <2>1. address_to_write = 0
    BY <1>4 DEF address_to_write, Word
  <2>. QED  BY <1>3, <1>4, <2>1 DEF PatchNext
<1>6. /\ labels[j.to] \in Nat
      /\ address_to_write = labels[j.to]
  <2>1. labels[j.to] \in Nat /\ labels[j.to] <= MaxCode
    BY <1>3, <1>5, BoundsAssumption DEF Inv, TypeOK
  <2>2. labels[j.to] % Word = labels[j.to]
    BY <2>1, BoundsAssumption DEF Inv, OneSegment, Word
  <2>. QED  BY <1>4, <1>5, <2>1, <2>2 DEF address_to_write
<1>7. PICK at \in Int : at = j.at + 1
  BY <1>3
<1>8. PICK len \in 1 .. 2 : len = OperandLen(j.kind)
  BY <1>3
<1>9. PICK value \in Int : value = labels[j.to] - End(j)
  BY <1>3, <1>6
<1>10. image' = Store(at, len, value)
  <2>1. value = address_to_write - (start_write + addr.bytelen)
    BY <1>3, <1>4, <1>6, <1>9
  <2>. QED  BY <1>4, <1>7, <1>8, <2>1 DEF PatchNext
<1>11. image \in [DOMAIN image -> 0 .. 255]
  BY DEF Inv, TypeOK
<1>12. /\ DOMAIN image' = at .. at + len - 1 \cup DOMAIN image
       /\ image' \in [DOMAIN image' -> 0 .. 255]
       /\ image'[at] = LowByte(value)
       /\ len = 2 => image'[at + 1] = HighByte(value)
       /\ \A p \in DOMAIN image : p \notin at .. at + len - 1 => image'[p] = image[p]
  BY <1>10, <1>11, StoreWrites
<1>13. OperandBytes(j) = at .. at + len - 1
  BY SMTT(30), <1>3, <1>7, <1>8 DEF OperandBytes
<1>14. DOMAIN image' = DOMAIN image
  BY <1>3, <1>12, <1>13 DEF Inv, JumpsApart
<1>15. j.kind = "jmp" => image'[j.at + 2] = HighByte(value)
  BY <1>3, <1>7, <1>8, <1>12, Lengths
<1>. QED  BY <1>2, <1>6, <1>7, <1>9, <1>12, <1>13, <1>14, <1>15

(* The patch loop makes a waiting jump land and disturbs no other.              *)
LEMMA PatchInv ==
  ASSUME Inv, PatchNext
  PROVE  Inv'
<1>. DEFINE n == Len(list_addrtopatch)
<1>1. PICK j0 \in ForwardJumps :
         /\ addr = Entry(j0)
         /\ labels[j0.to] \in Nat
         /\ DOMAIN image' = DOMAIN image
         /\ image' \in [DOMAIN image -> 0 .. 255]
         /\ image'[j0.at + 1] = LowByte(labels[j0.to] - End(j0))
         /\ j0.kind = "jmp" => image'[j0.at + 2] = HighByte(labels[j0.to] - End(j0))
         /\ \A p \in DOMAIN image : p \notin OperandBytes(j0) => image'[p] = image[p]
  BY PatchWrites
<1>2. /\ i \in Nat /\ n \in Nat /\ i' = i + 1 /\ i + 1 \in 1 .. n
      /\ phase = "patch"
      /\ UNCHANGED <<phase, lines, g_instruction_pointer, labels, list_addrtopatch, jumps>>
  BY DEF Inv, TypeOK, PatchNext
<1>3. TypeOK'
  BY <1>1, <1>2 DEF Inv, TypeOK
<1>4. JumpsApart' /\ EntriesForward' /\ LabelsBetween' /\ AllListed'
  BY <1>1, <1>2 DEF Inv, JumpsApart, EntriesForward, LabelsBetween, AllListed, ForwardJumps, End,
                    OperandBytes, Entry
<1>5. PatchProgress'
  <2>1. labels[list_addrtopatch[i + 1].labelname] # None
    BY <1>1, NoneAssumption DEF addr, Entry
  <2>. QED  BY <1>2, <2>1 DEF Inv, PatchProgress
<1>6. ASSUME NEW j \in jumps, ~Waits(j)', Reaches(j)' PROVE Lands(j)'
  <2>1. j \in Jumps /\ j0 \in jumps /\ j0 \in Jumps /\ j0.to \in Names
    BY <1>1 DEF Inv, TypeOK, ForwardJumps
  <2>2. Target(j)' = Target(j)
    BY <1>2 DEF Target
  <2>3. CASE j = j0
    <3>1. Target(j)' = labels[j0.to]
      BY <1>2, <2>1, <2>3 DEF Target
    <3>2. labels[j0.to] \in Int
      BY <1>1
    <3>. QED  BY <1>1, <1>6, <2>1, <2>3, <3>1, <3>2, StoredLands
  <2>4. CASE j # j0
    <3>1. /\ End(j) <= j0.at \/ End(j0) <= j.at
          /\ j.at \in Nat /\ j0.at \in Nat
          /\ End(j) = j.at + 1 + OperandLen(j.kind) /\ OperandLen(j.kind) \in 1 .. 2
          /\ End(j0) = j0.at + 1 + OperandLen(j0.kind) /\ OperandLen(j0.kind) \in 1 .. 2
      BY <2>1, <2>4, Lengths, BoundsAssumption DEF Inv, JumpsApart, Jumps, End
    <3>2. \A p \in OperandBytes(j) : p \in DOMAIN image /\ p \notin OperandBytes(j0)
      BY <3>1 DEF OperandBytes, Inv, JumpsApart
    <3>3. (Lands(j)' <=> Lands(j)) /\ (Reaches(j)' <=> Reaches(j))
      BY <1>1, <2>1, <2>2, <3>2, LandsStable
    <3>4. ~Waits(j)
      <4>. SUFFICES ASSUME Waits(j) PROVE FALSE
        OBVIOUS
      <4>1. PICK k \in i + 1 .. n : list_addrtopatch[k].inst_pointer = j.at + 1
        BY DEF Waits
      <4>2. k # i + 1
        BY <1>1, <3>1, <4>1 DEF addr, Entry
      <4>. QED  BY <1>2, <1>6, <4>1, <4>2 DEF Waits
    <3>. QED  BY <1>6, <3>3, <3>4 DEF Inv, JumpsLand
  <2>. QED  BY <2>3, <2>4
<1>7. JumpsLand'
  BY <1>2, <1>6 DEF JumpsLand
<1>. QED  BY <1>3, <1>4, <1>5, <1>7 DEF Inv, OneSegment


(* Every step of the program preserves the invariant. *)
LEMMA StepInv == Inv /\ [Next]_vars => Inv'
<1>. SUFFICES ASSUME Inv, [Next]_vars PROVE Inv'
  OBVIOUS
<1>1. /\ phase \in Ended \cup {"lines", "patch"} /\ lines \in 0 .. MaxLines
      /\ g_instruction_pointer \in 0 .. MaxCode /\ g_instruction_pointer \in Nat
      /\ lines \in Nat
  BY BoundsAssumption DEF Inv, TypeOK
<1>2. ASSUME NEW n \in BlockSizes, ReadBlock(n) PROVE Inv'
  <2>1. g_instruction_pointer' \in 0 .. MaxCode /\ g_instruction_pointer <= g_instruction_pointer'
    BY <1>1, <1>2, BlocksAssumption, BoundsAssumption DEF ReadBlock, ReadLine
  <2>2. /\ phase' = phase /\ phase = "lines" /\ lines' \in 0 .. MaxLines
        /\ UNCHANGED <<labels, image, list_addrtopatch, i, jumps>>
    BY <1>1, <1>2, BoundsAssumption DEF ReadBlock, ReadLine
  <2>. QED  BY <1>1, <2>1, <2>2, FrameInv
<1>3. ASSUME NEW name \in Names, DefineLabel(name) PROVE Inv'
  <2>1. phase = "lines" /\ phase' = "lines" /\ lines' \in 0 .. MaxLines
    BY <1>1, <1>3, BoundsAssumption DEF DefineLabel, ReadLine
  <2>2. g_instruction_pointer' = g_instruction_pointer
    BY <1>1, <1>3 DEF DefineLabel, ReadLine
  <2>. QED  BY <1>3, <2>1, <2>2, LabelInv DEF DefineLabel, ReadLine
<1>4. ASSUME Abort PROVE Inv'
  BY <1>1, <1>4, FrameInv DEF Abort, Ended
<1>5. ASSUME NEW kind \in Kinds, NEW name \in Names, JumpToKnown(kind, name) PROVE Inv'
  <2>1. PICK t \in Int : t = labels[name]
    BY <1>5 DEF JumpToKnown, Inv, TypeOK
  <2>2. PICK value \in Int : value = t - (g_instruction_pointer + JumpLen(kind))
    BY <1>1, Lengths
  <2>3. EmitJump(kind, name, value) /\ UNCHANGED list_addrtopatch /\ labels[name] # None
    BY <1>5, <2>1, <2>2 DEF JumpToKnown
  <2>4. name \in Operands
    BY DEF Operands
  <2>. QED  BY <2>1, <2>2, <2>3, <2>4, ResolvedJumpInv
<1>6. ASSUME NEW kind \in Kinds, NEW name \in Names, JumpToUnknown(kind, name) PROVE Inv'
  BY <1>6, UnknownJumpInv
<1>7. ASSUME NEW kind \in Kinds, NEW imm \in Numbers, JumpToNumber(kind, imm) PROVE Inv'
  <2>1. imm \in Operands /\ imm \notin Names /\ imm \in Int
    BY NamesAssumption, NumbersAssumption DEF Operands
  <2>2. PICK value \in Int :
            value = IF kind = "jmp" THEN imm - (g_instruction_pointer + JumpLen(kind)) ELSE imm
    BY <1>1, <2>1, Lengths
  <2>3. EmitJump(kind, imm, value) /\ UNCHANGED list_addrtopatch
    BY <1>7, <2>2 DEF JumpToNumber
  <2>. QED  BY <2>1, <2>2, <2>3, ResolvedJumpInv
<1>8. ASSUME RejectLine PROVE Inv'
  <2>1. phase = "lines" /\ phase' = "rejected" /\ lines' \in 0 .. MaxLines
    BY <1>1, <1>8, BoundsAssumption DEF RejectLine
  <2>2. CASE UNCHANGED labels
    BY <1>1, <1>8, <2>1, <2>2, FrameInv DEF RejectLine, Ended
  <2>3. ASSUME NEW n \in Names, labels[n] = None,
               labels' = [labels EXCEPT ![n] = g_instruction_pointer]
        PROVE  Inv'
    BY <1>8, <2>1, <2>3, LabelInv DEF RejectLine
  <2>. QED  BY <1>8, <2>2, <2>3 DEF RejectLine
<1>9. ASSUME EndOfInput PROVE Inv'
  BY <1>1, <1>9, FrameInv DEF EndOfInput
<1>10. ASSUME Write PROVE Inv'
  <2>1. lines = 0
    BY <1>10 DEF Write, Inv, PatchProgress
  <2>. QED  BY <1>1, <1>10, <2>1, FrameInv DEF Write, Ended
<1>11. ASSUME UNCHANGED vars PROVE Inv'
  <2>1. phase' \in {"patch", "written"} => lines' = 0
    BY <1>11 DEF vars, Inv, PatchProgress
  <2>. QED  BY <1>1, <1>11, <2>1, FrameInv DEF vars
<1>12. ASSUME PatchNext PROVE Inv'
  BY <1>12, PatchInv
<1>13. ASSUME Unencodable PROVE Inv'
  BY <1>1, <1>13, FrameInv DEF Unencodable, Ended
<1>. QED  BY <1>2, <1>3, <1>4, <1>5, <1>6, <1>7, <1>8, <1>9, <1>10, <1>11, <1>12, <1>13
          DEF Next, DuplicateLabel, PatchListFull, PatchAbort

(* The list is exact, by the order of its entries and by AllListed. *)
LEMMA ListIsExact == Inv => PatchListExact
<1>. SUFFICES ASSUME Inv PROVE PatchListExact
  OBVIOUS
<1>1. DOMAIN list_addrtopatch = 1 .. Len(list_addrtopatch)
      /\ \A k \in 1 .. Len(list_addrtopatch) : list_addrtopatch[k].inst_pointer \in Nat
  <2>1. list_addrtopatch \in Seq(Entries)
    BY DEF Inv, TypeOK
  <2>2. ASSUME NEW k \in 1 .. Len(list_addrtopatch)
        PROVE  list_addrtopatch[k].inst_pointer \in Nat
    <3>1. list_addrtopatch[k] \in Entries
      BY <2>1
    <3>. QED  BY <3>1, BoundsAssumption DEF Entries
  <2>. QED  BY <2>1, <2>2
<1>2. {Entry(j) : j \in ForwardJumps} \subseteq {list_addrtopatch[k] : k \in DOMAIN list_addrtopatch}
  BY <1>1 DEF Inv, AllListed
<1>3. {list_addrtopatch[k] : k \in DOMAIN list_addrtopatch} \subseteq {Entry(j) : j \in ForwardJumps}
  BY <1>1 DEF Inv, EntriesForward
<1>4. ASSUME NEW k \in DOMAIN list_addrtopatch, NEW m \in DOMAIN list_addrtopatch,
             list_addrtopatch[k] = list_addrtopatch[m], k # m
      PROVE  FALSE
  <2>1. k < m \/ m < k
    BY <1>1, <1>4 DEF Inv, TypeOK
  <2>. QED  BY <1>1, <1>4, <2>1 DEF Inv, EntriesForward
<1>. QED  BY <1>2, <1>3, <1>4 DEF PatchListExact

(* The body of PatchesInPlace: only PatchNext moves i, and it writes the operand *)
(* of one jump.                                                                  *)
InPlace ==
    i' = i + 1 =>
        /\ DOMAIN image' = DOMAIN image
        /\ \E j \in jumps : \A p \in DOMAIN image :
               image'[p] # image[p] => p \in OperandBytes(j)

(* Under the invariant a step that patches writes one operand only. *)
LEMMA StepInPlace == Inv /\ [Next]_vars => InPlace
<1>. SUFFICES ASSUME Inv, [Next]_vars, i' = i + 1 PROVE InPlace
  BY DEF InPlace
<1>1. i' # i
  BY DEF Inv, TypeOK
<1>2. PatchNext
  BY <1>1 DEF Next, vars, ReadBlock, DefineLabel, DuplicateLabel, PatchListFull, JumpToKnown,
              JumpToUnknown, JumpToNumber, RejectLine, Unencodable, EndOfInput, PatchAbort, Write,
              ReadLine, EmitJump, Abort
<1>. QED  BY <1>2, PatchWrites DEF InPlace, ForwardJumps

(* For a program of at most one segment of code, whatever its names and lines:  *)
(* the invariant of all that follows holds.                                      *)
THEOREM Invariance == Spec /\ OneSegment => []Inv
  BY InitInv, StepInv, PTL DEF Spec

(* The state keeps its types: positions stay within the code, the list within    *)
(* its length, bytes within 0 .. 255.                                            *)
THEOREM TypeCorrect == Spec /\ OneSegment => []TypeOK
<1>1. Inv => TypeOK
  BY DEF Inv
<1>. QED  BY <1>1, Invariance, PTL

(* Every jump that can reach its target lands on it, except while it waits for   *)
(* the patch loop.                                                               *)
THEOREM LandingCorrect == Spec /\ OneSegment => []JumpsLand
<1>1. Inv => JumpsLand
  BY DEF Inv
<1>. QED  BY <1>1, Invariance, PTL

(* The patch list holds each forward jump once and nothing else. *)
THEOREM ListCorrect == Spec /\ OneSegment => []PatchListExact
  BY ListIsExact, Invariance, PTL

(* A patch writes the operand of one jump and no other byte. *)
THEOREM PatchCorrect == Spec /\ OneSegment => PatchesInPlace
<1>1. InPlace => [i' = i + 1 =>
                     /\ DOMAIN image' = DOMAIN image
                     /\ \E j \in jumps : \A a \in DOMAIN image :
                            image'[a] # image[a] => a \in OperandBytes(j)]_vars
  BY DEF InPlace
<1>. QED  BY <1>1, StepInPlace, Invariance, PTL DEF Spec, PatchesInPlace


------------------------------------------------------------------------------
(* The remainder that (u16) leaves. *)
LEMMA WordRange ==
  ASSUME NEW v \in Int
  PROVE  v % Word \in 0 .. Word - 1
<1>1. PICK w \in Int : w = Word /\ w = 65536
  BY DEF Word
<1>2. PICK r \in Int : r = (v % 65536) /\ 0 <= r /\ r < 65536
  OBVIOUS
<1>3. 0 <= r /\ r <= w - 1
  BY <1>1, <1>2
<1>4. r \in 0 .. w - 1
  BY <1>3
<1>5. (v % Word) = r
  BY <1>2 DEF Word
<1>6. Word - 1 = w - 1
  BY <1>1
<1>7. 0 .. Word - 1 = 0 .. w - 1
  BY <1>6
<1>. QED  BY <1>4, <1>5, <1>7

(* Where jumps land is a position of 16 bits. *)
LEMMA LandingRange ==
  ASSUME Inv, NEW j \in jumps
  PROVE  Landing(j) \in 0 .. Word - 1
<1>1. j.at \in Nat /\ JumpLen(j.kind) \in Nat /\ j \in Jumps
  BY Lengths, BoundsAssumption DEF Inv, TypeOK, Jumps
<1>2. image[j.at + 1] \in 0 .. 255 /\ (j.kind = "jmp" => image[j.at + 2] \in 0 .. 255)
  <2>1. j.at + 1 \in OperandBytes(j) /\ (j.kind = "jmp" => j.at + 2 \in OperandBytes(j))
    BY <1>1, Lengths DEF OperandBytes, Jumps
  <2>. QED  BY <2>1 DEF Inv, TypeOK, JumpsApart
<1>3. Displacement(j) \in Int
  <2>1. CASE j.kind = "jmp"
    <3>1. PICK low \in Int : low = image[j.at + 1]
      BY <1>2
    <3>2. PICK high \in Int : high = image[j.at + 2]
      BY <1>2, <2>1
    <3>. QED  BY <2>1, <3>1, <3>2 DEF Displacement
  <2>2. CASE j.kind # "jmp"
    <3>1. PICK low \in Int : low = image[j.at + 1]
      BY <1>2
    <3>. QED  BY <2>2, <3>1 DEF Displacement
  <2>. QED  BY <2>1, <2>2
<1>4. PICK v \in Int : v = j.at + JumpLen(j.kind) + Displacement(j)
  BY <1>1, <1>3
<1>5. v % Word \in 0 .. Word - 1
  BY WordRange
<1>. QED  BY <1>4, <1>5 DEF Landing

(* When the patch loop has passed the whole list every jump knows its target.   *)
LEMMA AllResolved ==
  ASSUME Inv, i = Len(list_addrtopatch)
  PROVE  /\ Resolution!Resolved
         /\ \A j \in jumps : ~Waits(j)
<1>1. ASSUME NEW j \in jumps, j.to \in Names, labels[j.to] = None PROVE FALSE
  <2>1. PICK k \in 1 .. i : list_addrtopatch[k] = Entry(j)
    BY <1>1 DEF ForwardJumps, Inv, AllListed
  <2>. QED  BY <1>1, <2>1 DEF Inv, PatchProgress, Entry
<1>2. \A j \in jumps : ~Waits(j)
  BY DEF Waits, Inv, TypeOK
<1>. QED  BY <1>1, <1>2 DEF Resolution!Resolved

(* The initial states are those of the abstract assembler. *)
LEMMA InitRefines == Init => Resolution!Init
  BY DEF Init, Resolution!Init

(* Writing the file is the step that resolves all jumps. *)
LEMMA WriteRefines ==
  ASSUME Inv, Write
  PROVE  Resolution!Finish
<1>1. /\ phase = "patch" /\ phase' = "written" /\ lines = 0 /\ i = Len(list_addrtopatch)
      /\ UNCHANGED <<lines, g_instruction_pointer, labels, image, list_addrtopatch, i, jumps>>
  BY DEF Write, Inv, PatchProgress
<1>2. Resolution!Resolved /\ \A j \in jumps : ~Waits(j)
  BY <1>1, AllResolved
<1>. DEFINE f == [j \in jumps |-> Landing(j)]
<1>3. \A j \in jumps : Landing(j)' = Landing(j)
  BY <1>1 DEF Landing, Displacement
<1>4. [j \in jumps' |-> Landing(j)'] = f
  BY <1>1, <1>3
<1>5. f \in [jumps -> 0 .. Word - 1]
  BY LandingRange
<1>6. \A j \in jumps : Resolution!Reaches(j) => f[j] = Resolution!Target(j) % Word
  BY <1>2 DEF Inv, JumpsLand, Lands, Reaches, Target, Resolution!Reaches, Resolution!Target,
              JumpLen, OperandLen, Resolution!JumpLen, Resolution!OperandLen
<1>7. (IF phase = "written" THEN [j \in jumps |-> Landing(j)] ELSE <<>>)' = f
  BY <1>1, <1>4
<1>8. Resolution!Word = Word
  BY DEF Word, Resolution!Word
<1>9. f \in {h \in [jumps -> 0 .. Resolution!Word - 1] :
                \A j \in jumps : Resolution!Reaches(j) => h[j] = Resolution!Target(j) % Resolution!Word}
  BY <1>5, <1>6, <1>8
<1>. HIDE DEF f
<1>. QED  BY <1>1, <1>2, <1>7, <1>9 DEF Resolution!Finish

(* Reading a jump is reading a jump for the abstract assembler. *)
LEMMA JumpRefines ==
  ASSUME Inv, NEW kind \in Kinds, NEW to \in Operands, NEW value, EmitJump(kind, to, value),
         IF to \in Names /\ labels[to] = None
           THEN /\ Len(list_addrtopatch) < PatchLen
                /\ Len(list_addrtopatch)' = Len(list_addrtopatch) + 1
           ELSE UNCHANGED list_addrtopatch
  PROVE  Resolution!Jump(kind, to)
BY DEF EmitJump, ReadLine, Resolution!Jump, Resolution!Take, JumpLen, OperandLen,
       Resolution!JumpLen, Resolution!OperandLen

(* Every step is a step of the abstract assembler or invisible to it.           *)
LEMMA StepRefines == Inv /\ [Next]_vars => [Resolution!Next]_(Resolution!vars)
<1>. SUFFICES ASSUME Inv, [Next]_vars PROVE [Resolution!Next]_(Resolution!vars)
  OBVIOUS
<1>. USE DEF Resolution!Next
<1>1. ASSUME NEW n \in BlockSizes, ReadBlock(n) PROVE Resolution!Plain(n)
  BY <1>1 DEF ReadBlock, ReadLine, Resolution!Plain, Resolution!Take
<1>2. ASSUME NEW name \in Names, DefineLabel(name) PROVE Resolution!Define(name)
  BY <1>2 DEF DefineLabel, ReadLine, Resolution!Define, Resolution!Take
<1>3. ASSUME NEW name \in Names, DuplicateLabel(name) PROVE Resolution!Abort
  BY <1>3 DEF DuplicateLabel, Abort, Resolution!Abort
<1>4. ASSUME NEW name \in Names, PatchListFull(name) PROVE Resolution!Abort
  BY <1>4 DEF PatchListFull, Abort, Resolution!Abort
<1>5. ASSUME NEW kind \in Kinds, NEW name \in Names, JumpToKnown(kind, name)
      PROVE  Resolution!Jump(kind, name)
  BY <1>5, JumpRefines DEF JumpToKnown, Operands
<1>6. ASSUME NEW kind \in Kinds, NEW name \in Names, JumpToUnknown(kind, name)
      PROVE  Resolution!Jump(kind, name)
  <2>1. Len(list_addrtopatch)' = Len(list_addrtopatch) + 1
    BY <1>6 DEF JumpToUnknown, Inv, TypeOK
  <2>. QED  BY <1>6, <2>1, JumpRefines DEF JumpToUnknown, Operands
<1>7. ASSUME NEW kind \in Kinds, NEW imm \in Numbers, JumpToNumber(kind, imm)
      PROVE  Resolution!Jump(kind, imm)
  BY <1>7, NamesAssumption, JumpRefines DEF JumpToNumber, Operands
<1>8. ASSUME RejectLine PROVE Resolution!Reject
  BY <1>8 DEF RejectLine, Resolution!Reject
<1>9. ASSUME EndOfInput \/ PatchNext PROVE UNCHANGED Resolution!vars
  BY <1>9 DEF EndOfInput, PatchNext, Resolution!vars
<1>10. ASSUME PatchAbort PROVE Resolution!Abort
  <2>1. phase = "patch" /\ lines = 0 /\ i + 1 \in 1 .. Len(list_addrtopatch)
    BY <1>10 DEF PatchAbort, Inv, TypeOK, PatchProgress
  <2>2. PICK j \in ForwardJumps : addr = Entry(j)
    BY <2>1 DEF addr, Inv, EntriesForward
  <2>3. j \in jumps /\ j.to \in Names /\ j.at \in Nat /\ j.at + 1 < Word /\ j.kind \in Kinds
        /\ OperandLen(j.kind) \in 1 .. 2 /\ End(j) = j.at + 1 + OperandLen(j.kind)
    BY <2>2, Lengths, BoundsAssumption
       DEF ForwardJumps, Inv, TypeOK, Jumps, JumpsApart, End, OneSegment, Word
  <2>4. start_write = j.at + 1
    BY <2>2, <2>3 DEF start_write, Entry, Word
  <2>5. ASSUME labels[j.to] # None PROVE FALSE
    <3>1. labels[j.to] \in Nat /\ labels[j.to] < Word /\ labels[j.to] >= End(j)
      BY <2>2, <2>3, <2>5, BoundsAssumption
         DEF Inv, TypeOK, OneSegment, LabelsBetween, ForwardJumps, Word
    <3>2. address_to_write = labels[j.to]
      BY <2>2, <2>5, <3>1 DEF address_to_write, Entry, Word
    <3>. QED  BY <1>10, <2>3, <2>4, <3>1, <3>2 DEF PatchAbort
  <2>6. ~Resolution!Resolved
    BY <2>3, <2>5 DEF Resolution!Resolved
  <2>. QED  BY <1>10, <2>1, <2>6 DEF PatchAbort, Abort, Resolution!Abort
<1>11. ASSUME Write PROVE Resolution!Finish
  BY <1>11, WriteRefines
<1>12. ASSUME UNCHANGED vars PROVE UNCHANGED Resolution!vars
  BY <1>12 DEF vars, Resolution!vars, Landing, Displacement
<1>13. ASSUME Unencodable PROVE Resolution!Unencodable
  BY <1>13 DEF Unencodable, Resolution!Unencodable
<1>. QED  BY <1>1, <1>2, <1>3, <1>4, <1>5, <1>6, <1>7, <1>8, <1>9, <1>10, <1>11, <1>12, <1>13
          DEF Next, Operands, Kinds, Resolution!Operands, Resolution!Kinds

(* Emitting holes and patching them implements resolving all jumps at once:     *)
(* the two loops of main are, for the file they write, one step.                 *)
THEOREM ResolutionImplemented == Spec /\ OneSegment => ImplementsResolution
  BY InitRefines, StepRefines, Invariance, PTL DEF Spec, ImplementsResolution, Resolution!Spec

===============================================================================
