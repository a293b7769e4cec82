-------------------------- MODULE CodegenArenaProofs --------------------------
(* A program of fewer labels than the map has cells keeps map and list apart,   *)
(* whatever the two lengths; with the lengths of the code that is 74 labels.      *)
EXTENDS CodegenArena, FiniteSets, FiniteSetTheorems, TLAPS

(* Induction over the natural numbers, for a set of them instead of a predicate: the  *)
(* step maps the members below a number that is missing into themselves, so onto.      *)
LEMMA SetInduction ==
  ASSUME NEW S \in SUBSET Nat, 0 \in S, \A n \in S : n + 1 \in S
  PROVE  S = Nat
<1>. SUFFICES ASSUME NEW k \in Nat \ {0}, k \notin S PROVE FALSE
  OBVIOUS
<1>. DEFINE D    == {n \in 0 .. k : n \in S /\ n < k}
            step == [n \in D |-> n + 1]
<1>1. 0 \in D /\ D \in SUBSET Nat /\ \A n \in D : n <= k
  OBVIOUS
<1>2. ASSUME NEW n \in D PROVE n + 1 \in D
  <2>1. n + 1 \in S /\ n + 1 # k
    OBVIOUS
  <2>. QED  BY <2>1
<1>. HIDE DEF D
<1>3. IsFiniteSet(D)
  BY <1>1, FS_BoundedSetOfNaturals
<1>4. step \in Injection(D, D)
  BY <1>1, <1>2 DEF Injection, IsInjective
<1>5. step \in Surjection(D, D)
  BY <1>3, <1>4, FS_Injection
<1>6. PICK n \in D : step[n] = 0
  BY <1>1, <1>5 DEF Surjection
<1>. QED  BY <1>1, <1>6

(* A non-empty bounded set of numbers has a greatest element.                         *)
LEMMA GreatestNat ==
  ASSUME NEW T \in SUBSET Nat, T # {}, NEW k \in Nat, \A t \in T : t <= k
  PROVE  \E x \in T : \A y \in T : y <= x
<1>. DEFINE Reached == {d \in Nat : \E t \in T : d <= t}
<1>1. PICK first \in T : TRUE
  OBVIOUS
<1>2. Reached \in SUBSET Nat /\ 0 \in Reached /\ k + 1 \notin Reached /\ k + 1 \in Nat
  BY <1>1
<1>3. PICK d \in Reached : d + 1 \notin Reached
  <2>. HIDE DEF Reached
  <2>. QED  BY <1>2, SetInduction
<1>4. PICK t \in T : d <= t
  BY <1>3
<1>5. \A y \in T : y <= d
  BY <1>3
<1>. QED  BY <1>4, <1>5

FewLabels == MaxLabels < LabelCells

Inv ==
    /\ FewLabels
    /\ TypeOK
    /\ LabelsIntact
    /\ EntriesIntact

(* The map's cells are a natural number of cells. *)
LEMMA LabelCellsNat == LabelCells \in Nat
  BY LengthsAssumption DEF LabelCells, SizeofLabel, SizeofCell

(* Nothing is written yet. *)
LEMMA InitInv == Init /\ FewLabels => Inv
<1>. SUFFICES ASSUME Init, FewLabels PROVE Inv
  OBVIOUS
<1>1. Cell(NoName, 0, 0) \in Cells
  BY DEF Cell, Cells
<1>. QED  BY <1>1, LengthsAssumption DEF Init, Inv, TypeOK, LabelsIntact, EntriesIntact

(* A new slot lies below the entries. *)
LEMMA InsertInv ==
  ASSUME Inv, NEW name \in Names, InsertLabel(name)
  PROVE  Inv'
<1>1. PICK new : new = Cell(name, g_instruction_pointer, offset)
  OBVIOUS
<1>2. /\ offset \in Nat /\ offset + 1 <= MaxLabels /\ offset' = offset + 1
      /\ cells' = [cells EXCEPT ![offset + 1] = new]
      /\ defined' = Append(defined, new)
      /\ UNCHANGED <<cnt, g_instruction_pointer, recorded>>
      /\ cnt \in Nat /\ cnt <= PatchLen
  BY <1>1, LengthsAssumption DEF InsertLabel, Inv, TypeOK
<1>3. new \in Cells
  BY <1>1, LengthsAssumption DEF Cell, Cells, Inv, TypeOK
<1>4. offset + 1 \in Memory /\ offset + 1 < LabelCells
  BY <1>2, LabelCellsNat, LengthsAssumption DEF Memory, Inv, FewLabels
<1>5. /\ defined' \in Seq(Cells) /\ Len(defined') = offset + 1
      /\ defined'[offset + 1] = new
      /\ \A s \in 1 .. offset : defined'[s] = defined[s]
  BY <1>2, <1>3 DEF Inv, TypeOK
<1>6. /\ cells' \in [Memory -> Cells]
      /\ cells'[offset + 1] = new
      /\ \A c \in Memory : c # offset + 1 => cells'[c] = cells[c]
  BY <1>2, <1>3, <1>4 DEF Inv, TypeOK
<1>7. TypeOK'
  BY <1>2, <1>5, <1>6, LengthsAssumption DEF Inv, TypeOK
<1>8. LabelsIntact'
  <2>. SUFFICES ASSUME NEW s \in 1 .. offset + 1 PROVE cells'[s] = defined'[s]
    BY <1>2 DEF LabelsIntact
  <2>1. CASE s = offset + 1
    BY <1>5, <1>6, <2>1
  <2>2. CASE s # offset + 1
    <3>1. s \in 1 .. offset /\ s \in Memory
      BY <1>2, <1>4, <2>2, LabelCellsNat, LengthsAssumption DEF Memory
    <3>. QED  BY <1>5, <1>6, <2>2, <3>1 DEF Inv, LabelsIntact
  <2>. QED  BY <2>1, <2>2
<1>9. EntriesIntact'
  <2>. SUFFICES ASSUME NEW k \in 1 .. cnt PROVE cells'[PatchCell(k - 1)] = recorded[k]
    BY <1>2 DEF EntriesIntact, PatchCell
  <2>1. PatchCell(k - 1) \in Memory /\ PatchCell(k - 1) # offset + 1
    BY <1>2, <1>4, LabelCellsNat, LengthsAssumption DEF PatchCell, Memory
  <2>. QED  BY <1>6, <2>1 DEF Inv, EntriesIntact
<1>. QED  BY <1>7, <1>8, <1>9 DEF Inv, FewLabels

(* A new entry lies above the slots and the other entries. *)
LEMMA RecordInv ==
  ASSUME Inv, NEW name \in Names, NEW n \in 1 .. 2, RecordJump(name, n)
  PROVE  Inv'
<1>1. PICK new : new = Cell(name, g_instruction_pointer + 1, n)
  OBVIOUS
<1>2. /\ cnt \in Nat /\ cnt + 1 <= PatchLen /\ cnt' = cnt + 1
      /\ cells' = [cells EXCEPT ![PatchCell(cnt)] = new]
      /\ recorded' = Append(recorded, new)
      /\ UNCHANGED <<offset, defined>>
      /\ offset \in Nat /\ offset < LabelCells
      /\ g_instruction_pointer \in Nat /\ g_instruction_pointer' \in 0 .. MaxCode
  BY <1>1, LabelCellsNat, LengthsAssumption DEF RecordJump, Inv, TypeOK, FewLabels
<1>3. new \in Cells
  BY <1>1, <1>2 DEF Cell, Cells
<1>4. PatchCell(cnt) \in Memory
  BY <1>2, LabelCellsNat, LengthsAssumption DEF Memory, PatchCell
<1>5. /\ recorded' \in Seq(Cells) /\ Len(recorded') = cnt + 1
      /\ recorded'[cnt + 1] = new
      /\ \A k \in 1 .. cnt : recorded'[k] = recorded[k]
  BY <1>2, <1>3 DEF Inv, TypeOK
<1>6. /\ cells' \in [Memory -> Cells]
      /\ cells'[PatchCell(cnt)] = new
      /\ \A c \in Memory : c # PatchCell(cnt) => cells'[c] = cells[c]
  BY <1>2, <1>3, <1>4 DEF Inv, TypeOK
<1>7. TypeOK'
  BY <1>2, <1>5, <1>6, LengthsAssumption DEF Inv, TypeOK
<1>8. LabelsIntact'
  <2>. SUFFICES ASSUME NEW s \in 1 .. offset PROVE cells'[s] = defined[s]
    BY <1>2 DEF LabelsIntact
  <2>1. s \in Memory /\ s # PatchCell(cnt)
    BY <1>2, LabelCellsNat, LengthsAssumption DEF PatchCell, Memory
  <2>. QED  BY <1>6, <2>1 DEF Inv, LabelsIntact
<1>9. EntriesIntact'
  <2>. SUFFICES ASSUME NEW k \in 1 .. cnt + 1 PROVE cells'[PatchCell(k - 1)] = recorded'[k]
    BY <1>2 DEF EntriesIntact, PatchCell
  <2>1. CASE k = cnt + 1
    <3>1. k - 1 = cnt
      BY <1>2, <2>1
    <3>. QED  BY <1>5, <1>6, <2>1, <3>1
  <2>2. CASE k # cnt + 1
    <3>1. k \in 1 .. cnt /\ PatchCell(k - 1) \in Memory /\ PatchCell(k - 1) # PatchCell(cnt)
      BY <1>2, <2>2, LabelCellsNat, LengthsAssumption DEF PatchCell, Memory
    <3>. QED  BY <1>5, <1>6, <3>1 DEF Inv, EntriesIntact
  <2>. QED  BY <2>1, <2>2
<1>. QED  BY <1>7, <1>8, <1>9 DEF Inv, FewLabels

(* The two writes and the steps of others preserve the invariant. *)
LEMMA StepInv == Inv /\ [Next]_vars => Inv'
<1>. SUFFICES ASSUME Inv, [Next]_vars PROVE Inv'
  OBVIOUS
<1>1. CASE UNCHANGED vars
  BY <1>1 DEF vars, Inv, FewLabels, TypeOK, LabelsIntact, EntriesIntact
<1>. QED  BY <1>1, InsertInv, RecordInv DEF Next

(* As long as the program defines fewer labels than the map has cells, a slot   *)
(* keeps what maplabel_insert wrote in it (parser.c:752-754).                    *)
THEOREM LabelsKept == Spec /\ FewLabels => []LabelsIntact
<1>1. Inv => LabelsIntact
  BY DEF Inv
<1>. QED  BY <1>1, InitInv, StepInv, PTL DEF Spec

(* And an entry of the patch list what list_addrtopatch_add wrote (parser.c:795). *)
THEOREM EntriesKept == Spec /\ FewLabels => []EntriesIntact
<1>1. Inv => EntriesIntact
  BY DEF Inv
<1>. QED  BY <1>1, InitInv, StepInv, PTL DEF Spec

(* And the map and the list keep their types, and the counters their bounds        *)
(* (parser.c:704-712, 782-796).                                                     *)
THEOREM TypeCorrect == Spec /\ FewLabels => []TypeOK
<1>1. Inv => TypeOK
  BY DEF Inv
<1>. QED  BY <1>1, InitInv, StepInv, PTL DEF Spec

(* A label's slot links to the one handed out before it: the chain runs down     *)
(* through all slots.                                                              *)
Linked == \A s \in 1 .. offset : defined[s].link = s - 1

LEMMA LinkedStep ==
  ASSUME Inv, Linked, [Next]_vars
  PROVE  Linked'
<1>1. CASE UNCHANGED vars
  BY <1>1 DEF vars, Linked
<1>2. ASSUME NEW name \in Names, InsertLabel(name) PROVE Linked'
  <2>1. PICK new : new = Cell(name, g_instruction_pointer, offset)
    OBVIOUS
  <2>2. /\ offset' = offset + 1 /\ defined' = Append(defined, new)
        /\ offset \in Nat /\ Len(defined) = offset /\ defined \in Seq(Cells)
        /\ new \in Cells /\ new.link = offset
    BY <1>2, <2>1, LengthsAssumption DEF InsertLabel, Inv, TypeOK, Cell, Cells
  <2>3. /\ defined'[offset + 1] = new
        /\ \A s \in 1 .. offset : defined'[s] = defined[s]
    BY <2>2
  <2>. QED  BY <2>2, <2>3 DEF Linked
<1>3. ASSUME NEW name \in Names, NEW n \in 1 .. 2, RecordJump(name, n) PROVE Linked'
  BY <1>3 DEF RecordJump, Linked
<1>. QED  BY <1>1, <1>2, <1>3 DEF Next

(* What the walk of maplabel_find returns from slot s on, as an equation, and     *)
(* where it stops.                                                                 *)
Walk(name, f) ==
    f = [s \in 0 .. offset |-> IF s = 0 \/ cells[s].name = name THEN s ELSE f[cells[s].link]]
Stop(name, t) == t = 0 \/ cells[t].name = name
StopsAt(name, s, t) == Stop(name, t) /\ \A u \in t + 1 .. s : ~Stop(name, u)

(* From every slot on there is one place where the walk stops. *)
LEMMA StopExists ==
  ASSUME offset \in Nat, NEW name, NEW s \in 0 .. offset
  PROVE  /\ \E t \in 0 .. s : StopsAt(name, s, t)
         /\ \A t, u \in 0 .. s : StopsAt(name, s, t) /\ StopsAt(name, s, u) => t = u
<1> DEFINE T == {t \in 0 .. s : Stop(name, t)}
<1>1. T \in SUBSET Nat /\ T # {} /\ s \in Nat /\ \A t \in T : t <= s
  BY DEF Stop
<1>2. PICK t \in T : \A u \in T : u <= t
  <2>. HIDE DEF T
  <2>. QED  BY <1>1, GreatestNat
<1>3. t \in 0 .. s /\ StopsAt(name, s, t)
  BY <1>2 DEF StopsAt
<1>4. ASSUME NEW v \in 0 .. s, NEW u \in 0 .. s, StopsAt(name, s, v), StopsAt(name, s, u)
      PROVE  v = u
  <2>1. ~ v < u /\ ~ u < v
    BY <1>4 DEF StopsAt
  <2>. QED  BY <2>1
<1>. QED  BY <1>3, <1>4

(* So the walk is well defined. *)
LEMMA WalkExists ==
  ASSUME offset \in Nat, \A s \in 1 .. offset : cells[s].link = s - 1, NEW name
  PROVE  \E f : Walk(name, f)
<1> DEFINE g == [s \in 0 .. offset |-> CHOOSE t \in 0 .. s : StopsAt(name, s, t)]
<1>1. \A s \in 0 .. offset : g[s] \in 0 .. s /\ StopsAt(name, s, g[s])
  BY StopExists
<1>2. ASSUME NEW s \in 0 .. offset, Stop(name, s) PROVE g[s] = s
  <2>1. s \in 0 .. s /\ StopsAt(name, s, s)
    BY <1>2 DEF StopsAt
  <2>. HIDE DEF g
  <2>. QED  BY <1>1, <2>1, StopExists
<1>3. ASSUME NEW s \in 0 .. offset, ~Stop(name, s) PROVE g[s] = g[cells[s].link]
  <2>1. s \in 1 .. offset /\ cells[s].link = s - 1 /\ s - 1 \in 0 .. offset
    BY <1>3 DEF Stop
  <2>. HIDE DEF g
  <2>2. g[s - 1] \in 0 .. s /\ StopsAt(name, s - 1, g[s - 1])
    BY <1>1, <2>1
  <2>3. StopsAt(name, s, g[s - 1])
    BY <1>3, <2>1, <2>2 DEF StopsAt
  <2>. QED  BY <1>1, <2>1, <2>2, <2>3, StopExists
<1>4. \A s \in 0 .. offset :
         g[s] = IF s = 0 \/ cells[s].name = name THEN s ELSE g[cells[s].link]
  <2>. HIDE DEF g
  <2>. QED  BY <1>2, <1>3 DEF Stop
<1>5. g = [s \in 0 .. offset |-> g[s]]
  OBVIOUS
<1>6. Walk(name, g)
  <2>. HIDE DEF g
  <2>. QED  BY <1>4, <1>5 DEF Walk
<1>. QED  BY <1>6

(* And ends in the slot of the name if there is one, in slot 0 if there is none. *)
LEMMA WalkFinds ==
  ASSUME offset \in Nat, \A s \in 1 .. offset : cells[s].link = s - 1, NEW name, NEW f, Walk(name, f)
  PROVE  \A s \in 0 .. offset : f[s] \in 0 .. s /\ StopsAt(name, s, f[s])
<1> DEFINE Right(s) == f[s] \in 0 .. s /\ StopsAt(name, s, f[s])
           S == {n \in Nat : n <= offset => Right(n)}
<1>0. \A s \in 0 .. offset : f[s] = IF Stop(name, s) THEN s ELSE f[cells[s].link]
  BY DEF Walk, Stop
<1>1. \A s \in 0 .. offset : Stop(name, s) => Right(s)
  BY <1>0 DEF StopsAt
<1>2. S \in SUBSET Nat /\ 0 \in S
  BY <1>1 DEF Stop
<1>3. ASSUME NEW n \in S PROVE n + 1 \in S
  <2>. SUFFICES ASSUME n + 1 <= offset PROVE Right(n + 1)
    OBVIOUS
  <2>1. CASE Stop(name, n + 1)
    BY <1>1, <2>1
  <2>2. CASE ~Stop(name, n + 1)
    <3>1. f[n + 1] = f[n]
      BY <1>0, <2>2
    <3>2. Right(n)
      OBVIOUS
    <3>. QED  BY <2>2, <3>1, <3>2 DEF StopsAt
  <2>. QED  BY <2>1, <2>2
<1>4. S = Nat
  <2>. HIDE DEF S
  <2>. QED  BY <1>2, <1>3, SetInduction
<1>. QED  BY <1>4

(* A lookup from the head of the chain sees every label. *)
LEMMA LookupRight == Inv /\ Linked => FindAgrees
<1>. SUFFICES ASSUME Inv, Linked, NEW name \in Names
              PROVE  IF \E k \in 1 .. offset : defined[k].name = name
                       THEN Find(name) # 0 /\ cells[Find(name)].name = name
                       ELSE Find(name) = 0
  BY DEF FindAgrees
<1>1. /\ offset \in Nat
      /\ \A s \in 1 .. offset : cells[s].link = s - 1 /\ cells[s].name = defined[s].name
  BY LengthsAssumption DEF Inv, TypeOK, LabelsIntact, Linked
<1>2. PICK f : Walk(name, f) /\ Find(name) = f[offset]
  <2>1. \E f : Walk(name, f)
    BY <1>1, WalkExists
  <2>2. Walk(name, CHOOSE f : Walk(name, f))
    BY <2>1
  <2>3. Find(name) = (CHOOSE f : Walk(name, f))[offset]
    BY DEF Find, Walk
  <2>. QED  BY <2>2, <2>3
<1>3. f[offset] \in 0 .. offset /\ StopsAt(name, offset, f[offset])
  BY <1>1, <1>2, WalkFinds
<1>. QED  BY <1>1, <1>2, <1>3 DEF StopsAt, Stop

(* As long as the labels fit, a jump is resolved to the position its label was     *)
(* given, and a name without a label is not found (codegen.c:326-349).             *)
THEOREM LookupsRight == Spec /\ FewLabels => []FindAgrees
<1>1. Init => Linked
  BY DEF Init, Linked
<1>2. Inv /\ Linked /\ [Next]_vars => (Inv /\ Linked)'
  BY StepInv, LinkedStep
<1>. QED  BY <1>1, <1>2, InitInv, LookupRight, PTL DEF Spec
===============================================================================
