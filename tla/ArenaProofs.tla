------------------------------ MODULE ArenaProofs ------------------------------
(* The arena hands out memory that is within a live block and that nobody else  *)
(* holds, for every first size, every set of requests and any number of handles. *)
EXTENDS Arena, SequenceTheorems, TLAPS

(* A chain holds its block and its root, a root has no chain behind it, and the *)
(* position is behind the header and within the block.                           *)
BlocksLinked ==
    \A b \in Blocks :
        /\ b \in Chain(b) /\ RootOf(b) \in Chain(b)
        /\ Chain(b) \subseteq Blocks
        /\ Chain(RootOf(b)) = {RootOf(b)}
        /\ Header <= blocks[b].pos /\ blocks[b].pos <= blocks[b].size

(* Every block a handle reaches is live. *)
HandlesLive ==
    \A h \in Handles : handle[h] # 0 => \A b \in Chain(handle[h]) : blocks[b].live

(* The block of a temp is live and not behind the temp, and what the temp keeps *)
(* of that block lies before it.                                                  *)
TempsAhead ==
    \A i \in 1 .. Len(temps) :
        /\ temps[i].block \in Blocks /\ blocks[temps[i].block].live
        /\ Header <= temps[i].pos /\ temps[i].pos <= blocks[temps[i].block].pos
        /\ \A a \in temps[i].kept :
               a.block = temps[i].block => a.start + a.size <= temps[i].pos

(* Of two temps of one block the later one is not behind the earlier. *)
TempsAscend ==
    \A i, j \in 1 .. Len(temps) :
        i < j /\ temps[i].block = temps[j].block => temps[i].pos <= temps[j].pos

(* A push in progress has an arena. *)
RequestsServed ==
    \A r \in request : handle[r.handle] # 0

(* The inductive invariant. *)
Inv ==
    /\ TypeOK
    /\ RequestsServed
    /\ BlocksLinked
    /\ HandlesLive
    /\ TempsAhead
    /\ TempsAscend
    /\ InBounds
    /\ NoOverlap

(* An aligned position is not before the position. *)
LEMMA AlignUp ==
  ASSUME NEW p \in Nat, NEW a \in Nat \ {0}
  PROVE  /\ AlignForward(p, a) \in Nat
         /\ AlignForward(p, a) >= p
  <1>1. p % a \in Int /\ 0 <= p % a /\ p % a < a
    OBVIOUS
  <1> QED BY <1>1 DEF AlignForward

(* A block is a header. *)
LEMMA BlockFields ==
  ASSUME TypeOK, NEW b \in Blocks
  PROVE  /\ blocks[b].size \in Nat /\ blocks[b].pos \in Nat /\ blocks[b].prev \in Nat
         /\ blocks[b].root \in Nat /\ blocks[b].chain \in SUBSET Nat
         /\ blocks[b].live \in BOOLEAN
<1>1. blocks \in Seq(Header_) /\ b \in 1 .. Len(blocks)
  BY DEF TypeOK, Blocks
<1>2. blocks[b] \in Header_
  BY <1>1
<1>. QED  BY <1>2 DEF Header_

(* A temp has a block, a position and what it keeps. *)
LEMMA TempFields ==
  ASSUME TypeOK, NEW i \in 1 .. Len(temps)
  PROVE  temps[i].block \in Nat /\ temps[i].pos \in Nat /\ temps[i].kept \subseteq Alloc_
<1>. DEFINE Temp_ == [block : Nat, pos : Nat, kept : SUBSET Alloc_]
<1>1. temps \in Seq(Temp_)
  BY DEF TypeOK
<1>2. temps[i] \in Temp_
  <2>. HIDE DEF Temp_
  <2>. QED  BY <1>1
<1>. QED  BY <1>2

(* To set the position of a block changes nothing else. *)
LEMMA SetPos ==
  ASSUME TypeOK, NEW b \in Blocks, NEW p \in Nat,
         blocks' = [blocks EXCEPT ![b].pos = p]
  PROVE  /\ blocks' \in Seq(Header_) /\ Len(blocks') = Len(blocks)
         /\ Blocks' = Blocks /\ blocks'[b].pos = p
         /\ \A c \in Blocks : /\ blocks'[c].live = blocks[c].live
                              /\ blocks'[c].chain = blocks[c].chain
                              /\ blocks'[c].root = blocks[c].root
                              /\ blocks'[c].size = blocks[c].size
                              /\ c # b => blocks'[c].pos = blocks[c].pos
<1>1. blocks[b] \in Header_
  BY DEF TypeOK, Blocks
<1>2. [blocks[b] EXCEPT !.pos = p] \in Header_
  BY <1>1 DEF Header_
<1>3. PICK new \in Header_ : new = [blocks[b] EXCEPT !.pos = p]
  BY <1>2
<1>4. /\ new.pos = p /\ new.live = blocks[b].live /\ new.chain = blocks[b].chain
      /\ new.root = blocks[b].root /\ new.size = blocks[b].size
  BY <1>1, <1>3 DEF Header_
<1>5. blocks' = [blocks EXCEPT ![b] = new]
  BY <1>3
<1>6. /\ blocks' \in Seq(Header_) /\ Len(blocks') = Len(blocks) /\ blocks'[b] = new
      /\ \A c \in Blocks : c # b => blocks'[c] = blocks[c]
  <2>1. blocks \in Seq(Header_) /\ b \in 1 .. Len(blocks)
    BY DEF TypeOK, Blocks
  <2>. QED  BY <1>5, <2>1, ExceptSeq DEF Blocks
<1>. QED  BY <1>4, <1>6 DEF Blocks

(* No block exists at first. *)
LEMMA InitInv == Init => Inv
<1>. SUFFICES ASSUME Init PROVE Inv
  OBVIOUS
<1>. USE DEF Init
<1>1. TypeOK
  BY SizesAssumption DEF TypeOK, Header_, Alloc_, Blocks
<1>2. RequestsServed /\ BlocksLinked /\ HandlesLive /\ TempsAhead /\ TempsAscend
  BY DEF RequestsServed, BlocksLinked, HandlesLive, TempsAhead, TempsAscend, Blocks
<1>3. InBounds /\ NoOverlap
  BY DEF InBounds, NoOverlap
<1>. QED  BY <1>1, <1>2, <1>3 DEF Inv

(* A new block leaves the others as they are. *)
LEMMA NewBlockInv ==
  ASSUME Inv, NEW size \in Nat, NEW prev \in 0 .. Len(blocks),
         NEW h \in Handles,
         prev # 0 => \A b \in Chain(prev) : blocks[b].live,
         blocks' = Append(blocks, NewBlock(size, prev)),
         handle' = [handle EXCEPT ![h] = Len(blocks) + 1],
         UNCHANGED <<request, temps, allocs>>
  PROVE  Inv'
<1>1. PICK new : new = NewBlock(size, prev)
  OBVIOUS
<1>2. PICK n \in Nat : n = Len(blocks)
  BY DEF Inv, TypeOK
<1>3. /\ new \in Header_
      /\ new.size = Header + size /\ new.pos = Header /\ new.live
      /\ new.chain \subseteq 1 .. n + 1
      /\ n + 1 \in new.chain /\ new.root \in new.chain
      /\ new.root = n + 1 => new.chain = {n + 1}
      /\ new.root # n + 1 => new.root \in Blocks /\ Chain(new.root) = {new.root}
      /\ \A b \in new.chain : b = n + 1 \/ (b \in Blocks /\ blocks[b].live)
  <2>1. CASE prev = 0
    BY <1>1, <1>2, <2>1 DEF NewBlock, Header_, Header
  <2>2. CASE prev # 0
    <3>1. /\ prev \in Blocks
          /\ RootOf(prev) \in Chain(prev) /\ Chain(prev) \subseteq Blocks
          /\ Chain(RootOf(prev)) = {RootOf(prev)}
          /\ RootOf(prev) \in Nat
      BY <1>2, <2>2 DEF Inv, BlocksLinked, Blocks
    <3>2. /\ new.chain = {n + 1} \cup Chain(prev) /\ new.root = RootOf(prev)
          /\ new.size = Header + size /\ new.pos = Header /\ new.live /\ new.prev = prev
          /\ new = [size |-> new.size, pos |-> new.pos, prev |-> new.prev,
                    live |-> TRUE, root |-> new.root, chain |-> new.chain]
      BY <1>1, <1>2, <2>2 DEF NewBlock
    <3>3. Blocks = 1 .. n /\ n + 1 \notin Blocks
      BY <1>2 DEF Blocks
    <3>4. new \in Header_ /\ new.chain \subseteq 1 .. n + 1
      <4>1. new.chain \subseteq 1 .. n + 1
        BY <1>2, <3>1, <3>2, <3>3
      <4>2. new.chain \in SUBSET Nat
        BY <1>2, <4>1
      <4>3. new.size \in Nat /\ new.pos \in Nat /\ new.prev \in Nat /\ new.root \in Nat
        BY <1>2, <3>1, <3>2 DEF Header
      <4>. QED  BY <3>2, <4>1, <4>2, <4>3 DEF Header_
    <3>5. /\ n + 1 \in new.chain /\ new.root \in new.chain /\ new.root # n + 1
          /\ new.root \in Blocks /\ Chain(new.root) = {new.root}
      BY <3>1, <3>2, <3>3
    <3>6. \A b \in new.chain : b = n + 1 \/ (b \in Blocks /\ blocks[b].live)
      BY <2>2, <3>1, <3>2
    <3>. QED  BY <3>2, <3>4, <3>5, <3>6
  <2>. QED  BY <2>1, <2>2
<1>4. /\ blocks \in Seq(Header_)
      /\ blocks' \in Seq(Header_) /\ Len(blocks') = n + 1
      /\ blocks'[n + 1] = new
      /\ \A b \in 1 .. n : blocks'[b] = blocks[b]
      /\ Blocks = 1 .. n /\ Blocks' = 1 .. n + 1
  BY <1>1, <1>2, <1>3 DEF Inv, TypeOK, Blocks
<1>5. /\ handle \in [Handles -> 0 .. n] /\ handle' \in [Handles -> 0 .. n + 1]
      /\ handle'[h] = n + 1
      /\ \A g \in Handles : g # h => handle'[g] = handle[g]
  BY <1>2 DEF Inv, TypeOK
<1>6. TypeOK'
  BY <1>4, <1>5 DEF Inv, TypeOK
<1>7. BlocksLinked'
  <2>. SUFFICES ASSUME NEW b \in 1 .. n + 1
                PROVE  /\ b \in blocks'[b].chain /\ blocks'[b].root \in blocks'[b].chain
                       /\ blocks'[b].chain \subseteq 1 .. n + 1
                       /\ blocks'[blocks'[b].root].chain = {blocks'[b].root}
                       /\ Header <= blocks'[b].pos /\ blocks'[b].pos <= blocks'[b].size
    BY <1>4 DEF BlocksLinked, Chain, RootOf
  <2>1. CASE b = n + 1
    BY <1>3, <1>4, <2>1 DEF Chain, Header
  <2>2. CASE b # n + 1
    BY <1>4, <2>2 DEF Inv, BlocksLinked, Chain, RootOf
  <2>. QED  BY <2>1, <2>2
<1>8. HandlesLive'
  <2>. SUFFICES ASSUME NEW g \in Handles, handle'[g] # 0, NEW b \in blocks'[handle'[g]].chain
                PROVE  blocks'[b].live
    BY DEF HandlesLive, Chain
  <2>1. CASE g = h
    BY <1>3, <1>4, <1>5, <2>1
  <2>2. CASE g # h
    <3>1. handle[g] \in Blocks /\ Chain(handle[g]) \subseteq Blocks
      BY <1>4, <1>5, <2>2 DEF Inv, BlocksLinked
    <3>. QED  BY <1>4, <1>5, <2>2, <3>1 DEF Inv, HandlesLive, Chain
  <2>. QED  BY <2>1, <2>2
<1>9. TempsAhead' /\ TempsAscend'
  BY <1>4 DEF Inv, TempsAhead, TempsAscend
<1>10. InBounds' /\ NoOverlap'
  BY <1>4 DEF Inv, InBounds, NoOverlap
<1>11. RequestsServed'
  BY <1>2, <1>5 DEF Inv, TypeOK, RequestsServed
<1>. QED  BY <1>6, <1>7, <1>8, <1>9, <1>10, <1>11 DEF Inv

(* A first block reaches no other. *)
LEMMA AllocInv ==
  ASSUME Inv, NEW h \in Handles, Alloc(h)
  PROVE  Inv'
BY NewBlockInv, SizesAssumption DEF Alloc, Inv, TypeOK

(* A larger block takes the place of one whose chain is live. *)
LEMMA GrowInv ==
  ASSUME Inv, PushGrows
  PROVE  Inv'
<1>1. PICK r \in request :
          /\ blocks' = Append(blocks, NewBlock(2 * blocks[handle[r.handle]].size, handle[r.handle]))
          /\ handle' = [handle EXCEPT ![r.handle] = Len(blocks) + 1]
          /\ UNCHANGED <<request, temps, allocs>>
  BY DEF PushGrows
<1>2. PICK h \in Handles : h = r.handle
  BY DEF Inv, TypeOK
<1>3. PICK b \in 0 .. Len(blocks) : b = handle[h]
  BY DEF Inv, TypeOK
<1>4. b # 0
  BY <1>2, <1>3 DEF Inv, RequestsServed
<1>5. PICK size \in Nat : size = 2 * blocks[b].size
  <2>1. blocks[b].size \in Nat
    BY <1>3, <1>4, BlockFields DEF Inv, Blocks
  <2>. QED  BY <2>1
<1>6. \A c \in Chain(b) : blocks[c].live
  BY <1>2, <1>3, <1>4 DEF Inv, HandlesLive
<1>. QED  BY <1>1, <1>2, <1>3, <1>5, <1>6, NewBlockInv

(* What is pushed lies behind all that the block gave out before. *)
LEMMA PushInv ==
  ASSUME Inv, PushFits
  PROVE  Inv'
<1>1. PICK r \in request :
          /\ Fits(r)
          /\ blocks' = [blocks EXCEPT ![handle[r.handle]].pos = Start(r) + r.size]
          /\ allocs' = allocs \cup
                 {[block |-> handle[r.handle], start |-> Start(r), size |-> r.size]}
          /\ request' = {}
          /\ UNCHANGED <<handle, temps>>
  BY DEF PushFits
<1>2. PICK b \in Blocks : b = handle[r.handle] /\ blocks[b].live
  <2>1. r.handle \in Handles /\ handle[r.handle] # 0 /\ handle[r.handle] \in Blocks
    BY DEF Inv, TypeOK, RequestsServed, Blocks
  <2>2. handle[r.handle] \in Chain(handle[r.handle])
    BY <2>1 DEF Inv, BlocksLinked
  <2>. QED  BY <2>1, <2>2 DEF Inv, HandlesLive
<1>3. PICK size \in Nat : size = r.size
  BY DEF Inv, TypeOK
<1>4. PICK start \in Nat : start = Start(r) /\ start >= blocks[b].pos
  <2>1. blocks[b].pos \in Nat /\ r.align \in Nat \ {0}
    BY BlockFields DEF Inv, TypeOK
  <2>. QED  BY <1>2, <2>1, AlignUp DEF Start
<1>5. PICK new : new = [block |-> b, start |-> start, size |-> size]
  OBVIOUS
<1>6. /\ blocks \in Seq(Header_) /\ blocks' \in Seq(Header_) /\ Len(blocks') = Len(blocks)
      /\ Blocks' = Blocks /\ blocks'[b].pos = start + size
      /\ \A c \in Blocks : /\ blocks'[c].live = blocks[c].live
                           /\ blocks'[c].chain = blocks[c].chain
                           /\ blocks'[c].root = blocks[c].root
                           /\ blocks'[c].size = blocks[c].size
                           /\ c # b => blocks'[c].pos = blocks[c].pos
  <2>1. blocks' = [blocks EXCEPT ![b].pos = start + size]
    BY <1>1, <1>2, <1>3, <1>4
  <2>2. start + size \in Nat
    OBVIOUS
  <2>. QED  BY <2>1, <2>2, SetPos DEF Inv, TypeOK
<1>7. /\ start + size <= blocks[b].size /\ Header <= blocks[b].pos
      /\ blocks[b].pos <= start + size /\ blocks[b].pos \in Nat
  BY <1>1, <1>2, <1>3, <1>4, BlockFields DEF Fits, Inv, BlocksLinked
<1>8. allocs' = allocs \cup {new} /\ new \in Alloc_ /\ b \in Nat
  BY <1>1, <1>2, <1>3, <1>4, <1>5 DEF Alloc_, Blocks
<1>9. TypeOK'
  BY <1>1, <1>6, <1>8 DEF Inv, TypeOK
<1>10. BlocksLinked'
  <2>. SUFFICES ASSUME NEW c \in Blocks
                PROVE  /\ c \in blocks'[c].chain /\ blocks'[c].root \in blocks'[c].chain
                       /\ blocks'[c].chain \subseteq Blocks
                       /\ blocks'[blocks'[c].root].chain = {blocks'[c].root}
                       /\ Header <= blocks'[c].pos /\ blocks'[c].pos <= blocks'[c].size
    BY <1>6 DEF BlocksLinked, Chain, RootOf
  <2>1. /\ c \in blocks[c].chain /\ blocks[c].root \in blocks[c].chain
        /\ blocks[c].chain \subseteq Blocks /\ blocks[c].root \in Blocks
        /\ blocks[blocks[c].root].chain = {blocks[c].root}
        /\ Header <= blocks[c].pos /\ blocks[c].pos <= blocks[c].size
    BY DEF Inv, BlocksLinked, Chain, RootOf
  <2>2. blocks'[c].chain = blocks[c].chain /\ blocks'[c].root = blocks[c].root
    BY <1>6
  <2>3. blocks'[blocks[c].root].chain = blocks[blocks[c].root].chain
    BY <1>6, <2>1
  <2>4. Header <= blocks'[c].pos /\ blocks'[c].pos <= blocks'[c].size
    <3>1. CASE c = b
      BY <1>6, <1>7, <3>1 DEF Header
    <3>2. CASE c # b
      BY <1>6, <2>1, <3>2
    <3>. QED  BY <3>1, <3>2
  <2>. QED  BY <2>1, <2>2, <2>3, <2>4
<1>11. HandlesLive'
  <2>. SUFFICES ASSUME NEW g \in Handles, handle[g] # 0, NEW c \in blocks'[handle[g]].chain
                PROVE  blocks'[c].live
    BY <1>1 DEF HandlesLive, Chain
  <2>1. handle[g] \in Blocks
    BY DEF Inv, TypeOK, Blocks
  <2>2. c \in Chain(handle[g]) /\ c \in Blocks
    BY <1>6, <2>1 DEF Inv, BlocksLinked, Chain
  <2>. QED  BY <1>6, <2>2 DEF Inv, HandlesLive
<1>12. TempsAhead'
  <2>. SUFFICES ASSUME NEW i \in 1 .. Len(temps)
                PROVE  /\ temps[i].block \in Blocks /\ blocks'[temps[i].block].live
                       /\ Header <= temps[i].pos /\ temps[i].pos <= blocks'[temps[i].block].pos
                       /\ \A a \in temps[i].kept :
                             a.block = temps[i].block => a.start + a.size <= temps[i].pos
    BY <1>1, <1>6 DEF TempsAhead
  <2>1. PICK c \in Blocks : c = temps[i].block
    BY DEF Inv, TempsAhead
  <2>2. temps[i].pos \in Nat
    BY TempFields DEF Inv
  <2>3. /\ blocks[c].live /\ Header <= temps[i].pos /\ temps[i].pos <= blocks[c].pos
        /\ \A a \in temps[i].kept :
              a.block = temps[i].block => a.start + a.size <= temps[i].pos
    BY <2>1 DEF Inv, TempsAhead
  <2>4. temps[i].pos <= blocks'[c].pos
    <3>1. CASE c = b
      BY <1>6, <1>7, <2>2, <2>3, <3>1
    <3>2. CASE c # b
      BY <1>6, <2>3, <3>2
    <3>. QED  BY <3>1, <3>2
  <2>. QED  BY <1>6, <2>1, <2>3, <2>4
<1>13. TempsAscend'
  BY <1>1 DEF Inv, TempsAscend
<1>14. InBounds'
  <2>. SUFFICES ASSUME NEW a \in allocs \cup {new}
                PROVE  /\ a.block \in Blocks /\ blocks'[a.block].live
                       /\ Header <= a.start
                       /\ a.start + a.size <= blocks'[a.block].pos
                       /\ blocks'[a.block].pos <= blocks'[a.block].size
    BY <1>6, <1>8 DEF InBounds
  <2>1. CASE a = new
    <3>1. a.block = b /\ a.start = start /\ a.size = size
      BY <1>5, <2>1
    <3>2. Header <= start
      BY <1>4, <1>7 DEF Header
    <3>. QED  BY <1>2, <1>6, <1>7, <3>1, <3>2
  <2>2. CASE a # new
    <3>1. a \in allocs /\ a.start \in Nat /\ a.size \in Nat
      BY <2>2 DEF Inv, TypeOK, Alloc_
    <3>2. PICK c \in Blocks : c = a.block
      BY <3>1 DEF Inv, InBounds
    <3>3. /\ blocks[c].live /\ Header <= a.start /\ a.start + a.size <= blocks[c].pos
          /\ blocks[c].pos <= blocks[c].size
      BY <3>1, <3>2 DEF Inv, InBounds
    <3>4. CASE c = b
      BY <1>6, <1>7, <3>1, <3>2, <3>3, <3>4
    <3>5. CASE c # b
      BY <1>6, <3>2, <3>3, <3>5
    <3>. QED  BY <3>4, <3>5
  <2>. QED  BY <2>1, <2>2
<1>15. NoOverlap'
  <2>1. \A a \in allocs : a.block = b => a.start + a.size <= new.start
    <3>. SUFFICES ASSUME NEW a \in allocs, a.block = b PROVE a.start + a.size <= new.start
      OBVIOUS
    <3>1. a.start \in Nat /\ a.size \in Nat
      BY DEF Inv, TypeOK, Alloc_
    <3>. QED  BY <1>4, <1>5, <1>7, <3>1 DEF Inv, InBounds
  <2>. QED  BY <1>5, <1>8, <2>1 DEF Inv, NoOverlap
<1>. QED  BY <1>9, <1>10, <1>11, <1>12, <1>13, <1>14, <1>15, <1>1 DEF Inv, RequestsServed

(* A temp begins at the position of its block, behind all that lies in it. *)
LEMMA TempBeginInv ==
  ASSUME Inv, NEW h \in Handles, TempBegin(h)
  PROVE  Inv'
<1>1. PICK b \in Blocks : b = handle[h] /\ blocks[b].live
  <2>1. handle[h] # 0 /\ handle[h] \in Blocks
    BY DEF TempBegin, Inv, TypeOK, Blocks
  <2>2. handle[h] \in Chain(handle[h])
    BY <2>1 DEF Inv, BlocksLinked
  <2>. QED  BY <2>1, <2>2 DEF Inv, HandlesLive
<1>2. PICK new : new = [block |-> b, pos |-> blocks[b].pos, kept |-> allocs]
  OBVIOUS
<1>3. /\ temps' = Append(temps, new)
      /\ UNCHANGED <<blocks, handle, request, allocs>>
  BY <1>1, <1>2 DEF TempBegin
<1>4. PICK n \in Nat : n = Len(temps)
  BY DEF Inv, TypeOK
<1>5. new \in [block : Nat, pos : Nat, kept : SUBSET Alloc_]
  BY <1>1, <1>2, BlockFields DEF Inv, TypeOK, Blocks
<1>6. /\ temps' \in Seq([block : Nat, pos : Nat, kept : SUBSET Alloc_])
      /\ Len(temps') = n + 1 /\ temps'[n + 1] = new
      /\ \A i \in 1 .. n : temps'[i] = temps[i]
  BY <1>3, <1>4, <1>5 DEF Inv, TypeOK
<1>7. TypeOK'
  BY <1>3, <1>6 DEF Inv, TypeOK
<1>8. TempsAhead'
  <2>. SUFFICES ASSUME NEW i \in 1 .. n + 1
                PROVE  /\ temps'[i].block \in Blocks /\ blocks[temps'[i].block].live
                       /\ Header <= temps'[i].pos /\ temps'[i].pos <= blocks[temps'[i].block].pos
                       /\ \A a \in temps'[i].kept :
                             a.block = temps'[i].block => a.start + a.size <= temps'[i].pos
    BY <1>3, <1>6 DEF TempsAhead, Blocks
  <2>1. CASE i = n + 1
    BY <1>1, <1>2, <1>5, <1>6, <2>1 DEF Inv, BlocksLinked, InBounds
  <2>2. CASE i # n + 1
    <3>1. i \in 1 .. Len(temps) /\ temps'[i] = temps[i]
      BY <1>4, <1>6, <2>2
    <3>. QED  BY <3>1 DEF Inv, TempsAhead
  <2>. QED  BY <2>1, <2>2
<1>9. TempsAscend'
  <2>. SUFFICES ASSUME NEW i \in 1 .. n + 1, NEW j \in 1 .. n + 1, i < j,
                       temps'[i].block = temps'[j].block
                PROVE  temps'[i].pos <= temps'[j].pos
    BY <1>6 DEF TempsAscend
  <2>1. i \in 1 .. n /\ temps'[i] = temps[i]
    BY <1>4, <1>6
  <2>2. CASE j = n + 1
    BY <1>2, <1>4, <1>6, <2>1, <2>2 DEF Inv, TempsAhead
  <2>3. CASE j # n + 1
    <3>1. j \in 1 .. Len(temps) /\ j \in 1 .. n
      BY <1>4, <2>3
    <3>2. temps'[j] = temps[j]
      BY <1>6, <3>1
    <3>. QED  BY <1>4, <2>1, <3>1, <3>2 DEF Inv, TempsAscend
  <2>. QED  BY <2>2, <2>3
<1>. QED  BY <1>3, <1>7, <1>8, <1>9
          DEF Inv, BlocksLinked, HandlesLive, RequestsServed, InBounds, NoOverlap, Blocks, Chain, RootOf

(* Only what the temp did not keep lies behind its position. *)
LEMMA TempEndInv ==
  ASSUME Inv, TempEnd
  PROVE  Inv'
<1>. DEFINE Temp_ == [block : Nat, pos : Nat, kept : SUBSET Alloc_]
<1>temps. temps \in Seq(Temp_)
  BY DEF Inv, TypeOK
<1>. HIDE DEF Temp_
<1>1. PICK n \in Nat : Len(temps) = n + 1
  <2>1. temps # <<>>
    BY DEF TempEnd
  <2>2. Len(temps) \in Nat /\ Len(temps) # 0
    BY <1>temps, <2>1, EmptySeq
  <2>3. Len(temps) - 1 \in Nat /\ Len(temps) = (Len(temps) - 1) + 1
    BY <2>2
  <2>. QED  BY <2>3
<1>2. n + 1 \in 1 .. Len(temps)
  BY <1>1
<1>3. PICK t : t = temps[n + 1]
  OBVIOUS
<1>4. t.pos \in Nat /\ t.kept \subseteq Alloc_
  BY <1>2, <1>3, TempFields DEF Inv
<1>5. PICK b \in Blocks : b = t.block
  BY <1>2, <1>3 DEF Inv, TempsAhead
<1>6. /\ Header <= t.pos /\ t.pos <= blocks[b].pos
      /\ \A a \in t.kept : a.block = b => a.start + a.size <= t.pos
  BY <1>2, <1>3, <1>5 DEF Inv, TempsAhead
<1>7. /\ blocks' = [blocks EXCEPT ![b].pos = t.pos]
      /\ allocs' = {a \in allocs : a \in t.kept \/ RootOf(a.block) # RootOf(b)}
      /\ temps' = SubSeq(temps, 1, n)
      /\ UNCHANGED <<handle, request>>
  <2>1. Len(temps) - 1 = n
    BY <1>1
  <2>. QED  BY <1>1, <1>3, <1>5, <2>1 DEF TempEnd
<1>8. /\ blocks' \in Seq(Header_) /\ Len(blocks') = Len(blocks)
      /\ Blocks' = Blocks /\ blocks'[b].pos = t.pos
      /\ \A c \in Blocks : /\ blocks'[c].live = blocks[c].live
                           /\ blocks'[c].chain = blocks[c].chain
                           /\ blocks'[c].root = blocks[c].root
                           /\ blocks'[c].size = blocks[c].size
                           /\ c # b => blocks'[c].pos = blocks[c].pos
  BY <1>4, <1>7, SetPos DEF Inv
<1>9. blocks[b].pos \in Nat /\ blocks[b].size \in Nat /\ blocks[b].pos <= blocks[b].size
  BY BlockFields DEF Inv, BlocksLinked
<1>10. /\ temps' \in Seq(Temp_) /\ Len(temps') = n
       /\ \A i \in 1 .. n : i \in 1 .. Len(temps) /\ temps'[i] = temps[i]
  BY <1>temps, <1>1, <1>7, SubSeqProperties
<1>11. allocs' \subseteq allocs
  BY <1>7
<1>12. TypeOK'
  BY <1>7, <1>8, <1>10, <1>11 DEF Inv, TypeOK, Temp_
<1>13. BlocksLinked'
  <2>. SUFFICES ASSUME NEW c \in Blocks
                PROVE  /\ c \in blocks'[c].chain /\ blocks'[c].root \in blocks'[c].chain
                       /\ blocks'[c].chain \subseteq Blocks
                       /\ blocks'[blocks'[c].root].chain = {blocks'[c].root}
                       /\ Header <= blocks'[c].pos /\ blocks'[c].pos <= blocks'[c].size
    BY <1>8 DEF BlocksLinked, Chain, RootOf
  <2>1. /\ c \in blocks[c].chain /\ blocks[c].root \in blocks[c].chain
        /\ blocks[c].chain \subseteq Blocks /\ blocks[c].root \in Blocks
        /\ blocks[blocks[c].root].chain = {blocks[c].root}
        /\ Header <= blocks[c].pos /\ blocks[c].pos <= blocks[c].size
    BY DEF Inv, BlocksLinked, Chain, RootOf
  <2>2. blocks'[c].chain = blocks[c].chain /\ blocks'[c].root = blocks[c].root
    BY <1>8
  <2>3. blocks'[blocks[c].root].chain = blocks[blocks[c].root].chain
    BY <1>8, <2>1
  <2>4. Header <= blocks'[c].pos /\ blocks'[c].pos <= blocks'[c].size
    <3>1. CASE c = b
      BY <1>4, <1>6, <1>8, <1>9, <3>1
    <3>2. CASE c # b
      BY <1>8, <2>1, <3>2
    <3>. QED  BY <3>1, <3>2
  <2>. QED  BY <2>1, <2>2, <2>3, <2>4
<1>14. HandlesLive'
  <2>. SUFFICES ASSUME NEW g \in Handles, handle[g] # 0, NEW c \in blocks'[handle[g]].chain
                PROVE  blocks'[c].live
    BY <1>7 DEF HandlesLive, Chain
  <2>1. handle[g] \in Blocks
    BY DEF Inv, TypeOK, Blocks
  <2>2. c \in Chain(handle[g]) /\ c \in Blocks
    BY <1>8, <2>1 DEF Inv, BlocksLinked, Chain
  <2>. QED  BY <1>8, <2>2 DEF Inv, HandlesLive
<1>15. TempsAhead'
  <2>. SUFFICES ASSUME NEW i \in 1 .. n
                PROVE  /\ temps[i].block \in Blocks /\ blocks'[temps[i].block].live
                       /\ Header <= temps[i].pos /\ temps[i].pos <= blocks'[temps[i].block].pos
                       /\ \A a \in temps[i].kept :
                             a.block = temps[i].block => a.start + a.size <= temps[i].pos
    BY <1>8, <1>10 DEF TempsAhead
  <2>1. i \in 1 .. Len(temps) /\ i < n + 1
    BY <1>10
  <2>2. PICK c \in Blocks : c = temps[i].block
    BY <2>1 DEF Inv, TempsAhead
  <2>3. /\ blocks[c].live /\ Header <= temps[i].pos /\ temps[i].pos <= blocks[c].pos
        /\ \A a \in temps[i].kept :
              a.block = temps[i].block => a.start + a.size <= temps[i].pos
    BY <2>1, <2>2 DEF Inv, TempsAhead
  <2>4. temps[i].pos <= blocks'[c].pos
    <3>1. CASE c = b
      <4>1. temps[i].block = temps[n + 1].block
        BY <1>3, <1>5, <2>2, <3>1
      <4>2. temps[i].pos <= t.pos
        BY <1>2, <1>3, <2>1, <4>1 DEF Inv, TempsAscend
      <4>. QED  BY <1>8, <3>1, <4>2
    <3>2. CASE c # b
      BY <1>8, <2>3, <3>2
    <3>. QED  BY <3>1, <3>2
  <2>. QED  BY <1>8, <2>2, <2>3, <2>4
<1>16. TempsAscend'
  BY <1>10 DEF Inv, TempsAscend
<1>17. InBounds'
  <2>. SUFFICES ASSUME NEW a \in allocs'
                PROVE  /\ a.block \in Blocks /\ blocks'[a.block].live
                       /\ Header <= a.start
                       /\ a.start + a.size <= blocks'[a.block].pos
                       /\ blocks'[a.block].pos <= blocks'[a.block].size
    BY <1>8 DEF InBounds
  <2>1. PICK c \in Blocks : c = a.block
    BY <1>11 DEF Inv, InBounds
  <2>2. /\ blocks[c].live /\ Header <= a.start /\ a.start + a.size <= blocks[c].pos
        /\ blocks[c].pos <= blocks[c].size
    BY <1>11, <2>1 DEF Inv, InBounds
  <2>3. CASE c = b
    <3>1. a \in t.kept
      BY <1>7, <2>1, <2>3
    <3>2. a.start + a.size <= t.pos
      BY <1>6, <2>1, <2>3, <3>1
    <3>3. t.pos <= blocks[b].size
      BY <1>4, <1>6, <1>9
    <3>. QED  BY <1>8, <2>1, <2>2, <2>3, <3>2, <3>3
  <2>4. CASE c # b
    BY <1>8, <2>1, <2>2, <2>4
  <2>. QED  BY <2>3, <2>4
<1>18. NoOverlap'
  BY <1>11 DEF Inv, NoOverlap
<1>. QED  BY <1>7, <1>12, <1>13, <1>14, <1>15, <1>16, <1>17, <1>18 DEF Inv, RequestsServed

(* To free blocks that no handle reaches, and to rewind blocks of which all was *)
(* given back, harms nobody.                                                      *)
LEMMA GiveBackInv ==
  ASSUME Inv, temps = <<>>, request = {}, NEW given, NEW freed,
         blocks' \in Seq(Header_), Len(blocks') = Len(blocks),
         \A c \in Blocks : /\ c \notin freed => blocks'[c].live = blocks[c].live
                           /\ blocks'[c].chain = blocks[c].chain
                           /\ blocks'[c].root = blocks[c].root
                           /\ blocks'[c].size = blocks[c].size
                           /\ blocks'[c].pos \in {blocks[c].pos, Header}
                           /\ c \notin given => blocks'[c].pos = blocks[c].pos,
         freed \subseteq given,
         handle' \in [Handles -> 0 .. Len(blocks)],
         \A g \in Handles : handle'[g] # 0 =>
             \A c \in Chain(handle'[g]) : blocks[c].live /\ c \notin freed,
         allocs' = {a \in allocs : a.block \notin given},
         UNCHANGED <<request, temps>>
  PROVE  Inv'
<1>1. Blocks' = Blocks /\ allocs' \subseteq allocs
  BY DEF Blocks
<1>2. TypeOK'
  BY <1>1 DEF Inv, TypeOK
<1>3. BlocksLinked'
  <2>. SUFFICES ASSUME NEW c \in Blocks
                PROVE  /\ c \in blocks'[c].chain /\ blocks'[c].root \in blocks'[c].chain
                       /\ blocks'[c].chain \subseteq Blocks
                       /\ blocks'[blocks'[c].root].chain = {blocks'[c].root}
                       /\ Header <= blocks'[c].pos /\ blocks'[c].pos <= blocks'[c].size
    BY <1>1 DEF BlocksLinked, Chain, RootOf
  <2>1. /\ c \in blocks[c].chain /\ blocks[c].root \in blocks[c].chain
        /\ blocks[c].chain \subseteq Blocks /\ blocks[c].root \in Blocks
        /\ blocks[blocks[c].root].chain = {blocks[c].root}
        /\ Header <= blocks[c].pos /\ blocks[c].pos <= blocks[c].size
        /\ blocks[c].pos \in Nat /\ blocks[c].size \in Nat
    BY BlockFields DEF Inv, BlocksLinked, Chain, RootOf
  <2>2. /\ blocks'[c].chain = blocks[c].chain /\ blocks'[c].root = blocks[c].root
        /\ blocks'[c].size = blocks[c].size /\ blocks'[c].pos \in {blocks[c].pos, Header}
    OBVIOUS
  <2>3. blocks'[blocks[c].root].chain = blocks[blocks[c].root].chain
    BY <2>1
  <2>4. Header <= blocks'[c].pos /\ blocks'[c].pos <= blocks'[c].size
    BY <2>1, <2>2 DEF Header
  <2>. QED  BY <2>1, <2>2, <2>3, <2>4
<1>4. HandlesLive'
  <2>. SUFFICES ASSUME NEW g \in Handles, handle'[g] # 0, NEW c \in blocks'[handle'[g]].chain
                PROVE  blocks'[c].live
    BY DEF HandlesLive, Chain
  <2>1. handle'[g] \in Blocks
    BY DEF Inv, TypeOK, Blocks
  <2>2. c \in Chain(handle'[g]) /\ c \in Blocks
    BY <2>1 DEF Inv, BlocksLinked, Chain
  <2>. QED  BY <2>2
<1>5. TempsAhead' /\ TempsAscend'
  BY DEF TempsAhead, TempsAscend
<1>6. InBounds'
  <2>. SUFFICES ASSUME NEW a \in allocs'
                PROVE  /\ a.block \in Blocks /\ blocks'[a.block].live
                       /\ Header <= a.start
                       /\ a.start + a.size <= blocks'[a.block].pos
                       /\ blocks'[a.block].pos <= blocks'[a.block].size
    BY <1>1 DEF InBounds
  <2>1. PICK c \in Blocks : c = a.block
    BY <1>1 DEF Inv, InBounds
  <2>2. /\ blocks[c].live /\ Header <= a.start /\ a.start + a.size <= blocks[c].pos
        /\ blocks[c].pos <= blocks[c].size
    BY <1>1, <2>1 DEF Inv, InBounds
  <2>3. c \notin given /\ c \notin freed
    BY <2>1
  <2>. QED  BY <2>1, <2>2, <2>3
<1>7. NoOverlap'
  BY <1>1 DEF Inv, NoOverlap
<1>8. RequestsServed'
  BY DEF RequestsServed
<1>. QED  BY <1>2, <1>3, <1>4, <1>5, <1>6, <1>7, <1>8 DEF Inv

(* What Freed leaves of the blocks: all but whether they are live. *)
FreedShape(B) ==
    /\ Freed(B) \in Seq(Header_) /\ Len(Freed(B)) = Len(blocks)
    /\ \A c \in Blocks : /\ Freed(B)[c] \in Header_
                         /\ c \notin B => Freed(B)[c].live = blocks[c].live
                         /\ Freed(B)[c].chain = blocks[c].chain
                         /\ Freed(B)[c].root = blocks[c].root
                         /\ Freed(B)[c].size = blocks[c].size
                         /\ Freed(B)[c].pos = blocks[c].pos

(* To free blocks changes only whether they are live. *)
LEMMA FreedKeeps ==
  ASSUME TypeOK, NEW B
  PROVE  FreedShape(B)
<1>1. PICK n \in Nat : n = Len(blocks)
  BY DEF TypeOK
<1>2. \A c \in 1 .. n : blocks[c] \in Header_
  BY <1>1 DEF TypeOK
<1>3. PICK F : F = Freed(B)
  OBVIOUS
<1>4. F = [c \in 1 .. n |-> IF c \in B THEN [blocks[c] EXCEPT !.live = FALSE] ELSE blocks[c]]
  BY <1>1, <1>3 DEF Freed, Blocks
<1>5. ASSUME NEW c \in 1 .. n
      PROVE  /\ F[c] \in Header_
             /\ c \notin B => F[c].live = blocks[c].live
             /\ F[c].chain = blocks[c].chain /\ F[c].root = blocks[c].root
             /\ F[c].size = blocks[c].size /\ F[c].pos = blocks[c].pos
  <2>1. blocks[c] \in Header_
    BY <1>2
  <2>2. CASE c \in B
    <3>1. F[c] = [blocks[c] EXCEPT !.live = FALSE]
      BY <1>4, <2>2
    <3>. QED  BY <2>1, <2>2, <3>1 DEF Header_
  <2>3. CASE c \notin B
    BY <1>4, <2>1, <2>3
  <2>. QED  BY <2>2, <2>3
<1>6. F \in [1 .. n -> Header_]
  BY <1>4, <1>5
<1>7. F \in Seq(Header_) /\ Len(F) = n
  BY <1>6
<1>. QED  BY <1>1, <1>3, <1>5, <1>7 DEF FreedShape, Blocks

(* arena_clear keeps the root and frees what no other handle reaches. *)
LEMMA ClearInv ==
  ASSUME Inv, NEW h \in Handles, Clear(h)
  PROVE  Inv'
<1>1. PICK b \in Blocks : b = handle[h]
  BY DEF Clear, Inv, TypeOK, Blocks
<1>2. PICK root \in Blocks : root = RootOf(b)
  BY DEF Inv, BlocksLinked
<1>3. PICK given : given = Chain(b)
  OBVIOUS
<1>4. PICK freed : freed = given \ {root}
  OBVIOUS
<1>5. /\ request = {} /\ temps = <<>> /\ UNCHANGED <<request, temps>>
      /\ \A g \in Handles \ {h} : handle[g] # 0 => Chain(handle[g]) \cap freed = {}
      /\ blocks' = [Freed(freed) EXCEPT ![root].pos = Header]
      /\ handle' = [handle EXCEPT ![h] = root]
      /\ allocs' = {a \in allocs : a.block \notin given}
  BY <1>1, <1>2, <1>3, <1>4 DEF Clear, Idle, MayFree
<1>6. /\ root \in given /\ given \subseteq Blocks /\ Chain(root) = {root}
      /\ \A c \in given : blocks[c].live
  BY <1>1, <1>2, <1>3 DEF Inv, BlocksLinked, HandlesLive, Blocks
<1>7. /\ blocks' \in Seq(Header_) /\ Len(blocks') = Len(blocks)
      /\ \A c \in Blocks : /\ c \notin freed => blocks'[c].live = blocks[c].live
                           /\ blocks'[c].chain = blocks[c].chain
                           /\ blocks'[c].root = blocks[c].root
                           /\ blocks'[c].size = blocks[c].size
                           /\ blocks'[c].pos \in {blocks[c].pos, Header}
                           /\ c \notin given => blocks'[c].pos = blocks[c].pos
  <2>1. FreedShape(freed)
    BY FreedKeeps DEF Inv
  <2>2. PICK B : B = Freed(freed)
    OBVIOUS
  <2>3. /\ B \in Seq(Header_) /\ Len(B) = Len(blocks)
        /\ \A c \in Blocks : /\ B[c] \in Header_
                             /\ c \notin freed => B[c].live = blocks[c].live
                             /\ B[c].chain = blocks[c].chain
                             /\ B[c].root = blocks[c].root
                             /\ B[c].size = blocks[c].size
                             /\ B[c].pos = blocks[c].pos
    BY <2>1, <2>2 DEF FreedShape
  <2>4. PICK new : new = [B[root] EXCEPT !.pos = Header]
    OBVIOUS
  <2>5. /\ new \in Header_ /\ new.pos = Header /\ new.live = B[root].live
        /\ new.chain = B[root].chain /\ new.root = B[root].root /\ new.size = B[root].size
    <3>1. B[root] \in Header_
      BY <2>3
    <3>. QED  BY <2>4, <3>1 DEF Header_, Header
  <2>6. blocks' = [B EXCEPT ![root] = new] /\ root \in 1 .. Len(B)
    BY <1>5, <2>2, <2>3, <2>4 DEF Blocks
  <2>7. /\ blocks' \in Seq(Header_) /\ Len(blocks') = Len(blocks)
        /\ \A c \in Blocks : blocks'[c] = IF c = root THEN new ELSE B[c]
    BY <2>3, <2>5, <2>6, ExceptSeq DEF Blocks
  <2>. QED  BY <1>4, <1>6, <2>3, <2>5, <2>7
<1>8. handle' \in [Handles -> 0 .. Len(blocks)]
  BY <1>5 DEF Inv, TypeOK, Blocks
<1>9. ASSUME NEW g \in Handles, handle'[g] # 0, NEW c \in Chain(handle'[g])
      PROVE  blocks[c].live /\ c \notin freed
  <2>1. CASE g = h
    <3>1. c = root
      BY <1>5, <1>6, <1>9, <2>1 DEF Inv, TypeOK
    <3>. QED  BY <1>4, <1>6, <3>1
  <2>2. CASE g # h
    <3>1. handle'[g] = handle[g]
      BY <1>5, <2>2 DEF Inv, TypeOK
    <3>. QED  BY <1>5, <1>9, <2>2, <3>1 DEF Inv, HandlesLive
  <2>. QED  BY <2>1, <2>2
<1>10. freed \subseteq given
  BY <1>4
<1>11. \A g \in Handles : handle'[g] # 0 =>
           \A c \in Chain(handle'[g]) : blocks[c].live /\ c \notin freed
  BY <1>9
<1>. QED  BY <1>5, <1>7, <1>8, <1>10, <1>11, GiveBackInv

(* arena_release frees what no other handle reaches. *)
LEMMA ReleaseInv ==
  ASSUME Inv, NEW h \in Handles, Release(h)
  PROVE  Inv'
<1>1. PICK b \in Blocks : b = handle[h]
  BY DEF Release, Inv, TypeOK, Blocks
<1>2. PICK given : given = Chain(b)
  OBVIOUS
<1>3. /\ request = {} /\ temps = <<>> /\ UNCHANGED <<request, temps>>
      /\ \A g \in Handles \ {h} : handle[g] # 0 => Chain(handle[g]) \cap given = {}
      /\ blocks' = Freed(given)
      /\ handle' = [handle EXCEPT ![h] = 0]
      /\ allocs' = {a \in allocs : a.block \notin given}
  BY <1>1, <1>2 DEF Release, Idle, MayFree
<1>4. FreedShape(given)
  BY FreedKeeps DEF Inv
<1>5. /\ blocks' \in Seq(Header_) /\ Len(blocks') = Len(blocks)
      /\ \A c \in Blocks : /\ c \notin given => blocks'[c].live = blocks[c].live
                           /\ blocks'[c].chain = blocks[c].chain
                           /\ blocks'[c].root = blocks[c].root
                           /\ blocks'[c].size = blocks[c].size
                           /\ blocks'[c].pos \in {blocks[c].pos, Header}
                           /\ c \notin given => blocks'[c].pos = blocks[c].pos
  BY <1>3, <1>4 DEF FreedShape
<1>6. handle' \in [Handles -> 0 .. Len(blocks)]
  <2>1. 0 \in 0 .. Len(blocks)
    BY DEF Inv, TypeOK
  <2>. QED  BY <1>3, <2>1 DEF Inv, TypeOK
<1>7. ASSUME NEW g \in Handles, handle'[g] # 0, NEW c \in Chain(handle'[g])
      PROVE  blocks[c].live /\ c \notin given
  <2>1. g # h /\ handle'[g] = handle[g]
    BY <1>3, <1>7 DEF Inv, TypeOK
  <2>. QED  BY <1>3, <1>7, <2>1 DEF Inv, HandlesLive
<1>. QED  BY <1>3, <1>5, <1>6, <1>7, GiveBackInv

(* A copied handle reaches the same live blocks. *)
LEMMA CopyInv ==
  ASSUME Inv, NEW h \in Handles, NEW g \in Handles, Copy(h, g)
  PROVE  Inv'
<1>1. /\ handle' \in [Handles -> 0 .. Len(blocks)]
      /\ handle'[g] = handle[h]
      /\ \A k \in Handles : k # g => handle'[k] = handle[k]
  BY DEF Copy, Inv, TypeOK
<1>2. TypeOK' /\ HandlesLive' /\ RequestsServed'
  BY <1>1 DEF Copy, Idle, Inv, TypeOK, HandlesLive, RequestsServed, Chain
<1>. QED  BY <1>2
          DEF Copy, Inv, BlocksLinked, TempsAhead, TempsAscend, InBounds, NoOverlap, Blocks, Chain, RootOf

(* A handle less reaches no more. *)
LEMMA ForgetInv ==
  ASSUME Inv, NEW g \in Handles, Forget(g)
  PROVE  Inv'
<1>1. 0 \in 0 .. Len(blocks)
  BY DEF Inv, TypeOK
<1>2. /\ handle' \in [Handles -> 0 .. Len(blocks)]
      /\ handle'[g] = 0
      /\ \A k \in Handles : k # g => handle'[k] = handle[k]
  BY <1>1 DEF Forget, Inv, TypeOK
<1>3. TypeOK' /\ HandlesLive' /\ RequestsServed'
  BY <1>2 DEF Forget, Idle, Inv, TypeOK, HandlesLive, RequestsServed, Chain
<1>. QED  BY <1>3
          DEF Forget, Inv, BlocksLinked, TempsAhead, TempsAscend, InBounds, NoOverlap, Blocks, Chain, RootOf

(* A push starts with nothing changed. *)
LEMMA PushStartInv ==
  ASSUME Inv, NEW h \in Handles, NEW r \in Requests, Push(h, r)
  PROVE  Inv'
<1>1. r.size \in Nat /\ r.align \in Nat \ {0}
  BY SizesAssumption
<1>2. TypeOK' /\ RequestsServed'
  BY <1>1 DEF Push, Inv, TypeOK, RequestsServed
<1>. QED  BY <1>2
          DEF Push, Inv, BlocksLinked, HandlesLive, TempsAhead, TempsAscend, InBounds, NoOverlap,
              Blocks, Chain, RootOf

(* Every step preserves the invariant. *)
LEMMA StepInv == Inv /\ [Next]_vars => Inv'
<1>. SUFFICES ASSUME Inv, [Next]_vars PROVE Inv'
  OBVIOUS
<1>1. ASSUME NEW h \in Handles, Alloc(h) PROVE Inv'
  BY <1>1, AllocInv
<1>2. ASSUME NEW h \in Handles, Forget(h) PROVE Inv'
  BY <1>2, ForgetInv
<1>3. ASSUME NEW h \in Handles, Clear(h) PROVE Inv'
  BY <1>3, ClearInv
<1>4. ASSUME NEW h \in Handles, Release(h) PROVE Inv'
  BY <1>4, ReleaseInv
<1>5. ASSUME NEW h \in Handles, TempBegin(h) PROVE Inv'
  BY <1>5, TempBeginInv
<1>6. ASSUME NEW h \in Handles, NEW g \in Handles, Copy(h, g) PROVE Inv'
  BY <1>6, CopyInv
<1>7. ASSUME NEW h \in Handles, NEW r \in Requests, Push(h, r) PROVE Inv'
  BY <1>7, PushStartInv
<1>8. CASE PushFits
  BY <1>8, PushInv
<1>9. CASE PushGrows
  BY <1>9, GrowInv
<1>10. CASE TempEnd
  BY <1>10, TempEndInv
<1>11. ASSUME NEW conflicts \in SUBSET Handles, ScratchGet(conflicts) PROVE Inv'
  <2>1. PICK i \in DOMAIN arenas : TempBegin(arenas[i])
    BY <1>11 DEF ScratchGet
  <2>2. arenas[i] \in Handles
    BY <2>1, SizesAssumption
  <2>. QED  BY <2>1, <2>2, TempBeginInv
<1>12. CASE UNCHANGED vars
  BY <1>12 DEF vars, Inv, TypeOK, RequestsServed, BlocksLinked, HandlesLive, TempsAhead,
               TempsAscend, InBounds, NoOverlap, Blocks, Chain, RootOf
<1>. QED  BY <1>1, <1>2, <1>3, <1>4, <1>5, <1>6, <1>7, <1>8, <1>9, <1>10, <1>11, <1>12 DEF Next

(* The invariant holds throughout, for all sizes and any number of handles. *)
THEOREM Invariance == Spec => []Inv
<1>. QED  BY InitInv, StepInv, PTL DEF Spec

(* The variables keep their types. *)
THEOREM TypeCorrect == Spec => []TypeOK
<1>1. Inv => TypeOK
  BY DEF Inv
<1>. QED  BY <1>1, Invariance, PTL

(* What arena_push hands out is within a live block (arena.c:91-97). *)
THEOREM BoundsCorrect == Spec => []InBounds
<1>1. Inv => InBounds
  BY DEF Inv
<1>. QED  BY <1>1, Invariance, PTL

(* No byte has two holders (arena.c:96, 102-103, 117). *)
THEOREM OverlapCorrect == Spec => []NoOverlap
<1>1. Inv => NoOverlap
  BY DEF Inv
<1>. QED  BY <1>1, Invariance, PTL
===============================================================================
