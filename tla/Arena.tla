--------------------------------- MODULE Arena ---------------------------------
(* The allocator (arena.c): blocks chained by prev, a bump position in each.     *)
(* A block is numbered by its place in blocks.  A handle is an Arena* variable of *)
(* a caller; functions that take an Arena* by value work on a copy, and when the   *)
(* copy grows the original keeps the old block.                                    *)
EXTENDS Integers, Sequences, FiniteSets

CONSTANTS
    Handles,    \* variables of type Arena*
    arenas,     \* those of ctx_local
    FirstSize,  \* size an arena is allocated with
    Requests,   \* sizes and alignments asked for: [size, align]
    MaxBlocks,  \* bound: blocks allocated
    MaxGrowth,  \* bound: blocks kept back for the growth of one request
    MaxTemps,   \* bound: nested temps
    MaxAllocs   \* bound: allocations not given back

ASSUME SizesAssumption ==
    /\ FirstSize \in Nat
    /\ Requests \subseteq [size : Nat, align : Nat \ {0}]
    /\ arenas \in Seq(Handles)

VARIABLES
    blocks,     \* headers: size, pos, prev; whether live; the chain to the root
    handle,     \* the block each handle addresses, 0 if none
    request,    \* the arena_push in progress, or {}
    temps,      \* the Temps begun and not ended
    allocs      \* history: what was allocated and not given back

vars == <<blocks, handle, request, temps, allocs>>

Header     == 24                            \* sizeof(Arena)
Blocks     == 1 .. Len(blocks)
Chain(b)   == blocks[b].chain               \* b and the blocks before it
RootOf(b)  == blocks[b].root
(* Mutant: the first push overwrites the header. *)
NewBlock_NoHeader(size, prev) ==
    LET b == Len(blocks) + 1 IN
    [size  |-> Header + size, pos |-> 0, prev |-> prev, live |-> TRUE,
     root  |-> IF prev = 0 THEN b ELSE RootOf(prev),
     chain |-> IF prev = 0 THEN {b} ELSE {b} \cup Chain(prev)]

NewBlock(size, prev) ==
    LET b == Len(blocks) + 1 IN
    [size  |-> Header + size, pos |-> Header, prev |-> prev, live |-> TRUE,
     root  |-> IF prev = 0 THEN b ELSE RootOf(prev),
     chain |-> IF prev = 0 THEN {b} ELSE {b} \cup Chain(prev)]

(* Mutant: aligned downwards. *)
AlignForward_Down(pos, align) == pos - (pos % align)

(* pos & (align - 1) is pos % align: alignments are powers of two. *)
AlignForward(pos, align) ==
    IF pos % align = 0 THEN pos ELSE pos + (align - (pos % align))

Init ==
    /\ blocks = <<>>
    /\ handle = [h \in Handles |-> 0]
    /\ request = {}
    /\ temps = <<>>
    /\ allocs = {}

Idle == request = {}

------------------------------------------------------------------------------
(* arena_alloc, and a round of the loop of ctx_init. *)
Alloc(h) ==
    /\ Idle
    /\ handle[h] = 0
    /\ Len(blocks) < MaxBlocks
    /\ blocks' = Append(blocks, NewBlock(FirstSize, 0))
    /\ handle' = [handle EXCEPT ![h] = Len(blocks) + 1]
    /\ UNCHANGED <<request, temps, allocs>>

(* Passing an Arena* by value, or storing it in a struct (tokenizer.c:19).      *)
Copy(h, g) ==
    /\ Idle
    /\ handle[h] # 0
    /\ handle[g] = 0
    /\ handle' = [handle EXCEPT ![g] = handle[h]]
    /\ UNCHANGED <<blocks, request, temps, allocs>>

(* The copy goes out of scope; the blocks it grew are reached by no handle.      *)
Forget(g) ==
    /\ Idle
    /\ handle[g] # 0
    /\ \E h \in Handles \ {g} : handle[h] # 0 /\ RootOf(handle[h]) = RootOf(handle[g])
    /\ handle' = [handle EXCEPT ![g] = 0]
    /\ UNCHANGED <<blocks, request, temps, allocs>>

(* arena_push: one step for each round of its loop. *)
Push(h, r) ==
    /\ Idle
    /\ handle[h] # 0
    /\ Len(blocks) + MaxGrowth <= MaxBlocks
    /\ Cardinality(allocs) < MaxAllocs
    /\ request' = {[handle |-> h, size |-> r.size, align |-> r.align]}
    /\ UNCHANGED <<blocks, handle, temps, allocs>>

Start(r) == AlignForward(blocks[handle[r.handle]].pos, r.align)
Fits(r)  == Start(r) + r.size <= blocks[handle[r.handle]].size

PushFits ==
    \E r \in request :
        /\ Fits(r)
        /\ blocks' = [blocks EXCEPT ![handle[r.handle]].pos = Start(r) + r.size]
        /\ allocs' = allocs \cup
               {[block |-> handle[r.handle], start |-> Start(r), size |-> r.size]}
        /\ request' = {}
        /\ UNCHANGED <<handle, temps>>

(* Mutant: the new block does not become the current one, until memory is out. *)
PushGrows_NotCurrent ==
    \E r \in request :
        /\ ~Fits(r)
        /\ Len(blocks) < MaxBlocks
        /\ blocks' = Append(blocks, NewBlock(2 * blocks[handle[r.handle]].size, handle[r.handle]))
        /\ UNCHANGED <<handle, request, temps, allocs>>

PushGrows ==
    \E r \in request :
        /\ ~Fits(r)
        /\ blocks' = Append(blocks, NewBlock(2 * blocks[handle[r.handle]].size, handle[r.handle]))
        /\ handle' = [handle EXCEPT ![r.handle] = Len(blocks) + 1]
        /\ UNCHANGED <<request, temps, allocs>>

(* Blocks that no other handle still needs may be freed: what callers see to.    *)
MayFree(h, B) ==
    /\ temps = <<>>
    /\ \A g \in Handles \ {h} : handle[g] # 0 => Chain(handle[g]) \cap B = {}

Freed(B) == [b \in Blocks |-> IF b \in B THEN [blocks[b] EXCEPT !.live = FALSE] ELSE blocks[b]]

Clear(h) ==
    /\ Idle
    /\ handle[h] # 0
    /\ LET root == RootOf(handle[h])
           rest == Chain(handle[h]) \ {root}
       IN  /\ MayFree(h, rest)
           /\ blocks' = [Freed(rest) EXCEPT ![root].pos = Header]
           /\ handle' = [handle EXCEPT ![h] = root]
           /\ allocs' = {a \in allocs : a.block \notin Chain(handle[h])}
    /\ UNCHANGED <<request, temps>>

Release(h) ==
    /\ Idle
    /\ handle[h] # 0
    /\ MayFree(h, Chain(handle[h]))
    /\ blocks' = Freed(Chain(handle[h]))
    /\ handle' = [handle EXCEPT ![h] = 0]
    /\ allocs' = {a \in allocs : a.block \notin Chain(handle[h])}
    /\ UNCHANGED <<request, temps>>

(* A temp keeps what was allocated when it began.  Temps end in the reverse     *)
(* order of their beginnings.                                                    *)
TempBegin(h) ==
    /\ Idle
    /\ handle[h] # 0
    /\ Len(temps) < MaxTemps
    /\ temps' = Append(temps,
           [block |-> handle[h], pos |-> blocks[handle[h]].pos, kept |-> allocs])
    /\ UNCHANGED <<blocks, handle, request, allocs>>

(* The first arena of the context that is none of the conflicts, which are told by *)
(* the block they stand at.  When all conflict temp_begin is given NULL: outside     *)
(* this model, like a context without ctx_init.                                      *)
ScratchGet(conflicts) ==
    \E i \in DOMAIN arenas :
        /\ \A c \in conflicts : handle[arenas[i]] # handle[c]
        /\ \A j \in 1 .. i - 1 : \E c \in conflicts : handle[arenas[j]] = handle[c]
        /\ TempBegin(arenas[i])

(* Mutant: takes the pushed bytes off the wrong way round. *)
TempEnd_Swapped ==
    /\ Idle
    /\ temps # <<>>
    /\ LET t == temps[Len(temps)] IN
           /\ blocks' = [blocks EXCEPT ![t.block].pos = t.pos - @]
           /\ allocs' = {a \in allocs : a \in t.kept \/ RootOf(a.block) # RootOf(t.block)}
           /\ temps' = SubSeq(temps, 1, Len(temps) - 1)
    /\ UNCHANGED <<handle, request>>

(* Only the block the temp began in is wound back, whatever has grown since.      *)
(* scratch_release is the same.                                                    *)
TempEnd ==
    /\ Idle
    /\ temps # <<>>
    /\ LET t == temps[Len(temps)] IN
           /\ blocks' = [blocks EXCEPT ![t.block].pos = t.pos]
           /\ allocs' = {a \in allocs : a \in t.kept \/ RootOf(a.block) # RootOf(t.block)}
           /\ temps' = SubSeq(temps, 1, Len(temps) - 1)
    /\ UNCHANGED <<handle, request>>

Next ==
    \/ \E h \in Handles : Alloc(h) \/ Forget(h) \/ Clear(h) \/ Release(h) \/ TempBegin(h)
    \/ \E h, g \in Handles : Copy(h, g)
    \/ \E conflicts \in SUBSET Handles : ScratchGet(conflicts)
    \/ \E h \in Handles, r \in Requests : Push(h, r)
    \/ PushFits
    \/ PushGrows
    \/ TempEnd

Spec == Init /\ [][Next]_vars /\ WF_vars(PushFits \/ PushGrows)

------------------------------------------------------------------------------
Header_ == [size : Nat, pos : Nat, prev : Nat, live : BOOLEAN, root : Nat, chain : SUBSET Nat]
Alloc_  == [block : Nat, start : Nat, size : Nat]

(* The position of every block is a number, handles point to blocks that were   *)
(* allocated, and a temporary keeps the block and the position it was begun at    *)
(* (arena.h; arena.c:17-118).                                                     *)
TypeOK ==
    /\ blocks \in Seq(Header_)
    /\ handle \in [Handles -> 0 .. Len(blocks)]
    /\ request \subseteq [handle : Handles, size : Nat, align : Nat \ {0}]
    /\ temps \in Seq([block : Nat, pos : Nat, kept : SUBSET Alloc_])
    /\ allocs \subseteq Alloc_

(* What an arena hands out lies within a block that is not freed, behind its    *)
(* header and before the position the next push starts from (arena.c:91-97).     *)
InBounds ==
    \A a \in allocs :
        /\ a.block \in Blocks /\ blocks[a.block].live
        /\ Header <= a.start
        /\ a.start + a.size <= blocks[a.block].pos
        /\ blocks[a.block].pos <= blocks[a.block].size

(* No byte is handed out twice while its first holder may still use it: neither  *)
(* through a handle that was copied before its arena grew, nor after a temp      *)
(* ended (arena.c:96, 102-103, 117).                                             *)
NoOverlap ==
    \A a, b \in allocs :
        a # b /\ a.block = b.block => a.start + a.size <= b.start \/ b.start + b.size <= a.start

(* A push comes to its end: a block twice as large each time fits any request.  *)
PushReturns == request # {} ~> request = {}
===============================================================================
