------------------------------- MODULE LabelMap -------------------------------
(* The chained hash map of labels (parser.c:693-780).  Buckets hold the index  *)
(* of the first slot of their chain; slots of collision_array are linked by    *)
(* their index, 0 being no slot; slots given back by maplabel_pop form a free  *)
(* list through the same next fields.  A step of this module is one iteration  *)
(* of a chain walk, or what the code does when the walk has ended.             *)
EXTENDS Integers

CONSTANTS
    Names,      \* label names, compared by string_cmp
    Positions,  \* code positions a label can be given
    Buckets,    \* 0 .. bucket_count - 1
    Hash,       \* hash_string(name) % bucket_count
    Capacity,   \* bound: slots the map may come to use (see CodegenArena.tla)
    NoName,     \* the name of a slot that was never written
    None        \* the absence of a position

ASSUME BucketsAssumption  == Buckets \subseteq Nat
ASSUME HashAssumption     == Hash \in [Names -> Buckets]
ASSUME CapacityAssumption == Capacity \in Nat
ASSUME NoNameAssumption   == NoName \notin Names
ASSUME NoPosition         == None \notin Positions \cup {0}

VARIABLES
    index_array,      \* bucket -> first slot of its chain, 0 if empty
    collision_array,  \* slot -> label and next slot of its list
    offset,           \* slots handed out so far
    first_free,       \* first slot of the free list, 0 if empty
    pc,               \* the operation in progress, "idle" or "aborted"
    label,            \* its argument
    idx,              \* the slot under the cursor, 0 past the end or when idle
    prev,             \* whose next field idx_ptr addresses, 0 for the bucket
    result            \* the index maplabel_find returned, until the next call

table_vars == <<index_array, collision_array, offset, first_free>>
vars       == <<table_vars, pc, label, idx, prev, result>>

Slots      == 1 .. Capacity
Allocated  == 1 .. offset
Operations == {"find", "insert", "pop"}
Labels     == [name : Names, pos : Positions]
Cells      == [name : Names \cup {NoName}, pos : Positions \cup {0}, next : 0 .. Capacity]

EmptyCell == [name |-> NoName, pos |-> 0, next |-> 0]
bucket    == Hash[label.name]
Match     == collision_array[idx].name = label.name

(* maplabel_init: both arrays come zeroed from the arena. *)
Init ==
    /\ index_array = [b \in Buckets |-> 0]
    /\ collision_array = [s \in Slots |-> EmptyCell]
    /\ offset = 0
    /\ first_free = 0
    /\ pc = "idle"
    /\ label \in Labels
    /\ idx = 0
    /\ prev = 0
    /\ result = 0

------------------------------------------------------------------------------
(* Every operation starts by hashing the name and reading its bucket.          *)
Call(op, l) ==
    /\ pc = "idle"
    /\ pc' = op
    /\ label' = l
    /\ idx' = index_array[Hash[l.name]]
    /\ prev' = 0
    /\ result' = 0
    /\ UNCHANGED table_vars

(* The code never compares offset with the length of collision_array: a call   *)
(* that would use slot Capacity + 1 is outside this model.                      *)
HasRoom == first_free # 0 \/ offset < Capacity

CallFind(l)   == Call("find", l)
CallInsert(l) == HasRoom /\ Call("insert", l)
CallPop(l)    == Call("pop", l)

(* The locals of an operation end with it.                                     *)
Return(status) == pc' = status /\ idx' = 0 /\ prev' = 0 /\ UNCHANGED label

(* Mutant: the walk forgets to move idx_ptr along. *)
WalkStep_KeepsPtr ==
    /\ pc \in Operations
    /\ idx # 0
    /\ ~Match
    /\ idx' = collision_array[idx].next
    /\ UNCHANGED <<table_vars, pc, label, prev, result>>

(* idx = collision_array[idx].next, in the walk of maplabel_find (which        *)
(* maplabel_insert also runs, inside its assert) and of maplabel_pop.           *)
WalkStep ==
    /\ pc \in Operations
    /\ idx # 0
    /\ ~Match
    /\ idx' = collision_array[idx].next
    /\ prev' = idx
    /\ UNCHANGED <<table_vars, pc, label, result>>

FindHit ==
    /\ pc = "find"
    /\ idx # 0
    /\ Match
    /\ result' = idx
    /\ Return("idle")
    /\ UNCHANGED table_vars

(* Mutant: -1 for a name that is not there. *)
FindMiss_Negative ==
    /\ pc = "find"
    /\ idx = 0
    /\ result' = -1
    /\ Return("idle")
    /\ UNCHANGED table_vars

FindMiss ==
    /\ pc = "find"
    /\ idx = 0
    /\ result' = 0
    /\ Return("idle")
    /\ UNCHANGED table_vars

(* assert(maplabel_find(maplabel, label.name) == 0) fails. *)
InsertAbort ==
    /\ pc = "insert"
    /\ idx # 0
    /\ Match
    /\ Return("aborted")
    /\ UNCHANGED <<table_vars, result>>

(* Mutant: a slot keeps the position it had. *)
PushFront_OldPos(free_slot) ==
    /\ index_array' = [index_array EXCEPT ![bucket] = free_slot]
    /\ collision_array' = [collision_array EXCEPT ![free_slot] =
           [name |-> label.name, pos |-> @.pos, next |-> index_array[bucket]]]

(* Take the head of the free list or a fresh slot, and make it the head of the *)
(* bucket's chain.                                                             *)
PushFront(free_slot) ==
    /\ index_array' = [index_array EXCEPT ![bucket] = free_slot]
    /\ collision_array' = [collision_array EXCEPT ![free_slot] =
           [name |-> label.name, pos |-> label.pos, next |-> index_array[bucket]]]

(* Mutant: the slot stays at the head of the free list. *)
InsertReused_KeepsHead ==
    /\ pc = "insert"
    /\ idx = 0
    /\ first_free # 0
    /\ PushFront(first_free)
    /\ Return("idle")
    /\ UNCHANGED <<first_free, offset, result>>

InsertReused ==
    /\ pc = "insert"
    /\ idx = 0
    /\ first_free # 0
    /\ first_free' = collision_array[first_free].next
    /\ PushFront(first_free)
    /\ Return("idle")
    /\ UNCHANGED <<offset, result>>

(* Mutant: the name is not looked up first. *)
InsertFresh_Unchecked ==
    /\ pc = "insert"
    /\ first_free = 0
    /\ offset < Capacity
    /\ offset' = offset + 1
    /\ PushFront(offset + 1)
    /\ Return("idle")
    /\ UNCHANGED <<first_free, result>>

InsertFresh ==
    /\ pc = "insert"
    /\ idx = 0
    /\ first_free = 0
    /\ offset' = offset + 1
    /\ PushFront(offset + 1)
    /\ Return("idle")
    /\ UNCHANGED <<first_free, result>>

(* *idx_ptr = collision_array[idx].next, where idx_ptr is the bucket or the    *)
(* next field of slot prev; then slot idx goes to the front of the free list.   *)
PopUnlink ==
    /\ pc = "pop"
    /\ idx # 0
    /\ Match
    /\ index_array' = IF prev = 0
           THEN [index_array EXCEPT ![bucket] = collision_array[idx].next]
           ELSE index_array
    /\ collision_array' = [s \in Slots |->
           [collision_array[s] EXCEPT !.next =
               IF s = idx THEN first_free
               ELSE IF s = prev THEN collision_array[idx].next ELSE collision_array[s].next]]
    /\ first_free' = idx
    /\ Return("idle")
    /\ UNCHANGED <<offset, result>>

PopMiss ==
    /\ pc = "pop"
    /\ idx = 0
    /\ Return("idle")
    /\ UNCHANGED <<table_vars, result>>

Run ==
    \/ WalkStep
    \/ FindHit \/ FindMiss
    \/ InsertAbort \/ InsertReused \/ InsertFresh
    \/ PopUnlink \/ PopMiss

Next ==
    \/ \E l \in Labels : CallFind(l) \/ CallInsert(l) \/ CallPop(l)
    \/ Run

(* The code that has started an operation runs to its end; nothing obliges a   *)
(* caller to start one.                                                        *)
Spec == Init /\ [][Next]_vars /\ WF_vars(Run)

------------------------------------------------------------------------------
(* The slots linked from slot h: what every set that contains h and is closed  *)
(* under next contains.                                                        *)
Closed(S) == \A s \in S : collision_array[s].next \in S \cup {0}

Linked(h) ==
    {s \in Slots : \A S \in SUBSET Slots : Closed(S) /\ (h # 0 => h \in S) => s \in S}

Chain(b) == Linked(index_array[b])
FreeList == Linked(first_free)
InUse    == UNION {Chain(b) : b \in Buckets}

(* Every index is 0 or that of a slot, and `offset` and `first_free` never leave  *)
(* the array of slots (parser.c:704-780).                                         *)
TypeOK ==
    /\ index_array \in [Buckets -> 0 .. Capacity]
    /\ collision_array \in [Slots -> Cells]
    /\ offset \in 0 .. Capacity
    /\ first_free \in 0 .. Capacity
    /\ pc \in Operations \cup {"idle", "aborted"}
    /\ label \in Labels
    /\ idx \in 0 .. Capacity
    /\ prev \in 0 .. Capacity
    /\ result \in 0 .. Capacity

(* No slot is lost and none is on two lists: the slots handed out so far are   *)
(* exactly those of the chains and of the free list, and no two of these lists *)
(* share a slot.  Without it pop could leak slots, or insert could overwrite a  *)
(* live label with a slot that is still linked in a chain (parser.c:740-754,   *)
(* 768-771).                                                                   *)
ListsPartitionSlots ==
    /\ InUse \cup FreeList = Allocated
    /\ InUse \cap FreeList = {}
    /\ \A b, c \in Buckets : b # c => Chain(b) \cap Chain(c) = {}

(* A label is in the chain its name hashes to and in one slot only: a find     *)
(* that stops at the first match, or at the end of one chain, has looked       *)
(* everywhere (parser.c:717-729).                                              *)
LabelsFindable ==
    /\ \A b \in Buckets : \A s \in Chain(b) :
           /\ collision_array[s].name \in Names
           /\ Hash[collision_array[s].name] = b
    /\ \A s, t \in InUse : collision_array[s].name = collision_array[t].name => s = t

(* The cursor never leaves the chain it walks, and idx_ptr addresses the link  *)
(* that leads to it: what pop writes through idx_ptr unlinks slot idx and no    *)
(* other (parser.c:762-778).                                                   *)
CursorInChain ==
    pc \in Operations =>
        /\ idx # 0 => idx \in Chain(bucket)
        /\ prev # 0 => prev \in Chain(bucket)
        /\ idx = IF prev = 0 THEN index_array[bucket] ELSE collision_array[prev].next

(* An operation that has started comes to its end: no chain is cyclic.         *)
CallsReturn == (pc \in Operations) ~> (pc \in {"idle", "aborted"})

------------------------------------------------------------------------------
(* The map as its callers see it.                                              *)
Slot(n)   == {s \in Chain(Hash[n]) : collision_array[s].name = n}
LabelAt   == [n \in Names |-> IF Slot(n) = {} THEN None
                              ELSE collision_array[CHOOSE s \in Slot(n) : TRUE].pos]
AnswerPos == IF result = 0 THEN None ELSE collision_array[result].pos

(* The hash map implements the label table: every find returns the position    *)
(* the latest insert of that name gave it, none if it was popped or never      *)
(* inserted, and the operations end.                                           *)
Table == INSTANCE LabelTable WITH table <- LabelAt, answer <- AnswerPos
ImplementsTable == Table!Spec

(* The slots without their positions. *)
Elements == [s \in Slots |-> [data |-> collision_array[s].name, next |-> collision_array[s].next]]

Generic == INSTANCE HashMap WITH
               Data <- Names, NoData <- NoName, collision_array <- Elements,
               aborted <- pc = "aborted"

(* Step for step the label map is the hash map of hashmap.c it was written from: *)
(* what insert and pop do to both arrays after a walk that other calls preceded is   *)
(* what the call of the template does at once (parser.c:714-780; hashmap.c:25-86).   *)
ImplementsHashMap == Generic!Spec
===============================================================================
