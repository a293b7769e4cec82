-------------------------------- MODULE HashMap --------------------------------
(* The map of hashmap.c, which the label map was written from: each call is one  *)
(* step here, and its walk is the sequence of the slots of a chain.  The arrays     *)
(* are taken as zeroed, as those of maplabel_init are: the arena_push that this     *)
(* file calls has two parameters and is no longer in arena.c.                       *)
EXTENDS Integers

CONSTANTS
    Data,     \* the elements
    NoData,   \* the element of a slot that was never written
    Buckets,  \* 0 .. bucket_count - 1
    Hash,     \* hash_integer(data) % bucket_count
    Capacity  \* bound: slots, MegaByte(1) of them in the code

VARIABLES
    index_array,      \* bucket -> first slot of its chain, 0 if empty
    collision_array,  \* slot -> data and next slot of its list
    offset,           \* slots handed out so far
    first_free,       \* first slot of the free list, 0 if empty
    aborted           \* an assertion has failed

vars == <<index_array, collision_array, offset, first_free, aborted>>

Next_(s) == IF s = 0 THEN 0 ELSE collision_array[s].next

(* idx at the n-th test of the loop, and the test at which the loop ends: at the  *)
(* data or at the end of the chain.                                                *)
Walk(d) == LET idx[n \in 0 .. Capacity] ==
                   IF n = 0 THEN index_array[Hash[d]] ELSE Next_(idx[n - 1])
           IN  idx

Stop(d) == CHOOSE n \in 0 .. Capacity :
               LET idx == Walk(d) IN
               /\ idx[n] = 0 \/ collision_array[idx[n]].data = d
               /\ \A m \in 0 .. n - 1 : idx[m] # 0 /\ collision_array[idx[m]].data # d

hashmap_find(d) == Walk(d)[Stop(d)]

hashmap_init ==
    /\ index_array = [b \in Buckets |-> 0]
    /\ collision_array = [s \in 1 .. Capacity |-> [data |-> NoData, next |-> 0]]
    /\ offset = 0
    /\ first_free = 0
    /\ aborted = FALSE

hashmap_insert(d) ==
    /\ hashmap_find(d) = 0
    /\ \E free_slot \in {IF first_free # 0 THEN first_free ELSE offset + 1} :
           /\ free_slot <= Capacity
           /\ first_free' = Next_(first_free)
           /\ offset' = IF first_free # 0 THEN offset ELSE free_slot
           /\ collision_array' = [collision_array EXCEPT ![free_slot] =
                  [data |-> d, next |-> index_array[Hash[d]]]]
           /\ index_array' = [index_array EXCEPT ![Hash[d]] = free_slot]
    /\ UNCHANGED aborted

InsertAborts(d) ==
    /\ hashmap_find(d) # 0
    /\ aborted' = TRUE
    /\ UNCHANGED <<index_array, collision_array, offset, first_free>>

(* *idx_ptr is the bucket at the first test and the next field of the slot before *)
(* at the others.                                                                  *)
hashmap_pop(d) ==
    /\ hashmap_find(d) # 0
    /\ \E idx \in {hashmap_find(d)}, n \in {Stop(d)} :
           LET freed == [collision_array EXCEPT ![idx].next = first_free] IN
           /\ IF n = 0
              THEN /\ index_array' = [index_array EXCEPT ![Hash[d]] = Next_(idx)]
                   /\ collision_array' = freed
              ELSE /\ collision_array' = [freed EXCEPT ![Walk(d)[n - 1]].next = Next_(idx)]
                   /\ UNCHANGED index_array
           /\ first_free' = idx
    /\ UNCHANGED <<offset, aborted>>

Next == \E d \in Data :
            ~aborted /\ (hashmap_insert(d) \/ InsertAborts(d) \/ hashmap_pop(d))

Spec == hashmap_init /\ [][Next]_vars
===============================================================================
