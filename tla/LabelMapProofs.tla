---------------------------- MODULE LabelMapProofs ----------------------------
(* Proofs about LabelMap.tla, for every set of names, every hash function and  *)
(* every capacity.                                                             *)
EXTENDS LabelMap, FiniteSets, FiniteSetTheorems, TLAPS

(* Induction over the natural numbers, for a set of them instead of a predicate: the  *)
(* step maps the members below a number that is missing into themselves, so onto.      *)
LEMMA SetInduction ==
  ASSUME NEW S \in SUBSET Nat, 0 \in S, \A n \in S : n + 1 \in S
  PROVE  S = Nat
<1>. SUFFICES ASSUME NEW k \in Nat \ {0}, k \notin S PROVE FALSE
  OBVIOUS
<1>. DEFINE D    == {n \in 0 .. k : n \in S /\ n < k}
            step == [n \in D |-> n + 1]
<1>1. 0 \in D /\ D \in SUBSET Nat /\ \A n \in D : n <= k
  OBVIOUS
<1>2. ASSUME NEW n \in D PROVE n + 1 \in D
  <2>1. n + 1 \in S /\ n + 1 # k
    OBVIOUS
  <2>. QED  BY <2>1
<1>. HIDE DEF D
<1>3. IsFiniteSet(D)
  BY <1>1, FS_BoundedSetOfNaturals
<1>4. step \in Injection(D, D)
  BY <1>1, <1>2 DEF Injection, IsInjective
<1>5. step \in Surjection(D, D)
  BY <1>3, <1>4, FS_Injection
<1>6. PICK n \in D : step[n] = 0
  BY <1>1, <1>5 DEF Surjection
<1>. QED  BY <1>1, <1>6

(* A non-empty set of numbers has a least element.                                    *)
LEMMA LeastNat ==
  ASSUME NEW T \in SUBSET Nat, T # {}
  PROVE  \E x \in T : \A y \in T : x <= y
<1>. DEFINE Below == {d \in Nat : \A t \in T : d <= t}
<1>1. PICK t \in T : TRUE
  OBVIOUS
<1>2. Below \in SUBSET Nat /\ 0 \in Below /\ t + 1 \notin Below /\ t + 1 \in Nat
  BY <1>1
<1>3. PICK d \in Below : d + 1 \notin Below
  <2>. HIDE DEF Below
  <2>. QED  BY <1>2, SetInduction
<1>. QED  BY <1>3

(* A non-empty bounded set of numbers has a greatest element.                         *)
LEMMA GreatestNat ==
  ASSUME NEW T \in SUBSET Nat, T # {}, NEW k \in Nat, \A t \in T : t <= k
  PROVE  \E x \in T : \A y \in T : y <= x
<1>. DEFINE Reached == {d \in Nat : \E t \in T : d <= t}
<1>1. PICK first \in T : TRUE
  OBVIOUS
<1>2. Reached \in SUBSET Nat /\ 0 \in Reached /\ k + 1 \notin Reached /\ k + 1 \in Nat
  BY <1>1
<1>3. PICK d \in Reached : d + 1 \notin Reached
  <2>. HIDE DEF Reached
  <2>. QED  BY <1>2, SetInduction
<1>4. PICK t \in T : d <= t
  BY <1>3
<1>5. \A y \in T : y <= d
  BY <1>3
<1>. QED  BY <1>4, <1>5

Free    == -1
Lists   == Buckets \cup {Free}
Head(c) == IF c = Free THEN first_free ELSE index_array[c]
next(s) == collision_array[s].next
name(s) == collision_array[s].name

(* The inductive invariant describes the lists without walking them: home says *)
(* on which list a slot is, and along a list rank descends from the head to    *)
(* the end, so that next leads to the slot with the next smaller rank.         *)
HeadsFirst(home, rank) ==
    \A c \in Lists :
        /\ Head(c) = 0 => \A s \in Allocated : home[s] # c
        /\ Head(c) # 0 => /\ Head(c) \in Allocated
                          /\ home[Head(c)] = c
                          /\ \A s \in Allocated : home[s] = c => rank[s] <= rank[Head(c)]

LinksDescend(home, rank) ==
    \A s \in Allocated : next(s) # 0 =>
        next(s) \in Allocated /\ home[next(s)] = home[s] /\ rank[next(s)] < rank[s]

LinksSkipNone(home, rank) ==
    \A s, t \in Allocated : home[s] = home[t] /\ rank[t] < rank[s] =>
        next(s) # 0 /\ rank[t] <= rank[next(s)]

RanksDiffer(home, rank) ==
    \A s, t \in Allocated : home[s] = home[t] /\ rank[s] = rank[t] => s = t

NamesAtHome(home) ==
    \A s \in Allocated : home[s] # Free => name(s) \in Names /\ Hash[name(s)] = home[s]

NamesOnce(home) ==
    \A s, t \in Allocated : home[s] # Free /\ home[t] # Free /\ name(s) = name(t) => s = t

(* The name sought is not in the part of the chain behind the cursor. *)
CursorPlaced(home, rank) ==
    pc \in Operations =>
        /\ idx # 0 => idx \in Allocated /\ home[idx] = bucket
        /\ \A s \in Allocated :
               home[s] = bucket /\ (idx # 0 => rank[idx] < rank[s]) => name(s) # label.name
        /\ prev = 0 => idx = index_array[bucket]
        /\ prev # 0 => prev \in Allocated /\ home[prev] = bucket /\ idx = next(prev)

Placed(home, rank) ==
    /\ HeadsFirst(home, rank)
    /\ LinksDescend(home, rank)
    /\ LinksSkipNone(home, rank)
    /\ RanksDiffer(home, rank)
    /\ NamesAtHome(home)
    /\ NamesOnce(home)
    /\ CursorPlaced(home, rank)

Shape(home) == home \in [Slots -> Lists] /\ \E rank \in [Slots -> Nat] : Placed(home, rank)

(* A step that moves slot s to list c. *)
Moves(s, c) == \E home, h : Shape(home) /\ Shape(h)' /\ h = [home EXCEPT ![s] = c]

Inv ==
    /\ TypeOK
    /\ pc = "insert" => HasRoom
    /\ pc \in Operations => result = 0
    /\ \E home \in [Slots -> Lists], rank \in [Slots -> Nat] : Placed(home, rank)

-------------------------------------------------------------------------------

USE BucketsAssumption, HashAssumption, CapacityAssumption,
    NoNameAssumption, NoPosition

(* The empty map has the shape of the invariant. *)
LEMMA InitInv == Init => Inv
  <1> SUFFICES ASSUME Init PROVE Inv
    OBVIOUS
  <1>1. TypeOK
    BY DEF Init, TypeOK, Cells, EmptyCell, Slots
  <1>2. Placed([s \in Slots |-> Free], [s \in Slots |-> 0])
    BY DEF Init, Placed, HeadsFirst, LinksDescend, LinksSkipNone, RanksDiffer, NamesAtHome,
           NamesOnce, CursorPlaced, Allocated, Head, Lists, Free, Operations
  <1>3. [s \in Slots |-> Free] \in [Slots -> Lists] /\ [s \in Slots |-> 0] \in [Slots -> Nat]
    BY DEF Lists
  <1> QED  BY <1>1, <1>2, <1>3 DEF Inv, Init, Operations

(* An action that moves only the cursor keeps the lists. *)
LEMMA ListsKept ==
    ASSUME NEW home, NEW rank, Placed(home, rank), UNCHANGED table_vars, CursorPlaced(home, rank)'
    PROVE  Placed(home, rank)'
  BY DEF Placed, HeadsFirst, LinksDescend, LinksSkipNone, RanksDiffer, NamesAtHome, NamesOnce,
         table_vars, Head, next, name, Allocated

(* The cursor of a new operation is at the head of its bucket. *)
LEMMA CallInv ==
    ASSUME Inv, NEW op \in Operations, NEW l \in Labels, op = "insert" => HasRoom, Call(op, l)
    PROVE  Inv'
  <1>1. PICK home \in [Slots -> Lists], rank \in [Slots -> Nat] : Placed(home, rank)
    BY DEF Inv
  <1>2. Hash[l.name] \in Buckets /\ Hash[l.name] \in Lists /\ Hash[l.name] # Free
    BY DEF Labels, Lists, Free
  <1>3. TypeOK'
    <2>1. (index_array \in [Buckets -> 0 .. Capacity])'
      BY DEF Inv, TypeOK, Call, table_vars
    <2>2. (collision_array \in [Slots -> Cells])'
      BY DEF Inv, TypeOK, Call, table_vars
    <2>3. (label \in Labels)'
      BY DEF Inv, TypeOK, Call, table_vars
    <2>4. (idx \in 0 .. Capacity)'
      BY <1>2 DEF Inv, TypeOK, Call, table_vars
    <2>5. (pc \in Operations)'
      BY <1>2 DEF Inv, TypeOK, Call, table_vars
    <2> QED BY <2>1, <2>2, <2>3, <2>4, <2>5 DEF Inv, TypeOK, Call, table_vars
  <1>4. CursorPlaced(home, rank)'
    <2> USE <1>1, <1>2 DEF Call, bucket, table_vars, Head, Allocated
    <2>1. idx' # 0 => (idx \in Allocated /\ home[idx] = bucket)'
      BY DEF Placed, HeadsFirst
    <2>2. ASSUME NEW s \in Allocated, home[s] = Hash[l.name]
          PROVE  idx' # 0 /\ rank[s] <= rank[idx']
      BY <2>2 DEF Placed, HeadsFirst
    <2>3. \A s \in Allocated : rank[s] \in Int
      BY DEF Slots, Inv, TypeOK
    <2> QED  BY <2>1, <2>2, <2>3 DEF CursorPlaced
  <1>5. Placed(home, rank)'
    BY <1>1, <1>4, ListsKept DEF Call
  <1> QED  BY <1>1, <1>3, <1>5 DEF Inv, Call, HasRoom, table_vars

(* A step along the chain passes a slot that does not hold the name. *)
LEMMA WalkInv == Inv /\ WalkStep => Inv'
  <1> SUFFICES ASSUME Inv, WalkStep PROVE Inv'
    OBVIOUS
  <1>1. PICK home \in [Slots -> Lists], rank \in [Slots -> Nat] : Placed(home, rank)
    BY DEF Inv
  <1>2. idx \in Allocated /\ home[idx] = bucket /\ idx # 0 /\ idx \in Slots
    BY <1>1 DEF WalkStep, Placed, CursorPlaced, Allocated, Slots, Inv, TypeOK
  <1>3. idx' = next(idx) /\ prev' = idx /\ UNCHANGED <<table_vars, pc, label, result, Allocated, bucket>>
    BY DEF WalkStep, next, bucket, table_vars, Allocated
  <1>4. TypeOK'
    <2>1. collision_array[idx].next \in 0 .. Capacity
      BY <1>2 DEF Inv, TypeOK, Cells
    <2> QED  BY <1>2, <1>3, <2>1 DEF Inv, TypeOK, table_vars, next
  <1>5. CursorPlaced(home, rank)'
    <2>1. idx' # 0 => idx' \in Allocated /\ home[idx'] = bucket
      BY <1>1, <1>2, <1>3 DEF Placed, LinksDescend
    <2>2. ASSUME NEW s \in Allocated, home[s] = bucket, idx' # 0 => rank[idx'] < rank[s]
          PROVE  name(s) # label.name
      <3>1. s \in Slots /\ (idx' # 0 => idx' \in Slots)
        BY <2>1 DEF Allocated, Slots, Inv, TypeOK
      <3>2. CASE rank[s] < rank[idx]
        BY <1>1, <1>2, <1>3, <2>1, <2>2, <3>1, <3>2 DEF Placed, LinksSkipNone
      <3>3. CASE rank[s] = rank[idx]
        BY <1>1, <1>2, <2>2, <3>3 DEF Placed, RanksDiffer, WalkStep, Match, name
      <3>4. CASE rank[idx] < rank[s]
        BY <1>1, <2>2, <3>4 DEF Placed, CursorPlaced, WalkStep
      <3> QED  BY <1>2, <3>1, <3>2, <3>3, <3>4
    <2> QED  BY <1>2, <1>3, <2>1, <2>2 DEF CursorPlaced, name, next, table_vars
  <1>6. Placed(home, rank)'
    BY <1>1, <1>3, <1>5, ListsKept
  <1> QED  BY <1>1, <1>3, <1>4, <1>6 DEF Inv, HasRoom, table_vars

(* To end an operation without changing the lists keeps the invariant. *)
LEMMA ReturnUnchangedInv ==
    ASSUME Inv, UNCHANGED table_vars, NEW status \in {"idle", "aborted"}, Return(status),
           result' \in 0 .. Capacity
    PROVE  Inv'
  <1>1. PICK home \in [Slots -> Lists], rank \in [Slots -> Nat] : Placed(home, rank)
    BY DEF Inv
  <1>2. pc' \notin Operations /\ pc' \in {"idle", "aborted"}
    BY DEF Return, Operations
  <1>3. TypeOK'
    BY <1>2 DEF Inv, TypeOK, Return, table_vars
  <1>4. Placed(home, rank)'
    BY <1>1, <1>2, ListsKept DEF CursorPlaced
  <1> QED  BY <1>1, <1>2, <1>3, <1>4 DEF Inv, Operations

(* An insert that takes a slot which is on no chain and makes it the head of   *)
(* its bucket's chain: fresh slots and reused ones differ in Allocated and in  *)
(* the free list only.                                                         *)
LEMMA InsertInv ==
    ASSUME Inv, pc = "insert", idx = 0, Return("idle"), result' = result,
           NEW fs \in Slots, PushFront(fs),
           \/ fs = first_free /\ first_free' = next(fs) /\ offset' = offset
           \/ first_free = 0 /\ fs = offset + 1 /\ first_free' = 0 /\ offset' = offset + 1
    PROVE  Inv' /\ Moves(fs, bucket)
  <1>1. PICK home \in [Slots -> Lists], rank \in [Slots -> Nat] : Placed(home, rank)
    BY DEF Inv
  <1>0. PICK b \in Buckets, hd \in 0 .. Capacity : b = bucket /\ hd = index_array[b]
    BY DEF Inv, TypeOK, Labels, bucket
  <1> DEFINE h == [home EXCEPT ![fs] = b]
             r == [rank EXCEPT ![fs] = IF hd = 0 THEN 0 ELSE rank[hd] + 1]
  <1>2. b = bucket /\ hd = index_array[b] /\ b \in Lists /\ b # Free /\ label \in Labels /\ label.name \in Names
    BY <1>0 DEF Inv, TypeOK, Labels, Lists, Free
  <1>3. hd # 0 => hd \in Allocated /\ hd \in Slots /\ home[hd] = b
    BY <1>1, <1>2 DEF Placed, HeadsFirst, Head, Inv, TypeOK, Allocated, Slots
  <1>4. h \in [Slots -> Lists] /\ r \in [Slots -> Nat]
    BY <1>1, <1>2, <1>3
  <1>5. Allocated \subseteq Slots /\ Allocated' = Allocated \cup {fs} /\ Allocated' \subseteq Slots
    <2>1. CASE fs = first_free /\ offset' = offset
      <3>0. fs # 0
        BY DEF Slots
      <3>1. first_free \in Allocated
        BY <1>1, <2>1, <3>0 DEF Placed, HeadsFirst, Head, Lists
      <3>2. Allocated' = Allocated
        BY <2>1 DEF Allocated
      <3>3. Allocated \subseteq Slots
        BY DEF Allocated, Slots, Inv, TypeOK
      <3> QED  BY <2>1, <3>1, <3>2, <3>3
    <2>2. CASE first_free = 0 /\ fs = offset + 1 /\ offset' = offset + 1
      BY <2>2 DEF Allocated, Slots, Inv, TypeOK
    <2> QED  BY <2>1, <2>2
  <1>6. \/ fs \in Allocated /\ home[fs] = Free /\ fs = first_free /\ fs # 0 /\ first_free' = next(fs)
        \/ fs \notin Allocated /\ first_free = 0 /\ first_free' = 0
    <2>1. CASE fs = first_free /\ first_free' = next(fs)
      <3>1. fs # 0
        BY DEF Slots
      <3>2. fs \in Allocated /\ home[fs] = Free
        BY <1>1, <2>1, <3>1 DEF Placed, HeadsFirst, Head, Lists
      <3> QED  BY <2>1, <3>1, <3>2
    <2>2. CASE first_free = 0 /\ fs = offset + 1 /\ first_free' = 0
      BY <2>2 DEF Allocated, Inv, TypeOK
    <2> QED  BY <2>1, <2>2
  <1>7. \A s \in Slots : s # fs => /\ next(s)' = next(s) /\ name(s)' = name(s)
                                  /\ h[s] = home[s] /\ r[s] = rank[s]
    BY <1>1 DEF PushFront, next, name, Inv, TypeOK
  <1>8. next(fs)' = hd /\ name(fs)' = label.name /\ h[fs] = b
           /\ r[fs] = IF hd = 0 THEN 0 ELSE rank[hd] + 1
    BY <1>1, <1>2 DEF PushFront, next, name, Inv, TypeOK
  <1>9. index_array' \in [Buckets -> 0 .. Capacity] /\ index_array'[b] = fs
           /\ \A c \in Buckets : c # b => index_array'[c] = index_array[c]
    BY <1>2 DEF PushFront, Inv, TypeOK, Slots
  <1>10. \A s \in Allocated : home[s] = b => name(s) # label.name
    BY <1>1, <1>2 DEF Placed, CursorPlaced, Operations
  <1>11. TypeOK'
    <2>1. hd \in 0 .. Capacity
      BY <1>2 DEF Inv, TypeOK
    <2>2. [name |-> label.name, pos |-> label.pos, next |-> hd] \in Cells
      BY <1>2, <2>1 DEF Labels, Cells
    <2>3. (collision_array \in [Slots -> Cells])'
      BY <1>2, <2>2 DEF PushFront, Inv, TypeOK
    <2>4. first_free' \in 0 .. Capacity /\ offset' \in 0 .. Capacity
      <3>1. collision_array[fs].next \in 0 .. Capacity
        BY DEF Inv, TypeOK, Cells
      <3> QED  BY SMTT(30), <3>1 DEF Inv, TypeOK, next, Slots
    <2> QED  BY <1>9, <2>3, <2>4 DEF Inv, TypeOK, Return
  <1>12. HeadsFirst(h, r)'
    <2> SUFFICES ASSUME NEW c \in Lists
                 PROVE  /\ Head(c)' = 0 => \A s \in Allocated' : h[s] # c
                        /\ Head(c)' # 0 => /\ Head(c)' \in Allocated'
                                           /\ h[Head(c)'] = c
                                           /\ \A s \in Allocated' : h[s] = c => r[s] <= r[Head(c)']
      BY DEF HeadsFirst, Head
    <2>1. CASE c = b
      <3>1. Head(c)' = fs /\ fs # 0
        BY <1>2, <1>9, <2>1 DEF Head, Slots
      <3>2. ASSUME NEW s \in Allocated', h[s] = c PROVE r[s] <= r[fs]
        <4>1. CASE s = fs
          BY <1>4, <4>1
        <4>2. CASE s # fs
          <5>1. home[s] = b /\ s \in Allocated
            BY <1>5, <1>7, <2>1, <3>2, <4>2
          <5>2. hd # 0 /\ rank[s] <= rank[hd]
            BY <1>1, <1>2, <5>1 DEF Placed, HeadsFirst, Head
          <5> QED  BY <1>1, <1>3, <1>5, <1>7, <1>8, <4>2, <5>1, <5>2
        <4> QED  BY <4>1, <4>2
      <3> QED  BY <1>5, <1>8, <2>1, <3>1, <3>2
    <2>2. CASE c # b /\ c # Free
      <3>1. Head(c)' = Head(c)
        BY <1>9, <2>2 DEF Head, Lists
      <3>2. Head(c) # 0 => Head(c) # fs
        BY <1>1, <1>6, <2>2 DEF Placed, HeadsFirst
      <3> QED  BY <1>1, <1>5, <1>7, <1>8, <2>2, <3>1, <3>2 DEF Placed, HeadsFirst
    <2>3. CASE c = Free
      <3>1. ASSUME NEW s \in Allocated', h[s] = Free PROVE s # fs /\ s \in Allocated /\ home[s] = Free
        BY <1>2, <1>5, <1>7, <1>8, <3>1
      <3>2. CASE fs \notin Allocated
        <4>1. first_free = 0 /\ first_free' = 0
          BY <1>6, <3>2
        <4> QED  BY <1>1, <2>3, <3>1, <4>1 DEF Placed, HeadsFirst, Head, Lists
      <3>3. CASE fs \in Allocated
        <4>1. fs = first_free /\ home[fs] = Free /\ first_free' = next(fs)
          BY <1>6, <3>3
        <4>2. next(fs) # 0 => /\ next(fs) \in Allocated /\ home[next(fs)] = Free
                              /\ rank[next(fs)] < rank[fs]
          BY <1>1, <3>3, <4>1 DEF Placed, LinksDescend
        <4>3. \A s \in Allocated : home[s] = Free => rank[s] <= rank[fs]
          BY <1>1, <1>6, <4>1 DEF Placed, HeadsFirst, Head, Lists
        <4>4. ASSUME NEW s \in Allocated, home[s] = Free, s # fs
              PROVE  next(fs) # 0 /\ rank[s] <= rank[next(fs)]
          <5>1. rank[s] # rank[fs]
            BY <1>1, <3>3, <4>1, <4>4 DEF Placed, RanksDiffer
          <5>2. rank[s] < rank[fs]
            BY <1>5, <1>1, <4>3, <4>4, <5>1
          <5> QED  BY <1>1, <3>3, <4>1, <4>4, <5>2 DEF Placed, LinksSkipNone
        <4>5. next(fs) # 0 => next(fs) # fs
          BY <1>1, <1>5, <4>2
        <4> QED  BY <1>5, <1>7, <2>3, <3>1, <4>1, <4>2, <4>4, <4>5 DEF Head
      <3> QED  BY <3>2, <3>3
    <2> QED  BY <2>1, <2>2, <2>3
  <1>13. ASSUME NEW s \in Allocated', s # fs, next(s) # 0
         PROVE  next(s) \in Allocated /\ home[next(s)] = home[s] /\ rank[next(s)] < rank[s] /\ next(s) # fs
    <2>1. next(s) \in Allocated /\ home[next(s)] = home[s] /\ rank[next(s)] < rank[s] /\ s \in Allocated
      BY <1>1, <1>5, <1>13 DEF Placed, LinksDescend
    <2>2. next(s) # fs
      <3> SUFFICES ASSUME next(s) = fs PROVE FALSE
        OBVIOUS
      <3>1. fs = first_free /\ fs # 0 /\ home[s] = Free
        BY <1>6, <2>1
      <3>2. rank[s] <= rank[fs]
        BY <1>1, <2>1, <3>1 DEF Placed, HeadsFirst, Head, Lists
      <3> QED  BY <1>5, <2>1, <3>2
    <2> QED  BY <2>1, <2>2
  <1>14. LinksDescend(h, r)'
    <2> SUFFICES ASSUME NEW s \in Allocated', next(s)' # 0
                 PROVE  next(s)' \in Allocated' /\ h[next(s)'] = h[s] /\ r[next(s)'] < r[s]
      BY DEF LinksDescend, next
    <2>1. CASE s = fs
      <3>1. hd # fs
        BY <1>2, <1>3, <1>6, <1>8, <2>1
      <3> QED  BY <1>3, <1>5, <1>7, <1>8, <2>1, <3>1
    <2>2. CASE s # fs
      <3>1. s \in Slots /\ next(s)' = next(s)
        BY <1>5, <1>7, <2>2
      <3>2. next(s) \in Allocated /\ home[next(s)] = home[s] /\ rank[next(s)] < rank[s] /\ next(s) # fs
        BY <1>13, <2>2, <3>1
      <3>3. next(s) \in Slots
        BY <1>5, <3>2
      <3> QED  BY <1>5, <1>7, <2>2, <3>1, <3>2, <3>3
    <2> QED  BY <2>1, <2>2
  <1>15. \A s \in Allocated : home[s] = b => hd # 0 /\ rank[s] <= rank[hd]
    BY <1>1, <1>2 DEF Placed, HeadsFirst, Head
  <1>16. LinksSkipNone(h, r)'
    <2> SUFFICES ASSUME NEW s \in Allocated', NEW t \in Allocated', h[s] = h[t], r[t] < r[s]
                 PROVE  next(s)' # 0 /\ r[t] <= r[next(s)']
      BY DEF LinksSkipNone, next
    <2>0. s \in Slots /\ t \in Slots /\ s # t
      BY <1>4, <1>5
    <2>1. CASE s = fs
      <3>1. t \in Allocated /\ home[t] = b /\ hd # 0 /\ rank[t] <= rank[hd] /\ t # fs
        BY <1>5, <1>7, <1>8, <1>15, <2>0, <2>1
      <3> QED  BY <1>2, <1>3, <1>6, <1>7, <1>8, <2>0, <2>1, <3>1
    <2>2. CASE t = fs
      <3>1. s \in Allocated /\ home[s] = b
        BY <1>5, <1>7, <1>8, <2>0, <2>2
      <3>2. rank[s] <= rank[hd] /\ hd # 0
        BY <1>15, <3>1
      <3> QED  BY <1>3, <1>4, <1>7, <1>8, <2>0, <2>2, <3>1, <3>2
    <2>3. CASE s # fs /\ t # fs
      <3>1. next(s)' = next(s) /\ home[s] = home[t] /\ rank[t] < rank[s] /\ s \in Allocated /\ t \in Allocated
        BY <1>5, <1>7, <2>0, <2>3
      <3>2. next(s) # 0 /\ rank[t] <= rank[next(s)]
        BY <1>1, <3>1 DEF Placed, LinksSkipNone
      <3>3. next(s) # fs /\ next(s) \in Slots
        BY <1>5, <1>13, <2>3, <3>2
      <3> QED  BY <1>7, <2>0, <2>3, <3>1, <3>2, <3>3
    <2> QED  BY <2>1, <2>2, <2>3
  <1>17. RanksDiffer(h, r)'
    <2> SUFFICES ASSUME NEW s \in Allocated', NEW t \in Allocated', h[s] = h[t], r[t] = r[s], s # t
                 PROVE  FALSE
      BY DEF RanksDiffer
    <2>0. s \in Slots /\ t \in Slots
      BY <1>5
    <2>1. ASSUME NEW u \in Allocated', h[u] = b, u # fs PROVE r[u] # r[fs]
      <3>1. u \in Allocated /\ u \in Slots /\ home[u] = b /\ r[u] = rank[u]
        BY <1>5, <1>7, <2>1
      <3> QED  BY <1>3, <1>8, <1>15, <3>1
    <2>2. CASE s # fs /\ t # fs
      BY <1>1, <1>5, <1>7, <2>0, <2>2 DEF Placed, RanksDiffer
    <2> QED  BY <1>8, <2>1, <2>2
  <1>18. NamesAtHome(h)'
    <2> SUFFICES ASSUME NEW s \in Allocated', h[s] # Free
                 PROVE  name(s)' \in Names /\ Hash[name(s)'] = h[s]
      BY DEF NamesAtHome, name
    <2>1. CASE s = fs
      BY <1>2, <1>8, <2>1 DEF bucket
    <2>2. CASE s # fs
      BY <1>1, <1>5, <1>7, <2>2 DEF Placed, NamesAtHome
    <2> QED  BY <2>1, <2>2
  <1>19. NamesOnce(h)'
    <2> SUFFICES ASSUME NEW s \in Allocated', NEW t \in Allocated', h[s] # Free, h[t] # Free,
                        name(s)' = name(t)', s # t
                 PROVE  FALSE
      BY DEF NamesOnce, name
    <2>1. ASSUME NEW u \in Allocated', h[u] # Free, u # fs PROVE name(u)' # name(fs)'
      <3>1. u \in Allocated /\ u \in Slots /\ home[u] # Free /\ name(u)' = name(u)
        BY <1>5, <1>7, <2>1
      <3>2. Hash[name(u)] = home[u]
        BY <1>1, <3>1 DEF Placed, NamesAtHome
      <3> QED  BY <1>2, <1>8, <1>10, <3>1, <3>2 DEF bucket
    <2>2. CASE s # fs /\ t # fs
      BY <1>1, <1>5, <1>7, <2>2 DEF Placed, NamesOnce
    <2> QED  BY <2>1, <2>2
  <1>20. CursorPlaced(h, r)' /\ pc' = "idle"
    BY DEF CursorPlaced, Return, Operations
  <1>21. Placed(h, r)'
    BY <1>12, <1>14, <1>16, <1>17, <1>18, <1>19, <1>20 DEF Placed
  <1>22. Inv'
    <2> HIDE DEF h, r
    <2> QED  BY <1>4, <1>11, <1>20, <1>21 DEF Inv, Operations
  <1>23. Shape(home)
    BY <1>1 DEF Shape
  <1>24. Shape(h)'
    <2> HIDE DEF h, r
    <2> QED  BY <1>4, <1>21 DEF Shape
  <1> QED  BY <1>2, <1>22, <1>23, <1>24 DEF Moves

(* pop takes slot idx out of its chain, through the bucket or through the next *)
(* field of slot prev, and puts it at the head of the free list.               *)
LEMMA PopInv ==
    ASSUME Inv, PopUnlink
    PROVE  Inv' /\ Moves(idx, Free)
  <1>1. PICK home \in [Slots -> Lists], rank \in [Slots -> Nat] : Placed(home, rank)
    BY DEF Inv
  <1>0. PICK b \in Buckets, cut \in Slots, p \in 0 .. Capacity, ff \in 0 .. Capacity, nx \in 0 .. Capacity :
            b = bucket /\ cut = idx /\ p = prev /\ ff = first_free /\ nx = next(cut)
    BY DEF Inv, TypeOK, Labels, bucket, Slots, Cells, next, PopUnlink
  <1>2. b \in Lists /\ b # Free /\ Free \in Lists
    BY DEF Lists, Free
  <1>3. Allocated \subseteq Slots /\ Allocated' = Allocated /\ \A s \in Slots : s # 0
    BY SMTT(30) DEF Allocated, Slots, Inv, TypeOK, PopUnlink
  <1>4. cut \in Allocated /\ home[cut] = b /\ cut # 0
    BY <1>0, <1>1 DEF PopUnlink, Placed, CursorPlaced, Operations
  <1>5. /\ p = 0 => index_array[b] = cut
        /\ p # 0 => p \in Allocated /\ p \in Slots /\ home[p] = b /\ next(p) = cut /\ rank[cut] < rank[p] /\ p # cut
    <2>1. CASE p = 0
      BY <1>0, <1>1, <2>1 DEF PopUnlink, Placed, CursorPlaced, Operations
    <2>2. CASE p # 0
      <3>1. p \in Allocated /\ home[p] = b /\ next(p) = cut
        BY <1>0, <1>1, <2>2 DEF PopUnlink, Placed, CursorPlaced, Operations
      <3>2. rank[cut] < rank[p]
        BY <1>1, <1>4, <3>1 DEF Placed, LinksDescend
      <3> QED  BY <1>1, <1>3, <2>2, <3>1, <3>2
    <2> QED  BY <2>1, <2>2
  <1>6. ff # 0 => ff \in Allocated /\ ff \in Slots /\ home[ff] = Free /\ ff # cut
    BY <1>0, <1>1, <1>2, <1>3, <1>4 DEF Placed, HeadsFirst, Head
  <1>7. PICK h \in [Slots -> Lists], r \in [Slots -> Nat] :
            /\ h = [home EXCEPT ![cut] = Free]
            /\ r = [rank EXCEPT ![cut] = IF ff = 0 THEN 0 ELSE rank[ff] + 1]
    <2>1. [home EXCEPT ![cut] = Free] \in [Slots -> Lists]
      BY <1>2
    <2>2. (IF ff = 0 THEN 0 ELSE rank[ff] + 1) \in Nat
      BY <1>1, <1>6
    <2>3. [rank EXCEPT ![cut] = IF ff = 0 THEN 0 ELSE rank[ff] + 1] \in [Slots -> Nat]
      BY <2>2
    <2> QED  BY <2>1, <2>3
  <1>8. \A s \in Slots : s # cut =>
            /\ h[s] = home[s]
            /\ r[s] = rank[s]
            /\ name(s)' = name(s)
            /\ s # p => next(s)' = next(s)
    <2>1. \A s \in Slots : name(s)' = name(s)
      BY <1>0 DEF PopUnlink, name, Inv, TypeOK, Cells
    <2>2. \A s \in Slots : s # cut /\ s # p => next(s)' = next(s)
      BY <1>0 DEF PopUnlink, next, Inv, TypeOK, Cells
    <2>3. \A s \in Slots : s # cut => h[s] = home[s] /\ r[s] = rank[s]
      BY <1>1, <1>7
    <2> QED  BY <2>1, <2>2, <2>3
  <1>9. next(cut)' = ff /\ h[cut] = Free /\ r[cut] = (IF ff = 0 THEN 0 ELSE rank[ff] + 1) /\ first_free' = cut
    <2>1. next(cut)' = ff /\ first_free' = cut
      BY <1>0 DEF PopUnlink, next, Inv, TypeOK, Cells
    <2> QED  BY <1>1, <1>7, <2>1
  <1>10. p # 0 => next(p)' = nx
    BY <1>0, <1>5 DEF PopUnlink, next, Inv, TypeOK, Cells
  <1>11. /\ index_array' \in [Buckets -> 0 .. Capacity]
         /\ \A c \in Buckets : index_array'[c] = IF p = 0 /\ c = b THEN nx ELSE index_array[c]
    BY <1>0 DEF PopUnlink, Inv, TypeOK, next
  <1>12. TypeOK'
    <2>1. \A s \in Slots : \A t \in 0 .. Capacity : [collision_array[s] EXCEPT !.next = t] \in Cells
      <3>1. \A c \in Cells : \A t \in 0 .. Capacity : [c EXCEPT !.next = t] \in Cells
        BY DEF Cells
      <3> QED  BY <3>1 DEF Inv, TypeOK
    <2>2. collision_array' = [s \in Slots |-> [collision_array[s] EXCEPT !.next =
              IF s = cut THEN ff ELSE IF s = p THEN nx ELSE collision_array[s].next]]
      BY <1>0 DEF PopUnlink, next
    <2>3. \A s \in Slots : collision_array[s].next \in 0 .. Capacity
      BY DEF Inv, TypeOK, Cells
    <2>4. (collision_array \in [Slots -> Cells])'
      BY <2>1, <2>2, <2>3
    <2> QED  BY <1>0, <1>9, <1>11, <2>4 DEF Inv, TypeOK, PopUnlink, Return, Slots
  <1>13. /\ nx # 0 => /\ nx \in Allocated /\ nx \in Slots /\ home[nx] = b
                      /\ rank[nx] < rank[cut] /\ nx # cut
         /\ \A s \in Allocated : home[s] = b /\ rank[s] < rank[cut] => nx # 0 /\ rank[s] <= rank[nx]
    <2>1. nx # 0 => nx \in Allocated /\ home[nx] = b /\ rank[nx] < rank[cut]
      BY <1>0, <1>1, <1>4 DEF Placed, LinksDescend
    <2>2. \A s \in Allocated : home[s] = b /\ rank[s] < rank[cut] => nx # 0 /\ rank[s] <= rank[nx]
      BY <1>0, <1>1, <1>4 DEF Placed, LinksSkipNone
    <2> QED  BY <1>1, <1>3, <2>1, <2>2
  <1>14. \A s \in Allocated : home[s] = b /\ s # cut => rank[s] # rank[cut]
    BY <1>1, <1>4 DEF Placed, RanksDiffer
  <1>15. \A s \in Allocated : home[s] = Free => ff # 0 /\ rank[s] <= rank[ff]
    BY <1>0, <1>1, <1>2 DEF Placed, HeadsFirst, Head
  <1>16. HeadsFirst(h, r)'
    <2> SUFFICES ASSUME NEW c \in Lists
                 PROVE  /\ Head(c)' = 0 => \A s \in Allocated : h[s] # c
                        /\ Head(c)' # 0 => /\ Head(c)' \in Allocated
                                           /\ h[Head(c)'] = c
                                           /\ \A s \in Allocated : h[s] = c => r[s] <= r[Head(c)']
      BY <1>3 DEF HeadsFirst, Head
    <2>1. CASE c = Free
      <3>1. Head(c)' = cut /\ h[cut] = Free
        BY <1>9, <2>1 DEF Head
      <3>2. ASSUME NEW s \in Allocated, h[s] = Free PROVE r[s] <= r[cut]
        <4>1. CASE s = cut
          BY <1>3, <1>7, <4>1
        <4>2. CASE s # cut
          <5>1. home[s] = Free /\ r[s] = rank[s] /\ s \in Slots
            BY <1>3, <1>8, <3>2, <4>2
          <5> QED  BY <1>1, <1>6, <1>9, <1>15, <5>1
        <4> QED  BY <4>1, <4>2
      <3> QED  BY <1>4, <2>1, <3>1, <3>2
    <2>2. CASE c # Free
      <3>1. \A s \in Allocated : h[s] = c => s # cut /\ home[s] = c /\ r[s] = rank[s] /\ s \in Slots
        BY <1>3, <1>8, <1>9, <2>2
      <3>2. CASE p = 0 /\ c = b
        <4>1. Head(c)' = nx
          BY <1>11, <2>2, <3>2 DEF Head
        <4>2. \A s \in Allocated : home[s] = b => rank[s] <= rank[cut]
          BY <1>1, <1>2, <1>4, <1>5, <3>2 DEF Placed, HeadsFirst, Head
        <4>3. \A s \in Allocated : h[s] = c => rank[s] < rank[cut]
          BY <1>1, <1>4, <1>3, <1>14, <3>1, <3>2, <4>2
        <4> QED  BY <1>8, <1>13, <3>1, <3>2, <4>1, <4>3
      <3>3. CASE ~(p = 0 /\ c = b)
        <4>1. Head(c)' = Head(c)
          BY <1>11, <2>2, <3>3 DEF Head, Lists
        <4>2. Head(c) # 0 => Head(c) \in Allocated /\ home[Head(c)] = c
                             /\ \A s \in Allocated : home[s] = c => rank[s] <= rank[Head(c)]
          BY <1>1 DEF Placed, HeadsFirst
        <4>3. Head(c) # 0 => Head(c) # cut
          <5>1. CASE c # b
            BY <1>4, <4>2, <5>1
          <5>2. CASE c = b
            BY <1>1, <1>3, <1>4, <1>5, <3>3, <4>2, <5>2
          <5> QED  BY <5>1, <5>2
        <4>4. Head(c) = 0 => \A s \in Allocated : home[s] # c
          BY <1>1 DEF Placed, HeadsFirst
        <4> QED  BY <1>3, <1>8, <3>1, <4>1, <4>2, <4>3, <4>4
      <3> QED  BY <3>2, <3>3
    <2> QED  BY <2>1, <2>2
  <1>17. LinksDescend(h, r)'
    <2> SUFFICES ASSUME NEW s \in Allocated, next(s)' # 0
                 PROVE  next(s)' \in Allocated /\ h[next(s)'] = h[s] /\ r[next(s)'] < r[s]
      BY <1>3 DEF LinksDescend, next
    <2>1. CASE s = cut
      BY <1>1, <1>3, <1>6, <1>8, <1>9, <2>1
    <2>2. CASE s = p /\ p # 0
      <3>1. next(s)' = nx /\ s # cut /\ h[s] = b /\ r[s] = rank[s]
        BY <1>5, <1>8, <1>10, <2>2
      <3>2. rank[nx] < rank[s]
        BY <1>1, <1>4, <1>3, <1>5, <1>13, <2>2, <3>1
      <3> QED  BY <1>8, <1>13, <3>1, <3>2
    <2>3. CASE s # cut /\ ~(s = p /\ p # 0)
      <3>1. s # p /\ next(s)' = next(s) /\ h[s] = home[s] /\ r[s] = rank[s]
        BY <1>3, <1>8, <2>3
      <3>2. next(s) \in Allocated /\ home[next(s)] = home[s] /\ rank[next(s)] < rank[s]
        BY <1>1, <3>1 DEF Placed, LinksDescend
      <3>3. next(s) # cut
        <4> SUFFICES ASSUME next(s) = cut PROVE FALSE
          OBVIOUS
        <4>1. home[s] = b /\ rank[cut] < rank[s]
          BY <1>4, <3>2
        <4>2. CASE p = 0
          <5>1. rank[s] <= rank[cut]
            BY <1>1, <1>2, <1>4, <1>5, <4>1, <4>2 DEF Placed, HeadsFirst, Head
          <5> QED  BY <1>1, <1>3, <1>4, <4>1, <5>1
        <4>3. CASE p # 0
          <5>1. rank[s] # rank[p]
            BY <1>1, <1>5, <3>1, <4>1, <4>3 DEF Placed, RanksDiffer
          <5>2. CASE rank[s] < rank[p]
            <6>1. rank[s] <= rank[cut]
              BY <1>1, <1>5, <4>1, <4>3, <5>2 DEF Placed, LinksSkipNone
            <6> QED  BY <1>1, <1>3, <1>4, <4>1, <6>1
          <5>3. CASE rank[p] < rank[s]
            <6>1. rank[p] <= rank[cut]
              BY <1>1, <1>5, <4>1, <4>3, <5>3 DEF Placed, LinksSkipNone
            <6> QED  BY <1>1, <1>3, <1>4, <1>5, <4>3, <6>1
          <5> QED  BY <1>1, <1>3, <1>5, <4>3, <5>1, <5>2, <5>3
        <4> QED  BY <4>2, <4>3
      <3> QED  BY <1>3, <1>8, <3>1, <3>2, <3>3
    <2> QED  BY <2>1, <2>2, <2>3
  <1>18. LinksSkipNone(h, r)'
    <2> SUFFICES ASSUME NEW s \in Allocated, NEW t \in Allocated, h[s] = h[t], r[t] < r[s]
                 PROVE  next(s)' # 0 /\ r[t] <= r[next(s)']
      BY <1>3 DEF LinksSkipNone, next
    <2>0. s \in Slots /\ t \in Slots /\ s # t
      BY <1>3, <1>7
    <2>1. CASE s = cut
      <3>1. home[t] = Free /\ r[t] = rank[t]
        BY <1>8, <1>9, <2>0, <2>1
      <3> QED  BY <1>6, <1>8, <1>9, <1>15, <2>1, <3>1
    <2>2. CASE t = cut
      <3>1. home[s] = Free /\ r[s] = rank[s]
        BY <1>8, <1>9, <2>0, <2>2
      <3> QED  BY <1>1, <1>6, <1>9, <1>15, <2>0, <2>2, <3>1
    <2>3. CASE s # cut /\ t # cut
      <3>1. home[s] = home[t] /\ r[s] = rank[s] /\ r[t] = rank[t] /\ rank[t] < rank[s]
        BY <1>8, <2>0, <2>3
      <3>2. next(s) # 0 /\ rank[t] <= rank[next(s)]
        BY <1>1, <3>1 DEF Placed, LinksSkipNone
      <3>3. next(s) \in Allocated /\ next(s) \in Slots /\ home[next(s)] = home[s]
        BY <1>1, <1>3, <3>2 DEF Placed, LinksDescend
      <3>4. CASE s = p /\ p # 0
        <4>1. next(s) = cut /\ home[t] = b
          BY <1>5, <3>1, <3>4
        <4>2. rank[t] < rank[cut]
          BY <1>1, <1>14, <2>0, <2>3, <3>2, <3>3, <4>1
        <4>3. nx # 0 /\ rank[t] <= rank[nx]
          BY <1>13, <4>1, <4>2
        <4> QED  BY <1>8, <1>10, <1>13, <3>1, <3>4, <4>3
      <3>5. CASE ~(s = p /\ p # 0)
        <4>1. next(s)' = next(s)
          BY <1>3, <1>8, <2>0, <2>3, <3>5
        <4>2. CASE next(s) # cut
          BY <1>8, <3>1, <3>2, <3>3, <4>1, <4>2
        <4>3. CASE next(s) = cut
          <5>1. next(s)' # 0 /\ r[next(s)'] = r[cut] /\ r[next(s)'] < r[s] /\ h[cut] = h[s]
            BY <1>3, <1>4, <1>17, <4>1, <4>3 DEF LinksDescend, next
          <5>2. home[s] = Free
            BY <1>8, <1>9, <2>0, <2>3, <5>1
          <5> QED  BY <1>2, <1>4, <3>3, <4>3, <5>2
        <4> QED  BY <4>2, <4>3
      <3> QED  BY <3>4, <3>5
    <2> QED  BY <2>1, <2>2, <2>3
  <1>19. RanksDiffer(h, r)'
    <2> SUFFICES ASSUME NEW s \in Allocated, NEW t \in Allocated, h[s] = h[t], r[t] = r[s], s # t
                 PROVE  FALSE
      BY <1>3 DEF RanksDiffer
    <2>1. ASSUME NEW u \in Allocated, h[u] = Free, u # cut PROVE r[u] # r[cut]
      <3>1. u \in Slots /\ home[u] = Free /\ r[u] = rank[u]
        BY <1>3, <1>8, <2>1
      <3> QED  BY <1>1, <1>6, <1>9, <1>15, <3>1
    <2>2. CASE s # cut /\ t # cut
      BY <1>1, <1>3, <1>8, <2>2 DEF Placed, RanksDiffer
    <2> QED  BY <1>9, <2>1, <2>2
  <1>20. \A s \in Allocated : h[s] # Free => home[s] # Free /\ home[s] = h[s] /\ name(s)' = name(s)
    <2> TAKE s \in Allocated
    <2>1. s \in Slots
      BY <1>3
    <2>2. CASE s = cut
      BY <1>9, <2>2
    <2>3. CASE s # cut
      BY <1>8, <2>1, <2>3
    <2> QED  BY <2>2, <2>3
  <1>21. NamesAtHome(h)'
    <2>1. \A s \in Allocated : h[s] # Free => name(s)' \in Names /\ Hash[name(s)'] = h[s]
      BY <1>1, <1>20 DEF Placed, NamesAtHome
    <2> QED  BY <1>3, <2>1 DEF NamesAtHome, name
  <1>22. NamesOnce(h)'
    <2>1. \A s, t \in Allocated : h[s] # Free /\ h[t] # Free /\ name(s)' = name(t)' => s = t
      BY <1>1, <1>20 DEF Placed, NamesOnce
    <2> QED  BY <1>3, <2>1 DEF NamesOnce, name
  <1>23. CursorPlaced(h, r)' /\ pc' = "idle"
    BY DEF PopUnlink, CursorPlaced, Return, Operations
  <1>24. Placed(h, r)'
    BY <1>16, <1>17, <1>18, <1>19, <1>21, <1>22, <1>23 DEF Placed
  <1>25. Inv'
    BY <1>7, <1>12, <1>23, <1>24 DEF Inv, Operations
  <1>26. Shape(home) /\ Shape(h)'
    BY <1>1, <1>7, <1>24 DEF Shape
  <1> QED  BY <1>0, <1>7, <1>25, <1>26 DEF Moves

(* Every step preserves the invariant. *)
LEMMA StepInv == Inv /\ [Next]_vars => Inv'
  <1> SUFFICES ASSUME Inv, [Next]_vars PROVE Inv'
    OBVIOUS
  <1>1. ASSUME NEW l \in Labels, CallFind(l) PROVE Inv'
    BY <1>1, CallInv DEF CallFind, Operations
  <1>2. ASSUME NEW l \in Labels, CallInsert(l) PROVE Inv'
    BY <1>2, CallInv DEF CallInsert, Operations
  <1>3. ASSUME NEW l \in Labels, CallPop(l) PROVE Inv'
    BY <1>3, CallInv DEF CallPop, Operations
  <1>4. CASE WalkStep
    BY <1>4, WalkInv
  <1>5. CASE FindHit
    BY <1>5, ReturnUnchangedInv DEF FindHit, Inv, TypeOK
  <1>6. CASE FindMiss
    BY <1>6, ReturnUnchangedInv DEF FindMiss
  <1>7. CASE InsertAbort
    BY <1>7, ReturnUnchangedInv DEF InsertAbort, Inv, TypeOK
  <1>8. CASE InsertReused
    <2>1. PICK fs \in Slots : fs = first_free
      BY <1>8 DEF InsertReused, Inv, TypeOK, Slots
    <2> QED  BY <1>8, <2>1, InsertInv DEF InsertReused, next
  <1>9. CASE InsertFresh
    <2>1. PICK fs \in Slots : fs = offset + 1
      BY <1>9 DEF InsertFresh, Inv, TypeOK, Slots, HasRoom
    <2> QED  BY <1>9, <2>1, InsertInv DEF InsertFresh
  <1>10. CASE PopUnlink
    BY <1>10, PopInv
  <1>11. CASE PopMiss
    BY <1>11, ReturnUnchangedInv DEF PopMiss, Inv, TypeOK
  <1>12. CASE UNCHANGED vars
    <2>1. PICK home \in [Slots -> Lists], rank \in [Slots -> Nat] : Placed(home, rank)
      BY DEF Inv
    <2>2. Placed(home, rank)'
      BY <1>12, <2>1 DEF vars, table_vars, Placed, HeadsFirst, LinksDescend, LinksSkipNone, RanksDiffer,
             NamesAtHome, NamesOnce, CursorPlaced, Head, next, name, Allocated, bucket
    <2>3. TypeOK'
      BY <1>12 DEF Inv, TypeOK, vars, table_vars
    <2> QED  BY <1>12, <2>1, <2>2, <2>3 DEF Inv, HasRoom, vars, table_vars
  <1> QED
    BY <1>1, <1>2, <1>3, <1>4, <1>5, <1>6, <1>7, <1>8, <1>9, <1>10, <1>11, <1>12 DEF Next, Run

(* The inductive invariant holds in every reachable state. *)
THEOREM Invariance == Spec => []Inv
  BY InitInv, StepInv, PTL DEF Spec

(* Every variable keeps its type: in particular no link leads outside          *)
(* collision_array, whatever sequence of calls is made.                        *)
THEOREM TypeCorrect == Spec => []TypeOK
  <1>1. Inv => TypeOK
    BY DEF Inv
  <1> QED  BY Invariance, <1>1, PTL

-------------------------------------------------------------------------------
(* The lists that a walk from the heads finds are those of the invariant.      *)

OnList(home, c) == {s \in Allocated : home[s] = c}

(* The slots linked from a head are those whose home is its list. *)
LEMMA LinkedIsOnList ==
    ASSUME Inv, NEW home \in [Slots -> Lists], NEW rank \in [Slots -> Nat], Placed(home, rank),
           NEW c \in Lists
    PROVE  Linked(Head(c)) = OnList(home, c)
  <1>0. Allocated \subseteq Slots /\ 0 \notin Slots
    BY DEF Allocated, Slots, Inv, TypeOK
  <1>1. Linked(Head(c)) \subseteq OnList(home, c)
    <2>1. OnList(home, c) \in SUBSET Slots
      BY <1>0 DEF OnList
    <2>2. Closed(OnList(home, c))
      BY DEF Placed, LinksDescend, Closed, OnList, next
    <2>3. Head(c) # 0 => Head(c) \in OnList(home, c)
      BY DEF Placed, HeadsFirst, OnList
    <2> QED  BY <2>1, <2>2, <2>3 DEF Linked
  <1>2. ASSUME NEW s \in OnList(home, c), NEW S \in SUBSET Slots, Closed(S), Head(c) # 0 => Head(c) \in S,
               s \notin S
        PROVE  FALSE
    <2> DEFINE Missed == {n \in Nat : \E t \in OnList(home, c) : t \notin S /\ rank[t] = n}
    <2>1. /\ Head(c) # 0 /\ Head(c) \in OnList(home, c) /\ Head(c) \in S /\ rank[Head(c)] \in Nat
          /\ \A t \in OnList(home, c) : rank[t] \in Nat /\ rank[t] <= rank[Head(c)]
      BY <1>0, <1>2 DEF Placed, HeadsFirst, OnList
    <2>2. PICK m \in Missed : \A n \in Missed : n <= m
      <3>1. Missed \in SUBSET Nat /\ Missed # {} /\ \A n \in Missed : n <= rank[Head(c)]
        BY <1>2, <2>1
      <3> HIDE DEF Missed
      <3> QED  BY <2>1, <3>1, GreatestNat
    <2>3. PICK t \in OnList(home, c) : t \notin S /\ rank[t] = m
      OBVIOUS
    <2> DEFINE Above == {n \in Nat : \E u \in OnList(home, c) : rank[u] = n /\ rank[t] < n}
    <2>4. rank[t] < rank[Head(c)]
      <3>1. rank[t] # rank[Head(c)]
        BY <2>1, <2>3 DEF Placed, RanksDiffer, OnList
      <3> QED  BY <2>1, <3>1
    <2>5. PICK a \in Above : \A n \in Above : a <= n
      <3>1. Above \in SUBSET Nat /\ Above # {}
        BY <2>1, <2>4
      <3> HIDE DEF Above
      <3> QED  BY <3>1, LeastNat
    <2>6. PICK u \in OnList(home, c) : rank[u] = a /\ rank[t] < a
      OBVIOUS
    <2>7. u \in S
      <3> SUFFICES ASSUME u \notin S PROVE FALSE
        OBVIOUS
      <3>1. a \in Missed
        BY <2>1, <2>6
      <3> QED  BY <2>1, <2>2, <2>3, <2>6, <3>1
    <2>8. next(u) # 0 /\ rank[t] <= rank[next(u)]
      BY <2>6 DEF Placed, LinksSkipNone, OnList
    <2>9. next(u) \in OnList(home, c) /\ rank[next(u)] < rank[u]
      BY <2>8 DEF Placed, LinksDescend, OnList
    <2>10. rank[next(u)] = rank[t]
      <3> SUFFICES ASSUME rank[t] < rank[next(u)] PROVE FALSE
        BY <2>1, <2>3, <2>8, <2>9
      <3>1. rank[next(u)] \in Above
        BY <2>1, <2>9
      <3> QED  BY <2>1, <2>5, <2>6, <2>9, <3>1
    <2>11. next(u) = t
      BY <2>9, <2>10 DEF Placed, RanksDiffer, OnList
    <2> QED  BY <1>0, <1>2, <2>3, <2>7, <2>8, <2>11 DEF Closed, next
  <1>3. OnList(home, c) \subseteq Linked(Head(c))
    BY <1>0, <1>2 DEF Linked, OnList
  <1> QED  BY <1>1, <1>3

(* Chains and free list, read off home. *)
LEMMA ChainsAreOnList ==
    ASSUME Inv, NEW home \in [Slots -> Lists], NEW rank \in [Slots -> Nat], Placed(home, rank)
    PROVE  /\ \A b \in Buckets : Chain(b) = OnList(home, b)
           /\ FreeList = OnList(home, Free)
           /\ InUse = {s \in Allocated : home[s] # Free}
  <1>1. \A b \in Buckets : b \in Lists /\ b # Free /\ Head(b) = index_array[b]
    BY DEF Lists, Free, Head
  <1>2. Free \in Lists /\ Head(Free) = first_free
    BY DEF Lists, Head
  <1>3. \A b \in Buckets : Chain(b) = OnList(home, b)
    BY <1>1, LinkedIsOnList DEF Chain
  <1>4. FreeList = OnList(home, Free)
    BY <1>2, LinkedIsOnList DEF FreeList
  <1>5. \A s \in Allocated : home[s] \in Buckets \cup {Free}
    BY DEF Lists, Allocated, Slots, Inv, TypeOK
  <1>6. InUse = {s \in Allocated : home[s] # Free}
    BY <1>1, <1>3, <1>5 DEF InUse, OnList
  <1> QED  BY <1>3, <1>4, <1>6

(* No slot is leaked and none is on two lists, for any sequence of inserts and *)
(* pops (parser.c:740-754, 768-771).                                           *)
THEOREM PartitionCorrect == Spec => []ListsPartitionSlots
  <1>1. Inv => ListsPartitionSlots
    <2> SUFFICES ASSUME Inv PROVE ListsPartitionSlots
      OBVIOUS
    <2>1. PICK home \in [Slots -> Lists], rank \in [Slots -> Nat] : Placed(home, rank)
      BY DEF Inv
    <2> QED  BY <2>1, ChainsAreOnList DEF ListsPartitionSlots, OnList
  <1> QED  BY Invariance, <1>1, PTL

(* A find that walks one chain to the first match has looked everywhere        *)
(* (parser.c:717-729).                                                         *)
THEOREM FindableCorrect == Spec => []LabelsFindable
  <1>1. Inv => LabelsFindable
    <2> SUFFICES ASSUME Inv PROVE LabelsFindable
      OBVIOUS
    <2>1. PICK home \in [Slots -> Lists], rank \in [Slots -> Nat] : Placed(home, rank)
      BY DEF Inv
    <2>2. \A b \in Buckets : b # Free
      BY DEF Free
    <2> QED  BY <2>1, <2>2, ChainsAreOnList DEF LabelsFindable, OnList, Placed, NamesAtHome, NamesOnce, name
  <1> QED  BY Invariance, <1>1, PTL

(* What pop writes through idx_ptr unlinks the slot under the cursor and no    *)
(* other (parser.c:762-778).                                                   *)
THEOREM CursorCorrect == Spec => []CursorInChain
  <1>1. Inv => CursorInChain
    <2> SUFFICES ASSUME Inv, pc \in Operations PROVE CursorInChain
      BY DEF CursorInChain
    <2>1. PICK home \in [Slots -> Lists], rank \in [Slots -> Nat] : Placed(home, rank)
      BY DEF Inv
    <2>2. bucket \in Buckets
      BY DEF Inv, TypeOK, Labels, bucket
    <2> QED  BY <2>1, <2>2, ChainsAreOnList DEF CursorInChain, OnList, Placed, CursorPlaced, next
  <1> QED  BY Invariance, <1>1, PTL

-------------------------------------------------------------------------------
(* The refinement: what a caller sees of the hash map is the label table.      *)

(* A slot is in use when its home is a bucket. *)
LEMMA InUseIs == Inv => \A home : Shape(home) => InUse = {s \in Allocated : home[s] # Free}
  BY ChainsAreOnList DEF Shape

(* A label is where some slot in use says it is. *)
LEMMA LabelAtIs ==
    Inv => /\ InUse \subseteq Allocated
           /\ \A s \in InUse : LabelAt[name(s)] = collision_array[s].pos
           /\ \A n \in Names : (\A s \in InUse : name(s) # n) => LabelAt[n] = None
  <1> SUFFICES ASSUME Inv
               PROVE  /\ InUse \subseteq Allocated
                      /\ \A s \in InUse : LabelAt[name(s)] = collision_array[s].pos
                      /\ \A n \in Names : (\A s \in InUse : name(s) # n) => LabelAt[n] = None
    OBVIOUS
  <1>1. PICK home \in [Slots -> Lists], rank \in [Slots -> Nat] : Placed(home, rank)
    BY DEF Inv
  <1>2. /\ \A b \in Buckets : Chain(b) = OnList(home, b) /\ b # Free
        /\ InUse = {s \in Allocated : home[s] # Free}
    BY <1>1, ChainsAreOnList DEF Free
  <1>3. \A n \in Names : Hash[n] \in Buckets /\ Slot(n) = {s \in InUse : name(s) = n}
    <2>1. \A n \in Names : Hash[n] \in Buckets
      OBVIOUS
    <2>2. \A s \in InUse : s \in Allocated /\ home[s] \in Buckets /\ Hash[name(s)] = home[s]
      BY <1>1, <1>2 DEF Placed, NamesAtHome, Lists, Allocated, Slots, Inv, TypeOK
    <2> TAKE n \in Names
    <2>3. Slot(n) = {s \in OnList(home, Hash[n]) : name(s) = n}
      BY <1>2, <2>1 DEF Slot, name
    <2>4. \A s \in Allocated : name(s) = n => (home[s] = Hash[n] <=> s \in InUse)
      BY <1>2, <2>1, <2>2
    <2> QED  BY <1>2, <2>1, <2>3, <2>4 DEF OnList
  <1>4. ASSUME NEW s \in InUse PROVE LabelAt[name(s)] = collision_array[s].pos
    <2>1. name(s) \in Names
      BY <1>1, <1>2 DEF Placed, NamesAtHome
    <2>2. Slot(name(s)) = {s}
      BY <1>1, <1>2, <1>3, <2>1 DEF Placed, NamesOnce
    <2> QED  BY <2>1, <2>2 DEF LabelAt
  <1>5. ASSUME NEW n \in Names, \A s \in InUse : name(s) # n PROVE LabelAt[n] = None
    <2>1. Slot(n) = {}
      BY <1>3, <1>5
    <2> QED  BY <2>1 DEF LabelAt
  <1> QED  BY <1>2, <1>4, <1>5

(* The empty map is the empty table. *)
LEMMA InitRefines == Init => Table!Init
  <1> SUFFICES ASSUME Init PROVE Table!Init
    OBVIOUS
  <1>1. InUse = {}
    BY InitInv, LabelAtIs DEF Init, Allocated
  <1>2. \A n \in Names : LabelAt[n] = None
    BY InitInv, LabelAtIs, <1>1
  <1>3. LabelAt = [n \in Names |-> None]
    BY <1>2 DEF LabelAt
  <1> QED  BY <1>3 DEF Init, Table!Init, Table!Labels, Labels, AnswerPos

(* A step that leaves the arrays alone leaves the table as it was. *)
LEMMA TableKept == UNCHANGED table_vars => LabelAt' = LabelAt
  BY DEF table_vars, LabelAt, Slot, Chain, Linked, Closed

(* InUseIs in the next state. *)
LEMMA InUseIsPrime == (Inv => \A home : Shape(home) => InUse = {s \in Allocated : home[s] # Free})'
  BY InUseIs, PTL

(* LabelAtIs in the next state. *)
LEMMA LabelAtIsPrime ==
    (Inv => /\ InUse \subseteq Allocated
            /\ \A s \in InUse : LabelAt[name(s)] = collision_array[s].pos
            /\ \A n \in Names : (\A s \in InUse : name(s) # n) => LabelAt[n] = None)'
  BY LabelAtIs, PTL

(* A slot that joins a chain defines its name in the table and no other. *)
LEMMA InsertRefines ==
    ASSUME Inv, pc = "insert", idx = 0, Return("idle"), result' = result,
           NEW fs \in Slots, PushFront(fs),
           \/ fs = first_free /\ first_free' = next(fs) /\ offset' = offset
           \/ first_free = 0 /\ fs = offset + 1 /\ first_free' = 0 /\ offset' = offset + 1
    PROVE  Table!ReturnInsert
  <1>0. Moves(fs, bucket)
    BY InsertInv
  <1>1. PICK home, h : Shape(home) /\ Shape(h)' /\ h = [home EXCEPT ![fs] = bucket]
    BY <1>0, Zenon DEF Moves
  <1>2. Inv'
    BY InsertInv
  <1>3. label.name \in Names /\ label.pos \in Positions /\ bucket # Free
    BY DEF Inv, TypeOK, Labels, bucket, Free
  <1>4. PICK hm \in [Slots -> Lists], rank \in [Slots -> Nat] : Placed(hm, rank)
    BY DEF Inv
  <1>5. \A s \in InUse : name(s) # label.name
    <2>1. InUse = {s \in Allocated : hm[s] # Free}
      BY <1>4, ChainsAreOnList
    <2>2. \A s \in Allocated : hm[s] = bucket => name(s) # label.name
      BY <1>4 DEF Placed, CursorPlaced, Operations
    <2> QED  BY <1>4, <2>1, <2>2 DEF Placed, NamesAtHome, bucket
  <1>6. InUse = {s \in Allocated : home[s] # Free}
    BY <1>1, InUseIs
  <1>7. InUse' = {s \in Allocated' : h[s] # Free}
    BY <1>1, <1>2, InUseIsPrime
  <1>8. fs \notin InUse
    <2>1. fs \in Allocated => fs = first_free /\ fs # 0
      BY DEF Allocated, Slots, Inv, TypeOK
    <2>2. first_free # 0 => hm[first_free] = Free
      BY <1>4 DEF Placed, HeadsFirst, Head, Lists
    <2>3. InUse = {s \in Allocated : hm[s] # Free}
      BY <1>4, ChainsAreOnList
    <2> QED  BY <2>1, <2>2, <2>3
  <1>9. Allocated \subseteq Slots /\ Allocated' = Allocated \cup {fs}
    <2>1. CASE fs = first_free /\ offset' = offset
      <3>1. first_free # 0 => first_free \in Allocated
        BY <1>4 DEF Placed, HeadsFirst, Head, Lists
      <3> QED  BY <2>1, <3>1 DEF Allocated, Slots, Inv, TypeOK
    <2>2. CASE fs = offset + 1 /\ offset' = offset + 1
      BY <2>2 DEF Allocated, Slots, Inv, TypeOK
    <2> QED  BY <2>1, <2>2
  <1>10. InUse' = InUse \cup {fs}
    <2>1. home \in [Slots -> Lists]
      BY <1>1 DEF Shape
    <2>2. h[fs] = bucket /\ \A s \in Slots : s # fs => h[s] = home[s]
      BY <1>1, <2>1
    <2> QED  BY <1>3, <1>6, <1>7, <1>9, <2>2
  <1>11. /\ name(fs)' = label.name /\ (collision_array[fs].pos)' = label.pos
         /\ \A s \in InUse : name(s)' = name(s) /\ (collision_array[s].pos)' = collision_array[s].pos
    <2>1. \A s \in InUse : s \in Slots /\ s # fs
      BY <1>6, <1>8, <1>9
    <2> QED  BY <2>1 DEF PushFront, name, Inv, TypeOK
  <1>12. LabelAt[label.name] = None
    BY <1>3, <1>5, LabelAtIs
  <1>13. ASSUME NEW n \in Names
         PROVE  LabelAt'[n] = IF n = label.name THEN label.pos ELSE LabelAt[n]
    <2>1. CASE n = label.name
      BY <1>2, <1>10, <1>11, <2>1, LabelAtIsPrime
    <2>2. CASE n # label.name /\ \E s \in InUse : name(s) = n
      <3>1. PICK s \in InUse : name(s) = n
        BY <2>2
      <3>2. LabelAt[n] = collision_array[s].pos
        BY <3>1, LabelAtIs
      <3>3. LabelAt'[name(s)'] = (collision_array[s].pos)'
        BY <1>2, <1>10, LabelAtIsPrime
      <3> QED  BY <1>11, <2>2, <3>1, <3>2, <3>3
    <2>3. CASE n # label.name /\ \A s \in InUse : name(s) # n
      <3>1. LabelAt[n] = None
        BY <2>3, LabelAtIs
      <3>2. \A s \in InUse' : name(s)' # n
        BY <1>10, <1>11, <2>3
      <3>3. LabelAt'[n] = None
        BY <1>2, <3>2, LabelAtIsPrime
      <3> QED  BY <2>3, <3>1, <3>3
    <2> QED  BY <2>1, <2>2, <2>3
  <1>14. LabelAt' = [LabelAt EXCEPT ![label.name] = label.pos]
    <2>1. LabelAt \in [Names -> {LabelAt[n] : n \in Names}] /\ LabelAt' \in [Names -> {LabelAt'[n] : n \in Names}]
      BY DEF LabelAt
    <2> QED  BY <1>3, <1>13, <2>1
  <1>15. AnswerPos = None /\ AnswerPos' = None
    BY DEF Inv, Operations, AnswerPos
  <1> QED  BY <1>12, <1>14, <1>15 DEF Return, Table!ReturnInsert

(* A cursor on a match is on the slot of the label; a cursor past the end      *)
(* means that no slot holds it.                                                *)
LEMMA CursorTells ==
    ASSUME Inv, pc \in Operations
    PROVE  /\ idx # 0 /\ Match => /\ idx \in InUse
                                  /\ LabelAt[label.name] = collision_array[idx].pos
                                  /\ collision_array[idx].pos \in Positions \cup {0}
           /\ idx = 0 => LabelAt[label.name] = None
  <1>1. PICK home \in [Slots -> Lists], rank \in [Slots -> Nat] : Placed(home, rank)
    BY DEF Inv
  <1>2. InUse = {s \in Allocated : home[s] # Free} /\ bucket # Free /\ label.name \in Names
    BY <1>1, ChainsAreOnList DEF Inv, TypeOK, Labels, bucket, Free
  <1>3. ASSUME idx # 0, Match PROVE idx \in InUse /\ LabelAt[label.name] = collision_array[idx].pos
    <2>1. idx \in InUse
      BY <1>1, <1>2, <1>3 DEF Placed, CursorPlaced
    <2>2. name(idx) = label.name
      BY <1>3 DEF Match, name
    <2> QED  BY <2>1, <2>2, LabelAtIs
  <1>4. \A s \in InUse : collision_array[s].pos \in Positions \cup {0}
    BY <1>2 DEF Allocated, Slots, Inv, TypeOK, Cells
  <1>5. ASSUME idx = 0 PROVE LabelAt[label.name] = None
    <2>1. \A s \in Allocated : home[s] = bucket => name(s) # label.name
      BY <1>1, <1>5 DEF Placed, CursorPlaced
    <2>2. \A s \in InUse : name(s) # label.name
      BY <1>1, <1>2, <2>1 DEF Placed, NamesAtHome, bucket
    <2> QED  BY <1>2, <2>2, LabelAtIs
  <1> QED  BY <1>3, <1>4, <1>5

(* A slot that leaves its chain removes its name from the table and no other. *)
LEMMA PopRefines ==
    ASSUME Inv, PopUnlink
    PROVE  Table!ReturnPop
  <1>0. Moves(idx, Free) /\ Inv'
    BY PopInv
  <1>1. PICK home, h : Shape(home) /\ Shape(h)' /\ h = [home EXCEPT ![idx] = Free]
    BY <1>0, Zenon DEF Moves
  <1>2. InUse = {s \in Allocated : home[s] # Free} /\ InUse' = {s \in Allocated' : h[s] # Free}
    BY <1>0, <1>1, InUseIs, InUseIsPrime
  <1>3. Allocated \subseteq Slots /\ Allocated' = Allocated /\ idx \in Slots /\ label.name \in Names
    BY DEF Allocated, Slots, Inv, TypeOK, PopUnlink, Labels
  <1>4. InUse' = InUse \ {idx}
    <2>1. home \in [Slots -> Lists]
      BY <1>1 DEF Shape
    <2>2. h[idx] = Free /\ \A s \in Slots : s # idx => h[s] = home[s]
      BY <1>1, <1>3, <2>1
    <2> QED  BY <1>2, <1>3, <2>2
  <1>5. \A s \in Slots : name(s)' = name(s) /\ (collision_array[s].pos)' = collision_array[s].pos
    BY DEF PopUnlink, name, Inv, TypeOK, Cells
  <1>6. idx \in InUse /\ name(idx) = label.name
    BY CursorTells DEF PopUnlink, Operations, Match, name
  <1>7. \A s \in InUse : s # idx => name(s) # label.name
    <2>1. PICK hm \in [Slots -> Lists], rank \in [Slots -> Nat] : Placed(hm, rank)
      BY DEF Inv
    <2> QED  BY <1>6, <2>1, ChainsAreOnList DEF Placed, NamesOnce
  <1>8. ASSUME NEW n \in Names
        PROVE  LabelAt'[n] = IF n = label.name THEN None ELSE LabelAt[n]
    <2>1. CASE \E s \in InUse' : name(s) = n
      <3>1. PICK s \in InUse' : name(s) = n
        BY <2>1
      <3>2. s \in InUse /\ s \in Slots /\ n # label.name
        BY <1>2, <1>3, <1>4, <1>7, <3>1
      <3>3. LabelAt[n] = collision_array[s].pos
        BY <3>1, <3>2, LabelAtIs
      <3>4. LabelAt'[name(s)'] = (collision_array[s].pos)'
        BY <1>0, <3>1, LabelAtIsPrime
      <3> QED  BY <1>5, <3>1, <3>2, <3>3, <3>4
    <2>2. CASE \A s \in InUse' : name(s) # n
      <3>1. \A s \in InUse' : name(s)' # n
        BY <1>2, <1>3, <1>4, <1>5, <2>2
      <3>2. LabelAt'[n] = None
        BY <1>0, <3>1, LabelAtIsPrime
      <3>3. n # label.name => \A s \in InUse : name(s) # n
        BY <1>4, <1>6, <2>2
      <3> QED  BY <3>2, <3>3, LabelAtIs
    <2> QED  BY <2>1, <2>2
  <1>9. LabelAt' = [LabelAt EXCEPT ![label.name] = None]
    <2>1. LabelAt \in [Names -> {LabelAt[n] : n \in Names}] /\ LabelAt' \in [Names -> {LabelAt'[n] : n \in Names}]
      BY DEF LabelAt
    <2> QED  BY <1>3, <1>8, <2>1
  <1>10. AnswerPos = None /\ AnswerPos' = None
    BY DEF Inv, Operations, AnswerPos, PopUnlink
  <1> QED  BY <1>9, <1>10 DEF Return, Table!ReturnPop, PopUnlink

(* Every step of the map is a step of the table or leaves it as it is. *)
LEMMA StepRefines == Inv /\ [Next]_vars => [Table!Next]_(Table!vars)
  <1> SUFFICES ASSUME Inv, [Next]_vars PROVE [Table!Next]_(Table!vars)
    OBVIOUS
  <1>0. pc \in Operations => result = 0 /\ AnswerPos = None
    BY DEF Inv, AnswerPos
  <1>1. ASSUME NEW l \in Labels, NEW op \in Operations, Call(op, l) PROVE Table!Call
    BY <1>1, TableKept DEF Call, Table!Call, AnswerPos, Operations, Table!Operations, Labels, Table!Labels
  <1>2. CASE WalkStep
    <2>1. UNCHANGED <<LabelAt, pc, label, AnswerPos>>
      BY <1>0, <1>2, TableKept DEF WalkStep, AnswerPos
    <2> QED  BY <2>1 DEF Table!vars
  <1>3. CASE FindHit
    <2>1. AnswerPos' = LabelAt[label.name]
      BY <1>3, CursorTells DEF FindHit, AnswerPos, Operations, table_vars
    <2> QED  BY <1>3, <2>1, TableKept DEF FindHit, Return, Table!ReturnFind, Table!Next, Table!Return
  <1>4. CASE FindMiss
    <2>1. AnswerPos' = LabelAt[label.name]
      BY <1>4, CursorTells DEF FindMiss, AnswerPos, Operations
    <2> QED  BY <1>4, <2>1, TableKept DEF FindMiss, Return, Table!ReturnFind, Table!Next, Table!Return
  <1>5. CASE InsertAbort
    <2>1. LabelAt[label.name] # None
      BY <1>5, CursorTells, NoPosition DEF InsertAbort, Operations
    <2>2. AnswerPos' = AnswerPos
      BY <1>0, <1>5 DEF InsertAbort, AnswerPos, Operations
    <2> QED
      BY <1>5, <2>1, <2>2, TableKept DEF InsertAbort, Return, Table!AbortInsert, Table!Next, Table!Return
  <1>6. CASE InsertReused
    <2>1. PICK fs \in Slots : fs = first_free
      BY <1>6 DEF InsertReused, Inv, TypeOK, Slots
    <2>2. Table!ReturnInsert
      BY <1>6, <2>1, InsertRefines DEF InsertReused, next
    <2> QED  BY <2>2 DEF Table!Next, Table!Return
  <1>7. CASE InsertFresh
    <2>1. PICK fs \in Slots : fs = offset + 1
      BY <1>7 DEF InsertFresh, Inv, TypeOK, Slots, HasRoom
    <2>2. Table!ReturnInsert
      BY <1>7, <2>1, InsertRefines DEF InsertFresh
    <2> QED  BY <2>2 DEF Table!Next, Table!Return
  <1>8. CASE PopUnlink
    BY <1>8, PopRefines DEF Table!Next, Table!Return
  <1>9. CASE PopMiss
    <2>1. LabelAt[label.name] = None
      BY <1>9, CursorTells DEF PopMiss, Operations
    <2>2. [LabelAt EXCEPT ![label.name] = None] = LabelAt
      BY <2>1 DEF LabelAt
    <2>3. AnswerPos' = AnswerPos
      BY <1>0, <1>9 DEF PopMiss, AnswerPos, Operations
    <2> QED  BY <1>9, <2>2, <2>3, TableKept DEF PopMiss, Return, Table!ReturnPop, Table!Next, Table!Return
  <1>10. CASE UNCHANGED vars
    BY <1>10, TableKept DEF vars, table_vars, AnswerPos, Table!vars
  <1> QED
    BY <1>1, <1>2, <1>3, <1>4, <1>5, <1>6, <1>7, <1>8, <1>9, <1>10
    DEF Next, Run, CallFind, CallInsert, CallPop, Operations, Table!Next

(* The hash map implements the label table: the safety part of                 *)
(* ImplementsTable, for every hash function, capacity and set of names.        *)
THEOREM TableImplemented == Spec => Table!Init /\ [][Table!Next]_(Table!vars)
  BY Invariance, InitRefines, StepRefines, PTL DEF Spec
------------------------------------------------------------------------------
(* The label map is the hash map of hashmap.c, with the walk of each call taken    *)
(* apart, for every set of names, every hash function and every capacity.            *)

(* The slots that a walk for the name d passes, 0 once it is past the end. *)
W(d) == Generic!Walk(d)

NextOf(x, n) == Generic!Next_(x[n - 1])
Walks(d, x, k) ==
    x = [n \in 0 .. k |-> IF n = 0 THEN index_array[Hash[d]] ELSE NextOf(x, n)]

(* A walk of any length exists: each test extends those before it. *)
LEMMA WalksExist ==
  ASSUME NEW d, NEW k \in Nat
  PROVE  \E x : Walks(d, x, k)
<1> DEFINE S == {n \in Nat : \E x : Walks(d, x, n)}
<1>1. 0 \in S
  <2> DEFINE z == [n \in 0 .. 0 |-> index_array[Hash[d]]]
  <2>1. z = [n \in 0 .. 0 |-> IF n = 0 THEN index_array[Hash[d]] ELSE NextOf(z, n)]
    OBVIOUS
  <2>. HIDE DEF z
  <2>. QED  BY <2>1 DEF Walks
<1>2. ASSUME NEW n \in S PROVE n + 1 \in S
  <2>1. PICK x : Walks(d, x, n)
    OBVIOUS
  <2> DEFINE y == [m \in 0 .. n + 1 |-> IF m <= n THEN x[m] ELSE NextOf(x, m)]
  <2>2. \A m \in 0 .. n : y[m] = x[m]
    OBVIOUS
  <2>3. \A m \in 0 .. n + 1 : m # 0 => NextOf(y, m) = NextOf(x, m)
    <3>. HIDE DEF y
    <3>. SUFFICES ASSUME NEW m \in 0 .. n + 1, m # 0 PROVE NextOf(y, m) = NextOf(x, m)
      OBVIOUS
    <3>1. m - 1 \in 0 .. n
      OBVIOUS
    <3>. QED  BY <2>2, <3>1 DEF NextOf
  <2>4. \A m \in 0 .. n : x[m] = IF m = 0 THEN index_array[Hash[d]] ELSE NextOf(x, m)
    BY <2>1, Zenon DEF Walks
  <2>5. \A m \in 0 .. n + 1 : y[m] = IF m = 0 THEN index_array[Hash[d]] ELSE NextOf(y, m)
    <3>1. \A m \in 0 .. n + 1 : y[m] = IF m = 0 THEN index_array[Hash[d]] ELSE NextOf(x, m)
      BY <2>4
    <3>. HIDE DEF y
    <3>. QED  BY <2>3, <3>1
  <2>6. y = [m \in 0 .. n + 1 |-> y[m]]
    OBVIOUS
  <2>7. Walks(d, y, n + 1)
    <3>. HIDE DEF y
    <3>. QED  BY <2>5, <2>6 DEF Walks
  <2>. HIDE DEF y
  <2>. QED  BY <2>7
<1>3. S \in SUBSET Nat
  OBVIOUS
<1>4. S = Nat
  <2>. HIDE DEF S
  <2>. QED  BY <1>1, <1>2, <1>3, SetInduction
<1>. QED  BY <1>4

LEMMA WalkIs ==
  ASSUME NEW d
  PROVE  Walks(d, W(d), Capacity)
<1>1. Walks(d, CHOOSE x : Walks(d, x, Capacity), Capacity)
  BY WalksExist
<1>2. W(d) = CHOOSE x : Walks(d, x, Capacity)
  BY DEF W, Generic!Walk, Walks, NextOf
<1>. QED  BY <1>1, <1>2

LEMMA WalkValues ==
  ASSUME NEW d
  PROVE  /\ W(d)[0] = index_array[Hash[d]]
         /\ \A n \in 1 .. Capacity : W(d)[n - 1] \in Slots => W(d)[n] = next(W(d)[n - 1])
<1>1. \A n \in 0 .. Capacity :
          W(d)[n] = IF n = 0 THEN index_array[Hash[d]] ELSE NextOf(W(d), n)
  BY WalkIs, Zenon DEF Walks
<1>2. \A s \in Slots : Generic!Next_(s) = next(s)
  BY DEF Generic!Next_, Elements, next, Slots
<1>. HIDE DEF W
<1>3. ASSUME NEW n \in 1 .. Capacity, W(d)[n - 1] \in Slots PROVE W(d)[n] = next(W(d)[n - 1])
  <2>1. n \in 0 .. Capacity /\ n # 0
    OBVIOUS
  <2>. QED  BY <1>1, <1>2, <1>3, <2>1 DEF NextOf
<1>. QED  BY <1>1, <1>3

(* A walk that has not ended stays on the chain of its bucket, and its ranks fall.  *)
LEMMA WalkFalls ==
  ASSUME NEW d \in Names, Inv,
         NEW home \in [Slots -> Lists], NEW rank \in [Slots -> Nat], Placed(home, rank),
         NEW n \in 0 .. Capacity, \A m \in 0 .. n : W(d)[m] # 0
  PROVE  \A m \in 0 .. n :
             /\ W(d)[m] \in Allocated /\ W(d)[m] \in Slots /\ home[W(d)[m]] = Hash[d]
             /\ \A l \in 0 .. m - 1 : rank[W(d)[m]] < rank[W(d)[l]]
<1>1. PICK x : x = W(d)
  OBVIOUS
<1>2. /\ x[0] = index_array[Hash[d]]
      /\ \A m \in 1 .. Capacity : x[m - 1] \in Slots => x[m] = next(x[m - 1])
  BY <1>1, WalkValues
<1>3. Allocated \subseteq Slots
  BY DEF Inv, TypeOK, Allocated, Slots
<1>4. Hash[d] \in Lists /\ Hash[d] # Free
  BY DEF Lists, Free
<1> DEFINE Good(m) == /\ x[m] \in Allocated /\ home[x[m]] = Hash[d]
                      /\ \A l \in 0 .. m - 1 : rank[x[m]] < rank[x[l]]
           S == {m \in Nat : \A k \in 0 .. m : k <= n => Good(k)}
<1>5. 0 \in S
  <2>1. x[0] \in Allocated /\ home[x[0]] = Hash[d]
    <3>1. x[0] = Head(Hash[d]) /\ x[0] # 0
      BY <1>1, <1>2, <1>4 DEF Head
    <3>. QED  BY <1>4, <3>1 DEF Placed, HeadsFirst
  <2>2. Good(0)
    BY <2>1
  <2>3. \A k \in 0 .. 0 : k = 0
    OBVIOUS
  <2>. HIDE DEF Good
  <2>. QED  BY <2>2, <2>3
<1>6. ASSUME NEW m \in S PROVE m + 1 \in S
  <2>. SUFFICES ASSUME m + 1 <= n PROVE Good(m + 1)
    <3>1. \A k \in 0 .. m + 1 : k \in 0 .. m \/ k = m + 1
      OBVIOUS
    <3>. HIDE DEF Good
    <3>. QED  BY <3>1
  <2>1. Good(m)
    <3>1. m \in 0 .. m /\ m <= n
      OBVIOUS
    <3>. HIDE DEF Good
    <3>. QED  BY <3>1
  <2>2. x[m + 1] = next(x[m]) /\ x[m + 1] # 0
    <3>1. m + 1 \in 1 .. Capacity /\ m + 1 \in 0 .. n /\ (m + 1) - 1 = m
      OBVIOUS
    <3>2. x[m] \in Slots
      BY <1>3, <2>1
    <3>. QED  BY <1>1, <1>2, <3>1, <3>2
  <2>3. /\ x[m + 1] \in Allocated /\ home[x[m + 1]] = Hash[d]
        /\ rank[x[m + 1]] < rank[x[m]]
    BY <2>1, <2>2 DEF Placed, LinksDescend
  <2>4. ASSUME NEW l \in 0 .. m PROVE rank[x[m + 1]] < rank[x[l]]
    <3>1. CASE l = m
      BY <2>3, <3>1
    <3>2. CASE l # m
      <4>1. rank[x[m]] < rank[x[l]]
        BY <2>1, <3>2
      <4>2. x[l] \in Allocated
        <5>1. l \in 0 .. m /\ l <= n
          OBVIOUS
        <5>. QED  BY <5>1
      <4>3. rank[x[l]] \in Nat /\ rank[x[m]] \in Nat /\ rank[x[m + 1]] \in Nat
        BY <1>3, <2>1, <2>3, <4>2
      <4>. QED  BY <2>3, <4>1, <4>3
    <3>. QED  BY <3>1, <3>2
  <2>5. (m + 1) - 1 = m
    OBVIOUS
  <2>. QED  BY <2>3, <2>4, <2>5
<1>7. S = Nat
  <2>1. S \in SUBSET Nat
    OBVIOUS
  <2>. HIDE DEF S
  <2>. QED  BY <1>5, <1>6, <2>1, SetInduction
<1>8. \A m \in 0 .. n : Good(m)
  <2>1. n \in S
    <3>1. n \in Nat
      OBVIOUS
    <3>. HIDE DEF S
    <3>. QED  BY <1>7, <3>1
  <2>. HIDE DEF Good
  <2>. QED  BY <2>1
<1>. QED  BY <1>1, <1>3, <1>8

(* The walk has as many tests as it needs: a chain has no more slots than there are. *)
LEMMA WalkEnds ==
  ASSUME NEW d \in Names, Inv,
         NEW n \in 0 .. Capacity, \A m \in 0 .. n : W(d)[m] # 0
  PROVE  n + 1 <= Capacity
<1>1. PICK home \in [Slots -> Lists], rank \in [Slots -> Nat] : Placed(home, rank)
  BY DEF Inv
<1>2. PICK x : x = W(d)
  OBVIOUS
<1>3. \A m \in 0 .. n : x[m] \in Slots /\ \A l \in 0 .. m - 1 : rank[x[m]] < rank[x[l]]
  BY <1>1, <1>2, WalkFalls
<1>4. SUFFICES ASSUME n = Capacity PROVE FALSE
  OBVIOUS
<1> DEFINE f == [m \in 0 .. n |-> x[m]]
<1>5. f \in [0 .. n -> Slots]
  BY <1>3
<1>6. /\ IsFiniteSet(0 .. n) /\ Cardinality(0 .. n) = n + 1
      /\ IsFiniteSet(Slots) /\ Cardinality(Slots) = Capacity
  <2>1. /\ IsFiniteSet(0 .. n)
        /\ Cardinality(0 .. n) = IF 0 > n THEN 0 ELSE n - 0 + 1
    BY FS_Interval
  <2>2. /\ IsFiniteSet(1 .. Capacity)
        /\ Cardinality(1 .. Capacity) = IF 1 > Capacity THEN 0 ELSE Capacity - 1 + 1
    BY FS_Interval
  <2>. QED  BY <2>1, <2>2 DEF Slots
<1>7. Cardinality(Slots) < Cardinality(0 .. n)
  BY <1>4, <1>6
<1>8. PICK l, m \in 0 .. n : l # m /\ f[l] = f[m]
  <2>. HIDE DEF f
  <2>. DEFINE Tests == 0 .. n
  <2>1. /\ IsFiniteSet(Tests) /\ IsFiniteSet(Slots)
        /\ Cardinality(Slots) < Cardinality(Tests) /\ f \in [Tests -> Slots]
    BY <1>5, <1>6, <1>7
  <2>. HIDE DEF Tests
  <2>2. \E l, m \in Tests : l # m /\ f[l] = f[m]
    BY <2>1, FS_PigeonHole
  <2>. QED  BY <2>2 DEF Tests
<1>9. x[l] = x[m] /\ rank[x[l]] \in Nat
  BY <1>3, <1>8
<1>10. l \in 0 .. m - 1 \/ m \in 0 .. l - 1
  BY <1>8
<1>. QED  BY <1>3, <1>9, <1>10

LEMMA WalkSlots ==
  ASSUME NEW d \in Names, Inv,
         NEW n \in 0 .. Capacity, \A m \in 0 .. n - 1 : W(d)[m] # 0
  PROVE  \A m \in 0 .. n : W(d)[m] # 0 => W(d)[m] \in Slots
<1>1. PICK home \in [Slots -> Lists], rank \in [Slots -> Nat] : Placed(home, rank)
  BY DEF Inv
<1>2. ASSUME NEW m \in 0 .. n, W(d)[m] # 0 PROVE W(d)[m] \in Slots
  <2>1. m \in 0 .. Capacity /\ m \in 0 .. m
    OBVIOUS
  <2>2. \A l \in 0 .. m : W(d)[l] # 0
    <3>1. \A l \in 0 .. m : l = m \/ l \in 0 .. n - 1
      OBVIOUS
    <3>. QED  BY <1>2, <3>1
  <2>. QED  BY <1>1, <2>1, <2>2, WalkFalls
<1>. QED  BY <1>2

(* The walk of hashmap.c stops where that of the label map does. *)
LEMMA StopIs ==
  ASSUME NEW d \in Names, Inv, NEW n \in 0 .. Capacity,
         W(d)[n] = 0 \/ name(W(d)[n]) = d,
         \A m \in 0 .. n - 1 : W(d)[m] # 0 /\ name(W(d)[m]) # d
  PROVE  Generic!Stop(d) = n /\ Generic!hashmap_find(d) = W(d)[n]
<1>1. PICK x : x = W(d)
  OBVIOUS
<1>2. \A s \in Slots : Elements[s].data = name(s)
  BY DEF Elements, name
<1>3. \A m \in 0 .. n : x[m] # 0 => x[m] \in Slots
  BY <1>1, WalkSlots
<1> DEFINE Ends(k) == /\ x[k] = 0 \/ Elements[x[k]].data = d
                      /\ \A m \in 0 .. k - 1 : x[m] # 0 /\ Elements[x[m]].data # d
<1>4. Ends(n)
  <2>1. x[n] = 0 \/ Elements[x[n]].data = d
    <3>1. n \in 0 .. n
      OBVIOUS
    <3>. QED  BY <1>1, <1>2, <1>3, <3>1
  <2>2. ASSUME NEW m \in 0 .. n - 1 PROVE x[m] # 0 /\ Elements[x[m]].data # d
    <3>1. m \in 0 .. n
      OBVIOUS
    <3>. QED  BY <1>1, <1>2, <1>3, <3>1
  <2>. QED  BY <2>1, <2>2
<1>5. ASSUME NEW k \in 0 .. Capacity, Ends(k) PROVE k = n
  <2>1. ~(k \in 0 .. n - 1)
    BY <1>4, <1>5
  <2>2. ~(n \in 0 .. k - 1)
    BY <1>4, <1>5
  <2>. QED  BY <2>1, <2>2
<1>6. Generic!Stop(d) = CHOOSE k \in 0 .. Capacity : Ends(k)
  BY <1>1 DEF Generic!Stop, W
<1>7. (CHOOSE k \in 0 .. Capacity : Ends(k)) = n
  <2>. HIDE DEF Ends
  <2>. QED  BY <1>4, <1>5
<1>8. Generic!Stop(d) = n
  <2>. HIDE DEF Ends
  <2>. QED  BY <1>6, <1>7
<1>. QED  BY <1>8 DEF Generic!hashmap_find, W

------------------------------------------------------------------------------
(* The cursor is where the walk is at its n-th test, and none of the slots before  *)
(* holds the name.                                                                 *)
CursorAt(n) ==
    /\ W(label.name)[n] = idx
    /\ \A m \in 0 .. n - 1 : W(label.name)[m] # 0 /\ name(W(label.name)[m]) # label.name
    /\ prev = IF n = 0 THEN 0 ELSE W(label.name)[n - 1]

CursorWalks == pc \in Operations => \E n \in 0 .. Capacity : CursorAt(n)

LEMMA SameWalk ==
  ASSUME NEW d, UNCHANGED table_vars
  PROVE  /\ W(d)' = W(d) /\ \A s : name(s)' = name(s)
BY DEF W, Generic!Walk, Generic!Next_, Elements, name, table_vars

LEMMA LabelName == Inv => label.name \in Names
BY DEF Inv, TypeOK, Labels

LEMMA CursorStep ==
  ASSUME Inv, CursorWalks, [Next]_vars
  PROVE  CursorWalks'
<1>1. ASSUME NEW op \in Operations, NEW l \in Labels, Call(op, l) PROVE CursorWalks'
  <2>1. /\ label' = l /\ idx' = index_array[Hash[l.name]] /\ prev' = 0
        /\ UNCHANGED table_vars
    BY <1>1 DEF Call
  <2>2. W(l.name)' = W(l.name) /\ W(l.name)[0] = idx'
    BY <2>1, SameWalk, WalkValues
  <2>3. CursorAt(0)'
    <3>1. (W(label.name))' = W(l.name)
      <4>1. label'.name = l.name
        BY <2>1
      <4>. QED  BY ZenonT(30), <2>2, <4>1 DEF W, Generic!Walk
    <3>. QED  BY <2>1, <2>2, <3>1 DEF CursorAt
  <2>. QED  BY <2>3 DEF CursorWalks
<1>2. CASE WalkStep
  <2>1. PICK n \in 0 .. Capacity : CursorAt(n)
    BY <1>2 DEF CursorWalks, WalkStep
  <2>2. PICK d \in Names : d = label.name
    BY LabelName
  <2>3. PICK x : x = W(d)
    OBVIOUS
  <2>4. /\ x[n] = idx /\ idx # 0 /\ name(idx) # d /\ idx' = next(idx) /\ prev' = idx
        /\ \A m \in 0 .. n - 1 : x[m] # 0 /\ name(x[m]) # d
        /\ UNCHANGED <<table_vars, label>>
    BY <1>2, <2>1, <2>2, <2>3 DEF WalkStep, CursorAt, Match, name, next
  <2>5. \A m \in 0 .. n : x[m] # 0 /\ name(x[m]) # d
    <3>1. \A m \in 0 .. n : m = n \/ m \in 0 .. n - 1
      OBVIOUS
    <3>. QED  BY <2>4, <3>1
  <2>6. n + 1 \in 0 .. Capacity
    BY <2>3, <2>5, WalkEnds
  <2>7. x[n + 1] = next(idx)
    <3>1. n + 1 \in 1 .. Capacity /\ (n + 1) - 1 = n
      BY <2>6
    <3>2. idx \in Slots
      BY <2>4 DEF Inv, TypeOK, Slots
    <3>. QED  BY <2>3, <2>4, <3>1, <3>2, WalkValues
  <2>8. CursorAt(n + 1)'
    <3>1. W(label.name)' = x /\ label'.name = d
      <4>1. W(d)' = x
        BY <2>3, <2>4, SameWalk
      <4>. QED  BY <2>2, <2>4, <4>1 DEF W, Generic!Walk
    <3>2. \A m \in 0 .. n : x[m] # 0 /\ name(x[m])' # d
      BY <2>4, <2>5 DEF name, table_vars
    <3>3. n + 1 # 0 /\ (n + 1) - 1 = n
      OBVIOUS
    <3>. QED  BY <2>4, <2>7, <3>1, <3>2, <3>3 DEF CursorAt
  <2>. QED  BY <2>6, <2>8 DEF CursorWalks
<1>3. ASSUME pc' \notin Operations PROVE CursorWalks'
  BY <1>3 DEF CursorWalks
<1>4. CASE UNCHANGED vars
  <2>1. \A n : CursorAt(n)' <=> CursorAt(n)
    BY <1>4 DEF vars, table_vars, CursorAt, W, Generic!Walk, Generic!Next_, Elements, name
  <2>. QED  BY <1>4, <2>1 DEF CursorWalks, vars
<1>. QED
  BY <1>1, <1>2, <1>3, <1>4
  DEF Next, Run, CallFind, CallInsert, CallPop, Operations, FindHit, FindMiss, InsertAbort,
      InsertReused, InsertFresh, PopUnlink, PopMiss, Return

------------------------------------------------------------------------------
(* Where a call ends its walk, the walk of hashmap.c has found what the cursor has. *)
LEMMA CursorFinds ==
  ASSUME Inv, CursorWalks, pc \in Operations, idx = 0 \/ Match
  PROVE  /\ label.name \in Names /\ Generic!hashmap_find(label.name) = idx
         /\ \E n \in 0 .. Capacity : Generic!Stop(label.name) = n /\ CursorAt(n)
<1>1. PICK n \in 0 .. Capacity : CursorAt(n)
  BY DEF CursorWalks
<1>2. PICK d \in Names : d = label.name
  BY LabelName
<1>3. /\ W(d)[n] = 0 \/ name(W(d)[n]) = d
      /\ \A m \in 0 .. n - 1 : W(d)[m] # 0 /\ name(W(d)[m]) # d
      /\ W(d)[n] = idx
  BY <1>1, <1>2 DEF CursorAt, Match, name
<1>4. Generic!Stop(d) = n /\ Generic!hashmap_find(d) = idx
  BY <1>3, StopIs
<1>. QED  BY <1>1, <1>2, <1>4

LEMMA ElementsType ==
  ASSUME Inv
  PROVE  /\ collision_array \in [Slots -> Cells]
         /\ \A s \in Slots : Elements[s] = [data |-> name(s), next |-> next(s)]
         /\ \A s \in Slots : Generic!Next_(s) = next(s)
BY DEF Inv, TypeOK, Elements, name, next, Generic!Next_, Slots

LEMMA InitMaps == Init => Generic!hashmap_init
BY DEF Init, Generic!hashmap_init, Elements, EmptyCell, Slots

(* The slot for a new name is the same and is linked the same way. *)
LEMMA InsertMaps ==
  ASSUME Inv, CursorWalks, InsertReused \/ InsertFresh
  PROVE  Generic!hashmap_insert(label.name)
<1>1. PICK d : d = label.name
  OBVIOUS
<1>2. pc = "insert" /\ idx = 0 /\ pc' = "idle" /\ HasRoom
  BY DEF InsertReused, InsertFresh, Return, Inv
<1>3. Generic!hashmap_find(d) = 0
  BY <1>1, <1>2, CursorFinds DEF Operations
<1>4. PICK fs : /\ fs = IF first_free # 0 THEN first_free ELSE offset + 1
                /\ PushFront(fs)
  BY DEF InsertReused, InsertFresh
<1>5. fs \in Slots
  BY <1>2, <1>4 DEF HasRoom, Inv, TypeOK, Slots
<1>6. /\ first_free' = Generic!Next_(first_free)
      /\ offset' = IF first_free # 0 THEN offset ELSE fs
  <2>1. CASE InsertReused
    <3>1. first_free \in Slots
      BY <2>1 DEF InsertReused, Inv, TypeOK, Slots
    <3>. QED  BY <1>4, <2>1, <3>1, ElementsType DEF InsertReused, next
  <2>2. CASE InsertFresh
    BY <1>4, <2>2 DEF InsertFresh, Generic!Next_
  <2>. QED  BY <2>1, <2>2
<1>7. index_array' = [index_array EXCEPT ![Hash[d]] = fs]
  BY <1>1, <1>4 DEF PushFront, bucket
<1>8. Elements' = [Elements EXCEPT ![fs] = [data |-> d, next |-> index_array[Hash[d]]]]
  <2>1. collision_array' = [collision_array EXCEPT ![fs] =
            [name |-> d, pos |-> label.pos, next |-> index_array[Hash[d]]]]
    BY <1>1, <1>4 DEF PushFront, bucket
  <2>2. Elements' = [s \in Slots |-> [data |-> collision_array'[s].name,
                                      next |-> collision_array'[s].next]]
    BY DEF Elements
  <2>3. /\ collision_array'[fs].name = d /\ collision_array'[fs].next = index_array[Hash[d]]
        /\ \A s \in Slots : s # fs => collision_array'[s] = collision_array[s]
    BY <1>5, <2>1, ElementsType
  <2>. QED  BY <1>5, <2>2, <2>3 DEF Elements
<1>9. fs <= Capacity
  BY <1>5 DEF Slots
<1>10. UNCHANGED (pc = "aborted")
  BY <1>2
<1>. QED
  BY <1>1, <1>3, <1>4, <1>6, <1>7, <1>8, <1>9, <1>10 DEF Generic!hashmap_insert

(* The two ways of hashmap_pop, one after the other. *)
LEMMA PopFirst ==
  ASSUME NEW d, NEW k, Generic!hashmap_find(d) = k, k # 0, Generic!Stop(d) = 0,
         index_array' = [index_array EXCEPT ![Hash[d]] = Generic!Next_(k)],
         Elements' = [Elements EXCEPT ![k].next = first_free],
         first_free' = k, offset' = offset, pc # "aborted", pc' # "aborted"
  PROVE  Generic!hashmap_pop(d)
BY DEF Generic!hashmap_pop

LEMMA PopLater ==
  ASSUME NEW d, NEW k, NEW n, Generic!hashmap_find(d) = k, k # 0, Generic!Stop(d) = n, n # 0,
         Elements' = [[Elements EXCEPT ![k].next = first_free]
                         EXCEPT ![W(d)[n - 1]].next = Generic!Next_(k)],
         first_free' = k, index_array' = index_array, offset' = offset,
         pc # "aborted", pc' # "aborted"
  PROVE  Generic!hashmap_pop(d)
BY DEF Generic!hashmap_pop, W

(* What the label map writes through its idx_ptr is what hashmap.c writes. *)
LEMMA PopMaps ==
  ASSUME Inv, CursorWalks, PopUnlink
  PROVE  Generic!hashmap_pop(label.name)
<1>1. PICK d : d = label.name
  OBVIOUS
<1>2. /\ pc = "pop" /\ idx # 0 /\ Match /\ pc' = "idle" /\ first_free' = idx /\ offset' = offset
      /\ idx \in Slots
  BY DEF PopUnlink, Return, Inv, TypeOK, Slots
<1>3. /\ Generic!hashmap_find(d) = idx /\ d \in Names
      /\ \E n \in 0 .. Capacity : Generic!Stop(d) = n /\ CursorAt(n)
  BY <1>1, <1>2, CursorFinds DEF Operations
<1>4. PICK n \in 0 .. Capacity : Generic!Stop(d) = n /\ CursorAt(n)
  BY <1>3
<1>5. Generic!Next_(idx) = next(idx)
  BY <1>2, ElementsType
<1>6. /\ \A s \in Slots :
            Elements'[s] = [data |-> name(s),
                            next |-> IF s = idx THEN first_free
                                     ELSE IF s = prev THEN next(idx) ELSE next(s)]
      /\ Elements' = [s \in Slots |-> Elements'[s]]
  <2>1. Elements' = [s \in Slots |-> [data |-> collision_array'[s].name,
                                      next |-> collision_array'[s].next]]
    BY DEF Elements
  <2>2. \A s \in Slots :
            /\ collision_array'[s].name = name(s)
            /\ collision_array'[s].next = IF s = idx THEN first_free
                                          ELSE IF s = prev THEN next(idx) ELSE next(s)
    BY ElementsType DEF PopUnlink, name, next, Cells
  <2>. QED  BY <2>1, <2>2
<1> DEFINE freed == [Elements EXCEPT ![idx].next = first_free]
<1>7. freed = [s \in Slots |-> [data |-> name(s), next |-> IF s = idx THEN first_free ELSE next(s)]]
  <2>1. Elements = [s \in Slots |-> Elements[s]]
    BY DEF Elements
  <2>2. freed = [s \in Slots |-> IF s = idx THEN [Elements[idx] EXCEPT !.next = first_free]
                                 ELSE Elements[s]]
    BY <1>2, <2>1
  <2>3. [Elements[idx] EXCEPT !.next = first_free] = [data |-> name(idx), next |-> first_free]
    <3>1. Elements[idx] = [data |-> name(idx), next |-> next(idx)]
      BY <1>2, ElementsType
    <3>. QED  BY <3>1
  <2>. HIDE DEF freed
  <2>. QED  BY <2>2, <2>3, ElementsType
<1>8. pc # "aborted" /\ pc' # "aborted"
  BY <1>2
<1>9. PICK k : /\ k = idx /\ Generic!hashmap_find(d) = k /\ k # 0 /\ Generic!Stop(d) = n
                /\ first_free' = k /\ offset' = offset
  BY <1>2, <1>3, <1>4
<1>10. CASE n = 0
  <2>1. prev = 0 /\ 0 \notin Slots
    BY <1>4, <1>10 DEF CursorAt, Slots
  <2>2. Elements' = freed
    <3>. HIDE DEF freed
    <3>1. \A s \in Slots : s # prev
      BY <2>1
    <3>2. \A s \in Slots :
              Elements'[s] = [data |-> name(s), next |-> IF s = idx THEN first_free ELSE next(s)]
      BY <1>6, <3>1
    <3>. QED  BY <1>6, <1>7, <3>2
  <2>3. index_array' = [index_array EXCEPT ![Hash[d]] = Generic!Next_(idx)]
    BY <1>1, <1>5, <2>1 DEF PopUnlink, bucket, next
  <2>4. Elements' = [Elements EXCEPT ![k].next = first_free]
    BY <1>9, <2>2, Zenon
  <2>5. index_array' = [index_array EXCEPT ![Hash[d]] = Generic!Next_(k)]
    BY <1>9, <2>3, Zenon
  <2>. QED  BY <1>1, <1>8, <1>9, <1>10, <2>4, <2>5, PopFirst
<1>11. CASE n # 0
  <2>1. /\ prev = W(d)[n - 1] /\ prev # 0
    BY <1>1, <1>4, <1>11 DEF CursorAt
  <2>2. prev \in Slots /\ prev # idx
    <3>1. PICK home \in [Slots -> Lists], rank \in [Slots -> Nat] : Placed(home, rank)
      BY DEF Inv
    <3>2. prev \in Allocated /\ idx = next(prev)
      BY <1>2, <2>1, <3>1 DEF Placed, CursorPlaced, Operations
    <3>3. rank[idx] < rank[prev]
      BY <1>2, <3>1, <3>2 DEF Placed, LinksDescend
    <3>4. prev \in Slots /\ rank[prev] \in Nat
      BY <2>1 DEF Inv, TypeOK, Slots
    <3>. QED  BY <3>3, <3>4
  <2>3. Elements' = [freed EXCEPT ![prev].next = Generic!Next_(idx)]
    <3>1. [freed EXCEPT ![prev].next = Generic!Next_(idx)] =
              [s \in Slots |-> [data |-> name(s),
                                next |-> IF s = prev THEN next(idx)
                                         ELSE IF s = idx THEN first_free ELSE next(s)]]
      <4>. HIDE DEF freed
      <4>1. [freed EXCEPT ![prev].next = next(idx)] =
                [s \in Slots |-> IF s = prev THEN [freed[prev] EXCEPT !.next = next(idx)]
                                 ELSE freed[s]]
        BY <1>7, <2>2
      <4>2. freed[prev] = [data |-> name(prev), next |-> next(prev)]
        BY <1>7, <2>2
      <4>3. [freed[prev] EXCEPT !.next = next(idx)] = [data |-> name(prev), next |-> next(idx)]
        BY <4>2
      <4>4. \A s \in Slots :
                freed[s] = [data |-> name(s), next |-> IF s = idx THEN first_free ELSE next(s)]
        BY <1>7
      <4>5. \A s \in Slots :
                (IF s = prev THEN [freed[prev] EXCEPT !.next = next(idx)] ELSE freed[s]) =
                    [data |-> name(s), next |-> IF s = prev THEN next(idx)
                                                ELSE IF s = idx THEN first_free ELSE next(s)]
        BY <4>3, <4>4
      <4>. QED  BY <1>5, <4>1, <4>5
    <3>2. \A s \in Slots :
              Elements'[s] = [data |-> name(s),
                              next |-> IF s = prev THEN next(idx)
                                       ELSE IF s = idx THEN first_free ELSE next(s)]
      BY <1>6, <2>2
    <3>. HIDE DEF freed
    <3>. QED  BY <1>6, <3>1, <3>2
  <2>4. UNCHANGED index_array
    BY <2>1 DEF PopUnlink
  <2>5. Elements' = [[Elements EXCEPT ![k].next = first_free]
                         EXCEPT ![W(d)[n - 1]].next = Generic!Next_(k)]
    BY <1>9, <2>1, <2>3, Zenon
  <2>. QED  BY <1>1, <1>8, <1>9, <1>11, <2>4, <2>5, PopLater
<1>. QED  BY <1>10, <1>11

LEMMA StepMaps ==
  ASSUME Inv, CursorWalks, [Next]_vars
  PROVE  [Generic!Next]_(Generic!vars)
<1>1. ASSUME UNCHANGED table_vars, pc # "aborted", pc' # "aborted"
      PROVE  UNCHANGED Generic!vars
  BY <1>1 DEF table_vars, Generic!vars, Elements
<1>2. CASE UNCHANGED vars
  BY <1>2 DEF vars, table_vars, Generic!vars, Elements
<1>3. CASE InsertAbort
  <2>1. /\ pc = "insert" /\ idx # 0 /\ Match /\ pc' = "aborted"
        /\ UNCHANGED table_vars
    BY <1>3 DEF InsertAbort, Return
  <2>2. label.name \in Names /\ Generic!hashmap_find(label.name) = idx
    BY <2>1, CursorFinds DEF Operations
  <2>3. (pc = "aborted")' = TRUE /\ ~(pc = "aborted")
    BY <2>1
  <2>4. UNCHANGED <<index_array, Elements, offset, first_free>>
    BY <2>1 DEF table_vars, Elements
  <2>5. Generic!InsertAborts(label.name)
    BY <2>1, <2>2, <2>3, <2>4 DEF Generic!InsertAborts
  <2>. QED  BY <2>2, <2>3, <2>5 DEF Generic!Next
<1>4. CASE InsertReused \/ InsertFresh
  <2>1. pc = "insert"
    BY <1>4 DEF InsertReused, InsertFresh
  <2>. QED  BY <1>4, <2>1, InsertMaps, LabelName DEF Generic!Next
<1>5. CASE PopUnlink
  <2>1. pc = "pop"
    BY <1>5 DEF PopUnlink
  <2>. QED  BY <1>5, <2>1, PopMaps, LabelName DEF Generic!Next
<1>6. CASE \/ \E l \in Labels : CallFind(l) \/ CallInsert(l) \/ CallPop(l)
           \/ WalkStep \/ FindHit \/ FindMiss \/ PopMiss
  <2>1. UNCHANGED table_vars /\ pc # "aborted" /\ pc' # "aborted"
    BY <1>6 DEF CallFind, CallInsert, CallPop, Call, WalkStep, FindHit, FindMiss, PopMiss,
                Return, Operations
  <2>. QED  BY <1>1, <2>1
<1>. QED  BY <1>2, <1>3, <1>4, <1>5, <1>6 DEF Next, Run

(* Step for step the label map is the hash map it was written from, for every set of *)
(* names, every hash function and every capacity (parser.c:714-780;                   *)
(* hashmap.c:25-86).                                                                   *)
THEOREM HashMapImplemented == Spec => ImplementsHashMap
<1>1. Init => CursorWalks
  BY DEF Init, CursorWalks, Operations
<1>2. Inv /\ CursorWalks /\ [Next]_vars => (Inv /\ CursorWalks)'
  BY StepInv, CursorStep
<1>3. Inv /\ CursorWalks /\ [Next]_vars => [Generic!Next]_(Generic!vars)
  BY StepMaps
<1>. QED  BY <1>1, <1>2, <1>3, InitInv, InitMaps, PTL DEF Spec, ImplementsHashMap, Generic!Spec
===============================================================================
