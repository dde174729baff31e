--------------------------- MODULE RedisLRUProofs ---------------------------
(* Safety of the Redis_LRU shard for any number of threads, any keys, any  *)
(* capacity and any size of the eviction pool.                             *)
EXTENDS RedisLRUCache, FiniteSetTheorems, TLAPS

(* The seconds a prover has for a step. *)
USE SMTT(30), ZenonT(30)

(* A set of natural numbers that is not empty has a least element. *)
LEMMA LeastNat ==
  ASSUME NEW T \in SUBSET Nat, T # {}
  PROVE  \E m \in T : \A k \in T : m <= k
<1> DEFINE R == {ss \in Nat \X Nat : ss[1] < ss[2]}
<1>1. IsWellFoundedOn(R, Nat)
  BY NatLessThanWellFounded, Zenon DEF OpToRel
<1>2. PICK x \in T : \A y \in T : ~(<<y, x>> \in R)
  <2> HIDE DEF R
  <2> QED BY <1>1, WFMin, Zenon
<1>3. \A y \in T : ~(y < x)
  BY <1>2, Zenon
<1> QED
  BY <1>3

-----------------------------------------------------------------------------
(* What the program counters count.                                        *)

Counted == {"rs", "size", "count", "sample", "offer", "place", "evict"}

(* A thread that goes to l enters the sets of steps that have l. *)
LEMMA Entering ==
  ASSUME RedisAssumption, TypeOK, NEW t \in Threads, NEW l, goto(t, l), NEW A,
         l \in A, pc[t] \notin A
  PROVE  /\ In(A)' = In(A) \cup {t}
         /\ Cardinality(In(A)') = Cardinality(In(A)) + 1
         /\ Cardinality(In(A)) \in Nat
<1>1. In(A)' = In(A) \cup {t}
  BY DEF In, goto, TypeOK
<1>2. IsFiniteSet(In(A)) /\ t \notin In(A)
  BY FS_Subset DEF In, RedisAssumption
<1> QED
  BY <1>1, <1>2, FS_AddElement, FS_CardinalityType

(* It leaves those that do not. *)
LEMMA Leaving ==
  ASSUME RedisAssumption, TypeOK, NEW t \in Threads, NEW l, goto(t, l), NEW A,
         l \notin A, pc[t] \in A
  PROVE  /\ In(A)' = In(A) \ {t}
         /\ Cardinality(In(A)') = Cardinality(In(A)) - 1
         /\ Cardinality(In(A)) \in Nat
<1>1. In(A)' = In(A) \ {t}
  BY DEF In, goto, TypeOK
<1>2. IsFiniteSet(In(A)) /\ t \in In(A)
  BY FS_Subset DEF In, RedisAssumption
<1> QED
  BY <1>1, <1>2, FS_RemoveElement, FS_CardinalityType

(* And the others do not change. *)
LEMMA Staying ==
  ASSUME TypeOK, NEW t \in Threads, NEW l, goto(t, l), NEW A, l \in A <=> pc[t] \in A
  PROVE  In(A)' = In(A)
  BY DEF In, goto, TypeOK

(* A thread that counts nothing on its way keeps the counts. *)
LEMMA CountsKept ==
  ASSUME TypeOK, NEW t \in Threads, NEW l, goto(t, l), ElementsCounted, CountsPending,
         elements' = elements, s' = s,
         l \in Counted <=> pc[t] \in Counted, l \in {"count"} <=> pc[t] \in {"count"}
  PROVE  ElementsCounted' /\ CountsPending'
<1>1. In(Counted)' = In(Counted) /\ In({"count"})' = In({"count"})
  BY Staying
<1> QED
  BY ONLY <1>1, ElementsCounted, CountsPending, elements' = elements, s' = s, SMTT(30)
     DEF ElementsCounted, CountsPending, Counted

(* So does one that registers nothing. *)
LEMMA RegisteredKept ==
  ASSUME TypeOK, NEW t \in Threads, NEW l, goto(t, l), ElementsRegistered,
         elements' = elements, rs' = rs, key' = key,
         l \in {"rs"} <=> pc[t] \in {"rs"}
  PROVE  ElementsRegistered'
<1>1. In({"rs"})' = In({"rs"})
  BY Staying
<1> QED
  BY ONLY <1>1, ElementsRegistered, elements' = elements, rs' = rs, key' = key, SMTT(30)
     DEF ElementsRegistered

(* However many threads are in some of the steps, they can be counted. *)
LEMMA Countable ==
  ASSUME RedisAssumption, NEW A
  PROVE  /\ IsFiniteSet(In(A)) /\ Cardinality(In(A)) \in Nat
         /\ Cardinality(In(A)) <= Cardinality(Threads) /\ Cardinality(Threads) \in Nat
         /\ Cardinality(Threads) > 0
  BY FS_Subset, FS_CardinalityType, FS_EmptySet DEF In, RedisAssumption

(* An element that no insert has still to register can be sampled: there   *)
(* are more elements than inserts in front of the set.                     *)
LEMMA SomethingToSample ==
  ASSUME RedisAssumption, TypeOK, ElementsCounted, ElementsRegistered,
         NEW v \in Threads, pc[v] = "sample"
  PROVE  rs # {}
<1> DEFINE W == In({"rs"})
           K == {key[t] : t \in W}
           f == [t \in W |-> key[t]]
<1>1. IsFiniteSet(W) /\ Cardinality(W) \in Nat /\ IsFiniteSet(In(Counted))
  BY Countable
<1>2. Cardinality(W \cup {v}) = Cardinality(W) + 1 /\ IsFiniteSet(W \cup {v})
  BY <1>1, FS_AddElement DEF In
<1>3. Cardinality(W \cup {v}) <= Cardinality(In(Counted))
  <2>1. W \cup {v} \subseteq In(Counted)
    BY DEF In, Counted
  <2> QED
    BY <1>1, <2>1, FS_Subset
<1>4. IsFiniteSet(K) /\ Cardinality(K) <= Cardinality(W)
  <2>1. f \in Surjection(W, K)
    BY DEF Surjection
  <2> QED
    BY <1>1, <2>1, FS_Surjection
<1>5. Cardinality(elements) > Cardinality(K)
  BY <1>1, <1>2, <1>3, <1>4, Countable, FS_CardinalityType DEF TypeOK, ElementsCounted, Counted
<1>6. ~(elements \subseteq K)
  BY <1>4, <1>5, FS_Subset, FS_CardinalityType DEF ElementsCounted
<1> QED
  BY <1>6 DEF ElementsRegistered

-----------------------------------------------------------------------------
(* The eviction pool.                                                      *)

PoolTypes ==
  EvictionPool \in [Slots -> Slots] /\ entry \in [Slots -> Entry]

(* What a slot holds is an entry with an idle time. *)
LEMMA IdleTimes ==
  ASSUME RedisAssumption, PoolTypes
  PROVE  /\ \A o \in Entry : o.idle \in Nat
         /\ \A i \in Slots : EvictionPool[i] \in Nat /\ at(i).idle \in Nat
<1>1. \A o \in Entry : o.idle \in Nat
  BY DEF Entry, RedisAssumption
<1>2. \A i \in Slots : EvictionPool[i] \in Slots /\ at(i) \in Entry
  BY DEF at, PoolTypes
<1> QED
  BY <1>1, <1>2 DEF Slots

(* The loop of evictionPoolPopulate always ends at a position, and it is   *)
(* the one that Position describes.                                        *)
LEMMA PositionIsFound ==
  ASSUME RedisAssumption, PoolTypes, NEW idle \in Nat
  PROVE  /\ Position(idle) \in 1..(EVICTION_POOL_SIZE + 1)
         /\ Position(idle) \in Slots =>
              at(Position(idle)).key = NoKey \/ at(Position(idle)).idle >= idle
         /\ \A i \in 1..(Position(idle) - 1) : at(i).key # NoKey /\ at(i).idle < idle
<1> DEFINE Stops(j) == j \in Slots => at(j).key = NoKey \/ at(j).idle >= idle
           T == {j \in 1..(EVICTION_POOL_SIZE + 1) : Stops(j)}
<1>1. EVICTION_POOL_SIZE + 1 \in T
  BY DEF Slots, RedisAssumption
<1>2. PICK m \in T : \A k \in T : m <= k
  <2>1. T \subseteq Nat /\ T # {}
    BY <1>1
  <2> HIDE DEF T
  <2> QED
    BY <2>1, LeastNat
<1>3. \A i \in 1..(m - 1) : at(i).key # NoKey /\ at(i).idle < idle
  <2> SUFFICES ASSUME NEW i \in 1..(m - 1)
               PROVE  at(i).key # NoKey /\ at(i).idle < idle
    OBVIOUS
  <2>1. i \in Slots /\ ~Stops(i)
    BY <1>2 DEF Slots, RedisAssumption
  <2>2. at(i).idle \in Nat
    BY <2>1, IdleTimes
  <2> QED
    BY <2>1, <2>2
<1> HIDE DEF T
<1>4. \E j \in 1..(EVICTION_POOL_SIZE + 1) :
        Stops(j) /\ \A i \in 1..(j - 1) : at(i).key # NoKey /\ at(i).idle < idle
  BY <1>2, <1>3 DEF T
<1> QED
  BY <1>4 DEF Position

PoolInOrder == PointersInOrder /\ SortedWithoutGaps

(* Emptying the entry of a slot behind which every slot is empty leaves    *)
(* the pool in order, although other slots may share that entry.           *)
LEMMA EmptyingLast ==
  ASSUME RedisAssumption, PoolTypes, PoolInOrder, NEW i \in Slots,
         \A j \in Slots : j > i => at(j).key = NoKey,
         EvictionPool' = EvictionPool,
         entry' = [entry EXCEPT ![EvictionPool[i]] = Empty]
  PROVE  /\ PoolTypes' /\ PoolInOrder'
         /\ \A j \in Slots : j >= i => at(j)'.key = NoKey
<1>1. \A j \in Slots : at(j)' = IF EvictionPool[j] = EvictionPool[i] THEN Empty ELSE at(j)
  BY DEF at, PoolTypes
<1>2. PoolTypes'
  BY DEF PoolTypes, Entry, Empty, RedisAssumption
<1>3. PointersInOrder'
  BY DEF PoolInOrder, PointersInOrder
<1>4. \A j \in Slots : j >= i => at(j)'.key = NoKey
  BY <1>1 DEF Empty, Slots, RedisAssumption
<1>5. SortedWithoutGaps'
  <2> SUFFICES ASSUME NEW a \in Slots, NEW b \in Slots, a <= b, at(b)'.key # NoKey
               PROVE  at(a)'.key # NoKey /\ at(a)'.idle <= at(b)'.idle
    BY DEF SortedWithoutGaps
  <2>1. b < i /\ EvictionPool[b] # EvictionPool[i]
    BY <1>1, <1>4 DEF Slots, RedisAssumption, Empty
  <2>2. EvictionPool[a] # EvictionPool[i]
    <3>1. EvictionPool[a] <= EvictionPool[b] /\ EvictionPool[b] <= EvictionPool[i]
      BY <2>1 DEF PoolInOrder, PointersInOrder, Slots, RedisAssumption
    <3> QED
      BY <2>1, <3>1 DEF PoolTypes, Slots, RedisAssumption
  <2> QED
    BY <1>1, <2>1, <2>2 DEF PoolInOrder, SortedWithoutGaps
<1> QED
  BY <1>2, <1>3, <1>4, <1>5 DEF PoolInOrder

(* An offer put into the first empty slot. *)
LEMMA PutIntoEmpty ==
  ASSUME RedisAssumption, PoolTypes, PoolInOrder, NEW o \in Entry, o.key # NoKey,
         NEW j \in Slots, at(j).key = NoKey,
         \A i \in 1..(j - 1) : at(i).key # NoKey /\ at(i).idle < o.idle,
         EvictionPool' = EvictionPool, entry' = [entry EXCEPT ![EvictionPool[j]] = o]
  PROVE  PoolTypes' /\ PoolInOrder'
<1>1. \A i \in Slots : at(i)' = IF EvictionPool[i] = EvictionPool[j] THEN o ELSE at(i)
  BY DEF at, PoolTypes
<1>2. PoolTypes'
  BY DEF PoolTypes
<1>3. PointersInOrder'
  BY DEF PoolInOrder, PointersInOrder
<1>4. \A i \in Slots : /\ EvictionPool[i] = EvictionPool[j] => i >= j
                       /\ at(i).key # NoKey => i < j
  BY DEF at, PoolInOrder, SortedWithoutGaps, Slots, RedisAssumption
<1>5. SortedWithoutGaps'
  <2> SUFFICES ASSUME NEW a \in Slots, NEW b \in Slots, a <= b, at(b)'.key # NoKey
               PROVE  at(a)'.key # NoKey /\ at(a)'.idle <= at(b)'.idle
    BY DEF SortedWithoutGaps
  <2>0. o.idle \in Nat /\ at(a).idle \in Nat /\ EvictionPool[a] \in Nat
        /\ EvictionPool[b] \in Nat /\ EvictionPool[j] \in Nat
    BY IdleTimes
  <2>1. CASE EvictionPool[b] = EvictionPool[j]
    <3>1. CASE a < j
      <4>1. at(a).key # NoKey /\ at(a).idle < o.idle
        BY <3>1 DEF Slots, RedisAssumption
      <4> QED
        BY <2>0, <2>1, <3>1, <4>1, <1>1, <1>4
    <3>2. CASE a >= j
      <4>1. EvictionPool[j] <= EvictionPool[a] /\ EvictionPool[a] <= EvictionPool[b]
        BY <3>2 DEF PoolInOrder, PointersInOrder
      <4> QED
        BY <4>1, <2>0, <2>1, <1>1
    <3> QED
      BY <3>1, <3>2 DEF Slots, RedisAssumption
  <2>2. CASE EvictionPool[b] # EvictionPool[j]
    <3>1. b < j /\ a < j
      BY <1>1, <1>4, <2>2 DEF Slots, RedisAssumption
    <3>2. EvictionPool[a] # EvictionPool[j]
      BY <1>4, <3>1 DEF Slots, RedisAssumption
    <3> QED
      BY <1>1, <2>2, <3>2 DEF PoolInOrder, SortedWithoutGaps
  <2> QED
    BY <2>1, <2>2
<1> QED
  BY <1>2, <1>3, <1>5 DEF PoolInOrder

(* An offer put in front of more idle ones, which move right: the slots    *)
(* that share the entry of the slot all stand behind it.                   *)
LEMMA PutMovedRight ==
  ASSUME RedisAssumption, PoolTypes, PoolInOrder, NEW o \in Entry, o.key # NoKey,
         NEW j \in Slots, at(j).key # NoKey, at(j).idle >= o.idle,
         \A i \in 1..(j - 1) : at(i).key # NoKey /\ at(i).idle < o.idle,
         EvictionPool' = MovedRight(j), entry' = [entry EXCEPT ![MovedRight(j)[j]] = o]
  PROVE  PoolTypes' /\ PoolInOrder'
<1> DEFINE from(i) == IF i > j THEN i - 1 ELSE i
<1>1. \A i \in Slots : /\ from(i) \in Slots
                       /\ EvictionPool'[i] = EvictionPool[from(i)]
                       /\ i >= j => from(i) >= j
                       /\ i < j => from(i) = i
  BY DEF MovedRight, Slots, RedisAssumption
<1>2. entry' = [entry EXCEPT ![EvictionPool[j]] = o]
  <2>1. MovedRight(j)[j] = EvictionPool[j]
    BY DEF MovedRight, Slots
  <2> QED
    BY <2>1
<1>3. \A i \in Slots :
        at(i)' = IF EvictionPool[from(i)] = EvictionPool[j] THEN o ELSE at(from(i))
  BY <1>1, <1>2 DEF at, PoolTypes
<1>4. \A a, b \in Slots : a <= b => from(a) <= from(b)
  BY DEF Slots
<1>5. PoolTypes'
  BY <1>1, <1>2 DEF PoolTypes, MovedRight
<1>6. PointersInOrder'
  <2> HIDE DEF from
  <2> QED
    BY <1>1, <1>4 DEF PoolInOrder, PointersInOrder
<1>7. SortedWithoutGaps'
  <2> HIDE DEF from
  <2> SUFFICES ASSUME NEW a \in Slots, NEW b \in Slots, a <= b, at(b)'.key # NoKey
               PROVE  at(a)'.key # NoKey /\ at(a)'.idle <= at(b)'.idle
    BY DEF SortedWithoutGaps
  <2>0. /\ o.idle \in Nat /\ at(j).idle \in Nat
        /\ \A i \in Slots : at(i).idle \in Nat /\ EvictionPool[i] \in Nat
        /\ from(a) \in Slots /\ from(b) \in Slots /\ from(a) <= from(b)
    BY IdleTimes, <1>1, <1>4
  <2>1. \A i \in Slots : i < j => at(i).key # NoKey /\ at(i).idle < o.idle
                              /\ EvictionPool[i] # EvictionPool[j]
    <3> SUFFICES ASSUME NEW i \in Slots, i < j
                 PROVE  at(i).key # NoKey /\ at(i).idle < o.idle
                        /\ EvictionPool[i] # EvictionPool[j]
      OBVIOUS
    <3>1. at(i).key # NoKey /\ at(i).idle < o.idle
      BY DEF Slots, RedisAssumption
    <3> QED
      BY <3>1, <2>0 DEF at
  <2>2. \A i \in Slots : i >= j /\ at(i).key # NoKey => o.idle <= at(i).idle
    BY <2>0 DEF PoolInOrder, SortedWithoutGaps
  <2>3. CASE a < j
    <3>1. from(a) = a
      BY <2>3, <1>1
    <3>2. at(a)' = at(a) /\ at(a).key # NoKey /\ at(a).idle < o.idle
      BY <2>1, <2>3, <3>1, <1>3
    <3>3. CASE EvictionPool[from(b)] = EvictionPool[j]
      BY <3>2, <3>3, <1>3, <2>0
    <3>4. CASE EvictionPool[from(b)] # EvictionPool[j]
      BY <3>1, <3>2, <3>4, <1>3, <2>0 DEF PoolInOrder, SortedWithoutGaps
    <3> QED
      BY <3>3, <3>4
  <2>4. CASE a >= j
    <3>1. from(a) >= j /\ from(b) >= j
      BY <2>4, <1>1 DEF Slots, RedisAssumption
    <3>2. EvictionPool[j] <= EvictionPool[from(a)]
          /\ EvictionPool[from(a)] <= EvictionPool[from(b)]
      BY <2>0, <3>1 DEF PoolInOrder, PointersInOrder
    <3>3. CASE EvictionPool[from(b)] = EvictionPool[j]
      BY <2>0, <3>2, <3>3, <1>3
    <3>4. CASE EvictionPool[from(b)] # EvictionPool[j] /\ EvictionPool[from(a)] = EvictionPool[j]
      BY <2>0, <2>2, <3>1, <3>4, <1>3
    <3>5. CASE EvictionPool[from(b)] # EvictionPool[j] /\ EvictionPool[from(a)] # EvictionPool[j]
      BY <2>0, <3>5, <1>3 DEF PoolInOrder, SortedWithoutGaps
    <3> QED
      BY <3>3, <3>4, <3>5
  <2> QED
    BY <2>3, <2>4 DEF Slots, RedisAssumption
<1> QED
  BY <1>5, <1>6, <1>7 DEF PoolInOrder

(* An offer put into a full pool behind less idle ones, which move left    *)
(* and push the first one out: the slots that share the entry of the slot  *)
(* all stand in front of it.                                               *)
LEMMA PutMovedLeft ==
  ASSUME RedisAssumption, PoolTypes, PoolInOrder, NEW o \in Entry, o.key # NoKey,
         PoolIsFull, NEW j \in Slots,
         j + 1 \in Slots => at(j + 1).idle >= o.idle,
         \A i \in 1..j : at(i).key # NoKey /\ at(i).idle < o.idle,
         EvictionPool' = MovedLeft(j), entry' = [entry EXCEPT ![MovedLeft(j)[j]] = o]
  PROVE  PoolTypes' /\ PoolInOrder'
<1> DEFINE from(i) == IF i < j THEN i + 1 ELSE i
<1>1. \A i \in Slots : /\ from(i) \in Slots
                       /\ EvictionPool'[i] = EvictionPool[from(i)]
                       /\ i <= j => from(i) <= j
                       /\ i > j => from(i) = i
  BY DEF MovedLeft, Slots, RedisAssumption
<1>2. entry' = [entry EXCEPT ![EvictionPool[j]] = o]
  <2>1. MovedLeft(j)[j] = EvictionPool[j]
    BY DEF MovedLeft, Slots
  <2> QED
    BY <2>1
<1>3. \A i \in Slots :
        at(i)' = IF EvictionPool[from(i)] = EvictionPool[j] THEN o ELSE at(from(i))
  BY <1>1, <1>2 DEF at, PoolTypes
<1>4. \A a, b \in Slots : a <= b => from(a) <= from(b)
  BY DEF Slots
<1>5. PoolTypes'
  BY <1>1, <1>2 DEF PoolTypes, MovedLeft
<1>6. PointersInOrder'
  <2> HIDE DEF from
  <2> QED
    BY <1>1, <1>4 DEF PoolInOrder, PointersInOrder
<1>7. SortedWithoutGaps'
  <2> HIDE DEF from
  <2> SUFFICES ASSUME NEW a \in Slots, NEW b \in Slots, a <= b
               PROVE  at(a)'.key # NoKey /\ at(a)'.idle <= at(b)'.idle
    BY DEF SortedWithoutGaps
  <2>0. /\ o.idle \in Nat
        /\ \A i \in Slots : at(i).idle \in Nat /\ EvictionPool[i] \in Nat
        /\ from(a) \in Slots /\ from(b) \in Slots /\ from(a) <= from(b)
    BY IdleTimes, <1>1, <1>4
  <2>1. \A i \in Slots : at(i).key # NoKey
    BY DEF PoolIsFull, PoolInOrder, SortedWithoutGaps, Slots, RedisAssumption
  <2>2. \A i \in Slots : i > j => o.idle <= at(i).idle /\ EvictionPool[i] # EvictionPool[j]
    <3> SUFFICES ASSUME NEW i \in Slots, i > j
                 PROVE  o.idle <= at(i).idle /\ EvictionPool[i] # EvictionPool[j]
      OBVIOUS
    <3>1. j + 1 \in Slots /\ j + 1 <= i
      BY DEF Slots, RedisAssumption
    <3>2. at(j + 1).idle <= at(i).idle
      BY <2>1, <3>1 DEF PoolInOrder, SortedWithoutGaps
    <3>3. at(j).idle < o.idle
      BY DEF Slots, RedisAssumption
    <3> QED
      BY <2>0, <3>1, <3>2, <3>3 DEF at
  <2>3. \A i \in Slots : i <= j => at(i).idle < o.idle
    BY DEF Slots, RedisAssumption
  <2>4. at(a)'.key # NoKey
    BY <2>0, <2>1, <1>3
  <2>5. CASE b > j
    <3>1. from(b) = b /\ at(b)' = at(b) /\ o.idle <= at(b).idle
      BY <2>2, <2>5, <1>1, <1>3
    <3>2. CASE EvictionPool[from(a)] = EvictionPool[j]
      BY <3>1, <3>2, <1>3
    <3>3. CASE EvictionPool[from(a)] # EvictionPool[j]
      BY <3>1, <3>3, <1>3, <2>0, <2>1 DEF PoolInOrder, SortedWithoutGaps
    <3> QED
      BY <3>2, <3>3
  <2>6. CASE b <= j
    <3>1. from(b) <= j /\ from(a) <= j
      BY <2>6, <1>1 DEF Slots, RedisAssumption
    <3>2. EvictionPool[from(a)] <= EvictionPool[from(b)]
          /\ EvictionPool[from(b)] <= EvictionPool[j]
      BY <2>0, <3>1 DEF PoolInOrder, PointersInOrder
    <3>3. CASE EvictionPool[from(a)] = EvictionPool[j]
      BY <2>0, <3>2, <3>3, <1>3
    <3>4. CASE EvictionPool[from(a)] # EvictionPool[j] /\ EvictionPool[from(b)] = EvictionPool[j]
      <4>1. at(a)' = at(from(a)) /\ at(b)' = o
        BY <3>4, <1>3
      <4>2. at(from(a)).idle < o.idle
        BY <2>0, <2>3, <3>1
      <4> QED
        BY <2>0, <2>4, <4>1, <4>2
    <3>5. CASE EvictionPool[from(a)] # EvictionPool[j] /\ EvictionPool[from(b)] # EvictionPool[j]
      BY <2>0, <2>1, <3>5, <1>3 DEF PoolInOrder, SortedWithoutGaps
    <3> QED
      BY <3>3, <3>4, <3>5
  <2> QED
    BY <2>4, <2>5, <2>6 DEF Slots, RedisAssumption
<1> QED
  BY <1>5, <1>6, <1>7 DEF PoolInOrder

-----------------------------------------------------------------------------
(* Every step keeps the inductive invariant.                               *)

Inv == TypeOK /\ IInv

(* The constructor: nothing is in the map, the set or the pool. *)
LEMMA InitInv == ASSUME RedisAssumption, Init PROVE Inv
<1> USE DEF Init
<1>1. TypeOK
  BY DEF TypeOK, Entry, Empty, Slots, RedisAssumption
<1>2. In({"count"}) = {} /\ In(Counted) = {}
  BY DEF In, Counted
<1>3. ElementsCounted /\ CountsPending
  BY <1>2, FS_EmptySet, Countable DEF ElementsCounted, CountsPending, Counted, RedisAssumption
<1>4. ElementsRegistered /\ LockHolder /\ CallsHoldTheirKeys /\ RemovesOnlyErased
  BY DEF ElementsRegistered, LockHolder, CallsHoldTheirKeys, RemovesOnlyErased, RedisAssumption
<1>5. PointersInOrder /\ SortedWithoutGaps /\ EmptiedFromTheEnd
  BY DEF PointersInOrder, SortedWithoutGaps, EmptiedFromTheEnd, at, Empty, Slots
<1> QED
  BY <1>1, <1>3, <1>4, <1>5 DEF Inv, IInv

(* The map has one element more, and an insert that is to register it. *)
LEMMA InsertInv ==
  ASSUME RedisAssumption, Inv, NEW t \in Threads, NEW k \in Keys, Insert(t, k)
  PROVE  Inv'
<1> USE DEF Inv, IInv, Insert
<1>1. TypeOK'
  BY DEF TypeOK, goto, pool
<1>2. ElementsCounted'
  <2>1. /\ IsFiniteSet(elements')
        /\ Cardinality(elements') = Cardinality(elements) + 1
    BY FS_AddElement DEF ElementsCounted
  <2>2. /\ Cardinality(In(Counted)') = Cardinality(In(Counted)) + 1
        /\ Cardinality(In(Counted)) \in Nat
    BY Entering DEF Counted
  <2> QED
    BY <2>1, <2>2 DEF ElementsCounted, Counted, TypeOK
<1>3. CountsPending'
  BY Staying DEF CountsPending
<1>4. ElementsRegistered'
  BY DEF ElementsRegistered, In, goto, TypeOK
<1>5. LockHolder' /\ CallsHoldTheirKeys'
  BY DEF LockHolder, CallsHoldTheirKeys, goto, TypeOK
<1>6. RemovesOnlyErased'
  BY DEF RemovesOnlyErased, goto, pool, at, TypeOK
<1>7. PointersInOrder' /\ SortedWithoutGaps' /\ EmptiedFromTheEnd'
  BY DEF PointersInOrder, SortedWithoutGaps, EmptiedFromTheEnd, at, pool, goto, TypeOK
<1> QED
  BY <1>1, <1>2, <1>3, <1>4, <1>5, <1>6, <1>7

(* The key is registered; nobody is between erase and remove. *)
LEMMA InsertRsInv ==
  ASSUME RedisAssumption, Inv, NEW t \in Threads, InsertRs(t)
  PROVE  Inv'
<1> USE DEF Inv, IInv, InsertRs
<1>1. TypeOK'
  BY DEF TypeOK, goto, pool, CallsHoldTheirKeys
<1>2. ElementsCounted'
  BY Staying DEF ElementsCounted
<1>3. CountsPending'
  BY Staying DEF CountsPending
<1>4. ElementsRegistered'
  BY DEF ElementsRegistered, In, goto, TypeOK
<1>5. LockHolder' /\ CallsHoldTheirKeys'
  BY DEF LockHolder, CallsHoldTheirKeys, goto, TypeOK
<1>6. RemovesOnlyErased'
  BY DEF RemovesOnlyErased, LockHolder, goto, pool, at, TypeOK, RedisAssumption
<1>7. PointersInOrder' /\ SortedWithoutGaps' /\ EmptiedFromTheEnd'
  BY DEF PointersInOrder, SortedWithoutGaps, EmptiedFromTheEnd, at, pool, goto, TypeOK
<1> QED
  BY <1>1, <1>2, <1>3, <1>4, <1>5, <1>6, <1>7

(* A thread that reads s < n joins those that will count. *)
LEMMA InsertSizeInv ==
  ASSUME RedisAssumption, Inv, NEW t \in Threads, InsertSize(t)
  PROVE  Inv'
<1> USE DEF Inv, IInv, InsertSize
<1>1. TypeOK'
  BY DEF TypeOK, goto, pool
<1>2. ElementsCounted'
  BY Staying DEF ElementsCounted
<1>3. CountsPending'
  <2>1. CASE HasRoom
    <3>1. Cardinality(In({"count"})') = Cardinality(In({"count"})) + 1
      BY <2>1, Entering
    <3>2. Cardinality(In({"count"})') <= Cardinality(Threads)
      BY FS_Subset DEF In, RedisAssumption
    <3> QED
      BY <2>1, <3>1, <3>2, Countable DEF CountsPending, HasRoom, TypeOK, RedisAssumption
  <2>2. CASE ~HasRoom
    BY <2>2, Staying DEF CountsPending
  <2> QED
    BY <2>1, <2>2
<1>4. ElementsRegistered'
  BY Staying DEF ElementsRegistered
<1>5. LockHolder' /\ CallsHoldTheirKeys'
  BY DEF LockHolder, CallsHoldTheirKeys, goto, TypeOK
<1>6. RemovesOnlyErased'
  BY DEF RemovesOnlyErased, goto, pool, at, TypeOK
<1>7. PointersInOrder' /\ SortedWithoutGaps' /\ EmptiedFromTheEnd'
  BY DEF PointersInOrder, SortedWithoutGaps, EmptiedFromTheEnd, at, pool, goto, TypeOK
<1> QED
  BY <1>1, <1>2, <1>3, <1>4, <1>5, <1>6, <1>7

(* The element is counted. *)
LEMMA InsertCountInv ==
  ASSUME RedisAssumption, Inv, NEW t \in Threads, InsertCount(t)
  PROVE  Inv'
<1> USE DEF Inv, IInv, InsertCount
<1>1. TypeOK'
  BY DEF TypeOK, goto, pool
<1>2. ElementsCounted'
  <2>1. /\ Cardinality(In(Counted)') = Cardinality(In(Counted)) - 1
        /\ Cardinality(In(Counted)) \in Nat
    BY Leaving DEF Counted
  <2> QED
    BY <2>1 DEF ElementsCounted, Counted, TypeOK
<1>3. CountsPending'
  <2>1. /\ Cardinality(In({"count"})') = Cardinality(In({"count"})) - 1
        /\ Cardinality(In({"count"})) \in Nat
    BY Leaving
  <2> QED
    BY <2>1, Countable DEF CountsPending, TypeOK, RedisAssumption
<1>4. ElementsRegistered'
  BY DEF ElementsRegistered, In, goto, TypeOK
<1>5. LockHolder' /\ CallsHoldTheirKeys'
  BY DEF LockHolder, CallsHoldTheirKeys, goto, TypeOK
<1>6. RemovesOnlyErased'
  BY DEF RemovesOnlyErased, goto, pool, at, TypeOK
<1>7. PointersInOrder' /\ SortedWithoutGaps' /\ EmptiedFromTheEnd'
  BY DEF PointersInOrder, SortedWithoutGaps, EmptiedFromTheEnd, at, pool, goto, TypeOK
<1> QED
  BY <1>1, <1>2, <1>3, <1>4, <1>5, <1>6, <1>7

(* Keys are drawn. *)
LEMMA SampleInv ==
  ASSUME RedisAssumption, Inv, NEW t \in Threads, Sample(t)
  PROVE  Inv'
<1> USE DEF Inv, IInv, Sample
<1>1. TypeOK'
  BY DEF TypeOK, goto, pool
<1>2. ElementsCounted'
  BY Staying DEF ElementsCounted
<1>3. CountsPending'
  BY Staying DEF CountsPending
<1>4. ElementsRegistered'
  BY Staying DEF ElementsRegistered
<1>5. LockHolder' /\ CallsHoldTheirKeys'
  BY DEF LockHolder, CallsHoldTheirKeys, goto, TypeOK
<1>6. RemovesOnlyErased'
  BY DEF RemovesOnlyErased, goto, pool, at, TypeOK
<1>7. PointersInOrder' /\ SortedWithoutGaps' /\ EmptiedFromTheEnd'
  BY DEF PointersInOrder, SortedWithoutGaps, EmptiedFromTheEnd, at, pool, goto, TypeOK
<1> QED
  BY <1>1, <1>2, <1>3, <1>4, <1>5, <1>6, <1>7

(* A sampled key that is still in the map becomes the offer. *)
LEMMA OfferInv ==
  ASSUME RedisAssumption, Inv, NEW t \in Threads, Offer(t)
  PROVE  Inv'
<1> USE DEF Inv, IInv, Offer
<1>0. PICK k \in samples[t], idle \in 0..MaxIdle :
        /\ samples' = [samples EXCEPT ![t] = @ \ {k}]
        /\ IF k \in elements /\ idle # 0
             THEN /\ offer' = [offer EXCEPT ![t] = [key |-> k, idle |-> idle]]
                  /\ goto(t, "place")
             ELSE UNCHANGED <<offer, pc>>
  BY Zenon
<1>a. \/ /\ goto(t, "place")
         /\ \E e \in Entry : e.key \in Keys /\ offer' = [offer EXCEPT ![t] = e]
      \/ UNCHANGED <<offer, pc>>
  <2>1. k \in Keys
    BY <1>0 DEF TypeOK
  <2>2. [key |-> k, idle |-> idle] \in Entry
    BY <2>1, <1>0 DEF Entry
  <2> QED
    BY <1>0, <2>1, <2>2, Zenon
<1>b. /\ In(Counted)' = In(Counted) /\ In({"count"})' = In({"count"})
      /\ In({"rs"})' = In({"rs"})
  <2>1. CASE goto(t, "place")
    BY <2>1, Staying DEF Counted
  <2>2. CASE UNCHANGED pc
    BY <2>2 DEF In
  <2> QED
    BY <1>a, <2>1, <2>2
<1>1. TypeOK'
  <2>1. samples' \in [Threads -> SUBSET Keys]
    BY <1>0 DEF TypeOK
  <2> QED
    BY <1>a, <2>1 DEF TypeOK, goto, pool
<1>2. ElementsCounted'
  BY <1>b DEF ElementsCounted, Counted
<1>3. CountsPending'
  BY <1>b DEF CountsPending
<1>4. ElementsRegistered'
  BY <1>b DEF ElementsRegistered
<1>5. LockHolder' /\ CallsHoldTheirKeys'
  BY <1>a DEF LockHolder, CallsHoldTheirKeys, goto, TypeOK
<1>6. RemovesOnlyErased'
  BY <1>a DEF RemovesOnlyErased, goto, pool, at, TypeOK
<1>7. PointersInOrder' /\ SortedWithoutGaps' /\ EmptiedFromTheEnd'
  BY <1>a DEF PointersInOrder, SortedWithoutGaps, EmptiedFromTheEnd, at, pool, goto, TypeOK
<1> QED
  BY <1>1, <1>2, <1>3, <1>4, <1>5, <1>6, <1>7

(* performEvictions takes redis_lock and starts at the last slot. *)
LEMMA EvictInv ==
  ASSUME RedisAssumption, Inv, NEW t \in Threads, Evict(t)
  PROVE  Inv'
<1> USE DEF Inv, IInv, Evict
<1>1. TypeOK'
  BY DEF TypeOK, goto, pool, RedisAssumption
<1>2. ElementsCounted'
  BY Staying DEF ElementsCounted
<1>3. CountsPending'
  BY Staying DEF CountsPending
<1>4. ElementsRegistered'
  BY Staying DEF ElementsRegistered
<1>5. LockHolder' /\ CallsHoldTheirKeys'
  BY DEF LockHolder, CallsHoldTheirKeys, goto, TypeOK, RedisAssumption
<1>6. RemovesOnlyErased'
  BY DEF RemovesOnlyErased, goto, pool, at, TypeOK
<1>7. PointersInOrder' /\ SortedWithoutGaps' /\ EmptiedFromTheEnd'
  <2>1. EvictionPool' = EvictionPool /\ entry' = entry /\ \A i : at(i)' = at(i)
    BY Zenon DEF pool, at
  <2>2. PointersInOrder' /\ SortedWithoutGaps'
    BY <2>1, Zenon DEF PointersInOrder, SortedWithoutGaps
  <2>3. /\ slot'[t] = EVICTION_POOL_SIZE
        /\ \A u \in Threads : u # t => pc'[u] = pc[u] /\ slot'[u] = slot[u]
    BY Zenon DEF goto, TypeOK
  <2>4. \A i \in Slots : ~(i > EVICTION_POOL_SIZE)
    BY DEF Slots, RedisAssumption
  <2>5. EmptiedFromTheEnd'
    BY <2>1, <2>3, <2>4, Zenon DEF EmptiedFromTheEnd
  <2> QED
    BY <2>2, <2>5, Zenon
<1> QED
  BY <1>1, <1>2, <1>3, <1>4, <1>5, <1>6, <1>7

(* No candidate was left; redis_lock is released. *)
LEMMA SampleAgainInv ==
  ASSUME RedisAssumption, Inv, NEW t \in Threads, SampleAgain(t)
  PROVE  Inv'
<1> USE DEF Inv, IInv, SampleAgain
<1>1. TypeOK'
  BY DEF TypeOK, goto, pool
<1>2. ElementsCounted'
  BY Staying DEF ElementsCounted
<1>3. CountsPending'
  BY Staying DEF CountsPending
<1>4. ElementsRegistered'
  BY Staying DEF ElementsRegistered
<1>5. LockHolder' /\ CallsHoldTheirKeys'
  BY DEF LockHolder, CallsHoldTheirKeys, goto, TypeOK, RedisAssumption
<1>6. RemovesOnlyErased'
  BY DEF RemovesOnlyErased, goto, pool, at, TypeOK
<1>7. PointersInOrder' /\ SortedWithoutGaps' /\ EmptiedFromTheEnd'
  BY DEF PointersInOrder, SortedWithoutGaps, EmptiedFromTheEnd, at, pool, goto, TypeOK
<1> QED
  BY <1>1, <1>2, <1>3, <1>4, <1>5, <1>6, <1>7

(* The offer takes its place in the pool; nobody holds redis_lock. *)
LEMMA PlaceInv ==
  ASSUME RedisAssumption, Inv, NEW t \in Threads, Place(t)
  PROVE  Inv'
<1> USE DEF Inv, IInv
<1> DEFINE o == offer[t]
           j == Position(o.idle)
           put(moved, i) == /\ EvictionPool' = moved
                            /\ entry' = [entry EXCEPT ![moved[i]] = o]
<1>1. /\ pc[t] = "place" /\ redis_lock = NoThread
      /\ offer' = [offer EXCEPT ![t] = Empty]
      /\ goto(t, "offer")
      /\ UNCHANGED <<elements, s, rs, redis_lock, key, samples, slot>>
  BY DEF Place
<1>2. PoolTypes /\ PoolInOrder
  BY DEF TypeOK, PoolTypes, PoolInOrder
<1>3. o \in Entry /\ o.key # NoKey /\ o.idle \in Nat
  BY <1>1, <1>2, IdleTimes DEF TypeOK, CallsHoldTheirKeys, RedisAssumption
<1>4. /\ j \in 1..(EVICTION_POOL_SIZE + 1)
      /\ j \in Slots => at(j).key = NoKey \/ at(j).idle >= o.idle
      /\ \A i \in 1..(j - 1) : at(i).key # NoKey /\ at(i).idle < o.idle
  BY <1>2, <1>3, PositionIsFound
<1>5. \/ j \in Slots /\ at(j).key = NoKey /\ put(EvictionPool, j)
      \/ UNCHANGED pool
      \/ j \in Slots /\ at(j).key # NoKey /\ put(MovedRight(j), j)
      \/ j > 1 /\ PoolIsFull /\ put(MovedLeft(j - 1), j - 1)
  <2> DEFINE A == j \in Slots /\ at(j).key = NoKey
             B == j = 1 /\ at(1).key # NoKey /\ PoolIsFull
             C == j \in Slots /\ at(j).key # NoKey /\ ~PoolIsFull
             D == j > 1 /\ PoolIsFull
  <2>1. (CASE A -> put(EvictionPool, j)
           [] B -> UNCHANGED pool
           [] C -> put(MovedRight(j), j)
           [] D -> put(MovedLeft(j - 1), j - 1))
    BY Zenon DEF Place
  <2>2. A \/ B \/ C \/ D
    <3>1. CASE j \in Slots
      BY <3>1, <1>4
    <3>2. CASE j \notin Slots
      <4>1. j = EVICTION_POOL_SIZE + 1 /\ EVICTION_POOL_SIZE \in 1..(j - 1)
        BY <3>2, <1>4 DEF Slots, RedisAssumption
      <4> QED
        <5>1. PoolIsFull
          BY <4>1, <1>4, Zenon DEF PoolIsFull
        <5>2. j > 1
          BY ONLY <4>1, RedisAssumption, SMTT(30) DEF RedisAssumption
        <5> QED
          BY <5>1, <5>2, Zenon
    <3> QED
      BY <3>1, <3>2
  <2>3. ~(A /\ D)
    BY DEF PoolIsFull, SortedWithoutGaps, Slots, RedisAssumption
  <2>4. ~(A /\ B) /\ ~(A /\ C) /\ ~(B /\ C) /\ ~(B /\ D) /\ ~(C /\ D)
    OBVIOUS
  <2> HIDE DEF A, B, C, D, put, j
  <2>5. \/ A /\ put(EvictionPool, j)
        \/ B /\ UNCHANGED pool
        \/ C /\ put(MovedRight(j), j)
        \/ D /\ put(MovedLeft(j - 1), j - 1)
    BY <2>1, <2>2, <2>3, <2>4, Zenon
  <2> QED
    BY <2>5 DEF A, B, C, D
<1>6. PoolTypes' /\ PoolInOrder'
  <2> HIDE DEF j, o
  <2>1. CASE j \in Slots /\ at(j).key = NoKey /\ put(EvictionPool, j)
    BY <2>1, <1>2, <1>3, <1>4, PutIntoEmpty, Zenon
  <2>2. CASE UNCHANGED pool
    BY <2>2, <1>2 DEF pool, PoolTypes, PoolInOrder, PointersInOrder, SortedWithoutGaps, at
  <2>3. CASE j \in Slots /\ at(j).key # NoKey /\ put(MovedRight(j), j)
    BY <2>3, <1>2, <1>3, <1>4, PutMovedRight, Zenon
  <2>4. CASE j > 1 /\ PoolIsFull /\ put(MovedLeft(j - 1), j - 1)
    <3>1. j - 1 \in Slots /\ (j - 1) + 1 = j
      BY <2>4, <1>4 DEF Slots, RedisAssumption
    <3>2. j \in Slots => at(j).idle >= o.idle
      BY <2>4, <1>2, <1>4 DEF PoolInOrder, PoolIsFull, SortedWithoutGaps, Slots, RedisAssumption
    <3> QED
      BY <2>4, <3>1, <3>2, <1>2, <1>3, <1>4, PutMovedLeft, Zenon
  <2> QED
    BY <1>5, <2>1, <2>2, <2>3, <2>4
<1>7. \A u \in Threads : pc[u] \notin {"evict", "remove"} /\ pc'[u] \notin {"evict", "remove"}
  BY <1>1 DEF LockHolder, goto, TypeOK, RedisAssumption
<1>8. TypeOK'
  <2>1. Empty \in Entry
    BY DEF Empty, Entry, RedisAssumption
  <2> QED
    BY <1>1, <1>6, <2>1 DEF TypeOK, goto, PoolTypes
<1>9. ElementsCounted' /\ CountsPending' /\ ElementsRegistered'
  <2>1. "offer" \in Counted /\ "place" \in Counted
    BY DEF Counted
  <2>2. /\ "offer" \in Counted <=> pc[t] \in Counted
        /\ "offer" \in {"count"} <=> pc[t] \in {"count"}
        /\ "offer" \in {"rs"} <=> pc[t] \in {"rs"}
    BY <1>1, <2>1
  <2> QED
    BY <1>1, <2>2, CountsKept, RegisteredKept, Zenon
<1>10. LockHolder' /\ CallsHoldTheirKeys' /\ RemovesOnlyErased' /\ EmptiedFromTheEnd'
  BY <1>1, <1>7 DEF LockHolder, CallsHoldTheirKeys, RemovesOnlyErased, EmptiedFromTheEnd,
     goto, TypeOK
<1> QED
  BY <1>6, <1>8, <1>9, <1>10 DEF PoolInOrder

(* The holder of redis_lock erases the candidate, or empties its slot when *)
(* the candidate is no longer in the map.                                  *)
LEMMA EvictSlotInv ==
  ASSUME RedisAssumption, Inv, NEW t \in Threads, EvictSlot(t)
  PROVE  Inv'
<1> USE DEF Inv, IInv
<1> DEFINE i == slot[t]
           k == at(i).key
<1>1. /\ pc[t] = "evict" /\ i \in Slots
      /\ UNCHANGED <<s, rs, EvictionPool, key, samples, offer>>
  <2>1. pc[t] = "evict" /\ i > 0 /\ UNCHANGED <<s, rs, EvictionPool, key, samples, offer>>
    BY Zenon DEF EvictSlot
  <2>2. i \in 0..EVICTION_POOL_SIZE
    BY Zenon DEF TypeOK
  <2>3. i \in Slots
    BY ONLY <2>1, <2>2, RedisAssumption, SMTT(30) DEF Slots, RedisAssumption
  <2> QED
    BY <2>1, <2>3, Zenon
<1>2. PoolTypes /\ PoolInOrder
  BY DEF TypeOK, PoolTypes, PoolInOrder
<1>3. redis_lock = t /\ \A u \in Threads : u # t => pc[u] \notin {"evict", "remove"}
  BY <1>1 DEF LockHolder
<1>4. \A m \in Slots : m > i => at(m).key = NoKey
  BY <1>1 DEF EmptiedFromTheEnd
<1>5. CASE k \in elements
  <2>1. /\ elements' = elements \ {k} /\ redis_lock' = t /\ goto(t, "remove")
        /\ UNCHANGED <<entry, slot>>
    BY <1>5 DEF EvictSlot, LockAfterErase
  <2>2. TypeOK'
    BY <1>1, <2>1 DEF TypeOK, goto
  <2>3. ElementsCounted'
    <3>1. IsFiniteSet(elements') /\ Cardinality(elements') = Cardinality(elements) - 1
      BY <1>5, <2>1, FS_RemoveElement, Zenon DEF ElementsCounted
    <3>2. /\ Cardinality(In(Counted)') = Cardinality(In(Counted)) - 1
          /\ Cardinality(In(Counted)) \in Nat
      <4>1. "evict" \in Counted /\ "remove" \notin Counted
        BY DEF Counted
      <4> QED
        BY <1>1, <2>1, <4>1, Leaving, Zenon
    <3> QED
      BY <3>1, <3>2, <1>1 DEF ElementsCounted, Counted, TypeOK
  <2>4. CountsPending' /\ ElementsRegistered'
    BY <1>1, <2>1, Staying DEF CountsPending, ElementsRegistered
  <2>5. LockHolder' /\ CallsHoldTheirKeys'
    BY <1>1, <1>3, <2>1 DEF LockHolder, CallsHoldTheirKeys, goto, TypeOK
  <2>6. RemovesOnlyErased'
    BY <1>1, <1>3, <2>1 DEF RemovesOnlyErased, goto, at, TypeOK
  <2>7. PointersInOrder' /\ SortedWithoutGaps' /\ EmptiedFromTheEnd'
    BY <1>1, <2>1 DEF PointersInOrder, SortedWithoutGaps, EmptiedFromTheEnd, at, goto, TypeOK
  <2> QED
    BY <2>2, <2>3, <2>4, <2>5, <2>6, <2>7
<1>6. CASE k \notin elements
  <2>1. /\ entry' = [entry EXCEPT ![EvictionPool[i]] = Empty]
        /\ slot' = [slot EXCEPT ![t] = i - 1]
        /\ UNCHANGED <<elements, redis_lock, pc>>
    BY <1>6 DEF EvictSlot
  <2>2. /\ PoolTypes' /\ PoolInOrder'
        /\ \A m \in Slots : m >= i => at(m)'.key = NoKey
    BY <1>1, <1>2, <1>4, <2>1, EmptyingLast, Zenon
  <2>3. TypeOK'
    <3>1. slot[t] - 1 \in 0..EVICTION_POOL_SIZE
      BY <1>1 DEF Slots, RedisAssumption
    <3>2. slot' \in [Threads -> 0..EVICTION_POOL_SIZE]
      BY <2>1, <3>1, Zenon DEF TypeOK
    <3> QED
      BY <1>1, <2>1, <2>2, <3>2, Zenon DEF TypeOK, PoolTypes
  <2>4. ElementsCounted' /\ CountsPending' /\ ElementsRegistered'
    BY <1>1, <2>1 DEF ElementsCounted, CountsPending, ElementsRegistered, In
  <2>5. LockHolder' /\ CallsHoldTheirKeys' /\ RemovesOnlyErased'
    BY <1>1, <1>3, <2>1 DEF LockHolder, CallsHoldTheirKeys, RemovesOnlyErased, TypeOK
  <2>6. EmptiedFromTheEnd'
    <3> SUFFICES ASSUME NEW u \in Threads, NEW m \in Slots,
                        pc'[u] \in {"evict", "remove"}, m > slot'[u]
                 PROVE  at(m)'.key = NoKey
      BY DEF EmptiedFromTheEnd
    <3>1. u = t
      BY <1>3, <2>1
    <3>2. m >= i
      BY <1>1, <2>1, <3>1 DEF TypeOK, Slots, RedisAssumption
    <3> QED
      BY <2>2, <3>2
  <2> QED
    BY <2>2, <2>3, <2>4, <2>5, <2>6 DEF PoolInOrder
<1> QED
  BY <1>5, <1>6

(* The erased key leaves the set, unless an insert is to register it. *)
LEMMA RemoveInv ==
  ASSUME RedisAssumption, Inv, NEW t \in Threads, Remove(t)
  PROVE  Inv'
<1> USE DEF Inv, IInv
<1> DEFINE i == slot[t]
<1>1. /\ pc[t] = "remove" /\ i \in Slots /\ rs' = rs \ {at(i).key}
      /\ entry' = [entry EXCEPT ![EvictionPool[i]] = Empty]
      /\ redis_lock' = NoThread /\ goto(t, "idle")
      /\ key' = [key EXCEPT ![t] = NoKey] /\ slot' = [slot EXCEPT ![t] = 0]
      /\ UNCHANGED <<elements, s, EvictionPool, samples, offer>>
  BY DEF Remove, CallsHoldTheirKeys, at
<1>2. PoolTypes /\ PoolInOrder
  BY DEF TypeOK, PoolTypes, PoolInOrder
<1>3. \A u \in Threads : u # t => pc[u] \notin {"evict", "remove"}
  BY <1>1 DEF LockHolder
<1>4. \A m \in Slots : m > i => at(m).key = NoKey
  BY <1>1 DEF EmptiedFromTheEnd
<1>5. PoolTypes' /\ PoolInOrder'
  BY <1>1, <1>2, <1>4, EmptyingLast, Zenon
<1>6. TypeOK'
  <2>1. 0 \in 0..EVICTION_POOL_SIZE
    BY DEF RedisAssumption
  <2>2. /\ pc' \in [Threads -> {"idle", "rs", "size", "count", "sample", "offer", "place", "evict", "remove"}]
        /\ key' \in [Threads -> Keys \cup {NoKey}] /\ slot' \in [Threads -> 0..EVICTION_POOL_SIZE]
        /\ rs' \subseteq Keys
    BY <1>1, <2>1, Zenon DEF TypeOK, goto
  <2> QED
    BY <1>1, <1>5, <2>2, Zenon DEF TypeOK, PoolTypes
<1>7. ElementsCounted' /\ CountsPending'
  <2>1. "idle" \notin Counted /\ "remove" \notin Counted
    BY DEF Counted
  <2>2. /\ "idle" \in Counted <=> pc[t] \in Counted
        /\ "idle" \in {"count"} <=> pc[t] \in {"count"}
    BY <1>1, <2>1
  <2> QED
    BY <1>1, <2>2, CountsKept, Zenon
<1>8. ElementsRegistered'
  <2> SUFFICES ASSUME NEW k \in elements, k \notin rs'
               PROVE  \E u \in Threads : pc'[u] = "rs" /\ key'[u] = k
    BY <1>1 DEF ElementsRegistered, In
  <2>1. \E u \in Threads : pc[u] = "rs" /\ key[u] = k
    BY <1>1 DEF ElementsRegistered, In, RemovesOnlyErased
  <2> QED
    BY <1>1, <2>1 DEF goto, TypeOK
<1>9. LockHolder' /\ CallsHoldTheirKeys' /\ RemovesOnlyErased' /\ EmptiedFromTheEnd'
  BY <1>1, <1>3 DEF LockHolder, CallsHoldTheirKeys, RemovesOnlyErased, EmptiedFromTheEnd,
     goto, TypeOK, RedisAssumption
<1> QED
  BY <1>5, <1>6, <1>7, <1>8, <1>9 DEF PoolInOrder

(* Every step of every call keeps the invariant. *)
LEMMA NextInv == ASSUME RedisAssumption, Inv, [Next]_vars PROVE Inv'
<1>1. CASE UNCHANGED vars
  <2>1. /\ UNCHANGED <<elements, s, rs, EvictionPool, entry, redis_lock, pc, key, samples, offer, slot>>
        /\ \A i : at(i)' = at(i) 
        /\ \A A : In(A)' = In(A)
    BY <1>1, Zenon DEF vars, pool, at, In
  <2>2. TypeOK' /\ LockHolder' /\ CallsHoldTheirKeys'
    BY <2>1, Zenon DEF Inv, IInv, TypeOK, LockHolder, CallsHoldTheirKeys
  <2>3. ElementsCounted' /\ CountsPending' /\ ElementsRegistered'
    BY <2>1, Zenon DEF Inv, IInv, ElementsCounted, CountsPending, ElementsRegistered, In
  <2>4. PointersInOrder' /\ SortedWithoutGaps' /\ EmptiedFromTheEnd'
    BY <2>1, Zenon DEF Inv, IInv, PointersInOrder, SortedWithoutGaps, EmptiedFromTheEnd
  <2>5. RemovesOnlyErased'
    BY <2>1, Zenon DEF Inv, IInv, RemovesOnlyErased, at
  <2> QED
    BY <2>2, <2>3, <2>4, <2>5, Zenon DEF Inv, IInv
<1>2. ASSUME NEW t \in Threads, Request(t) PROVE Inv'
  BY <1>2, InsertInv, InsertRsInv, InsertSizeInv, InsertCountInv, SampleInv, OfferInv,
     PlaceInv, EvictInv, EvictSlotInv, SampleAgainInv, RemoveInv DEF Request
<1> QED
  BY <1>1, <1>2 DEF Next

(* The invariant holds in every state of every behaviour. *)
LEMMA InvHolds == ASSUME RedisAssumption PROVE Spec => []Inv
<1>1. Init => Inv
  BY InitInv
<1>2. Inv /\ [Next]_vars => Inv'
  BY NextInv
<1> QED
  BY <1>1, <1>2, PTL DEF Spec

-----------------------------------------------------------------------------
(* Every variable of a Redis_LRU shard keeps its type. *)
THEOREM RedisTypeCorrect == ASSUME RedisAssumption PROVE Spec => []TypeOK
<1>1. Inv => TypeOK
  BY DEF Inv
<1> QED
  BY <1>1, InvHolds, PTL

(* insert changes the map outside redis_lock and the RandomizedSet under   *)
(* it, and performEvictions erases and removes in two steps, and still     *)
(* every element can be sampled from the moment its insert has registered  *)
(* it, and evictionPoolPopulate never samples an empty set.                *)
THEOREM EveryElementCanBeSampled ==
  ASSUME RedisAssumption PROVE Spec => []ElementsCanBeSampled
<1>1. Inv => ElementsCanBeSampled
  BY SomethingToSample DEF Inv, IInv, ElementsCanBeSampled, ElementsRegistered, In
<1> QED
  BY <1>1, InvHolds, PTL

(* s counts the elements but for the inserts in progress, so that every    *)
(* insert into a full shard evicts exactly one element, and the threads    *)
(* that read s before they count overshoot n by less than their number.    *)
THEOREM RedisSizeStaysExact ==
  ASSUME RedisAssumption PROVE Spec => []RedisSizeIsExact
<1>1. Inv => RedisSizeIsExact
  <2> SUFFICES ASSUME Inv PROVE RedisSizeIsExact
    OBVIOUS
  <2>1. s <= n + Cardinality(Threads) - 1
    BY Countable DEF Inv, IInv, CountsPending, TypeOK, RedisAssumption
  <2> QED
    BY <2>1 DEF Inv, IInv, ElementsCounted, RedisSizeIsExact
<1> QED
  BY <1>1, InvHolds, PTL

(* The pool is ordered by idle time and has no gaps whenever redis_lock is *)
(* free, for a pool of any size and although the memmoves of               *)
(* evictionPoolPopulate leave slots that share an entry.                   *)
THEOREM PoolStaysSorted ==
  ASSUME RedisAssumption PROVE Spec => []PoolIsSorted
<1>1. Inv => PoolIsSorted
  BY DEF Inv, IInv, SortedWithoutGaps, PoolIsSorted, Slots, RedisAssumption
<1> QED
  BY <1>1, InvHolds, PTL

=============================================================================
