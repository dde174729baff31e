------------------------ MODULE ListCacheSizeProofs ------------------------
(* What a baseline shard holds, for any number of threads, keys and nodes: *)
(* every linked node is reached from m_head, and without delete_key the    *)
(* size is exact.  The size is a balance: the counter and the list differ  *)
(* by the threads that have pushed and not counted, counted an eviction    *)
(* and not evicted, or evicted and not pushed.                             *)
EXTENDS ListCacheProofs, ChainsProofs

(* The seconds a prover has for a step. *)
USE SMTT(30), ZenonT(30)

(* Following m_next from the head of a list, all its nodes are met, and    *)
(* its tail at the end.                                                    *)
LEMMA ListIsReachable ==
  ASSUME NEW h, NEW t, Ends({h}, {t}), IsFiniteSet(Cells),
         NEW L \in ListStates, WellLinked(L, {h}, {t}), NoCircle(L), L.next[t] = Null
  PROVE  ListChain(L, h) = Linked(L) \cup {h, t}
<1> USE SentinelAssumption DEF Ends, Cells
<1> DEFINE C == Chain(L.next, h)
<1>1. DOMAIN L.next = Cells /\ IsFiniteSet(DOMAIN L.next) /\ Linked(L) \subseteq Nodes
  BY DEF ListStates, Linked
<1>2. h \in C /\ Closed(L.next, C)
  BY <1>1, ChainIsLeastClosed
<1>3. \A T : h \in T /\ Closed(L.next, T) => C \subseteq T
  BY <1>1, ChainIsLeastClosed, Zenon
<1> HIDE DEF C
<1>4. C \subseteq Linked(L) \cup {h, t, Null}
  <2> DEFINE T == Linked(L) \cup {h, t, Null}
  <2>1. h \in T /\ Closed(L.next, T)
    BY <1>1 DEF Closed, WellLinked
  <2> HIDE DEF T
  <2>2. C \subseteq T
    BY <1>3, <2>1
  <2> QED
    BY <2>2 DEF T
<1>5. Linked(L) \subseteq C
  <2> DEFINE S == Linked(L) \ C
  <2> SUFFICES ASSUME S # {} PROVE FALSE
    OBVIOUS
  <2>1. PICK c \in S : L.prev[c] \notin S
    <3>1. S \in SUBSET Linked(L)
      OBVIOUS
    <3> HIDE DEF S
    <3> QED BY <3>1 DEF NoCircle
  <2>2. L.prev[c] \in Linked(L) \cup {h} /\ L.next[L.prev[c]] = c
    BY DEF WellLinked
  <2>3. L.prev[c] \in C /\ L.prev[c] \in Cells
    BY <1>1, <1>2, <2>1, <2>2
  <2> QED
    BY <1>1, <1>2, <2>1, <2>2, <2>3 DEF Closed
<1>6. t \in C
  <2>1. L.prev[t] \in Linked(L) \cup {h} /\ L.next[L.prev[t]] = t
    BY DEF WellLinked
  <2> QED
    BY <1>1, <1>2, <1>5, <2>1 DEF Closed
<1> QED
  BY <1>2, <1>4, <1>5, <1>6, <1>1 DEF ListChain, C

(* Every linked node is on the chain that clear and snapshotKeys follow    *)
(* from m_head: no interleaving of the list operations cuts nodes off.     *)
THEOREM ListStaysReachable == Spec => []ListReachable
<1>1. Inv /\ OneList => ListReachable
  <2> SUFFICES ASSUME Inv, OneList PROVE ListReachable
    OBVIOUS
  <2>1. /\ list \in ListStates /\ WellLinked(list, {Head}, {Tail}) /\ Ends({Head}, {Tail})
        /\ NoCircle(list) /\ list.next[Tail] = Null
    BY EndsLemma DEF Inv, IInv, TypeOK, ListWellLinked, OneList
  <2>2. IsFiniteSet(Cells)
    <3>1. IsFiniteSet({Head} \cup {Tail})
      BY FS_Singleton, FS_Union, Zenon
    <3>2. Cells = Nodes \cup ({Head} \cup {Tail})
      BY CacheAssumption DEF Cells
    <3> QED
      BY CacheAssumption, <3>1, <3>2, FS_Union, Zenon
  <2> QED
    BY <2>1, <2>2, ListIsReachable, Zenon DEF ListReachable
<1> QED
  BY <1>1, InitOneList, InitInv, NextInv, NextOneList, PTL DEF Spec

-----------------------------------------------------------------------------
(* Nobody calls delete_key, there are threads and one slot for each, and   *)
(* the counter has room for the overfill.                                  *)
SizeAssumption ==
  /\ AllowDelete = FALSE /\ Threads # {}
  /\ MaxSize >= Cardinality(Threads) /\ SizeMod > MaxSize + Cardinality(Threads)

(* Who has pushed and not counted, has evicted and not pushed, has counted *)
(* an eviction and not evicted, and who will count.                        *)
Uncounted == {t \in Threads : pc[t] = "count" /\ s[t] < MaxSize}
Evicted == {t \in Threads : pc[t] \in {"erase1", "push"} /\ s[t] >= MaxSize}
Extra == {t \in Threads : pc[t] = "evict2"}
ToCount == {t \in Threads : pc[t] \in {"push", "count"} /\ s[t] < MaxSize}

Balanced ==
  m_size + Cardinality(Uncounted) + Cardinality(Extra)
    = Cardinality(Linked(list)) + Cardinality(Evicted)
Bounded == m_size + Cardinality(ToCount) + Cardinality(Extra) < MaxSize + Cardinality(Threads)
Loaded(t) ==
  /\ pc[t] \in InsertSteps \ {"load"} /\ s[t] >= MaxSize => m_size >= MaxSize
  /\ pc[t] \in {"evict1", "erase1"} => s[t] >= MaxSize
  /\ pc[t] \in {"cas", "evict2", "erase2"} => s[t] > MaxSize
  /\ pc[t] \notin {"dlock", "dunlink", "dwait", "dsize"}
LoadedSizes == \A t \in Threads : Loaded(t)

SizeInv == Balanced /\ Bounded /\ LoadedSizes

Bit(b) == IF b THEN 1 ELSE 0

(* A set of threads changes by at most the thread that moves. *)
LEMMA OneMoves ==
  ASSUME NEW t \in Threads, NEW A \in SUBSET Threads, NEW B \in SUBSET Threads,
         \A u \in Threads : u # t => (u \in A <=> u \in B)
  PROVE  /\ Cardinality(A) \in Nat /\ Cardinality(B) \in Nat
         /\ Cardinality(B) + Bit(t \in A) = Cardinality(A) + Bit(t \in B)
<1>1. IsFiniteSet(A) /\ IsFiniteSet(B)
  BY CacheAssumption, FS_Subset
<1>2. Cardinality(A) \in Nat /\ Cardinality(B) \in Nat
  BY <1>1, FS_CardinalityType
<1>3. CASE t \in A /\ t \notin B
  <2>1. A = B \cup {t}
    BY <1>3
  <2> QED
    BY <1>1, <1>2, <1>3, <2>1, FS_AddElement DEF Bit
<1>4. CASE t \notin A /\ t \in B
  <2>1. B = A \cup {t}
    BY <1>4
  <2> QED
    BY <1>1, <1>2, <1>4, <2>1, FS_AddElement DEF Bit
<1>5. CASE t \in A <=> t \in B
  <2>1. A = B
    BY <1>5
  <2> QED
    BY <1>2, <1>5, <2>1 DEF Bit
<1> QED
  BY <1>3, <1>4, <1>5

(* How the four counts change when one thread takes a step. *)
LEMMA StepCounts ==
  ASSUME NEW t \in Threads, \A u \in Threads : u # t => pc'[u] = pc[u] /\ s'[u] = s[u]
  PROVE  /\ Cardinality(Uncounted) \in Nat /\ Cardinality(Uncounted)' \in Nat
         /\ Cardinality(Extra) \in Nat /\ Cardinality(Extra)' \in Nat
         /\ Cardinality(Evicted) \in Nat /\ Cardinality(Evicted)' \in Nat
         /\ Cardinality(ToCount) \in Nat /\ Cardinality(ToCount)' \in Nat
         /\ Cardinality(Uncounted) + Bit(t \in Uncounted)' = Cardinality(Uncounted)' + Bit(t \in Uncounted)
         /\ Cardinality(Extra) + Bit(t \in Extra)' = Cardinality(Extra)' + Bit(t \in Extra)
         /\ Cardinality(Evicted) + Bit(t \in Evicted)' = Cardinality(Evicted)' + Bit(t \in Evicted)
         /\ Cardinality(ToCount) + Bit(t \in ToCount)' = Cardinality(ToCount)' + Bit(t \in ToCount)
<1>1. /\ Uncounted \in SUBSET Threads /\ Uncounted' \in SUBSET Threads
      /\ \A u \in Threads : u # t => (u \in Uncounted' <=> u \in Uncounted)
  BY DEF Uncounted
<1>2. /\ Extra \in SUBSET Threads /\ Extra' \in SUBSET Threads
      /\ \A u \in Threads : u # t => (u \in Extra' <=> u \in Extra)
  BY DEF Extra
<1>3. /\ Evicted \in SUBSET Threads /\ Evicted' \in SUBSET Threads
      /\ \A u \in Threads : u # t => (u \in Evicted' <=> u \in Evicted)
  BY DEF Evicted
<1>4. /\ ToCount \in SUBSET Threads /\ ToCount' \in SUBSET Threads
      /\ \A u \in Threads : u # t => (u \in ToCount' <=> u \in ToCount)
  BY DEF ToCount
<1>5. /\ Cardinality(Uncounted) \in Nat /\ Cardinality(Uncounted') \in Nat
      /\ Cardinality(Uncounted) + Bit(t \in Uncounted') = Cardinality(Uncounted') + Bit(t \in Uncounted)
  BY <1>1, OneMoves
<1>6. /\ Cardinality(Extra) \in Nat /\ Cardinality(Extra') \in Nat
      /\ Cardinality(Extra) + Bit(t \in Extra') = Cardinality(Extra') + Bit(t \in Extra)
  BY <1>2, OneMoves
<1>7. /\ Cardinality(Evicted) \in Nat /\ Cardinality(Evicted') \in Nat
      /\ Cardinality(Evicted) + Bit(t \in Evicted') = Cardinality(Evicted') + Bit(t \in Evicted)
  BY <1>3, OneMoves
<1>8. /\ Cardinality(ToCount) \in Nat /\ Cardinality(ToCount') \in Nat
      /\ Cardinality(ToCount) + Bit(t \in ToCount') = Cardinality(ToCount') + Bit(t \in ToCount)
  BY <1>4, OneMoves
<1> QED
  BY <1>5, <1>6, <1>7, <1>8

(* The numbers are natural, and no more threads are counted than there are. *)
LEMMA Numbers ==
  ASSUME Inv, SizeAssumption
  PROVE  /\ Cardinality(Threads) \in Nat /\ Cardinality(Threads) > 0
         /\ MaxSize \in Nat /\ SizeMod \in Nat /\ m_size \in Nat /\ m_size < SizeMod
         /\ Cardinality(Linked(list)) \in Nat /\ IsFiniteSet(Linked(list))
         /\ \A t \in Threads : s[t] \in Nat
<1>1. IsFiniteSet(Linked(list))
  BY CacheAssumption, FS_Subset DEF Linked
<1>2. Cardinality(Threads) # 0
  BY CacheAssumption, FS_EmptySet DEF SizeAssumption
<1> QED
  BY <1>1, <1>2, CacheAssumption, FS_CardinalityType DEF Inv, TypeOK

(* A thread that evicts finds the list not empty. *)
LEMMA EvictFinds ==
  ASSUME Inv, OneList, SizeAssumption, SizeInv, NEW t \in Threads, pc[t] \in {"evict1", "evict2"}
  PROVE  ~ListIsEmpty
<1>1. m_size >= MaxSize
  BY Numbers DEF SizeInv, LoadedSizes, Loaded, InsertSteps
<1>2. /\ Cardinality(Evicted) \in Nat /\ Cardinality(Evicted) <= Cardinality(Threads) - 1
      /\ Cardinality(Uncounted) \in Nat /\ Cardinality(Extra) \in Nat
  <2>1. Evicted \subseteq Threads \ {t} /\ Uncounted \subseteq Threads /\ Extra \subseteq Threads
    BY DEF Evicted, Uncounted, Extra
  <2>2. /\ IsFiniteSet(Threads \ {t}) /\ Cardinality(Threads \ {t}) = Cardinality(Threads) - 1
    BY CacheAssumption, FS_RemoveElement
  <2> QED
    BY <2>1, <2>2, CacheAssumption, FS_Subset, FS_CardinalityType
<1>3. Cardinality(Linked(list)) > 0
  <2>1. m_size + Cardinality(Uncounted) + Cardinality(Extra)
          = Cardinality(Linked(list)) + Cardinality(Evicted)
    BY DEF SizeInv, Balanced
  <2>2. /\ Cardinality(Threads) \in Nat /\ MaxSize \in Nat /\ m_size \in Nat
        /\ Cardinality(Linked(list)) \in Nat /\ MaxSize >= Cardinality(Threads)
    BY Numbers, Zenon DEF SizeAssumption
  <2> QED
    BY <1>1, <1>2, <2>1, <2>2
<1>4. Linked(list) # {}
  BY <1>3, FS_EmptySet
<1>5. PICK c \in Linked(list) : list.prev[c] \notin Linked(list)
  BY <1>4 DEF OneList, NoCircle
<1>6. list.prev[c] = Head /\ list.next[Head] = c
  BY <1>5 DEF Inv, IInv, ListWellLinked, WellLinked
<1>7. ListIsEmpty => list.next[Head] = Tail
  BY DEF ListIsEmpty, Inv, IInv, ListWellLinked, WellLinked
<1> QED
  BY <1>6, <1>7, SentinelAssumption DEF Linked

(* Disjoint sets of threads have together at most as many as there are. *)
LEMMA AtMostAll ==
  ASSUME NEW A \in SUBSET Threads, NEW B \in SUBSET Threads, A \cap B = {}
  PROVE  /\ Cardinality(A) \in Nat /\ Cardinality(B) \in Nat
         /\ Cardinality(A) + Cardinality(B) <= Cardinality(Threads)
<1>1. A \cup B \subseteq Threads
  OBVIOUS
<1>2. /\ IsFiniteSet(A) /\ IsFiniteSet(B)
      /\ Cardinality(A \cup B) <= Cardinality(Threads)
  BY <1>1, CacheAssumption, FS_Subset
<1>3. Cardinality(A \cup B) = Cardinality(A) + Cardinality(B) - Cardinality(A \cap B)
  BY <1>2, FS_Union
<1>4. Cardinality(A) \in Nat /\ Cardinality(B) \in Nat /\ Cardinality(A \cap B) = 0
  BY <1>2, FS_CardinalityType, FS_EmptySet, Zenon
<1> QED
  BY <1>2, <1>3, <1>4

(* The thread that moves changes both sides of the balance alike, and adds *)
(* nothing to the bound.                                                   *)
SameGap(t) ==
  m_size' + Bit(t \in Uncounted)' + Bit(t \in Extra)' + Bit(t \in Evicted) + Cardinality(Linked(list))
    = m_size + Bit(t \in Uncounted) + Bit(t \in Extra) + Bit(t \in Evicted)' + Cardinality(Linked(list)')
NoMoreLoad(t) ==
  m_size' + Bit(t \in ToCount)' + Bit(t \in Extra)' <= m_size + Bit(t \in ToCount) + Bit(t \in Extra)

(* What an action has to show: its own contribution to the counts. *)
LEMMA SizeStep ==
  ASSUME Inv, SizeAssumption, SizeInv, m_size' \in Nat, NEW t \in Threads,
         Cardinality(Linked(list)') \in Nat,
         \A u \in Threads : u # t => pc'[u] = pc[u] /\ s'[u] = s[u],
         SameGap(t)
  PROVE  /\ Balanced'
         /\ NoMoreLoad(t) => Bounded'
<1>1. /\ Cardinality(Uncounted) \in Nat /\ Cardinality(Uncounted)' \in Nat
      /\ Cardinality(Extra) \in Nat /\ Cardinality(Extra)' \in Nat
      /\ Cardinality(Evicted) \in Nat /\ Cardinality(Evicted)' \in Nat
      /\ Cardinality(ToCount) \in Nat /\ Cardinality(ToCount)' \in Nat
      /\ Cardinality(Uncounted) + Bit(t \in Uncounted)' = Cardinality(Uncounted)' + Bit(t \in Uncounted)
      /\ Cardinality(Extra) + Bit(t \in Extra)' = Cardinality(Extra)' + Bit(t \in Extra)
      /\ Cardinality(Evicted) + Bit(t \in Evicted)' = Cardinality(Evicted)' + Bit(t \in Evicted)
      /\ Cardinality(ToCount) + Bit(t \in ToCount)' = Cardinality(ToCount)' + Bit(t \in ToCount)
  BY StepCounts
<1>2. /\ Bit(t \in Uncounted) \in Nat /\ Bit(t \in Uncounted)' \in Nat
      /\ Bit(t \in Extra) \in Nat /\ Bit(t \in Extra)' \in Nat
      /\ Bit(t \in Evicted) \in Nat /\ Bit(t \in Evicted)' \in Nat
      /\ Bit(t \in ToCount) \in Nat /\ Bit(t \in ToCount)' \in Nat
  BY DEF Bit
<1>3. Balanced'
  <2>1. m_size + Cardinality(Uncounted) + Cardinality(Extra)
          = Cardinality(Linked(list)) + Cardinality(Evicted)
    BY DEF SizeInv, Balanced
  <2>2. m_size \in Nat /\ Cardinality(Linked(list)) \in Nat
    BY Numbers, Zenon
  <2>3. m_size' + Cardinality(Uncounted)' + Cardinality(Extra)'
          = Cardinality(Linked(list)') + Cardinality(Evicted)'
    <3>1. PICK u \in Nat, u1 \in Nat, bu \in Nat, bu1 \in Nat :
            /\ u = Cardinality(Uncounted) /\ u1 = Cardinality(Uncounted)'
            /\ bu = Bit(t \in Uncounted) /\ bu1 = Bit(t \in Uncounted)' /\ u + bu1 = u1 + bu
      BY <1>1, <1>2, Zenon
    <3>2. PICK x \in Nat, x1 \in Nat, bx \in Nat, bx1 \in Nat :
            /\ x = Cardinality(Extra) /\ x1 = Cardinality(Extra)'
            /\ bx = Bit(t \in Extra) /\ bx1 = Bit(t \in Extra)' /\ x + bx1 = x1 + bx
      BY <1>1, <1>2, Zenon
    <3>3. PICK e \in Nat, e1 \in Nat, be \in Nat, be1 \in Nat :
            /\ e = Cardinality(Evicted) /\ e1 = Cardinality(Evicted)'
            /\ be = Bit(t \in Evicted) /\ be1 = Bit(t \in Evicted)' /\ e + be1 = e1 + be
      BY <1>1, <1>2, Zenon
    <3>4. PICK l \in Nat, l1 \in Nat, m \in Nat, m1 \in Nat :
            /\ l = Cardinality(Linked(list)) /\ l1 = Cardinality(Linked(list)')
            /\ m = m_size /\ m1 = m_size'
      BY <2>2
    <3>5. m + u + x = l + e
      BY <2>1, <3>1, <3>2, <3>3, <3>4
    <3>6. m1 + bu1 + bx1 + be + l = m + bu + bx + be1 + l1
      BY <3>1, <3>2, <3>3, <3>4, Zenon DEF SameGap
    <3>7. u + bu1 = u1 + bu /\ x + bx1 = x1 + bx /\ e + be1 = e1 + be
      BY <3>1, <3>2, <3>3, Zenon
    <3>8. m1 + u1 + x1 = l1 + e1
      BY ONLY <3>5, <3>6, <3>7, u \in Nat, u1 \in Nat, bu \in Nat, bu1 \in Nat,
         x \in Nat, x1 \in Nat, bx \in Nat, bx1 \in Nat, e \in Nat, e1 \in Nat, be \in Nat, be1 \in Nat,
         l \in Nat, l1 \in Nat, m \in Nat, m1 \in Nat, SMTT(30)
    <3> QED
      BY <3>1, <3>2, <3>3, <3>4, <3>8, Zenon
  <2> QED
    BY <2>3 DEF Balanced
<1>4. ASSUME NoMoreLoad(t) PROVE Bounded'
  <2>1. m_size + Cardinality(ToCount) + Cardinality(Extra) < MaxSize + Cardinality(Threads)
    BY DEF SizeInv, Bounded
  <2>2. m_size \in Nat /\ MaxSize \in Nat /\ Cardinality(Threads) \in Nat
    BY Numbers, Zenon
  <2>3. m_size' + Cardinality(ToCount)' + Cardinality(Extra)' < MaxSize + Cardinality(Threads)
    BY <1>1, <1>2, <1>4, <2>1, <2>2 DEF NoMoreLoad
  <2> QED
    BY <2>3 DEF Bounded
<1> QED
  BY <1>3, <1>4

(* What the thread adds to each of the four counts. *)
Stands(t, u, x, e, c) ==
  /\ Bit(t \in Uncounted) = u /\ Bit(t \in Extra) = x
  /\ Bit(t \in Evicted) = e /\ Bit(t \in ToCount) = c

(* A step keeps the invariant when its own thread does. *)
LEMMA MoveStep ==
  ASSUME Inv, Inv', SizeAssumption, SizeInv, NEW t \in Threads,
         \A u \in Threads : u # t => pc'[u] = pc[u] /\ s'[u] = s[u],
         m_size >= MaxSize => m_size' >= MaxSize,
         Loaded(t)', SameGap(t), NoMoreLoad(t)
  PROVE  SizeInv'
<1>1. /\ m_size \in Nat /\ m_size' \in Nat
      /\ Cardinality(Linked(list)) \in Nat /\ Cardinality(Linked(list)') \in Nat
  <2>1. IsFiniteSet(Linked(list)) /\ IsFiniteSet(Linked(list)')
    BY CacheAssumption, FS_Subset DEF Linked
  <2> QED
    BY <2>1, FS_CardinalityType DEF Inv, TypeOK
<1>2. Balanced' /\ Bounded'
  BY <1>1, SizeStep, Zenon
<1>3. LoadedSizes'
  <2>1. \A u \in Threads : u # t => Loaded(u)'
    BY Zenon DEF SizeInv, LoadedSizes, Loaded
  <2> QED
    BY <2>1, Zenon DEF LoadedSizes
<1> QED
  BY <1>2, <1>3, Zenon DEF SizeInv

(* Steps that neither change the list nor the size and whose thread is not *)
(* between evicting, pushing and counting.                                 *)
LEMMA QuietStep ==
  ASSUME Inv, Inv', SizeAssumption, SizeInv, NEW t \in Threads,
         pc[t] \in {"idle", "find", "erase2"}, pc'[t] \in {"idle", "find", "load"},
         \A u \in Threads : u # t => pc'[u] = pc[u] /\ s'[u] = s[u],
         m_size' = m_size, Linked(list)' = Linked(list)
  PROVE  SizeInv'
<1>1. Stands(t, 0, 0, 0, 0) /\ Stands(t, 0, 0, 0, 0)' /\ Loaded(t)'
  BY DEF Stands, Bit, Uncounted, Extra, Evicted, ToCount, Loaded, InsertSteps
<1>2. m_size \in Nat /\ Cardinality(Linked(list)) \in Nat
  BY Numbers, Zenon
<1>3. SameGap(t) /\ NoMoreLoad(t)
  BY <1>1, <1>2 DEF Stands, SameGap, NoMoreLoad
<1> QED
  BY <1>1, <1>3, MoveStep, Zenon

(* find, and insert up to its load of m_size. *)
LEMMA FindSize ==
  ASSUME Inv, Inv', SizeAssumption, SizeInv, NEW t \in Threads,
         \/ \E k \in Keys : FindHit(t, k)
         \/ FindPromote(t) \/ FindNoPromote(t)
         \/ \E k \in Keys, n \in Nodes : InsertNew(t, k, n)
  PROVE  SizeInv'
<1>1. /\ pc[t] \in {"idle", "find"} /\ pc'[t] \in {"idle", "find", "load"}
      /\ \A u \in Threads : u # t => pc'[u] = pc[u] /\ s'[u] = s[u]
      /\ m_size' = m_size
  BY DEF FindHit, FindPromote, FindNoPromote, InsertNew, return, goto, Inv, TypeOK
<1>2. Linked(list)' = Linked(list)
  <2>1. CASE FindPromote(t)
    <3>1. node[t] \in Nodes
      BY <2>1 DEF FindPromote, Inv, IInv, CallsHoldTheirNodes, TypeOK
    <3>2. list \in ListStates /\ WellLinked(list, {Head}, {Tail})
      BY DEF Inv, IInv, TypeOK, ListWellLinked
    <3>3. CASE isInList(list, node[t])
      <4>1. node[t] \in Linked(list)
        BY <3>1, <3>3 DEF Linked
      <4>2. list' = moveToFront(list, node[t])
        BY <2>1, <3>3, Zenon DEF FindPromote
      <4> QED
        BY <3>2, <4>1, <4>2, EndsLemma, MoveToFrontLemma
    <3>4. CASE ~isInList(list, node[t])
      BY <2>1, <3>4, Zenon DEF FindPromote
    <3> QED
      BY <3>3, <3>4, Zenon
  <2>2. CASE list' = list
    BY <2>2
  <2> QED
    BY <2>1, <2>2, Zenon DEF FindHit, FindNoPromote, InsertNew
<1> QED
  BY <1>1, <1>2, QuietStep, Zenon

(* A thread that loads less than the capacity will count: with the others  *)
(* it overfills by less than one each.                                     *)
LEMMA InsertLoadSize ==
  ASSUME Inv, Inv', SizeAssumption, SizeInv, NEW t \in Threads, InsertLoad(t)
  PROVE  SizeInv'
<1>0. m_size \in Nat /\ MaxSize \in Nat /\ Cardinality(Linked(list)) \in Nat
  BY Numbers, Zenon
<1>1. /\ pc[t] = "load" /\ pc'[t] = (IF m_size >= MaxSize THEN "evict1" ELSE "push") /\ s'[t] = m_size
      /\ \A u \in Threads : u # t => pc'[u] = pc[u] /\ s'[u] = s[u]
      /\ m_size' = m_size /\ Linked(list)' = Linked(list)
  BY DEF InsertLoad, goto, Inv, TypeOK, AtCapacity, elements
<1>2. Loaded(t)' /\ Stands(t, 0, 0, 0, 0)
  BY <1>0, <1>1 DEF Loaded, InsertSteps, Stands, Bit, Uncounted, Extra, Evicted, ToCount
<1>3. CASE m_size >= MaxSize
  <2>1. Stands(t, 0, 0, 0, 0)'
    BY <1>0, <1>1, <1>3 DEF Stands, Bit, Uncounted, Extra, Evicted, ToCount
  <2>2. SameGap(t) /\ NoMoreLoad(t)
    BY <1>0, <1>1, <1>2, <2>1 DEF Stands, SameGap, NoMoreLoad
  <2> QED
    BY <1>1, <1>2, <2>2, MoveStep, Zenon
<1>4. CASE m_size < MaxSize
  <2>1. Stands(t, 0, 0, 0, 1)'
    BY <1>0, <1>1, <1>4 DEF Stands, Bit, Uncounted, Extra, Evicted, ToCount
  <2>2. Balanced'
    <3>1. SameGap(t)
      BY <1>0, <1>1, <1>2, <2>1 DEF Stands, SameGap
    <3> QED
      BY <1>0, <1>1, <3>1, SizeStep, Zenon
  <2>3. Bounded'
    <3>1. /\ Cardinality(ToCount') + Cardinality(Extra') <= Cardinality(Threads)
          /\ Cardinality(ToCount') \in Nat /\ Cardinality(Extra') \in Nat
      <4>1. ToCount' \in SUBSET Threads /\ Extra' \in SUBSET Threads /\ ToCount' \cap Extra' = {}
        BY DEF ToCount, Extra
      <4> QED
        BY <4>1, AtMostAll, Zenon
    <3>2. Cardinality(Threads)' = Cardinality(Threads) /\ MaxSize' = MaxSize
      OBVIOUS
    <3>3. Cardinality(Threads) \in Nat
      BY Numbers, Zenon
    <3> QED
      BY <1>0, <1>1, <1>4, <3>1, <3>2, <3>3 DEF Bounded
  <2>4. LoadedSizes'
    <3>1. \A w \in Threads : w # t => Loaded(w)'
      BY <1>1, Zenon DEF SizeInv, LoadedSizes, Loaded
    <3> QED
      BY <1>2, <3>1, Zenon DEF LoadedSizes
  <2> QED
    BY <2>2, <2>3, <2>4 DEF SizeInv
<1> QED
  BY <1>0, <1>3, <1>4

(* evict always finds an element to delink. *)
LEMMA EvictDelinkSize ==
  ASSUME Inv, Inv', OneList, SizeAssumption, SizeInv, NEW t \in Threads, EvictDelink(t)
  PROVE  SizeInv'
<1>0. m_size \in Nat /\ MaxSize \in Nat /\ Cardinality(Linked(list)) \in Nat /\ s[t] \in Nat
  BY Numbers, Zenon
<1>1. pc[t] \in {"evict1", "evict2"} /\ ~ListIsEmpty
  BY EvictFinds DEF EvictDelink
<1>2. /\ pc'[t] = (IF pc[t] = "evict1" THEN "erase1" ELSE "erase2") /\ s' = s
      /\ \A u \in Threads : u # t => pc'[u] = pc[u] /\ s'[u] = s[u]
      /\ m_size' = m_size
  BY <1>1 DEF EvictDelink, goto, Inv, TypeOK
<1>3. /\ Cardinality(Linked(list)') \in Nat
      /\ Cardinality(Linked(list)) = Cardinality(Linked(list)') + 1
  <2>1. list.prev[Tail] \in Linked(list) /\ list \in ListStates /\ WellLinked(list, {Head}, {Tail})
    BY <1>1, Zenon DEF ListIsEmpty, Inv, IInv, TypeOK, ListWellLinked, WellLinked
  <2>2. list' = delink(list, list.prev[Tail])
    BY <1>1 DEF EvictDelink
  <2>3. Linked(list)' = Linked(list) \ {list.prev[Tail]}
    BY <2>1, <2>2, EndsLemma, DelinkLemma
  <2> QED
    <3>1. /\ IsFiniteSet(Linked(list)) /\ list.prev[Tail] \in Linked(list)
          /\ Cardinality(Linked(list)) \in Nat
      BY <2>1, Numbers
    <3>2. /\ IsFiniteSet(Linked(list) \ {list.prev[Tail]})
          /\ Cardinality(Linked(list) \ {list.prev[Tail]}) = Cardinality(Linked(list)) - 1
      BY <3>1, FS_RemoveElement, Zenon
    <3>3. Cardinality(Linked(list) \ {list.prev[Tail]}) \in Nat
      BY <3>2, FS_CardinalityType
    <3> QED
      BY <2>3, <3>1, <3>2, <3>3
<1>4. Loaded(t)
  BY Zenon DEF SizeInv, LoadedSizes
<1>5. CASE pc[t] = "evict1"
  <2>1. Loaded(t)' /\ Stands(t, 0, 0, 0, 0) /\ Stands(t, 0, 0, 1, 0)'
    BY <1>0, <1>2, <1>4, <1>5 DEF Loaded, InsertSteps, Stands, Bit, Uncounted, Extra, Evicted, ToCount
  <2>2. SameGap(t) /\ NoMoreLoad(t)
    BY <1>0, <1>2, <1>3, <2>1 DEF Stands, SameGap, NoMoreLoad
  <2> QED
    BY <1>2, <2>1, <2>2, MoveStep, Zenon
<1>6. CASE pc[t] = "evict2"
  <2>1. Loaded(t)' /\ Stands(t, 0, 1, 0, 0) /\ Stands(t, 0, 0, 0, 0)'
    BY <1>0, <1>2, <1>4, <1>6 DEF Loaded, InsertSteps, Stands, Bit, Uncounted, Extra, Evicted, ToCount
  <2>2. SameGap(t) /\ NoMoreLoad(t)
    BY <1>0, <1>2, <1>3, <2>1 DEF Stands, SameGap, NoMoreLoad
  <2> QED
    BY <1>2, <2>1, <2>2, MoveStep, Zenon
<1> QED
  BY <1>1, <1>5, <1>6

(* Erasing the element changes neither list nor size. *)
LEMMA EvictEraseSize ==
  ASSUME Inv, Inv', OneList, SizeAssumption, SizeInv, NEW t \in Threads, EvictErase(t)
  PROVE  SizeInv'
<1>0. m_size \in Nat /\ MaxSize \in Nat /\ Cardinality(Linked(list)) \in Nat /\ s[t] \in Nat
  BY Numbers, Zenon
<1>1. /\ pc[t] \in {"erase1", "erase2"}
      /\ \A u \in Threads : u # t => pc'[u] = pc[u] /\ s'[u] = s[u]
      /\ m_size' = m_size
      /\ pc[t] = "erase1" => pc'[t] = "push" /\ s'[t] = s[t]
      /\ pc[t] = "erase2" => pc'[t] = "idle"
  BY DEF EvictErase, EvictReturn, InsertReturn, return, goto, Inv, TypeOK
<1>2. Linked(list)' = Linked(list)
  <2>1. moribund[t] \in Nodes \ Linked(list)
    BY <1>1 DEF Inv, IInv, OwnersExclusive, CallsHoldTheirNodes, Owns, OwnsMoribund, EraseSteps,
       TypeOK
  <2>2. list \in ListStates /\ WellLinked(list, {Head}, {Tail})
    BY DEF Inv, IInv, TypeOK, ListWellLinked
  <2>3. list' = list \/ list' = resetNode(list, moribund[t])
    BY DEF EvictErase
  <2> QED
    BY <2>1, <2>2, <2>3, EndsLemma, ResetNodeLemma
<1>3. CASE pc[t] = "erase1"
  <2>1. Loaded(t)
    BY Zenon DEF SizeInv, LoadedSizes
  <2>2. Loaded(t)' /\ Stands(t, 0, 0, 1, 0) /\ Stands(t, 0, 0, 1, 0)'
    BY <1>0, <1>1, <1>3, <2>1 DEF Loaded, InsertSteps, Stands, Bit, Uncounted, Extra, Evicted, ToCount
  <2>3. SameGap(t) /\ NoMoreLoad(t)
    BY <1>0, <1>1, <1>2, <2>2 DEF Stands, SameGap, NoMoreLoad
  <2> QED
    BY <1>1, <2>2, <2>3, MoveStep, Zenon
<1> QED
  BY <1>1, <1>2, <1>3, QuietStep, Zenon

(* The pushed element is not counted yet, or replaces an evicted one. *)
LEMMA InsertPushSize ==
  ASSUME Inv, Inv', OneList, SizeAssumption, SizeInv, NEW t \in Threads, InsertPush(t)
  PROVE  SizeInv'
<1>0. m_size \in Nat /\ MaxSize \in Nat /\ Cardinality(Linked(list)) \in Nat /\ s[t] \in Nat
  BY Numbers, Zenon
<1>1. /\ pc[t] = "push" /\ pc'[t] = "count" /\ s' = s /\ m_size' = m_size
      /\ \A u \in Threads : u # t => pc'[u] = pc[u] /\ s'[u] = s[u]
  BY DEF InsertPush, goto, locals, Inv, TypeOK
<1>2. /\ Cardinality(Linked(list)') \in Nat
      /\ Cardinality(Linked(list)') = Cardinality(Linked(list)) + 1
  <2>1. node[t] \in Nodes \ Linked(list) /\ list \in ListStates /\ WellLinked(list, {Head}, {Tail})
    BY <1>1, Zenon DEF Inv, IInv, OwnersExclusive, CallsHoldTheirNodes, Owns, OwnsNode, BeforePush,
       TypeOK, ListWellLinked
  <2>2. list' = pushAfter(list, Head, node[t]) /\ Head \in Linked(list) \cup {Head}
    BY DEF InsertPush, pushFront
  <2>3. Linked(list)' = Linked(list) \cup {node[t]}
    BY <2>1, <2>2, EndsLemma, PushAfterLemma
  <2> QED
    <3>1. IsFiniteSet(Linked(list)) /\ node[t] \notin Linked(list) /\ Cardinality(Linked(list)) \in Nat
      BY <2>1, Numbers
    <3>2. Cardinality(Linked(list) \cup {node[t]}) = Cardinality(Linked(list)) + 1
      BY <3>1, FS_AddElement, Zenon
    <3> QED
      BY <2>3, <3>1, <3>2
<1>3. Loaded(t)'
  <2>1. Loaded(t)
    BY Zenon DEF SizeInv, LoadedSizes
  <2> QED
    BY <1>1, <2>1 DEF Loaded, InsertSteps
<1>a. m_size' = m_size
  BY <1>1, Zenon
<1>4. CASE s[t] < MaxSize
  <2>1. Stands(t, 0, 0, 0, 1) /\ Stands(t, 1, 0, 0, 1)'
    BY <1>0, <1>1, <1>4 DEF Stands, Bit, Uncounted, Extra, Evicted, ToCount
  <2>2. SameGap(t) /\ NoMoreLoad(t)
    BY ONLY <1>0, <1>a, <1>2, <2>1, SMTT(30) DEF Stands, SameGap, NoMoreLoad
  <2> QED
    BY <1>1, <1>3, <2>2, MoveStep, Zenon
<1>5. CASE s[t] >= MaxSize
  <2>1. Stands(t, 0, 0, 1, 0) /\ Stands(t, 0, 0, 0, 0)'
    BY <1>0, <1>1, <1>5 DEF Stands, Bit, Uncounted, Extra, Evicted, ToCount
  <2>2. SameGap(t) /\ NoMoreLoad(t)
    BY ONLY <1>0, <1>a, <1>2, <2>1, SMTT(30) DEF Stands, SameGap, NoMoreLoad
  <2> QED
    BY <1>1, <1>3, <2>2, MoveStep, Zenon
<1> QED
  BY <1>0, <1>4, <1>5

(* The counter does not wrap, and never falls here. *)
LEMMA InsertCountSize ==
  ASSUME Inv, Inv', OneList, SizeAssumption, SizeInv, NEW t \in Threads, InsertCount(t)
  PROVE  SizeInv' /\ m_size' >= m_size
<1>0. m_size \in Nat /\ MaxSize \in Nat /\ Cardinality(Linked(list)) \in Nat /\ s[t] \in Nat
  BY Numbers, Zenon
<1>1. /\ pc[t] = "count" /\ Linked(list)' = Linked(list)
      /\ \A u \in Threads : u # t => pc'[u] = pc[u] /\ s'[u] = s[u]
      /\ pc'[t] \in {"idle", "cas"}
  BY DEF InsertCount, InsertReturn, return, goto, Inv, TypeOK
<1>2. CASE s[t] >= MaxSize
  <2>1. m_size' = m_size /\ (pc'[t] = "cas" => s'[t] > MaxSize)
    BY <1>0, <1>1, <1>2 DEF InsertCount, InsertReturn, return, goto, EvictionDone, AtCapacity, Inv, TypeOK
  <2>2. m_size >= MaxSize
    BY <1>1, <1>2 DEF SizeInv, LoadedSizes, Loaded, InsertSteps
  <2>a. ~(s[t] < MaxSize)
    BY <1>0, <1>2
  <2>b. Loaded(t)'
    BY <1>0, <1>1, <2>1, <2>2 DEF Loaded, InsertSteps
  <2>3. Stands(t, 0, 0, 0, 0) /\ Stands(t, 0, 0, 0, 0)'
    BY <1>1, <2>a DEF Stands, Bit, Uncounted, Extra, Evicted, ToCount
  <2>4. SameGap(t) /\ NoMoreLoad(t) /\ m_size' >= m_size
    BY <1>0, <1>1, <2>1, <2>3 DEF Stands, SameGap, NoMoreLoad
  <2> QED
    BY <1>1, <2>1, <2>b, <2>4, MoveStep, Zenon
<1>3. CASE s[t] < MaxSize
  <2>1. Stands(t, 1, 0, 0, 1) /\ Stands(t, 0, 0, 0, 0)'
    BY <1>0, <1>1, <1>3 DEF Stands, Bit, Uncounted, Extra, Evicted, ToCount
  <2>2. m_size + 1 < SizeMod
    <3>1. t \in ToCount
      BY <1>1, <1>3 DEF ToCount
    <3>2. Cardinality(ToCount) \in Nat /\ Cardinality(ToCount) > 0 /\ Cardinality(Extra) \in Nat
      <4>1. IsFiniteSet(ToCount) /\ IsFiniteSet(Extra)
        BY CacheAssumption, FS_Subset DEF ToCount, Extra
      <4> QED
        BY <3>1, <4>1, FS_EmptySet, FS_CardinalityType
    <3> QED
      <4>1. m_size + Cardinality(ToCount) + Cardinality(Extra) < MaxSize + Cardinality(Threads)
        BY DEF SizeInv, Bounded
      <4>2. /\ SizeMod > MaxSize + Cardinality(Threads) /\ m_size \in Nat /\ MaxSize \in Nat
            /\ Cardinality(Threads) \in Nat /\ SizeMod \in Nat
        BY Numbers, Zenon DEF SizeAssumption
      <4> QED
        BY <3>2, <4>1, <4>2
  <2>3. m_size' = m_size + 1
    <3>1. m_size' = Inc(m_size)
      BY <1>0, <1>3 DEF InsertCount, EvictionDone, AtCapacity
    <3>2. SizeMod \in Nat
      BY Numbers, Zenon
    <3> QED
      BY <1>0, <2>2, <3>1, <3>2 DEF Inc
  <2>4. pc'[t] = "cas" => s'[t] = m_size /\ m_size > MaxSize
    <3>1. TypeOK
      BY Zenon DEF Inv
    <3> QED
      BY ONLY <1>0, <1>1, <1>3, <3>1, InsertCount(t), t \in Threads, SMTT(30)
         DEF InsertCount, InsertReturn, return, goto, EvictionDone, AtCapacity, TypeOK
  <2>5. Loaded(t)'
    BY ONLY <1>0, <1>1, <2>3, <2>4, SMTT(30) DEF Loaded, InsertSteps
  <2>6. Linked(list)' = Linked(list)
    BY <1>1, Zenon
  <2>7. /\ SameGap(t) /\ NoMoreLoad(t)
        /\ m_size' >= m_size /\ (m_size >= MaxSize => m_size' >= MaxSize)
    BY ONLY <1>0, <2>1, <2>3, <2>6, SMTT(30) DEF Stands, SameGap, NoMoreLoad
  <2> QED
    BY <1>1, <2>5, <2>7, MoveStep, Zenon
<1> QED
  BY <1>0, <1>2, <1>3

(* Only the thread that lowers the counter evicts an extra element, and    *)
(* never below the capacity.                                               *)
LEMMA InsertCasSize ==
  ASSUME Inv, Inv', OneList, SizeAssumption, SizeInv, NEW t \in Threads, InsertCas(t)
  PROVE  SizeInv' /\ (m_size >= MaxSize => m_size' >= MaxSize)
<1>0. m_size \in Nat /\ MaxSize \in Nat /\ Cardinality(Linked(list)) \in Nat /\ s[t] \in Nat
  BY Numbers, Zenon
<1>1. /\ pc[t] = "cas" /\ Linked(list)' = Linked(list)
      /\ \A u \in Threads : u # t => pc'[u] = pc[u] /\ s'[u] = s[u]
  BY DEF InsertCas, InsertReturn, return, goto, Inv, TypeOK
<1>2. s[t] > MaxSize
  BY <1>1, Zenon DEF SizeInv, LoadedSizes, Loaded
<1>3. CASE CasSucceeds(t)
  <2>1. /\ m_size = s[t] /\ pc'[t] = "evict2" /\ s'[t] = s[t] /\ m_size' = Dec(m_size)
    BY <1>1, <1>3 DEF InsertCas, CasSucceeds, goto, Inv, TypeOK
  <2>2. m_size' = m_size - 1 /\ m_size' >= MaxSize
    <3>1. SizeMod \in Nat /\ m_size < SizeMod
      BY Numbers, Zenon
    <3> QED
      BY <1>0, <1>2, <2>1, <3>1 DEF Dec
  <2>3. Loaded(t)' /\ Stands(t, 0, 0, 0, 0) /\ Stands(t, 0, 1, 0, 0)'
    BY <1>0, <1>1, <1>2, <2>1, <2>2 DEF Loaded, InsertSteps, Stands, Bit, Uncounted, Extra, Evicted,
       ToCount
  <2>4. SameGap(t) /\ NoMoreLoad(t)
    BY ONLY <1>0, <1>1, <2>2, <2>3, SMTT(30) DEF Stands, SameGap, NoMoreLoad
  <2> QED
    BY <1>1, <2>2, <2>3, <2>4, MoveStep, Zenon
<1>4. CASE ~CasSucceeds(t)
  <2>1. m_size' = m_size /\ pc'[t] = "idle"
    BY <1>1, <1>4 DEF InsertCas, InsertReturn, return, goto, Inv, TypeOK
  <2>a. Loaded(t)'
    BY <2>1 DEF Loaded, InsertSteps
  <2>2. Stands(t, 0, 0, 0, 0) /\ Stands(t, 0, 0, 0, 0)'
    BY <1>1, <2>1 DEF Stands, Bit, Uncounted, Extra, Evicted, ToCount
  <2>3. SameGap(t) /\ NoMoreLoad(t)
    BY ONLY <1>0, <1>1, <2>1, <2>2, SMTT(30) DEF Stands, SameGap, NoMoreLoad
  <2> QED
    BY <1>1, <2>1, <2>a, <2>3, MoveStep, Zenon
<1> QED
  BY <1>3, <1>4

(* clear runs when no call does: nothing is linked or counted. *)
LEMMA ClearSize ==
  ASSUME Inv, Inv', SizeAssumption, SizeInv, Clear
  PROVE  SizeInv' /\ alive' = {}
<1>1. Idle /\ pc' = pc /\ m_size' = 0 /\ Linked(list)' = {} /\ Idle'
  BY EmptyListLemma DEF Clear, Idle
<1>2. Uncounted' = {} /\ Extra' = {} /\ Evicted' = {} /\ ToCount' = {}
  BY <1>1 DEF Uncounted, Extra, Evicted, ToCount, Idle
<1>3. Balanced' /\ Bounded'
  <2>1. Cardinality({}) = 0
    BY FS_EmptySet
  <2>2. 0 < MaxSize + Cardinality(Threads)
    BY Numbers
  <2> QED
    BY <1>1, <1>2, <2>1, <2>2 DEF Balanced, Bounded
<1>4. LoadedSizes'
  BY <1>1 DEF LoadedSizes, Loaded, Idle, InsertSteps
<1>5. alive' = {}
  <2>1. \A n \in alive : n \in Linked(list)
    BY <1>1 DEF Inv, IInv, NoOrphans, Owns, OwnsNode, OwnsMoribund, Idle, BeforePush, EraseSteps
  <2> QED
    BY <2>1 DEF Clear
<1> QED
  BY <1>3, <1>4, <1>5 DEF SizeInv

(* Every step keeps the balance, and a full shard full. *)
LEMMA NextSize ==
  ASSUME Inv, Inv', OneList, SizeAssumption, SizeInv, [Next]_vars
  PROVE  SizeInv' /\ [StaysFull]_vars
<1> USE DEF SizeInv
<1>1. CASE UNCHANGED vars
  <2>1. UNCHANGED <<pc, s, m_size, list>>
    BY <1>1 DEF vars
  <2> QED
    BY <1>1, <2>1 DEF Balanced, Bounded, LoadedSizes, Loaded, Uncounted, Extra, Evicted, ToCount
<1>2. ASSUME NEW t \in Threads, Find(t) PROVE SizeInv' /\ m_size' = m_size
  <2>1. CASE UNCHANGED vars
    BY <1>1, <2>1 DEF vars
  <2>2. CASE \/ \E k \in Keys : FindHit(t, k)
             \/ FindPromote(t) \/ FindNoPromote(t)
    <3>1. m_size' = m_size
      BY <2>2 DEF FindHit, FindPromote, FindNoPromote
    <3> QED
      BY <2>2, <3>1, FindSize, Zenon
  <2> QED
    BY <1>2, <2>1, <2>2 DEF Find, FindMiss
<1>3. ASSUME NEW t \in Threads, Insert(t) PROVE SizeInv' /\ (m_size >= MaxSize => m_size' >= MaxSize)
  <2>1. CASE UNCHANGED vars
    BY <1>1, <2>1 DEF vars
  <2>2. ASSUME NEW k \in Keys, NEW n \in NewAddress, InsertNew(t, k, n)
        PROVE  SizeInv' /\ m_size' = m_size
    <3>1. n \in Nodes
      BY DEF NewAddress
    <3> QED
      BY <2>2, <3>1, FindSize, Zenon DEF InsertNew
  <2>3. CASE InsertLoad(t) \/ EvictDelink(t) \/ EvictErase(t) \/ InsertPush(t)
    <3>1. m_size' = m_size
      BY <2>3, Zenon DEF InsertLoad, EvictDelink, EvictErase, InsertPush
    <3> QED
      BY <2>3, <3>1, InsertLoadSize, EvictDelinkSize, EvictEraseSize, InsertPushSize,
         Zenon
  <2>4. CASE InsertCount(t)
    <3>1. m_size \in Nat /\ m_size' \in Nat /\ MaxSize \in Nat
      BY CacheAssumption DEF Inv, TypeOK
    <3> QED
      BY <2>4, <3>1, InsertCountSize
  <2>5. CASE InsertCas(t)
    BY <2>5, InsertCasSize, Zenon
  <2> QED
    BY <1>3, <2>1, <2>2, <2>3, <2>4, <2>5, Zenon DEF Insert, InsertExisting
<1>4. ASSUME NEW t \in Threads, Delete(t) PROVE FALSE
  BY <1>4, Zenon DEF Delete, LoadedSizes, Loaded, SizeAssumption, DeleteDelink, DeleteUnlink, DeleteFree, DeleteCount
<1>5. CASE Clear
  BY <1>5, ClearSize DEF StaysFull
<1>6. CASE \E t \in Threads : Find(t) \/ Insert(t) \/ Delete(t)
  BY <1>2, <1>3, <1>4, <1>6 DEF StaysFull
<1> QED
  BY <1>1, <1>5, <1>6, Zenon DEF Next

(* A new shard is balanced. *)
LEMMA InitSize == SizeAssumption /\ Init => SizeInv
<1> SUFFICES ASSUME SizeAssumption, Init PROVE SizeInv
  OBVIOUS
<1>1. Inv
  BY InitInv, Zenon
<1>2. Uncounted = {} /\ Extra = {} /\ Evicted = {} /\ ToCount = {} /\ Linked(list) = {} /\ m_size = 0
  BY EmptyListLemma DEF Init, Uncounted, Extra, Evicted, ToCount
<1>3. Cardinality({}) = 0
  BY FS_EmptySet
<1>4. 0 < MaxSize + Cardinality(Threads)
  BY <1>1, Numbers
<1>5. LoadedSizes
  BY DEF Init, LoadedSizes, Loaded, InsertSteps
<1> QED
  BY <1>2, <1>3, <1>4, <1>5 DEF SizeInv, Balanced, Bounded

(* What the balance says of size(). *)
LEMMA SizeInvIsExact ==
  ASSUME Inv, SizeAssumption, SizeInv
  PROVE  SizeIsExact
<1>1. /\ Cardinality(Uncounted) \in Nat /\ Cardinality(Extra) \in Nat /\ Cardinality(ToCount) \in Nat
      /\ Cardinality(Evicted) \in Nat /\ Cardinality(Uncounted) <= Cardinality(ToCount)
  <2>1. /\ Uncounted \subseteq ToCount /\ ToCount \subseteq Threads /\ Extra \subseteq Threads
        /\ Evicted \subseteq Threads
    BY DEF Uncounted, ToCount, Extra, Evicted
  <2>2. IsFiniteSet(ToCount) /\ IsFiniteSet(Extra) /\ IsFiniteSet(Evicted)
    BY <2>1, CacheAssumption, FS_Subset
  <2>3. IsFiniteSet(Uncounted) /\ Cardinality(Uncounted) <= Cardinality(ToCount)
    BY <2>1, <2>2, FS_Subset
  <2> QED
    BY <2>2, <2>3, FS_CardinalityType
<1>2. /\ m_size + Cardinality(Uncounted) + Cardinality(Extra)
           = Cardinality(Linked(list)) + Cardinality(Evicted)
      /\ m_size + Cardinality(ToCount) + Cardinality(Extra) < MaxSize + Cardinality(Threads)
  BY DEF SizeInv, Balanced, Bounded
<1>3. /\ m_size \in Nat /\ Cardinality(Linked(list)) \in Nat /\ MaxSize \in Nat
      /\ Cardinality(Threads) \in Nat
  BY Numbers, Zenon
<1>4. m_size < MaxSize + Cardinality(Threads)
  BY <1>1, <1>2, <1>3
<1>5. Cardinality(Linked(list)) < MaxSize + Cardinality(Threads)
  BY <1>1, <1>2, <1>3
<1>6. ASSUME Idle PROVE m_size = Cardinality(Linked(list))
  <2>1. Uncounted = {} /\ Extra = {} /\ Evicted = {}
    BY <1>6 DEF Idle, Uncounted, Extra, Evicted
  <2>2. Cardinality({}) = 0
    BY FS_EmptySet
  <2> QED
    BY <1>2, <1>3, <2>1, <2>2
<1> QED
  BY <1>4, <1>5, <1>6 DEF SizeIsExact

(* With a slot for every thread and without delete_key, size() is exact    *)
(* whenever no call runs, and racing inserts overfill counter and list by  *)
(* less than one element per thread.                                       *)
THEOREM SizeStaysExact == SizeAssumption /\ Spec => []SizeIsExact
<1>1. ASSUME SizeAssumption PROVE Inv /\ OneList /\ SizeInv /\ [Next]_vars => (Inv /\ OneList /\ SizeInv)'
  BY <1>1, NextInv, NextOneList, NextSize
<1>2. ASSUME SizeAssumption PROVE Init => Inv /\ OneList /\ SizeInv
  BY <1>2, InitInv, InitSize, InitOneList
<1>3. ASSUME SizeAssumption PROVE Inv /\ SizeInv => SizeIsExact
  BY <1>3, SizeInvIsExact
<1> SUFFICES ASSUME SizeAssumption PROVE Spec => []SizeIsExact
  OBVIOUS
<1> QED
  BY <1>1, <1>2, <1>3, PTL DEF Spec

(* Under the same conditions a shard that is full stays full until clear:  *)
(* the threads that race for the extra entries do not evict too many.      *)
THEOREM FullShardStaysFull == SizeAssumption /\ Spec => NeverUnderfilled
<1> SUFFICES ASSUME SizeAssumption PROVE Spec => [][StaysFull]_vars
  BY DEF NeverUnderfilled
<1>1. Inv /\ OneList /\ SizeInv /\ [Next]_vars => (Inv /\ OneList /\ SizeInv)' /\ [StaysFull]_vars
  BY NextInv, NextOneList, NextSize
<1>2. Init => Inv /\ OneList /\ SizeInv
  BY InitInv, InitSize, InitOneList
<1> QED
  BY <1>1, <1>2, PTL DEF Spec

=============================================================================
