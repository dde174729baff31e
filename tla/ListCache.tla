----------------------------- MODULE ListCache -----------------------------
(***************************************************************************)
(* One shard of the three baseline caches: LRUCache (hhvm_lru_cache.h),    *)
(* StrictLRUCache (strict_lru.h) and FIFOCache (FIFO.h).  They differ only *)
(* in what find does after a hit, which is the constant Policy.            *)
(*                                                                         *)
(* Threads call find, insert and delete_key on any key at any time.  A     *)
(* step is one atomic access: one call into the concurrent hash map, one   *)
(* critical section of m_listMutex (nothing else is waited for while it is *)
(* held) or one atomic operation on m_size.                                *)
(*                                                                         *)
(* m_map is tbb::concurrent_hash_map: an element carries a reader/writer   *)
(* lock that an accessor holds until it is released.  An element is named  *)
(* by the ListNode its HashMapValue points to, which never changes here.   *)
(***************************************************************************)
EXTENDS NodeList

CONSTANTS Threads, Keys, NoKey, NoThread,
          Policy,       \* which of the three classes
          MaxSize,      \* m_maxSize
          SizeMod,      \* size_t is the integers modulo SizeMod (2^64)
          AllowDelete   \* whether the trace contains delete_key requests

ASSUME CacheAssumption ==
  /\ Policy \in {"LRU", "StrictLRU", "FIFO"}
  /\ MaxSize \in Nat /\ SizeMod \in Nat /\ SizeMod > MaxSize + 1
  /\ AllowDelete \in BOOLEAN
  /\ NoKey \notin Keys /\ NoThread \notin Threads
  /\ IsFiniteSet(Threads) /\ IsFiniteSet(Nodes)
  /\ Sentinels = {Head, Tail}

VARIABLES
  m_map,      \* [Keys -> Nodes \cup {Null}]: the element of a key
  readers,    \* [Nodes -> SUBSET Threads]: const_accessors on the element
  writer,     \* [Nodes -> Threads \cup {NoThread}]: the accessor on it
  list,       \* m_head .. m_tail, a list state of NodeList
  m_key,      \* [Nodes -> Keys \cup {NoKey}]
  alive,      \* the ListNodes that are allocated
  m_size,     \* the atomic counter
  pc, node, moribund, s   \* where each call is, and its locals

vars == <<m_map, readers, writer, list, m_key, alive, m_size,
          pc, node, moribund, s>>
locals == <<node, moribund, s>>
elements == <<m_map, readers, writer>>

Inc(x) == IF x = SizeMod - 1 THEN 0 ELSE x + 1
Dec(x) == IF x = 0 THEN SizeMod - 1 ELSE x - 1

Steps == {"idle", "find", "load", "evict1", "erase1", "push", "count", "cas",
          "evict2", "erase2", "dlock", "dunlink", "dwait", "dsize"}

(* Steps whose next access is a critical section of m_listMutex. *)
LockSteps ==
  {"evict1", "push", "evict2", "dlock"}
    \cup (IF Policy = "FIFO" THEN {} ELSE {"find"})

Init ==
  /\ m_map = [k \in Keys |-> Null]
  /\ readers = [n \in Nodes |-> {}]
  /\ writer = [n \in Nodes |-> NoThread]
  /\ list = EmptyList
  /\ m_key = [n \in Nodes |-> NoKey]
  /\ alive = {}
  /\ m_size = 0
  /\ pc = [t \in Threads |-> "idle"]
  /\ node = [t \in Threads |-> Null]
  /\ moribund = [t \in Threads |-> Null]
  /\ s = [t \in Threads |-> 0]

goto(t, l) == pc' = [pc EXCEPT ![t] = l]

(* The call returns: its locals are gone. *)
return(t) ==
  /\ goto(t, "idle")
  /\ node' = [node EXCEPT ![t] = Null]
  /\ s' = [s EXCEPT ![t] = 0]

(* delete of a ListNode *)
free_Forgotten(n) == UNCHANGED <<alive, m_key>>
free(n) ==
  /\ alive' = alive \ {n}
  /\ m_key' = [m_key EXCEPT ![n] = NoKey]

-----------------------------------------------------------------------------
(* find *)

(* m_map.find with a const_accessor waits while a writer holds the element. *)
FindHit(t, k) ==
  /\ pc[t] = "idle" /\ m_map[k] # Null
  /\ writer[m_map[k]] = NoThread
  /\ readers' = [readers EXCEPT ![m_map[k]] = @ \cup {t}]
  /\ node' = [node EXCEPT ![t] = m_map[k]]
  /\ goto(t, "find")
  /\ UNCHANGED <<m_map, writer, list, m_key, alive, m_size, moribund, s>>

FindMiss(t, k) ==
  /\ pc[t] = "idle" /\ m_map[k] = Null
  /\ UNCHANGED vars

(* LRUCache gets the mutex or StrictLRUCache has waited for it. *)
FindPromote(t) ==
  /\ pc[t] = "find" /\ Policy \in {"LRU", "StrictLRU"}
  /\ list' = IF isInList(list, node[t]) THEN moveToFront(list, node[t]) ELSE list
  /\ readers' = [readers EXCEPT ![node[t]] = @ \ {t}]
  /\ return(t)
  /\ UNCHANGED <<m_map, writer, m_key, alive, m_size, moribund>>

(* FIFOCache never promotes; LRUCache's try_lock fails when another thread *)
(* is in a critical section.                                               *)
FindNoPromote(t) ==
  /\ pc[t] = "find"
  /\ \/ Policy = "FIFO"
     \/ Policy = "LRU" /\ \E u \in Threads \ {t} : pc[u] \in LockSteps
  /\ readers' = [readers EXCEPT ![node[t]] = @ \ {t}]
  /\ return(t)
  /\ UNCHANGED <<m_map, writer, list, m_key, alive, m_size, moribund>>

-----------------------------------------------------------------------------
(* insert *)

(* The allocator returns one free address; which one cannot matter, since  *)
(* addresses are only compared, so it is the same one for the same heap.   *)
NewAddress == {n \in Nodes \ alive : n = CHOOSE x \in Nodes \ alive : TRUE}

(* new ListNode(key) and m_map.insert of a key that is not there: the new  *)
(* element is created with its write accessor held.                        *)
InsertNew(t, k, n) ==
  /\ pc[t] = "idle" /\ m_map[k] = Null /\ n \notin alive
  /\ alive' = alive \cup {n}
  /\ m_key' = [m_key EXCEPT ![n] = k]
  /\ m_map' = [m_map EXCEPT ![k] = n]
  /\ writer' = [writer EXCEPT ![n] = t]
  /\ node' = [node EXCEPT ![t] = n]
  /\ goto(t, "load")
  /\ UNCHANGED <<readers, list, m_size, moribund, s>>

(* The key is there: m_map.insert waits for its element, then the new node *)
(* is deleted and false is returned.                                       *)
InsertExisting(t, k) ==
  /\ pc[t] = "idle" /\ m_map[k] # Null
  /\ writer[m_map[k]] = NoThread /\ readers[m_map[k]] = {}
  /\ UNCHANGED vars

(* The container is at (or over) capacity: evict first. *)
AtCapacity(size) == size >= MaxSize

InsertLoad(t) ==
  /\ pc[t] = "load"
  /\ s' = [s EXCEPT ![t] = m_size]
  /\ goto(t, IF AtCapacity(m_size) THEN "evict1" ELSE "push")
  /\ UNCHANGED <<elements, list, m_key, alive, m_size, node, moribund>>

InsertPush(t) ==
  /\ pc[t] = "push"
  /\ list' = pushFront(list, node[t])
  /\ goto(t, "count")
  /\ UNCHANGED <<elements, m_key, alive, m_size, locals>>

(* The write accessor lives until insert returns. *)
InsertReturn_KeepsAccessor(t) == return(t) /\ UNCHANGED writer
InsertReturn(t) ==
  /\ writer' = [writer EXCEPT ![node[t]] = NoThread]
  /\ return(t)

(* insert sets evictionDone when s was at capacity, whether or not evict   *)
(* found anything.                                                         *)
EvictionDone_Forgotten(t) == FALSE
EvictionDone(t) == AtCapacity(s[t])

(* s = m_size++ unless evictionDone; then the overfill test.               *)
InsertCount(t) ==
  LET old == IF EvictionDone(t) THEN s[t] ELSE m_size
  IN  /\ pc[t] = "count"
      /\ m_size' = IF EvictionDone(t) THEN m_size ELSE Inc(m_size)
      /\ IF old > MaxSize
         THEN /\ goto(t, "cas")
              /\ s' = [s EXCEPT ![t] = old]
              /\ UNCHANGED <<writer, node>>
         ELSE InsertReturn(t)
      /\ UNCHANGED <<m_map, readers, list, m_key, alive, moribund>>

(* compare_exchange_strong(s, s - 1): the winner evicts one extra element. *)
CasSucceeds_Unconditional(t) == TRUE
CasSucceeds(t) == m_size = s[t]

InsertCas(t) ==
  /\ pc[t] = "cas"
  /\ IF CasSucceeds(t)
     THEN /\ m_size' = Dec(m_size)
          /\ goto(t, "evict2")
          /\ UNCHANGED <<writer, node, s>>
     ELSE /\ InsertReturn(t)
          /\ UNCHANGED m_size
  /\ UNCHANGED <<m_map, readers, list, m_key, alive, moribund>>

-----------------------------------------------------------------------------
(* evict, called from two places of insert *)

ListIsEmpty == list.prev[Tail] = Head

EvictReturn(t) ==
  /\ moribund' = [moribund EXCEPT ![t] = Null]
  /\ IF pc[t] \in {"evict1", "erase1"}
     THEN goto(t, "push") /\ UNCHANGED <<writer, node, s>>
     ELSE InsertReturn(t)

EvictDelink(t) ==
  /\ pc[t] \in {"evict1", "evict2"}
  /\ IF ListIsEmpty
     THEN /\ EvictReturn(t)
          /\ UNCHANGED list
     ELSE /\ moribund' = [moribund EXCEPT ![t] = list.prev[Tail]]
          /\ list' = delink(list, list.prev[Tail])
          /\ goto(t, IF pc[t] = "evict1" THEN "erase1" ELSE "erase2")
          /\ UNCHANGED <<writer, node, s>>
  /\ UNCHANGED <<m_map, readers, m_key, alive, m_size>>

(* m_map.find with an accessor waits until nobody holds the element of the *)
(* moribund node's key; then it is erased and the node is deleted.  The    *)
(* branch for a key that is not in the map deletes nothing.                *)
EvictErase(t) ==
  LET k == m_key[moribund[t]]
  IN  /\ pc[t] \in {"erase1", "erase2"}
      /\ IF m_map[k] = Null
         THEN UNCHANGED <<m_map, list, m_key, alive>>
         ELSE /\ writer[m_map[k]] = NoThread /\ readers[m_map[k]] = {}
              /\ m_map' = [m_map EXCEPT ![k] = Null]
              /\ list' = resetNode(list, moribund[t])
              /\ free(moribund[t])
      /\ EvictReturn(t)
      /\ UNCHANGED <<readers, m_size>>

-----------------------------------------------------------------------------
(* delete_key *)

DeleteFind(t, k) ==
  /\ pc[t] = "idle" /\ m_map[k] # Null
  /\ writer[m_map[k]] = NoThread
  /\ readers' = [readers EXCEPT ![m_map[k]] = @ \cup {t}]
  /\ node' = [node EXCEPT ![t] = m_map[k]]
  /\ goto(t, "dlock")
  /\ UNCHANGED <<m_map, writer, list, m_key, alive, m_size, moribund, s>>

DeleteMiss(t, k) ==
  /\ pc[t] = "idle" /\ m_map[k] = Null
  /\ UNCHANGED vars

(* A node that is being inserted or evicted is left to that thread. *)
MayDelete_Unchecked(t) == TRUE
MayDelete(t) == isInList(list, node[t])

DeleteDelink(t) ==
  /\ pc[t] = "dlock"
  /\ IF MayDelete(t)
     THEN /\ list' = delink(list, node[t])
          /\ goto(t, "dunlink")
          /\ UNCHANGED <<readers, node, s>>
     ELSE /\ readers' = [readers EXCEPT ![node[t]] = @ \ {t}]
          /\ return(t)
          /\ UNCHANGED list
  /\ UNCHANGED <<m_map, writer, m_key, alive, m_size, moribund>>

(* m_map.erase(const_accessor) first takes the element out of the table, if *)
(* it is still there ...                                                    *)
DeleteUnlink(t) ==
  LET k == m_key[node[t]]
  IN  /\ pc[t] = "dunlink"
      /\ m_map' = [m_map EXCEPT ![k] = IF @ = node[t] THEN Null ELSE @]
      /\ goto(t, "dwait")
      /\ UNCHANGED <<readers, writer, list, m_key, alive, m_size, locals>>

(* ... and then waits for the other accessors on it; delete node follows. *)
OnlyReader_NotAwaited(t) == TRUE
OnlyReader(t) == readers[node[t]] = {t}

DeleteFree(t) ==
  /\ pc[t] = "dwait" /\ OnlyReader(t)
  /\ readers' = [readers EXCEPT ![node[t]] = @ \ {t}]
  /\ list' = resetNode(list, node[t])
  /\ free(node[t])
  /\ goto(t, "dsize")
  /\ UNCHANGED <<m_map, writer, m_size, locals>>

DeleteCount(t) ==
  /\ pc[t] = "dsize"
  /\ m_size' = Dec(m_size)
  /\ return(t)
  /\ UNCHANGED <<elements, list, m_key, alive, moribund>>

-----------------------------------------------------------------------------
(* clear, "NOT THREAD SAFE": it is called when no other call is running.   *)
(* It frees the nodes it meets on the list.                                *)
Clear ==
  /\ \A t \in Threads : pc[t] = "idle"
  /\ m_map' = [k \in Keys |-> Null]
  /\ alive' = alive \ Linked(list)
  /\ m_key' = [n \in Nodes |-> IF isInList(list, n) THEN NoKey ELSE m_key[n]]
  /\ list' = EmptyList
  /\ m_size' = 0
  /\ UNCHANGED <<readers, writer, pc, locals>>

Find(t) ==
  \/ \E k \in Keys : FindHit(t, k) \/ FindMiss(t, k)
  \/ FindPromote(t)
  \/ FindNoPromote(t)

Insert(t) ==
  \/ \E k \in Keys : \/ \E n \in NewAddress : InsertNew(t, k, n)
                      \/ InsertExisting(t, k)
  \/ InsertLoad(t)
  \/ EvictDelink(t)
  \/ EvictErase(t)
  \/ InsertPush(t)
  \/ InsertCount(t)
  \/ InsertCas(t)

Delete(t) ==
  \/ AllowDelete /\ \E k \in Keys : DeleteFind(t, k) \/ DeleteMiss(t, k)
  \/ DeleteDelink(t)
  \/ DeleteUnlink(t)
  \/ DeleteFree(t)
  \/ DeleteCount(t)

Next == (\E t \in Threads : Find(t) \/ Insert(t) \/ Delete(t)) \/ Clear

Spec == Init /\ [][Next]_vars

-----------------------------------------------------------------------------
(* Properties *)

TypeOK ==
  /\ m_map \in [Keys -> Nodes \cup {Null}]
  /\ readers \in [Nodes -> SUBSET Threads]
  /\ writer \in [Nodes -> Threads \cup {NoThread}]
  /\ list \in ListStates
  /\ m_key \in [Nodes -> Keys \cup {NoKey}]
  /\ alive \subseteq Nodes
  /\ m_size \in 0..SizeMod-1
  /\ pc \in [Threads -> Steps]
  /\ node \in [Threads -> Nodes \cup {Null}]
  /\ moribund \in [Threads -> Nodes \cup {Null}]
  /\ s \in [Threads -> 0..SizeMod-1]

(* delink, pushFront and the promotion of find keep the list doubly linked *)
(* in every interleaving of the critical sections.                         *)
ListWellLinked == WellLinked(list, {Head}, {Tail})

(* evict always finds the key of the node it has delinked, and the element *)
(* it erases is the one that owns the node: the branch the code comments   *)
(* as "Presumably unreachable" is unreachable.                             *)
EvictFindsItsKey ==
  \A t \in Threads : pc[t] \in {"erase1", "erase2"} =>
    m_map[m_key[moribund[t]]] = moribund[t]

(* No call touches a ListNode after it was deleted, and none is deleted    *)
(* twice, although find and delete_key use the node outside of any lock    *)
(* on the list.                                                            *)
NoUseAfterFree ==
  /\ Linked(list) \subseteq alive
  /\ \A t \in Threads :
       /\ pc[t] \notin {"idle", "dsize"} => node[t] \in alive
       /\ pc[t] \in {"erase1", "erase2"} => moribund[t] \in alive

(***************************************************************************)
(* Who may touch a node: readers and writer name exactly the calls that    *)
(* hold an accessor; a linked node is in the map under its key; a node     *)
(* that is allocated but not linked has exactly one owner, the call that   *)
(* will link it or delete it.                                              *)
(***************************************************************************)
ReadSteps == {"find", "dlock", "dunlink", "dwait"}
InsertSteps == {"load", "evict1", "erase1", "push", "count", "cas", "evict2",
                "erase2"}
BeforePush == {"load", "evict1", "erase1", "push"}
EraseSteps == {"erase1", "erase2"}

OwnsNode(t) == pc[t] \in BeforePush \cup {"dunlink", "dwait"}
OwnsMoribund(t) == pc[t] \in EraseSteps
Owns(t, n) == (OwnsNode(t) /\ node[t] = n) \/ (OwnsMoribund(t) /\ moribund[t] = n)

AccessorsHeld ==
  \A t \in Threads, n \in Nodes :
    /\ t \in readers[n] <=> pc[t] \in ReadSteps /\ node[t] = n
    /\ writer[n] = t <=> pc[t] \in InsertSteps /\ node[t] = n

ReadersExcludeWriter == \A n \in Nodes : writer[n] # NoThread => readers[n] = {}

MapPointsToOwnNode ==
  \A k \in Keys : m_map[k] # Null => m_map[k] \in alive /\ m_key[m_map[k]] = k

InMap(n) == m_key[n] \in Keys /\ m_map[m_key[n]] = n

LinkedInMap ==
  /\ \A n \in Linked(list) : n \in alive /\ InMap(n)
  /\ \A n \in alive : m_key[n] \in Keys

NoOrphans == \A n \in alive : n \in Linked(list) \/ \E t \in Threads : Owns(t, n)

OwnersExclusive ==
  /\ \A t \in Threads, n \in Nodes : Owns(t, n) => n \in alive \ Linked(list)
  /\ \A t, u \in Threads, n \in Nodes : Owns(t, n) /\ Owns(u, n) => t = u
  /\ \A t \in Threads : pc[t] = "erase1" => node[t] # moribund[t]

CallsHoldTheirNodes ==
  \A t \in Threads :
    /\ pc[t] \notin {"idle", "dsize"} => node[t] \in alive
    /\ pc[t] \in EraseSteps => moribund[t] \in alive /\ InMap(moribund[t])
    /\ pc[t] \in InsertSteps \cup {"dunlink"} => InMap(node[t])
    /\ pc[t] = "dwait" => m_map[m_key[node[t]]] # node[t]

IInv ==
  /\ ListWellLinked /\ AccessorsHeld /\ ReadersExcludeWriter
  /\ MapPointsToOwnNode /\ LinkedInMap /\ NoOrphans /\ OwnersExclusive
  /\ CallsHoldTheirNodes

Idle == \A t \in Threads : pc[t] = "idle"

(* When no call is running, the hash map and the list hold the same nodes, *)
(* one per key, no other node is allocated (nothing leaked) and no element *)
(* is left locked.                                                         *)
IdleConsistent ==
  Idle => /\ Linked(list) = alive
          /\ {m_map[k] : k \in Keys} \ {Null} = alive
          /\ \A k \in Keys : m_map[k] # Null => m_key[m_map[k]] = k
          /\ \A n \in Nodes : readers[n] = {} /\ writer[n] = NoThread

(* Every linked node is on the chain that clear and snapshotKeys follow    *)
(* from m_head, and the chain ends at m_tail.                              *)
ListReachable == ListChain(list, Head) = Linked(list) \cup {Head, Tail}

(* size() is exact when no call is running, and the overfill that racing   *)
(* inserts cause is less than one element per thread, in the counter and   *)
(* on the list.  It needs a capacity of one element per thread and no      *)
(* delete_key: an insert that finds the list emptied by others counts an   *)
(* eviction that did not happen.                                           *)
SizeIsExact ==
  /\ Idle => m_size = Cardinality(Linked(list))
  /\ m_size < MaxSize + Cardinality(Threads)
  /\ Cardinality(Linked(list)) < MaxSize + Cardinality(Threads)

(* "we have to be careful not to have every thread simultaneously attempt  *)
(* to evict the extra entries, since we could end up underfilled": without *)
(* delete_key and clear, a shard that is full never counts as less than    *)
(* full again.                                                             *)
StaysFull == m_size >= MaxSize => m_size' >= MaxSize \/ alive' = {}
NeverUnderfilled == [][StaysFull]_vars

(* A call that waits for an element that another call (or itself) holds. *)
Holders(n) == readers[n] \cup ({writer[n]} \ {NoThread})

Waits(t) ==
  \/ pc[t] \in {"erase1", "erase2"} /\ Holders(m_map[m_key[moribund[t]]]) # {}
  \/ pc[t] = "dwait" /\ readers[node[t]] # {t}

(* Calls never wait for each other in a circle except in the eviction of   *)
(* an extra element at the end of insert: when every running call waits,   *)
(* one of them is there.                                                   *)
StuckOnlyAtOverfill ==
  (~Idle /\ \A t \in Threads : pc[t] # "idle" => Waits(t)) =>
     \E t \in Threads : pc[t] = "erase2"

(* insert never waits for the element whose accessor it holds itself:      *)
(* FIFO_FH.h releases it before that eviction to "avoid deadlock".         *)
InsertNeverWaitsForItself ==
  \A t \in Threads : pc[t] = "erase2" => writer[moribund[t]] # t

=============================================================================
