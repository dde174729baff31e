---------------------------- MODULE FrozenCache ----------------------------
(***************************************************************************)
(* One shard of the FrozenHot caches LRU_FHCache (hhvm_lru_cache_FH.h) and *)
(* FIFO_FHCache (FIFO_FH.h), used by the request threads of client.h and   *)
(* by the monitor thread of hhvm-scalable-cache.h.                         *)
(*                                                                         *)
(* The shard has the concurrent hash map m_map and the list of ListCache,  *)
(* and a frozen part: the second list m_fast_head .. m_fast_tail (FC; the  *)
(* first one is DC) and the table m_fasthash, which find reads without any *)
(* lock while the shard is frozen.  The monitor fills them (construct_tier *)
(* freezes everything and rejects inserts, construct_ratio freezes the     *)
(* front of the list), empties them (deconstruct), and before that may run *)
(* a marker node down the list (get_curve).                                *)
(*                                                                         *)
(* A step is one call into m_map, one critical section of m_listMutex, or  *)
(* one unlocked access to the flags, the lists or m_fasthash.  m_map is    *)
(* tbb::concurrent_hash_map: an accessor locks the element of its key.     *)
(* Every erase here holds the write accessor, so "who holds the element of *)
(* k" follows from where the calls on k are.                               *)
(***************************************************************************)
EXTENDS NodeList

CONSTANTS Threads, Keys, NoKey,
          TOMB_KEY, MARKER_KEY,   \* reserved values of ListNode::m_key
          FHead, FTail,           \* &m_fast_head, &m_fast_tail
          Policy,                 \* which of the two classes
          MaxSize,                \* m_maxSize
          SizeMod,                \* size_t is the integers modulo SizeMod
          FC_size,                \* FC_ratio * m_maxSize of construct_ratio
          FC_RELAXATION,
          MaxLag, AssumeSteady,   \* see MonitorKeepsUp and Steady
          Requests,               \* request types of the trace
          MonitorOps              \* which calls the monitor makes

ASSUME FrozenAssumption ==
  /\ Policy \in {"LRU_FH", "FIFO_FH"}
  /\ MaxSize \in Nat /\ SizeMod \in Nat /\ FC_RELAXATION \in Nat
  /\ SizeMod > MaxSize + FC_RELAXATION + 1
  /\ FC_size \in 0..MaxSize /\ MaxLag \in Nat /\ AssumeSteady \in BOOLEAN
  /\ Requests \subseteq {"read", "delete"}
  /\ MonitorOps \subseteq {"tier", "ratio", "curve"}
  /\ Nodes \subseteq (Keys \cup {MARKER_KEY}) \X Nat
  /\ Keys \cap {NoKey, TOMB_KEY, MARKER_KEY} = {}
  /\ Cardinality({NoKey, TOMB_KEY, MARKER_KEY}) = 3
  /\ Sentinels = {Head, Tail, FHead, FTail} /\ Cardinality(Sentinels) = 4

VARIABLES
  m_map,        \* [Keys -> Nodes \cup {Null}]: the m_listNode of the element
  list,         \* both lists, a list state of NodeList
  m_key,        \* [Nodes -> Keys \cup {NoKey, TOMB_KEY, MARKER_KEY}]
  fresh,        \* the nodes whose m_time is later than that of the marker
  alive,        \* the ListNodes that are allocated
  m_size,
  m_fasthash,   \* [Keys -> Nodes \cup {Null}]: the value that was frozen,
                \* named by the node that was allocated together with it
  fast_hash_ready, fast_hash_construct, tier_ready, tier_no_insert, curve_flag,
  m_marker, eviction_counter,
  pc, key, node, moribund, s,  \* where each request is, and its locals
  evictionDone,                \* the inserts whose local evictionDone is true
  mpc,                         \* where the monitor is, and its locals:
  temp_node, temp_key,         \* the walk, the key of its const_accessor,
  count, eviction_count, first_pass_flag

heap == <<m_key, fresh, alive>>
locals == <<key, node, moribund, s, evictionDone>>
flags == <<fast_hash_ready, fast_hash_construct, tier_ready, tier_no_insert,
           curve_flag>>
walk == <<temp_node, temp_key, count, eviction_count, first_pass_flag>>

(* What only the monitor writes, and what only the requests write. *)
monitorOnly == <<m_fasthash, flags, m_marker, mpc, walk>>
requestOnly == <<m_map, m_size, pc, locals>>

vars == <<list, heap, eviction_counter, monitorOnly, requestOnly>>

Inc(x) == IF x = SizeMod - 1 THEN 0 ELSE x + 1
Dec(x) == IF x = 0 THEN SizeMod - 1 ELSE x - 1
Sub(x, y) == (x - y) % SizeMod

DC_size == MaxSize - FC_size

(* count and eviction_counter are only compared with bounds that are at    *)
(* most MaxSize, so counting stops one above.                              *)
Count(x) == IF x > MaxSize THEN x ELSE x + 1

Init ==
  /\ m_map = [k \in Keys |-> Null]
  /\ list = emptyEnds(EmptyList, FHead, FTail)
  /\ m_key = [n \in Nodes |-> NoKey]
  /\ fresh = {} /\ alive = {} /\ m_size = 0
  /\ m_fasthash = [k \in Keys |-> Null]
  /\ fast_hash_ready = FALSE /\ fast_hash_construct = FALSE
  /\ tier_ready = FALSE /\ tier_no_insert = FALSE /\ curve_flag = FALSE
  /\ m_marker = Null /\ eviction_counter = 0
  /\ pc = [t \in Threads |-> "idle"]
  /\ key = [t \in Threads |-> NoKey]
  /\ node = [t \in Threads |-> Null]
  /\ moribund = [t \in Threads |-> Null]
  /\ s = [t \in Threads |-> 0]
  /\ evictionDone = {}
  /\ mpc = "idle" /\ temp_node = Null /\ temp_key = NoKey
  /\ count = 0 /\ eviction_count = 0 /\ first_pass_flag = TRUE

-----------------------------------------------------------------------------
(* Element locks, the mutex and the heap *)

ReadSteps == {"fheld", "fmark", "fcurve", "ftry"}
WriteSteps_NotReleased ==
  {"load", "evict1", "erase1", "push", "count", "evict2", "erase2", "dheld", "dlock",
   "derase"}
WriteSteps == {"load", "evict1", "erase1", "push", "dheld", "dlock", "derase"}

WriteLocked(k) == \E t \in Threads : pc[t] \in WriteSteps /\ key[t] = k
ReadLocked(k) ==
  temp_key = k \/ \E t \in Threads : pc[t] \in ReadSteps /\ key[t] = k
Locked_WritersOnly(k) == WriteLocked(k)
Locked(k) == WriteLocked(k) \/ ReadLocked(k)

InMap(k) == k \in Keys /\ m_map[k] # Null

(* Some other thread may be inside a critical section of m_listMutex. *)
MutexBusy(t) ==
  \/ \E u \in Threads \ {t} :
        pc[u] \in {"fcurve", "ftry", "evict1", "push", "evict2", "dlock"}
  \/ mpc = "idle" /\ "tier" \in MonitorOps
  \/ mpc \in {"cut1", "cut2", "splice", "curve1", "curve2"}

goto(t, l) == pc' = [pc EXCEPT ![t] = l]

(* The request is served: its locals are gone. *)
return(t) ==
  /\ goto(t, "idle")
  /\ key' = [key EXCEPT ![t] = NoKey]
  /\ node' = [node EXCEPT ![t] = Null]
  /\ moribund' = [moribund EXCEPT ![t] = Null]
  /\ s' = [s EXCEPT ![t] = 0]
  /\ evictionDone' = evictionDone \ {t}

(* The allocator may return any free address; addresses are only compared, *)
(* so it is enough that it takes the next one of those set apart for k.    *)
NewAddress(k) ==
  {n \in Nodes \ alive : n[1] = k /\ \A m \in Nodes \ alive : m[1] = k => n[2] <= m[2]}

(* new ListNode(k): m_time is the current time *)
allocate(n, k) ==
  /\ alive' = alive \cup {n}
  /\ m_key' = [m_key EXCEPT ![n] = k]
  /\ fresh' = IF m_marker = Null THEN fresh ELSE fresh \cup {n}

(* delete of the ListNodes in D *)
free(D) ==
  /\ alive' = alive \ D
  /\ m_key' = [n \in Nodes |-> IF n \in D THEN NoKey ELSE m_key[n]]
  /\ fresh' = fresh \ D

-----------------------------------------------------------------------------
(* find, the first half of a read request *)

FindStart(t, k) ==
  /\ pc[t] = "idle"
  /\ key' = [key EXCEPT ![t] = k]
  /\ goto(t, IF tier_ready \/ fast_hash_ready THEN "ffast" ELSE "fmap")
  /\ UNCHANGED <<m_map, list, heap, m_size, eviction_counter, monitorOnly,
                 node, moribund, s, evictionDone>>

(* A miss in m_fasthash is final when everything is frozen (tier_ready). *)
FindFrozen(t) ==
  /\ pc[t] = "ffast"
  /\ IF m_fasthash[key[t]] # Null
     THEN return(t)
     ELSE /\ goto(t, IF tier_ready THEN "insert" ELSE "fmap")
          /\ UNCHANGED locals
  /\ UNCHANGED <<m_map, list, heap, m_size, eviction_counter, monitorOnly>>

(* m_map.find with a const_accessor waits while a writer holds the element. *)
FindMap(t) ==
  /\ pc[t] = "fmap" /\ ~WriteLocked(key[t])
  /\ node' = [node EXCEPT ![t] = m_map[key[t]]]
  /\ goto(t, IF InMap(key[t]) THEN "fheld" ELSE "insert")
  /\ UNCHANGED <<m_map, list, heap, m_size, eviction_counter, monitorOnly,
                 key, moribund, s, evictionDone>>

(* The flags are read without the mutex.  FIFO_FHCache promotes nothing    *)
(* outside of get_curve.                                                   *)
FindHeld(t) ==
  /\ pc[t] = "fheld"
  /\ IF fast_hash_construct \/ (~curve_flag /\ Policy = "FIFO_FH")
     THEN return(t)
     ELSE /\ goto(t, IF curve_flag THEN "fmark" ELSE "ftry")
          /\ UNCHANGED locals
  /\ UNCHANGED <<m_map, list, heap, m_size, eviction_counter, monitorOnly>>

(* The first hit on a node since the marker was pushed. *)
FindMark(t) ==
  /\ pc[t] = "fmark"
  /\ IF m_marker # Null /\ node[t] \notin fresh
     THEN /\ fresh' = fresh \cup {node[t]}
          /\ goto(t, "fcurve")
          /\ UNCHANGED locals
     ELSE return(t) /\ UNCHANGED fresh
  /\ UNCHANGED <<m_map, list, m_key, alive, m_size, eviction_counter, monitorOnly>>

(* The critical sections of find: in get_curve, and after try_lock, where  *)
(* fast_hash_construct is tested again.                                    *)
MayPromote(t) ==
  isInList(list, node[t]) /\ (pc[t] = "fcurve" \/ ~fast_hash_construct)

FindPromote(t) ==
  /\ pc[t] \in {"fcurve", "ftry"}
  /\ list' = IF MayPromote(t) THEN moveToFront(list, node[t]) ELSE list
  /\ return(t)
  /\ UNCHANGED <<m_map, heap, m_size, eviction_counter, monitorOnly>>

FindTryLockFails(t) ==
  /\ pc[t] = "ftry" /\ MutexBusy(t)
  /\ return(t)
  /\ UNCHANGED <<m_map, list, heap, m_size, eviction_counter, monitorOnly>>

-----------------------------------------------------------------------------
(* insert, the second half of a read request that missed *)

(* if(tier_no_insert.load()) return false *)
InsertStart(t) ==
  /\ pc[t] = "insert"
  /\ IF tier_no_insert THEN return(t) ELSE goto(t, "map") /\ UNCHANGED locals
  /\ UNCHANGED <<m_map, list, heap, m_size, eviction_counter, monitorOnly>>

(* m_map.insert creates the element with its write accessor held ... *)
InsertNew(t, n) ==
  /\ pc[t] = "map" /\ ~InMap(key[t])
  /\ allocate(n, key[t])
  /\ m_map' = [m_map EXCEPT ![key[t]] = n]
  /\ node' = [node EXCEPT ![t] = n]
  /\ goto(t, "load")
  /\ UNCHANGED <<list, m_size, eviction_counter, monitorOnly,
                 key, moribund, s, evictionDone>>

(* ... or finds it, and the element gets the new value and the new node,   *)
(* which no list ever holds.                                               *)
InsertExisting(t, n) ==
  /\ pc[t] = "map" /\ InMap(key[t]) /\ ~Locked(key[t])
  /\ allocate(n, key[t])
  /\ m_map' = [m_map EXCEPT ![key[t]] = n]
  /\ return(t)
  /\ UNCHANGED <<list, m_size, eviction_counter, monitorOnly>>

(* construct_ratio has not cut the frozen part out yet: m_fast_head only   *)
(* points into DC.                                                         *)
Uncut == mpc \in {"flag", "rvisit", "rfind", "cut1", "cut2"} /\ first_pass_flag

(* The timing construct_ratio relies on: from its start until it has cut   *)
(* the frozen part out of the list, at most MaxLag inserts get past here   *)
(* (a MaxLag above MaxSize assumes nothing).                               *)
MonitorKeepsUp ==
  Uncut /\ MaxLag <= MaxSize => mpc # "flag" /\ eviction_counter < MaxLag

(* The counter is for construct_ratio, which resets it first: what is     *)
(* counted while construct_tier runs does not matter.                      *)
InsertLoad(t) ==
  /\ pc[t] = "load" /\ MonitorKeepsUp
  /\ eviction_counter' = IF fast_hash_construct /\ ~tier_no_insert
                         THEN Count(eviction_counter) ELSE eviction_counter
  /\ s' = [s EXCEPT ![t] = m_size]
  /\ goto(t, IF m_size >= MaxSize THEN "evict1" ELSE "push")
  /\ UNCHANGED <<m_map, list, heap, m_size, monitorOnly,
                 key, node, moribund, evictionDone>>

(* Under the mutex, tier_no_insert is tested again; if it was set in the   *)
(* meantime the element is erased and the node deleted.                    *)
Rejected_NoRecheck == FALSE
Rejected == tier_no_insert

pushNew_InFront(L, n) == pushFront(L, n)
pushNew(L, n) == IF curve_flag THEN pushAfter(L, m_marker, n) ELSE pushFront(L, n)

InsertPush(t) ==
  /\ pc[t] = "push"
  /\ IF Rejected
     THEN /\ m_map' = [m_map EXCEPT ![key[t]] = Null]
          /\ list' = resetNode(list, node[t])
          /\ free({node[t]})
          /\ return(t)
     ELSE /\ list' = pushNew(list, node[t])
          /\ fresh' = IF curve_flag THEN fresh \ {node[t]} ELSE fresh
          /\ goto(t, "count")
          /\ UNCHANGED <<m_map, m_key, alive, locals>>
  /\ UNCHANGED <<m_size, eviction_counter, monitorOnly>>

(* The accessor was released "for deadlock": s = m_size++ and a second     *)
(* eviction, without the compare-and-exchange of the baseline caches.      *)
InsertCount(t) ==
  LET old == IF t \in evictionDone THEN s[t] ELSE m_size
  IN  /\ pc[t] = "count"
      /\ m_size' = IF t \in evictionDone THEN m_size ELSE Inc(m_size)
      /\ IF old > MaxSize
         THEN goto(t, "evict2") /\ UNCHANGED locals
         ELSE return(t)
      /\ UNCHANGED <<m_map, list, heap, eviction_counter, monitorOnly>>

InsertShrink(t) ==
  /\ pc[t] = "shrink"
  /\ m_size' = Dec(m_size)
  /\ return(t)
  /\ UNCHANGED <<m_map, list, heap, eviction_counter, monitorOnly>>

-----------------------------------------------------------------------------
(* evict *)

(* The loop that deletes the tombs at the end of the list. *)
popTombs ==
  LET p[i \in 0..Cardinality(Nodes)] ==
        IF i = 0 THEN list
        ELSE LET L == p[i - 1]
                 last == L.prev[Tail]
             IN  IF last \in Nodes /\ m_key[last] = TOMB_KEY
                 THEN resetNode(delink(L, last), last) ELSE L
  IN  p[Cardinality(Nodes)]

EvictReturn(t, done) ==
  IF pc[t] \in {"evict1", "erase1"}
  THEN /\ goto(t, "push")
       /\ evictionDone' = IF done THEN evictionDone \cup {t} ELSE evictionDone
       /\ moribund' = [moribund EXCEPT ![t] = Null]
       /\ UNCHANGED <<key, node, s>>
  ELSE IF done THEN goto(t, "shrink") /\ UNCHANGED locals
       ELSE return(t)

ListIsEmpty(L) == L.prev[Tail] = Head

EvictDelink(t) ==
  LET L == popTombs
  IN  /\ pc[t] \in {"evict1", "evict2"}
      /\ free(Linked(list) \ Linked(L))
      /\ IF ListIsEmpty(L)
         THEN list' = L /\ EvictReturn(t, FALSE)
         ELSE /\ list' = delink(L, L.prev[Tail])
              /\ moribund' = [moribund EXCEPT ![t] = L.prev[Tail]]
              /\ goto(t, IF pc[t] = "evict1" THEN "erase1" ELSE "erase2")
              /\ UNCHANGED <<key, node, s, evictionDone>>
      /\ UNCHANGED <<m_map, m_size, eviction_counter, monitorOnly>>

(* "Presumably unreachable": the key is not in the map; moribund is leaked. *)
EvictErase(t) ==
  LET k == m_key[moribund[t]]
  IN  /\ pc[t] \in {"erase1", "erase2"}
      /\ IF InMap(k)
         THEN /\ ~Locked(k)
              /\ m_map' = [m_map EXCEPT ![k] = Null]
              /\ list' = resetNode(list, moribund[t])
              /\ free({moribund[t]})
              /\ EvictReturn(t, TRUE)
         ELSE /\ EvictReturn(t, FALSE)
              /\ UNCHANGED <<m_map, list, heap>>
      /\ UNCHANGED <<m_size, eviction_counter, monitorOnly>>

-----------------------------------------------------------------------------
(* delete_key *)

(* m_map.find with an accessor waits for the element. *)
DeleteFind(t, k) ==
  /\ pc[t] = "idle" /\ InMap(k) /\ ~Locked(k)
  /\ key' = [key EXCEPT ![t] = k]
  /\ node' = [node EXCEPT ![t] = m_map[k]]
  /\ goto(t, "dheld")
  /\ UNCHANGED <<m_map, list, heap, m_size, eviction_counter, monitorOnly,
                 moribund, s, evictionDone>>

DeleteMiss(t, k) ==
  /\ pc[t] = "idle" /\ ~InMap(k)
  /\ UNCHANGED vars

(* While the frozen part is built, or for a key in it, the node becomes a  *)
(* tomb and stays where it is.                                             *)
TombOnly(t) ==
  \/ fast_hash_construct
  \/ (tier_ready \/ fast_hash_ready) /\ m_fasthash[key[t]] # Null

tomb_Unmarked(n) == m_key
tomb(n) == [m_key EXCEPT ![n] = TOMB_KEY]

DeleteHeld(t) ==
  /\ pc[t] = "dheld"
  /\ m_key' = IF TombOnly(t) THEN tomb(node[t]) ELSE m_key
  /\ goto(t, IF TombOnly(t) THEN "derase" ELSE "dlock")
  /\ UNCHANGED <<m_map, list, fresh, alive, m_size, eviction_counter, monitorOnly,
                 locals>>

(* A node that is being evicted, or that no list ever held, is left alone, *)
(* and so is its element.                                                  *)
DeleteDelink(t) ==
  /\ pc[t] = "dlock"
  /\ IF isInList(list, node[t])
     THEN /\ list' = resetNode(delink(list, node[t]), node[t])
          /\ free({node[t]})
          /\ goto(t, "derase")
          /\ UNCHANGED locals
     ELSE return(t) /\ UNCHANGED <<list, heap>>
  /\ UNCHANGED <<m_map, m_size, eviction_counter, monitorOnly>>

DeleteErase(t) ==
  /\ pc[t] = "derase"
  /\ m_map' = [m_map EXCEPT ![key[t]] = Null]
  /\ goto(t, "shrink")
  /\ UNCHANGED <<list, heap, m_size, eviction_counter, monitorOnly, locals>>

-----------------------------------------------------------------------------
(* The monitor: construct_tier, construct_ratio *)

(* FastHashMonitor waits until the miss ratio of the cache is stable, but  *)
(* looks at no single shard.  AssumeSteady is what construct_* rely on: the *)
(* list is full, and no delete_key and no find that has seen curve_flag is *)
(* on its way to delink a node.                                            *)
Steady ==
  AssumeSteady => /\ Cardinality(Linked(list)) >= MaxSize
                  /\ \A t \in Threads : pc[t] \notin {"dlock", "fmark", "fcurve"}

(* The stores of construct_tier's critical section, in their order: the    *)
(* whole of DC becomes FC, also when DC is empty.                          *)
freezeAll_KeepsTail(L) ==
  LET last == L.prev[Tail]
  IN  [prev |-> [L.prev EXCEPT ![L.next[Head]] = FHead, ![FTail] = last],
       next |-> [L.next EXCEPT ![FHead] = L.next[Head], ![last] = FTail, ![Head] = Tail]]
freezeAll(L) ==
  LET prev1 == [L.prev EXCEPT ![L.next[Head]] = FHead]
      next1 == [L.next EXCEPT ![FHead] = L.next[Head]]
      last == prev1[Tail]
  IN  [prev |-> [prev1 EXCEPT ![FTail] = last, ![Tail] = Head],
       next |-> [next1 EXCEPT ![last] = FTail, ![Head] = Tail]]

TierStart ==
  /\ mpc = "idle" /\ Steady
  /\ fast_hash_construct' = TRUE /\ tier_no_insert' = TRUE
  /\ list' = freezeAll(list)
  /\ temp_node' = freezeAll(list).next[FHead]
  /\ mpc' = "tvisit"
  /\ UNCHANGED <<requestOnly, heap, m_fasthash, fast_hash_ready, tier_ready,
                 curve_flag, m_marker, eviction_counter, temp_key, count,
                 eviction_count, first_pass_flag>>

(* construct_ratio: FC starts at the present front of DC. *)
RatioStart ==
  /\ mpc = "idle" /\ Steady
  /\ eviction_counter' = 0
  /\ list' = [list EXCEPT !.next[FHead] = list.next[Head]]
  /\ mpc' = "flag"
  /\ UNCHANGED <<requestOnly, heap, m_fasthash, flags, m_marker, walk>>

RatioFlag ==
  /\ mpc = "flag"
  /\ fast_hash_construct' = TRUE
  /\ temp_node' = list.next[FHead]
  /\ count' = 0 /\ eviction_count' = 0 /\ first_pass_flag' = TRUE
  /\ mpc' = "rvisit"
  /\ UNCHANGED <<requestOnly, list, heap, m_fasthash, fast_hash_ready, tier_ready,
                 tier_no_insert, curve_flag, m_marker, eviction_counter, temp_key>>

(* The walk deletes temp_node, a tomb or a node whose key is gone, and L   *)
(* is the list without it.                                                 *)
dropVisited_Stays(L) ==
  /\ list' = resetNode(L, temp_node)
  /\ free({temp_node})
  /\ UNCHANGED temp_node
dropVisited(L) ==
  /\ list' = resetNode(L, temp_node)
  /\ free({temp_node})
  /\ temp_node' = list.next[temp_node]

(* The head of the two loops.  construct_tier drops a tomb; else m_map.find *)
(* first releases the const_accessor of the round before.                  *)
TierVisit ==
  /\ mpc = "tvisit" /\ temp_node \in Nodes
  /\ IF m_key[temp_node] = TOMB_KEY
     THEN dropVisited(delink(list, temp_node)) /\ UNCHANGED <<mpc, temp_key>>
     ELSE /\ temp_key' = NoKey
          /\ mpc' = "tfind"
          /\ UNCHANGED <<list, heap, temp_node>>
  /\ UNCHANGED <<requestOnly, m_fasthash, flags, m_marker, eviction_counter,
                 count, eviction_count, first_pass_flag>>

RatioVisit ==
  /\ mpc = "rvisit" /\ temp_node \in Nodes
  /\ count' = Count(count)
  /\ eviction_count' = eviction_counter
  /\ temp_key' = NoKey
  /\ mpc' = "rfind"
  /\ UNCHANGED <<requestOnly, list, heap, m_fasthash, flags, m_marker,
                 eviction_counter, temp_node, first_pass_flag>>

(* In construct_ratio, FC is long enough (case 1), or so much of DC was    *)
(* evicted that the rest of the list becomes FC (case 2).                  *)
afterFind_NoRelaxation ==
  IF mpc = "tfind" THEN "tvisit"
  ELSE IF first_pass_flag /\ count > FC_size THEN "cut1"
  ELSE IF first_pass_flag /\ eviction_count > DC_size THEN "cut2"
  ELSE "rvisit"
afterFind ==
  IF mpc = "tfind" THEN "tvisit"
  ELSE IF first_pass_flag /\ count > Sub(FC_size, FC_RELAXATION) THEN "cut1"
  ELSE IF first_pass_flag /\ eviction_count > Sub(DC_size, FC_RELAXATION)
       THEN "cut2"
  ELSE "rvisit"

(* m_map.find waits while a writer holds the element; m_fasthash->insert   *)
(* keeps an entry that is there.  construct_tier's second look at the key  *)
(* of temp_node is the one this step takes.                                *)
WalkFind ==
  LET k == m_key[temp_node]
  IN  /\ mpc \in {"tfind", "rfind"} /\ temp_node \in Nodes
      /\ IF InMap(k)
         THEN /\ ~WriteLocked(k)
              /\ m_fasthash' = [m_fasthash EXCEPT ![k] = IF @ = Null THEN m_map[k]
                                                                     ELSE @]
              /\ temp_key' = k
              /\ temp_node' = list.next[temp_node]
              /\ mpc' = afterFind
              /\ UNCHANGED <<list, heap>>
         ELSE /\ dropVisited(IF isInList(list, temp_node) THEN delink(list, temp_node)
                                                          ELSE list)
              /\ mpc' = IF mpc = "tfind" THEN "tvisit" ELSE "rvisit"
              /\ UNCHANGED <<m_fasthash, temp_key>>
      /\ UNCHANGED <<requestOnly, flags, m_marker, eviction_counter, count,
                     eviction_count, first_pass_flag>>

(* Case 1: FC ends before temp_node.  Case 2: FC is the rest of the list.  *)
cutBefore(L, after) ==
  LET first == L.next[FHead]
      before == L.prev[first]
  IN  [prev |-> [L.prev EXCEPT ![FTail] = L.prev[after], ![first] = FHead,
                               ![after] = before],
       next |-> [L.next EXCEPT ![L.prev[after]] = FTail, ![before] = after]]

cutTail(L) ==
  LET first == L.next[FHead]
  IN  [prev |-> [L.prev EXCEPT ![FTail] = L.prev[Tail], ![Tail] = L.prev[first],
                               ![first] = FHead],
       next |-> [L.next EXCEPT ![L.prev[Tail]] = FTail, ![L.prev[first]] = Tail]]

RatioCut ==
  /\ mpc \in {"cut1", "cut2"}
  /\ list' = IF mpc = "cut1" THEN cutBefore(list, temp_node) ELSE cutTail(list)
  /\ first_pass_flag' = (mpc = "cut1" /\ first_pass_flag)
  /\ mpc' = IF mpc = "cut1" THEN "built" ELSE "rvisit"
  /\ UNCHANGED <<requestOnly, heap, m_fasthash, flags, m_marker, eviction_counter,
                 temp_node, temp_key, count, eviction_count>>

(* The walk has met m_fast_tail or was cut: the frozen part goes live, and *)
(* only then is fast_hash_construct reset.                                 *)
TierReady ==
  /\ mpc = "tvisit" /\ temp_node = FTail
  /\ tier_ready' = TRUE
  /\ mpc' = "tdone"
  /\ UNCHANGED <<requestOnly, list, heap, m_fasthash, fast_hash_ready, curve_flag,
                 fast_hash_construct, tier_no_insert, m_marker, eviction_counter,
                 walk>>

RatioReady ==
  /\ mpc = "built" \/ (mpc = "rvisit" /\ temp_node = FTail)
  /\ fast_hash_ready' = TRUE
  /\ mpc' = "rdone"
  /\ UNCHANGED <<requestOnly, list, heap, m_fasthash, tier_ready, curve_flag,
                 fast_hash_construct, tier_no_insert, m_marker, eviction_counter,
                 walk>>

ConstructDone ==
  /\ mpc \in {"tdone", "rdone"}
  /\ fast_hash_construct' = FALSE
  /\ eviction_counter' = IF mpc = "rdone" THEN 0 ELSE eviction_counter
  /\ temp_node' = Null /\ temp_key' = NoKey
  /\ count' = 0 /\ eviction_count' = 0 /\ first_pass_flag' = TRUE
  /\ mpc' = "frozen"
  /\ UNCHANGED <<requestOnly, list, heap, m_fasthash, fast_hash_ready, tier_ready,
                 tier_no_insert, curve_flag, m_marker>>

-----------------------------------------------------------------------------
(* The monitor: deconstruct *)

(* "no need to deconstruct!" when FC is empty. *)
DeconstructTest ==
  /\ mpc = "frozen"
  /\ mpc' = IF list.next[FHead] = FTail THEN "idle" ELSE "splice"
  /\ UNCHANGED <<requestOnly, list, heap, m_fasthash, flags, m_marker,
                 eviction_counter, walk>>

(* FC goes in front of DC. *)
thaw(L) ==
  LET first == L.next[FHead]
      last == L.prev[FTail]
  IN  emptyEnds([prev |-> [L.prev EXCEPT ![first] = Head, ![L.next[Head]] = last],
                 next |-> [L.next EXCEPT ![last] = L.next[Head], ![Head] = first]],
                FHead, FTail)

DeconstructSplice ==
  /\ mpc = "splice"
  /\ list' = thaw(list)
  /\ tier_no_insert' = (tier_no_insert /\ ~tier_ready)
  /\ tier_ready' = FALSE /\ fast_hash_ready' = FALSE
  /\ mpc' = "clear"
  /\ UNCHANGED <<requestOnly, heap, m_fasthash, fast_hash_construct, curve_flag,
                 m_marker, eviction_counter, walk>>

DeconstructClear ==
  /\ mpc = "clear"
  /\ m_fasthash' = [k \in Keys |-> Null]
  /\ mpc' = "idle"
  /\ UNCHANGED <<requestOnly, list, heap, flags, m_marker, eviction_counter, walk>>

-----------------------------------------------------------------------------
(* The monitor: get_curve *)

CurveStart(n) ==
  /\ mpc = "idle"
  /\ m_marker' = n
  /\ alive' = alive \cup {n}
  /\ m_key' = [m_key EXCEPT ![n] = MARKER_KEY]
  /\ fresh' = {}
  /\ mpc' = "curve1"
  /\ UNCHANGED <<requestOnly, list, m_fasthash, flags, eviction_counter, walk>>

CurvePush ==
  /\ mpc = "curve1"
  /\ list' = pushFront(list, m_marker)
  /\ curve_flag' = TRUE
  /\ mpc' = "curve2"
  /\ UNCHANGED <<requestOnly, heap, m_fasthash, fast_hash_ready, tier_ready,
                 fast_hash_construct, tier_no_insert, m_marker, eviction_counter,
                 walk>>

(* The sampling loop may end at any time: it looks at ratios and clocks. *)
CurveDelink ==
  /\ mpc = "curve2"
  /\ curve_flag' = FALSE
  /\ list' = delink(list, m_marker)
  /\ mpc' = "curve3"
  /\ UNCHANGED <<requestOnly, heap, m_fasthash, fast_hash_ready, tier_ready,
                 fast_hash_construct, tier_no_insert, m_marker, eviction_counter,
                 walk>>

CurveFree ==
  /\ mpc = "curve3"
  /\ list' = resetNode(list, m_marker)
  /\ free({m_marker})
  /\ mpc' = "curve4"
  /\ UNCHANGED <<requestOnly, m_fasthash, flags, m_marker, eviction_counter, walk>>

CurveForget ==
  /\ mpc = "curve4"
  /\ m_marker' = Null
  /\ fresh' = {}
  /\ mpc' = "idle"
  /\ UNCHANGED <<requestOnly, list, m_key, alive, m_fasthash, flags,
                 eviction_counter, walk>>

-----------------------------------------------------------------------------
(* The operations.  worker_thread serves a read by find and, after a miss, *)
(* insert.                                                                 *)
Find(t) ==
  \/ "read" \in Requests /\ \E k \in Keys : FindStart(t, k)
  \/ FindFrozen(t) \/ FindMap(t) \/ FindHeld(t) \/ FindMark(t)
  \/ FindPromote(t) \/ FindTryLockFails(t)

Insert(t) ==
  \/ InsertStart(t) \/ InsertLoad(t) \/ InsertPush(t) \/ InsertCount(t)
  \/ InsertShrink(t)
  \/ \E n \in NewAddress(key[t]) : InsertNew(t, n) \/ InsertExisting(t, n)

Evict(t) == EvictDelink(t) \/ EvictErase(t)

Delete(t) ==
  \/ "delete" \in Requests /\ \E k \in Keys : DeleteFind(t, k) \/ DeleteMiss(t, k)
  \/ DeleteHeld(t) \/ DeleteDelink(t) \/ DeleteErase(t)

Request(t) == Find(t) \/ Insert(t) \/ Evict(t) \/ Delete(t)

ConstructTier ==
  "tier" \in MonitorOps /\ (TierStart \/ TierVisit \/ TierReady)

ConstructRatio ==
  /\ "ratio" \in MonitorOps
  /\ RatioStart \/ RatioFlag \/ RatioVisit \/ RatioCut \/ RatioReady

Construct == ConstructTier \/ ConstructRatio \/ WalkFind \/ ConstructDone

Deconstruct == DeconstructTest \/ DeconstructSplice \/ DeconstructClear

GetCurve ==
  /\ "curve" \in MonitorOps
  /\ \/ \E n \in NewAddress(MARKER_KEY) : CurveStart(n)
     \/ CurvePush \/ CurveDelink \/ CurveFree \/ CurveForget

(* FastHashMonitor calls get_curve, construct_tier or construct_ratio on a *)
(* shard that is not frozen, and deconstruct on one that is.               *)
Monitor == Construct \/ Deconstruct \/ GetCurve

Next == Monitor \/ \E t \in Threads : Request(t)

Spec == Init /\ [][Next]_vars

(* Threads run; nobody has to issue a request or to freeze a shard.        *)
Fairness ==
  /\ \A t \in Threads : WF_vars(Request(t) /\ pc[t] # "idle")
  /\ WF_vars(Monitor /\ mpc \notin {"idle", "frozen"})

FairSpec == Spec /\ Fairness

-----------------------------------------------------------------------------
(* Properties *)

Steps == {"idle", "ffast", "fmap", "fheld", "fmark", "fcurve", "ftry", "insert",
          "map", "load", "evict1", "erase1", "push", "count", "evict2", "erase2",
          "shrink", "dheld", "dlock", "derase"}
MonitorSteps == {"idle", "tvisit", "tfind", "tdone", "flag", "rvisit", "rfind",
                 "cut1", "cut2", "built", "rdone", "frozen", "splice", "clear",
                 "curve1", "curve2", "curve3", "curve4"}

TypeOK ==
  /\ m_map \in [Keys -> Nodes \cup {Null}]
  /\ list \in ListStates
  /\ m_key \in [Nodes -> Keys \cup {NoKey, TOMB_KEY, MARKER_KEY}]
  /\ alive \subseteq Nodes /\ fresh \subseteq alive
  /\ m_size \in 0..SizeMod-1
  /\ m_fasthash \in [Keys -> Nodes \cup {Null}]
  /\ {fast_hash_ready, fast_hash_construct, tier_ready, tier_no_insert,
      curve_flag, first_pass_flag} \subseteq BOOLEAN
  /\ m_marker \in Nodes \cup {Null}
  /\ {eviction_counter, count, eviction_count} \subseteq 0..MaxSize+1
  /\ pc \in [Threads -> Steps] /\ mpc \in MonitorSteps
  /\ key \in [Threads -> Keys \cup {NoKey}]
  /\ node \in [Threads -> Nodes \cup {Null}]
  /\ moribund \in [Threads -> Nodes \cup {Null}]
  /\ s \in [Threads -> 0..SizeMod-1]
  /\ evictionDone \subseteq Threads
  /\ temp_node \in Nodes \cup {Null, Tail, FTail}
  /\ temp_key \in Keys \cup {NoKey}

(* Both lists stay doubly linked although the monitor walks and splices    *)
(* them, partly without the mutex, while requests go on.                   *)
ListsWellLinked ==
  IF Uncut THEN WellLinked(list, {Head}, {Tail})
           ELSE WellLinked(list, {Head, FHead}, {Tail, FTail})

(* No request and no walk of the monitor touches a ListNode that another   *)
(* thread has deleted.                                                     *)
NoUseAfterFree ==
  /\ Linked(list) \subseteq alive
  /\ \A t \in Threads :
       /\ pc[t] \in ReadSteps \cup (WriteSteps \ {"derase"}) => node[t] \in alive
       /\ pc[t] \in {"erase1", "erase2"} => moribund[t] \in alive
       /\ pc[t] = "fmark" => m_marker \in alive \cup {Null}
  /\ mpc \in {"tvisit", "tfind", "rvisit", "rfind"} =>
       temp_node \in alive \cup {FTail}
  /\ mpc = "cut1" => temp_node \in alive \cup {Tail}

(* In a shard frozen by construct_tier find reports a miss without looking *)
(* into m_map, so every key that is on a list must be in m_fasthash.       *)
AllFrozenKeysHit ==
  tier_ready => \A n \in Linked(list) :
                  m_key[n] \in Keys => m_fasthash[m_key[n]] # Null

(* A hit in m_fasthash, which find reads without a lock, returns the value *)
(* the map holds: the raw pointer stored there has not been freed.         *)
FrozenHitsAreLive ==
  \A t \in Threads : pc[t] = "ffast" /\ m_fasthash[key[t]] # Null =>
    m_map[key[t]] = m_fasthash[key[t]]

Quiet == mpc = "idle" /\ \A t \in Threads : pc[t] = "idle"

(* Tombs that are on no list. *)
LostTombs == {n \in alive \ Linked(list) : m_key[n] = TOMB_KEY}

(* Once requests have returned and the monitor has deconstructed, nothing  *)
(* is left of the frozen part: m_fasthash and the second list are empty,   *)
(* no node was lost on the way through it (every element has a node of its *)
(* key on the list, for evict to find), and inserts are accepted again,    *)
(* unless the shard was empty when it was frozen.  The list holds nothing  *)
(* but these nodes and tombs, with one exception: where delete_key has     *)
(* marked the node of an element that an insert of the same key had        *)
(* replaced, the mark is on no list and the first node stays, "already     *)
(* deleted somehow" for evict.                                             *)
ThawRestores ==
  LET live == {n \in Linked(list) : m_key[n] # TOMB_KEY}
      elements == {k \in Keys : InMap(k)}
  IN  Quiet => /\ list.next[FHead] = FTail
               /\ elements \subseteq {m_key[n] : n \in live}
               /\ Cardinality(live) <= Cardinality(elements) + Cardinality(LostTombs)
               /\ \A k \in Keys : m_fasthash[k] = Null
               /\ tier_no_insert => Linked(list) = {}

(* While get_curve samples, movement_counter stands for the length of the  *)
(* list in front of the marker.  Only nodes that were hit since the marker *)
(* was made are there, except one per thread that was late: it had decided *)
(* to promote before the marker was pushed.                                *)
InFront == {n \in Linked(list) \ {m_marker} : m_marker \in ListChain(list, n)}

FrontIsHit ==
  mpc = "curve2" => Cardinality(InFront \ fresh) <= Cardinality(Threads)

(* The keys whose elements a thread or the monitor waits for, and holds.   *)
Actors == Threads \cup {"monitor"}

Awaited(a) ==
  IF a = "monitor"
  THEN IF mpc \in {"tfind", "rfind"} THEN {m_key[temp_node]} ELSE {}
  ELSE IF pc[a] \in {"fmap", "map"} THEN {key[a]}
  ELSE IF pc[a] \in {"erase1", "erase2"} THEN {m_key[moribund[a]]} ELSE {}

Held(a) ==
  IF a = "monitor" THEN {temp_key}
  ELSE IF pc[a] \in ReadSteps \cup WriteSteps THEN {key[a]} ELSE {}

(* No set of threads, the monitor included, ever waits for elements its    *)
(* members hold: insert releases its accessor before the second eviction   *)
(* "for deadlock", and the first one does not pick the key it holds.  With *)
(* delete_key it may, see EvictNeverWaitsForItself.                        *)
NoCircularWait ==
  \A S \in SUBSET Actors \ {{}} :
    \E a \in S : \A k \in Awaited(a) : \A b \in S : k \notin Held(b)

(* The eviction for which insert still holds the accessor of its element   *)
(* does not wait for that accessor: insert releases it before the other    *)
(* eviction, to "avoid deadlock".                                          *)
EvictNeverWaitsForItself ==
  \A t \in Threads : pc[t] = "erase1" => m_key[moribund[t]] # key[t]

(* construct_tier ends: requests cannot keep its walk waiting for elements *)
(* for ever.                                                               *)
ConstructEnds == (mpc = "tvisit") ~> (mpc = "frozen")

(* size: "May be slightly too low when insertion is in progress", so never *)
(* too high when nothing is in progress.                                   *)
SizeNotTooHighWhenIdle == Quiet => m_size <= Cardinality(Linked(list))

(* The loop of construct_ratio only ends at m_fast_tail: it must cut FC out *)
(* of the list before it comes to m_tail, however many nodes are evicted   *)
(* under it in the meantime.  That is what FC_RELAXATION is for.           *)
WalkMissesTail == mpc \in {"rvisit", "rfind"} => temp_node # Tail

=============================================================================
