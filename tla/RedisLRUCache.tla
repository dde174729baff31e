--------------------------- MODULE RedisLRUCache ---------------------------
(* One shard of RedisLRUCache (src/cache/redis_lru.h): a hash map without  *)
(* lists.  An insert into a full shard samples keys, offers them to a pool *)
(* of candidates ordered by their idle time, and evicts the best candidate *)
(* that is still in the map.                                               *)
(*                                                                         *)
(* find only stores the time of the access; the idle time of a sampled key *)
(* is whatever the clocks make it, a choice from 0..MaxIdle.  No operation *)
(* keeps an element locked over another step.                              *)
EXTENDS Integers, FiniteSets

CONSTANTS
  Threads, Keys,
  NoKey,                 \* the key 0 of an empty entry
  n,                     \* the size of the shard
  EVICTION_POOL_SIZE, EVICTION_SAMPLE,
  MaxIdle,
  NoThread

(* What the proofs assume of the constants. *)
RedisAssumption ==
  /\ IsFiniteSet(Threads) /\ Threads # {} /\ NoThread \notin Threads
  /\ NoKey \notin Keys
  /\ n \in Nat /\ EVICTION_POOL_SIZE \in Nat \ {0} /\ MaxIdle \in Nat

Slots == 1..EVICTION_POOL_SIZE

VARIABLES
  elements,        \* the keys of m_map
  s,
  rs,              \* the keys of the RandomizedSet
  EvictionPool,    \* [Slots -> Slots]: which entry a pointer points to
  entry,           \* [Slots -> [key, idle]]: the allocated entries
  redis_lock,      \* the thread that holds it over several steps
  pc, key,         \* where an insert is, and its key
  samples,         \* the sampled keys it has not offered yet
  offer,           \* the candidate it offers, with its idle time
  slot             \* the slot it looks at

vars == <<elements, s, rs, EvictionPool, entry, redis_lock, pc, key, samples,
          offer, slot>>
pool == <<EvictionPool, entry>>

Entry == [key : Keys \cup {NoKey}, idle : 0..MaxIdle]
Empty == [key |-> NoKey, idle |-> 0]

Init ==
  /\ elements = {} /\ s = 0 /\ rs = {}
  /\ EvictionPool = [i \in Slots |-> i]
  /\ entry = [i \in Slots |-> Empty]
  /\ redis_lock = NoThread
  /\ pc = [t \in Threads |-> "idle"]
  /\ key = [t \in Threads |-> NoKey]
  /\ samples = [t \in Threads |-> {}]
  /\ offer = [t \in Threads |-> Empty]
  /\ slot = [t \in Threads |-> 0]

goto(t, l) == pc' = [pc EXCEPT ![t] = l]

-----------------------------------------------------------------------------
(* insert, after a find that missed; a hit of find changes nothing here.   *)

Insert(t, k) ==
  /\ pc[t] = "idle" /\ k \notin elements
  /\ elements' = elements \cup {k}
  /\ key' = [key EXCEPT ![t] = k]
  /\ goto(t, "rs")
  /\ UNCHANGED <<s, rs, pool, redis_lock, samples, offer, slot>>

InsertRs(t) ==
  /\ pc[t] = "rs" /\ redis_lock = NoThread
  /\ rs' = rs \cup {key[t]}
  /\ goto(t, "size")
  /\ UNCHANGED <<elements, s, pool, redis_lock, key, samples, offer, slot>>

(* s is read and counted up in two steps. *)
HasRoom_OneMore == s <= n
HasRoom == s < n

InsertSize(t) ==
  /\ pc[t] = "size"
  /\ goto(t, IF HasRoom THEN "count" ELSE "sample")
  /\ UNCHANGED <<elements, s, rs, pool, redis_lock, key, samples, offer, slot>>

InsertCount(t) ==
  /\ pc[t] = "count"
  /\ s' = s + 1
  /\ goto(t, "idle")
  /\ key' = [key EXCEPT ![t] = NoKey]
  /\ UNCHANGED <<elements, rs, pool, redis_lock, samples, offer, slot>>

-----------------------------------------------------------------------------
(* evictionPoolPopulate                                                    *)

(* Twice EVICTION_SAMPLE draws, until that many keys have been found. *)
Sample(t) ==
  /\ pc[t] = "sample"
  /\ \E S \in SUBSET rs : /\ Cardinality(S) \in 1..EVICTION_SAMPLE
                          /\ samples' = [samples EXCEPT ![t] = S]
  /\ goto(t, "offer")
  /\ UNCHANGED <<elements, s, rs, pool, redis_lock, key, offer, slot>>

(* A key that is gone from the map, or that was accessed so lately that    *)
(* its idle time is zero, is not offered.                                  *)
Offer(t) ==
  /\ pc[t] = "offer"
  /\ \E k \in samples[t], idle \in 0..MaxIdle :
       /\ samples' = [samples EXCEPT ![t] = @ \ {k}]
       /\ IF k \in elements /\ idle # 0
            THEN /\ offer' = [offer EXCEPT ![t] = [key |-> k, idle |-> idle]]
                 /\ goto(t, "place")
            ELSE UNCHANGED <<offer, pc>>
  /\ UNCHANGED <<elements, s, rs, pool, redis_lock, key, slot>>

at(i) == entry[EvictionPool[i]]
PoolIsFull == at(EVICTION_POOL_SIZE).key # NoKey

(* The first slot that is empty or not less idle than the offer.           *)
Position_FirstEmpty(idle) ==
  CHOOSE j \in 1..(EVICTION_POOL_SIZE + 1) :
    /\ j \in Slots => at(j).key = NoKey
    /\ \A i \in 1..(j - 1) : at(i).key # NoKey
Position(idle) ==
  CHOOSE j \in 1..(EVICTION_POOL_SIZE + 1) :
    /\ j \in Slots => at(j).key = NoKey \/ at(j).idle >= idle
    /\ \A i \in 1..(j - 1) : at(i).key # NoKey /\ at(i).idle < idle

(* The two memmoves: they move the pointers and not the entries, so that   *)
(* two slots then have the entry that the offer is stored in.              *)
MovedRight(j) == [i \in Slots |-> IF i > j THEN EvictionPool[i - 1] ELSE EvictionPool[i]]
MovedLeft(j) == [i \in Slots |-> IF i < j THEN EvictionPool[i + 1] ELSE EvictionPool[i]]

Place(t) ==
  LET o == offer[t]
      j == Position(o.idle)
      put(moved, i) == /\ EvictionPool' = moved
                       /\ entry' = [entry EXCEPT ![moved[i]] = o]
  IN  /\ pc[t] = "place" /\ redis_lock = NoThread
      /\ CASE j \in Slots /\ at(j).key = NoKey -> put(EvictionPool, j)
           [] j = 1 /\ at(1).key # NoKey /\ PoolIsFull -> UNCHANGED pool
           [] j \in Slots /\ at(j).key # NoKey /\ ~PoolIsFull -> put(MovedRight(j), j)
           [] j > 1 /\ PoolIsFull -> put(MovedLeft(j - 1), j - 1)
      /\ offer' = [offer EXCEPT ![t] = Empty]
      /\ goto(t, "offer")
      /\ UNCHANGED <<elements, s, rs, redis_lock, key, samples, slot>>

-----------------------------------------------------------------------------
(* performEvictions, under redis_lock; erase and remove are two steps.     *)

Evict(t) ==
  /\ pc[t] = "offer" /\ samples[t] = {} /\ redis_lock = NoThread
  /\ redis_lock' = t
  /\ slot' = [slot EXCEPT ![t] = EVICTION_POOL_SIZE]
  /\ goto(t, "evict")
  /\ UNCHANGED <<elements, s, rs, pool, key, samples, offer>>

LockAfterErase_Released(t) == NoThread
LockAfterErase(t) == t

EvictSlot(t) ==
  LET i == slot[t]
      k == at(i).key
  IN  /\ pc[t] = "evict" /\ i > 0
      /\ IF k \in elements
           THEN /\ elements' = elements \ {k}
                /\ redis_lock' = LockAfterErase(t)
                /\ goto(t, "remove")
                /\ UNCHANGED <<entry, slot>>
           ELSE /\ entry' = [entry EXCEPT ![EvictionPool[i]] = Empty]
                /\ slot' = [slot EXCEPT ![t] = i - 1]
                /\ UNCHANGED <<elements, redis_lock, pc>>
      /\ UNCHANGED <<s, rs, EvictionPool, key, samples, offer>>

SampleAgain(t) ==
  /\ pc[t] = "evict" /\ slot[t] = 0
  /\ redis_lock' = NoThread
  /\ goto(t, "sample")
  /\ UNCHANGED <<elements, s, rs, pool, key, samples, offer, slot>>

Remove(t) ==
  LET e == EvictionPool[slot[t]]
  IN  /\ pc[t] = "remove"
      /\ rs' = rs \ {entry[e].key}
      /\ entry' = [entry EXCEPT ![e] = Empty]
      /\ redis_lock' = NoThread
      /\ goto(t, "idle")
      /\ key' = [key EXCEPT ![t] = NoKey]
      /\ slot' = [slot EXCEPT ![t] = 0]
      /\ UNCHANGED <<elements, s, EvictionPool, samples, offer>>

Request(t) ==
  \/ \E k \in Keys : Insert(t, k)
  \/ InsertRs(t) \/ InsertSize(t) \/ InsertCount(t)
  \/ Sample(t) \/ Offer(t) \/ Place(t)
  \/ Evict(t) \/ EvictSlot(t) \/ SampleAgain(t) \/ Remove(t)

Next == \E t \in Threads : Request(t)
Spec == Init /\ [][Next]_vars

-----------------------------------------------------------------------------
(* Properties                                                              *)

(* Every variable has its type. *)
TypeOK ==
  /\ elements \subseteq Keys /\ rs \subseteq Keys /\ s \in Nat
  /\ EvictionPool \in [Slots -> Slots] /\ entry \in [Slots -> Entry]
  /\ redis_lock \in Threads \cup {NoThread}
  /\ pc \in [Threads -> {"idle", "rs", "size", "count", "sample", "offer",
                         "place", "evict", "remove"}]
  /\ key \in [Threads -> Keys \cup {NoKey}]
  /\ samples \in [Threads -> SUBSET Keys] /\ offer \in [Threads -> Entry]
  /\ slot \in [Threads -> 0..EVICTION_POOL_SIZE]

In(l) == {t \in Threads : pc[t] \in l}

(* Every element can be sampled, and so evicted, from the moment its       *)
(* insert has registered it, although the map is changed outside           *)
(* redis_lock and the set inside; and getRandom is never called on an      *)
(* empty set.                                                              *)
ElementsCanBeSampled ==
  /\ elements \subseteq rs \cup {key[t] : t \in In({"rs"})}
  /\ In({"sample"}) # {} => rs # {}

(* s is the number of elements but for the inserts that have still to      *)
(* count or to evict, so no eviction is lost or made twice.  It exceeds n  *)
(* by at most one for every other thread, for its read and its increment   *)
(* are two steps.                                                          *)
RedisSizeIsExact ==
  /\ Cardinality(elements) = s + Cardinality(In({"rs", "size", "count", "sample",
                                                 "offer", "place", "evict"}))
  /\ s <= n + Cardinality(Threads) - 1

(* The candidates are ordered by their idle time and without gaps, although *)
(* the memmoves leave slots that share an entry: performEvictions starts   *)
(* with the candidate that was idle for longest when it was sampled.       *)
PoolIsSorted ==
  redis_lock = NoThread =>
    \A i \in 1..(EVICTION_POOL_SIZE - 1) :
      at(i + 1).key # NoKey => at(i).key # NoKey /\ at(i).idle <= at(i + 1).idle

(* The inductive invariant.  redis_lock is held from performEvictions on.  *)
LockHolder == \A t \in Threads : redis_lock = t <=> pc[t] \in {"evict", "remove"}

ElementsCounted ==
  /\ IsFiniteSet(elements)
  /\ Cardinality(elements) = s + Cardinality(In({"rs", "size", "count", "sample",
                                                 "offer", "place", "evict"}))

(* Threads that read s < n together pass n by less than their number. *)
CountsPending == s + Cardinality(In({"count"})) <= n + Cardinality(Threads) - 1

ElementsRegistered == elements \subseteq rs \cup {key[t] : t \in In({"rs"})}

CallsHoldTheirKeys ==
  \A t \in Threads : /\ pc[t] = "rs" => key[t] \in Keys
                     /\ pc[t] = "place" => offer[t].key \in Keys
                     /\ pc[t] = "remove" => slot[t] \in Slots

(* Between erase and remove the erased key is back in the map only for an  *)
(* insert that waits for redis_lock to register it again.                  *)
RemovesOnlyErased ==
  \A t \in Threads : pc[t] = "remove" /\ at(slot[t]).key \in elements =>
    \E u \in Threads : pc[u] = "rs" /\ key[u] = at(slot[t]).key

(* The memmoves keep the pointers in order, so the slots that share an     *)
(* entry are neighbours.                                                   *)
PointersInOrder ==
  \A i, j \in Slots : i <= j => EvictionPool[i] <= EvictionPool[j]

SortedWithoutGaps ==
  \A i, j \in Slots : i <= j /\ at(j).key # NoKey =>
    at(i).key # NoKey /\ at(i).idle <= at(j).idle

(* performEvictions empties the slots from the last one down. *)
EmptiedFromTheEnd ==
  \A t \in Threads, i \in Slots :
    pc[t] \in {"evict", "remove"} /\ i > slot[t] => at(i).key = NoKey

IInv ==
  /\ ElementsCounted /\ CountsPending /\ ElementsRegistered
  /\ LockHolder /\ CallsHoldTheirKeys /\ RemovesOnlyErased
  /\ PointersInOrder /\ SortedWithoutGaps /\ EmptiedFromTheEnd

=============================================================================
