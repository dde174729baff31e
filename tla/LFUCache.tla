----------------------------- MODULE LFUCache -----------------------------
(* One shard of LFUCache (src/cache/lfu.h) or LFU_FHCache (lfu_FH.h).      *)
(* The elements of m_map are kept in buckets, one per frequency, the most  *)
(* frequent first; a bucket holds its nodes, the newest first.  All        *)
(* changes of the lists are made in one critical section of the mutex, so  *)
(* a list is a sequence here.  A node is named by its key: m_map has one   *)
(* element per key, which stays until the node is evicted.                 *)
(*                                                                         *)
(* LFU_FHCache can freeze all buckets (construct_tier) or the first ones   *)
(* (construct_ratio): they move to a second list, and their keys to        *)
(* m_fasthash, until deconstruct puts them back.                           *)
EXTENDS Integers, FiniteSets, SequencesExt

CONSTANTS
  Threads, Keys, NoKey,
  Policy,      \* "LFU" or "LFU_FH"
  m_maxSize,
  FC_size,     \* the aim of construct_ratio, in 1..m_maxSize
  MaxFre,      \* bound on the frequencies
  Null

Buckets == 1..(Cardinality(Keys) + 1)

VARIABLES
  elements,      \* the keys of m_map
  listNode,      \* [Keys -> Buckets \cup {Null}], as in HashMapValue
  order, fast,   \* the buckets between m_head and m_tail, and of the frozen list
  fre,           \* [Buckets -> Nat]
  items,         \* [Buckets -> Seq(Keys)]
  s,
  m_fasthash,    \* the keys in it
  FH_ready, FH_construct, tier_ready, tier_no_insert, curve_flag,
  pc, key, temp_node,  \* where a request is, its key and its victim
  ready,               \* find: status_first_ready
  seen,                \* find: fre, read before the mutex is locked
  mpc, out_node, in_node,  \* the monitor and its walk
  count, held,             \* ... the nodes it has seen, the element it holds
  hits                     \* finds since the insert, for the properties

lists == <<listNode, order, fast, fre, items>>
flags == <<FH_ready, FH_construct, tier_ready, tier_no_insert, curve_flag>>
locals == <<key, temp_node, ready, seen>>
walk == <<out_node, in_node, count, held>>
vars == <<elements, lists, s, m_fasthash, flags, pc, locals, mpc, walk, hits>>

Init ==
  /\ elements = {} /\ s = 0 /\ m_fasthash = {}
  /\ listNode = [k \in Keys |-> Null]
  /\ order = <<>> /\ fast = <<>>
  /\ fre = [b \in Buckets |-> 0]
  /\ items = [b \in Buckets |-> <<>>]
  /\ FH_ready = FALSE /\ FH_construct = FALSE
  /\ tier_ready = FALSE /\ tier_no_insert = FALSE /\ curve_flag = FALSE
  /\ pc = [t \in Threads |-> "idle"]
  /\ key = [t \in Threads |-> NoKey]
  /\ temp_node = [t \in Threads |-> NoKey]
  /\ ready = [t \in Threads |-> FALSE]
  /\ seen = [t \in Threads |-> 0]
  /\ mpc = "idle" /\ out_node = 0 /\ in_node = 0 /\ count = 0 /\ held = NoKey
  /\ hits = [k \in Keys |-> 0]

-----------------------------------------------------------------------------
(* The lists                                                               *)

Used == Range(order) \cup Range(fast)
NewBucket == Min(Buckets \ Used)
isInList(k) == \E b \in Used : k \in Range(items[b])
Without(q, x) == SelectSeq(q, LAMBDA y : y # x)

(* find's step from the bucket of k, with frequency f, to the one above,   *)
(* which is made when there is none.  A bucket whose only node goes up is  *)
(* counted up itself; one that a node leaves empty is freed.               *)
HasRoomAbove_HeadOnly(i, f) == i = 1
HasRoomAbove(i, f) == i = 1 \/ fre[order[i - 1]] > f + 1

Promote(k, f) ==
  LET b == listNode[k]
      i == CHOOSE j \in DOMAIN order : order[j] = b
      rest == Without(items[b], k)
  IN  IF HasRoomAbove(i, f)
        THEN IF rest = <<>>
               THEN /\ fre' = [fre EXCEPT ![b] = @ + 1]
                    /\ UNCHANGED <<listNode, order, fast, items>>
               ELSE LET new == NewBucket
                    IN  /\ fre' = [fre EXCEPT ![new] = f + 1]
                        /\ items' = [items EXCEPT ![b] = rest, ![new] = <<k>>]
                        /\ order' = InsertAt(order, i, new)
                        /\ listNode' = [listNode EXCEPT ![k] = new]
                        /\ UNCHANGED fast
        ELSE LET p == order[i - 1]
             IN  /\ items' = [items EXCEPT ![b] = rest, ![p] = <<k>> \o @]
                 /\ order' = IF rest = <<>> THEN Without(order, b) ELSE order
                 /\ fre' = IF rest = <<>> THEN [fre EXCEPT ![b] = 0] ELSE fre
                 /\ listNode' = [listNode EXCEPT ![k] = p]
                 /\ UNCHANGED fast

(* insert's bucket of frequency 1 at the end, with the new node in front.  *)
Pushed(k) ==
  IF order # <<>> /\ fre[Last(order)] = 1
    THEN [order |-> order, fre |-> fre, at |-> Last(order),
          items |-> [items EXCEPT ![Last(order)] = <<k>> \o @]]
    ELSE [order |-> Append(order, NewBucket), at |-> NewBucket,
          fre |-> [fre EXCEPT ![NewBucket] = 1],
          items |-> [items EXCEPT ![NewBucket] = <<k>>]]

-----------------------------------------------------------------------------
(* Element locks                                                           *)

Holding == {"held", "lock", "push"}
Locked(k) == held = k \/ \E t \in Threads : pc[t] \in Holding /\ key[t] = k

goto(t, l) == pc' = [pc EXCEPT ![t] = l]

return(t) ==
  /\ goto(t, "idle")
  /\ key' = [key EXCEPT ![t] = NoKey]
  /\ temp_node' = [temp_node EXCEPT ![t] = NoKey]
  /\ ready' = [ready EXCEPT ![t] = FALSE]
  /\ seen' = [seen EXCEPT ![t] = 0]

-----------------------------------------------------------------------------
(* A request: find, and insert when that misses                            *)

(* Bounds the frequencies: so many finds of k can still count it up.       *)
Countable(k) ==
  (IF listNode[k] = Null THEN 0 ELSE fre[listNode[k]])
    + Cardinality({t \in Threads : key[t] = k}) < MaxFre

Find(t, k) ==
  /\ pc[t] = "idle" /\ Countable(k)
  /\ key' = [key EXCEPT ![t] = k]
  /\ ready' = [ready EXCEPT ![t] = FH_ready]
  /\ goto(t, IF FH_ready THEN "fast" ELSE "map")
  /\ UNCHANGED <<elements, lists, s, m_fasthash, flags, temp_node, seen, mpc, walk, hits>>

(* find on m_fasthash: under a tier a key that is not there is a miss.     *)
FindFast(t) ==
  /\ pc[t] = "fast"
  /\ IF key[t] \in m_fasthash
       THEN return(t)
       ELSE /\ goto(t, IF tier_ready THEN "insert" ELSE "map")
            /\ UNCHANGED locals
  /\ UNCHANGED <<elements, lists, s, m_fasthash, flags, mpc, walk, hits>>

FindMap(t) ==
  /\ pc[t] = "map" /\ ~Locked(key[t])
  /\ goto(t, IF key[t] \notin elements THEN "insert"
             ELSE IF Policy = "LFU" THEN "lock" ELSE "held")
  /\ UNCHANGED <<elements, lists, s, m_fasthash, flags, locals, mpc, walk, hits>>

(* LFU_FH: what find reads before it locks the mutex, and where it gives   *)
(* up counting: the shard is being frozen or profiled.                     *)
FindRead(t) ==
  /\ pc[t] = "held"
  /\ IF FH_construct \/ curve_flag
       THEN return(t)
       ELSE /\ seen' = [seen EXCEPT ![t] = fre[listNode[key[t]]]]
            /\ goto(t, "lock")
            /\ UNCHANGED <<key, temp_node, ready>>
  /\ UNCHANGED <<elements, lists, s, m_fasthash, flags, mpc, walk, hits>>

(* The critical section of find.  LFU reads the frequency here.            *)
Frequency(t) == IF Policy = "LFU" THEN fre[listNode[key[t]]] ELSE seen[t]
IsFrozen(t) == ~ready[t] /\ FH_ready
Counts(t) == ~curve_flag /\ ~FH_construct /\ isInList(key[t])

FindLock(t) ==
  /\ pc[t] = "lock"
  /\ IF ~curve_flag /\ IsFrozen(t)
       THEN /\ goto(t, "fast")           \* STATUS_BACK
            /\ UNCHANGED <<lists, locals, hits>>
       ELSE /\ return(t)
            /\ IF Counts(t)
                 THEN /\ Promote(key[t], Frequency(t))
                      /\ hits' = IF Policy = "LFU" THEN [hits EXCEPT ![key[t]] = @ + 1] ELSE hits
                 ELSE UNCHANGED <<lists, hits>>
  /\ UNCHANGED <<elements, s, m_fasthash, flags, mpc, walk>>

Refused == tier_no_insert \/ curve_flag

Insert(t) ==
  /\ pc[t] = "insert"
  /\ IF Refused
       THEN return(t)
       ELSE goto(t, "minsert") /\ UNCHANGED locals
  /\ UNCHANGED <<elements, lists, s, m_fasthash, flags, mpc, walk, hits>>

InsertMap(t) ==
  /\ pc[t] = "minsert" /\ ~Locked(key[t])
  /\ IF key[t] \in elements
       THEN return(t) /\ UNCHANGED elements
       ELSE /\ elements' = elements \cup {key[t]}
            /\ goto(t, "push") /\ UNCHANGED locals
  /\ UNCHANGED <<lists, s, m_fasthash, flags, mpc, walk, hits>>

TakenOut_Left(k) == elements
TakenOut(k) == elements \ {k}

(* The critical section of insert.  A refused insert takes its element out *)
(* again.  A full shard gives up the last node of the last bucket, which   *)
(* is the new one when all the others have been found since.               *)
IsFull == s >= m_maxSize

InsertPush(t) ==
  LET k == key[t]
      new == Pushed(k)
      moribund == Last(new.order)
      temp == Last(new.items[moribund])
  IN  /\ pc[t] = "push"
      /\ IF Refused
           THEN /\ elements' = TakenOut(k) /\ return(t)
                /\ UNCHANGED <<lists, s>>
           ELSE /\ order' = new.order /\ fre' = new.fre
                /\ listNode' = [listNode EXCEPT ![k] = new.at]
                /\ IF ~IsFull
                     THEN /\ items' = new.items /\ s' = s + 1
                          /\ return(t)
                     ELSE /\ items' = [new.items EXCEPT ![moribund] = Front(@)]
                          /\ temp_node' = [temp_node EXCEPT ![t] = temp]
                          /\ goto(t, "evict")
                          /\ UNCHANGED <<s, key, ready, seen>>
                /\ UNCHANGED <<elements, fast>>
      /\ UNCHANGED <<m_fasthash, flags, mpc, walk, hits>>

Evict(t) ==
  LET k == temp_node[t]
  IN  /\ pc[t] = "evict" /\ ~Locked(k)
      /\ return(t)
      /\ elements' = elements \ {k}
      /\ listNode' = [listNode EXCEPT ![k] = Null]
      /\ hits' = [hits EXCEPT ![k] = 0]
      /\ UNCHANGED <<order, fast, fre, items, s, m_fasthash, flags, mpc, walk>>

-----------------------------------------------------------------------------
(* LFU_FH: the monitor                                                     *)

(* The monitor first waits until the shards are full, and construct_ratio  *)
(* asserts that the buckets above the last hold FC_size nodes.  No find is *)
(* assumed to last from one frozen period into the next: status_first_ready *)
(* would be true for it, and it would count a node of the frozen list.     *)
NodesIn(q) == FoldSeq(LAMBDA b, n : Len(items[b]) + n, 0, q)
Cuttable == order # <<>> /\ NodesIn(Front(order)) >= FC_size
NoFindSinceFrozen == \A t \in Threads : ~ready[t]
Thawed ==
  /\ mpc = "idle" /\ Policy = "LFU_FH" /\ fast = <<>>
  /\ s >= m_maxSize /\ NoFindSinceFrozen

TierStart ==
  /\ Thawed
  /\ FH_construct' = TRUE /\ tier_no_insert' = TRUE
  /\ fast' = order /\ order' = <<>>
  /\ mpc' = "tier" /\ out_node' = 1 /\ in_node' = 1
  /\ UNCHANGED <<elements, listNode, fre, items, s, m_fasthash, FH_ready,
                 tier_ready, curve_flag, pc, locals, count, held, hits>>

RatioStart ==
  /\ Thawed /\ Cuttable /\ \A b \in Buckets : fre[b] <= MaxFre
  /\ FH_construct' = TRUE
  /\ mpc' = "ratio" /\ out_node' = 1 /\ in_node' = 1 /\ count' = 0
  /\ UNCHANGED <<elements, lists, s, m_fasthash, FH_ready, tier_ready,
                 tier_no_insert, curve_flag, pc, locals, held, hits>>

(* One turn of the inner loop of construct_tier or construct_ratio.  It    *)
(* locks the element of the node, and keeps it until the next.  A node     *)
(* whose element is gone leaves the list.                                  *)
Walked == IF mpc = "tier" THEN fast ELSE order
BucketDone_OneShort(b) == in_node >= Len(items[b])
BucketDone(b) == in_node > Len(items[b])

Visit ==
  /\ mpc \in {"tier", "ratio"} /\ out_node <= Len(Walked)
  /\ LET b == Walked[out_node]
     IN  /\ ~BucketDone(b)
         /\ LET k == items[b][in_node]
            IN  /\ \A t \in Threads : ~(pc[t] \in Holding /\ key[t] = k)
                /\ count' = IF mpc = "ratio" THEN count + 1 ELSE count
                /\ IF k \in elements
                     THEN /\ m_fasthash' = m_fasthash \cup {k} /\ held' = k
                          /\ in_node' = in_node + 1
                          /\ UNCHANGED items
                     ELSE /\ items' = [items EXCEPT ![b] = Without(@, k)]
                          /\ held' = NoKey
                          /\ UNCHANGED <<m_fasthash, in_node>>
  /\ UNCHANGED <<elements, listNode, order, fast, fre, s, flags, pc, locals, mpc, out_node, hits>>

(* The next turn of the outer loop. *)
NextBucket ==
  /\ mpc \in {"tier", "ratio"} /\ out_node <= Len(Walked)
  /\ BucketDone(Walked[out_node])
  /\ out_node' = out_node + 1 /\ in_node' = 1
  /\ mpc' = IF mpc = "ratio" /\ count >= FC_size THEN "cut"
            ELSE IF mpc = "tier" /\ out_node = Len(Walked) THEN "ready" ELSE mpc
  /\ UNCHANGED <<elements, lists, s, m_fasthash, flags, pc, locals, count, held, hits>>

(* construct_tier's last stores, which are not made under the mutex. *)
TierReady ==
  /\ \/ mpc = "ready" /\ FH_ready' = TRUE /\ mpc' = "ready2"
        /\ UNCHANGED <<tier_ready, FH_construct, held>>
     \/ mpc = "ready2" /\ tier_ready' = TRUE /\ mpc' = "ready3"
        /\ UNCHANGED <<FH_ready, FH_construct, held>>
     \/ mpc = "ready3" /\ FH_construct' = FALSE /\ held' = NoKey /\ mpc' = "frozen"
        /\ UNCHANGED <<FH_ready, tier_ready>>
  /\ UNCHANGED <<elements, lists, s, m_fasthash, tier_no_insert, curve_flag, pc,
                 locals, out_node, in_node, count, hits>>

RatioCut ==
  /\ mpc = "cut"
  /\ fast' = SubSeq(order, 1, out_node - 1)
  /\ order' = SubSeq(order, out_node, Len(order))
  /\ FH_ready' = TRUE /\ FH_construct' = FALSE
  /\ held' = NoKey /\ mpc' = "frozen"
  /\ UNCHANGED <<elements, listNode, fre, items, s, m_fasthash, tier_ready,
                 tier_no_insert, curve_flag, pc, locals, out_node, in_node, count, hits>>

(* deconstruct: no find is counted from here on, so the frozen buckets can *)
(* be given frequencies above those of the others without the mutex.  A    *)
(* find that has read a frequency before the shard was frozen is assumed   *)
(* to be over: it would count from that.                                   *)
NoOldFind == \A t \in Threads : pc[t] \in {"held", "lock"} => ready[t]

DeconstructStart ==
  /\ mpc = "frozen" /\ NoOldFind
  /\ IF fast = <<>>
       THEN mpc' = "idle" /\ UNCHANGED FH_construct
       ELSE mpc' = "renumber" /\ FH_construct' = TRUE
  /\ UNCHANGED <<elements, lists, s, m_fasthash, FH_ready, tier_ready,
                 tier_no_insert, curve_flag, pc, locals, walk, hits>>

max_freq == IF order = <<>> THEN 0 ELSE fre[order[1]]
Renumbered_FromHead(i) == max_freq + i
Renumbered(i) == max_freq + Len(fast) + 1 - i

Renumber ==
  /\ mpc = "renumber" /\ mpc' = "splice"
  /\ fre' = [b \in Buckets |-> IF b \in Range(fast)
                              THEN Renumbered(CHOOSE i \in DOMAIN fast : fast[i] = b)
                              ELSE fre[b]]
  /\ UNCHANGED <<elements, listNode, order, fast, items, s, m_fasthash, flags,
                 pc, locals, walk, hits>>

Splice ==
  /\ mpc = "splice" /\ mpc' = "clear"
  /\ order' = fast \o order /\ fast' = <<>>
  /\ tier_no_insert' = (tier_no_insert /\ ~tier_ready)
  /\ tier_ready' = FALSE /\ FH_ready' = FALSE /\ FH_construct' = FALSE
  /\ UNCHANGED <<elements, listNode, fre, items, s, m_fasthash, curve_flag, pc,
                 locals, walk, hits>>

Clear ==
  /\ mpc = "clear" /\ mpc' = "idle"
  /\ m_fasthash' = {}
  /\ out_node' = 0 /\ in_node' = 0 /\ count' = 0
  /\ UNCHANGED <<elements, lists, s, flags, pc, locals, held, hits>>

(* The two critical sections of get_curve.  Its walk between them only     *)
(* reads the lists, to set m_threshold and the curve, and is left out.     *)
CurveStart ==
  /\ Thawed /\ mpc' = "curve"
  /\ curve_flag' = TRUE
  /\ UNCHANGED <<elements, lists, s, m_fasthash, FH_ready, FH_construct,
                 tier_ready, tier_no_insert, pc, locals, walk, hits>>

CurveEnd ==
  /\ mpc = "curve" /\ mpc' = "idle"
  /\ curve_flag' = FALSE
  /\ UNCHANGED <<elements, lists, s, m_fasthash, FH_ready, FH_construct,
                 tier_ready, tier_no_insert, pc, locals, walk, hits>>

Request(t) ==
  \/ \E k \in Keys : Find(t, k)
  \/ FindFast(t) \/ FindMap(t) \/ FindRead(t) \/ FindLock(t)
  \/ Insert(t) \/ InsertMap(t) \/ InsertPush(t) \/ Evict(t)

Monitor ==
  \/ TierStart \/ RatioStart \/ Visit \/ NextBucket \/ TierReady \/ RatioCut
  \/ DeconstructStart \/ Renumber \/ Splice \/ Clear
  \/ CurveStart \/ CurveEnd

Next == Monitor \/ \E t \in Threads : Request(t)

Spec == Init /\ [][Next]_vars

-----------------------------------------------------------------------------
(* Properties                                                              *)

Listed == {k \in Keys : isInList(k)}

(* Every variable has its type. *)
TypeOK ==
  /\ elements \subseteq Keys /\ m_fasthash \subseteq Keys
  /\ listNode \in [Keys -> Buckets \cup {Null}]
  /\ order \in Seq(Buckets) /\ fast \in Seq(Buckets)
  /\ fre \in [Buckets -> 0..(MaxFre + Cardinality(Buckets))]
  /\ items \in [Buckets -> Seq(Keys)]
  /\ s \in 0..m_maxSize
  /\ {FH_ready, FH_construct, tier_ready, tier_no_insert, curve_flag} \subseteq BOOLEAN
  /\ pc \in [Threads -> {"idle", "fast", "map", "held", "lock", "insert",
                         "minsert", "push", "evict"}]
  /\ key \in [Threads -> Keys \cup {NoKey}] /\ temp_node \in [Threads -> Keys \cup {NoKey}]
  /\ ready \in [Threads -> BOOLEAN] /\ seen \in [Threads -> Nat]
  /\ mpc \in {"idle", "tier", "ratio", "ready", "ready2", "ready3", "cut", "frozen",
              "renumber", "splice", "clear", "curve"}
  /\ {out_node, in_node, count} \subseteq Nat /\ held \in Keys \cup {NoKey}
  /\ hits \in [Keys -> Nat]

(* The frequencies fall from bucket to bucket in both lists, whatever was  *)
(* counted, frozen and renumbered: the assertions on fre in find and in    *)
(* pushForward cannot fail.  Only a last bucket may be empty, which is     *)
(* what makes its last node a victim of insert.                            *)
Descends(q) ==
  \A i \in 1..(Len(q) - 1) : fre[q[i]] > fre[q[i + 1]] /\ items[q[i]] # <<>>
FrequenciesDescend == Descends(order) /\ Descends(fast)

(* m_map and the lists agree between any two steps: a node is in one       *)
(* place, the bucket its element points to, and the elements without a     *)
(* node in a list are those that an insert is about to add or take out.    *)
(* So the shard never holds more than its size, and an evicting insert     *)
(* finds the element of its victim.                                        *)
MapMatchesLists ==
  /\ \A k \in Listed : LET at == listNode[k]
                       IN  /\ at \in Used
                           /\ Cardinality({i \in DOMAIN items[at] : items[at][i] = k}) = 1
                           /\ \A b \in Used \ {at} : k \notin Range(items[b])
  /\ s = Cardinality(Listed)
  /\ elements = Listed \cup {key[t] : t \in {u \in Threads : pc[u] = "push"}}
                       \cup {temp_node[t] : t \in {u \in Threads : pc[u] = "evict"}}

(* A find counts exactly once.  The frequency of a node of LFUCache is the *)
(* number of finds that hit it since it was inserted, plus one; a find of  *)
(* LFU_FH counts from the frequency its bucket has now, although it read   *)
(* it before it waited for the mutex.                                      *)
CountsAreExact ==
  /\ Policy = "LFU" => \A k \in Listed : fre[listNode[k]] = 1 + hits[k]
  /\ Policy = "LFU_FH" =>
       \A t \in Threads : pc[t] = "lock" /\ ~IsFrozen(t) /\ Counts(t) =>
         seen[t] = fre[listNode[key[t]]]

(* m_fasthash has every frozen key while find looks there first, and under *)
(* a tier, when find looks nowhere else, every key of the shard.           *)
FrozenKeysAreFound ==
  /\ FH_ready => \A b \in Range(fast) : Range(items[b]) \subseteq m_fasthash
  /\ tier_ready => Listed \subseteq m_fasthash

=============================================================================
