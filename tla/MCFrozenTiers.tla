--------------------------- MODULE MCFrozenTiers ---------------------------
(* A shard of FIFO_FH or of LRU_FH, frozen and thawed again and again,     *)
(* under one of five loads:                                                *)
(*  - "fifo": two threads read two keys in a FIFO_FH shard of size one,    *)
(*    which therefore evicts all the time;                                 *)
(*  - "delete": a thread reads and deletes three keys in a FIFO_FH shard   *)
(*    of size two;                                                         *)
(*  - "race": two threads read and delete one key in a FIFO_FH shard, so   *)
(*    that inserts of it meet each other and delete_key;                   *)
(*  - "ratio": a thread reads six keys in a FIFO_FH shard of size five,    *)
(*    which construct_ratio splits;                                        *)
(*  - "lru": two threads read three keys in an LRU_FH shard that holds     *)
(*    them all, where find moves nodes past each other, while it is frozen *)
(*    and profiled by get_curve.                                           *)
EXTENDS Integers, FiniteSets, TLC

CONSTANTS Threads, Single, Key, TwoKeys, Keys, NoKey, Null, Head, Tail, FHead, FTail,
          OutOfListMarker, TOMB_KEY, MARKER_KEY

VARIABLES
  load,
  m_map, list, m_key, fresh, alive, m_size, m_fasthash, fast_hash_ready,
  fast_hash_construct, tier_ready, tier_no_insert, curve_flag, m_marker,
  eviction_counter, pc, key, node, moribund, s, evictionDone, mpc, temp_node,
  temp_key, count, eviction_count, first_pass_flag

Fifo == INSTANCE FrozenCache WITH
  Policy <- "FIFO_FH", Keys <- TwoKeys, Nodes <- TwoKeys \X (1..2),
  MaxSize <- 1, SizeMod <- 4, FC_size <- 0, FC_RELAXATION <- 0, MaxLag <- 9,
  AssumeSteady <- TRUE, Requests <- {"read"}, MonitorOps <- {"tier"},
  Sentinels <- {Head, Tail, FHead, FTail}
Delete == INSTANCE FrozenCache WITH
  Policy <- "FIFO_FH", Threads <- {Single}, Nodes <- Keys \X (1..2),
  MaxSize <- 2, SizeMod <- 5, FC_size <- 0, FC_RELAXATION <- 0, MaxLag <- 9,
  AssumeSteady <- TRUE, Requests <- {"read", "delete"}, MonitorOps <- {"tier"},
  Sentinels <- {Head, Tail, FHead, FTail}
Race == INSTANCE FrozenCache WITH
  Policy <- "FIFO_FH", Keys <- {Key}, Nodes <- {Key} \X (1..3),
  MaxSize <- 1, SizeMod <- 4, FC_size <- 0, FC_RELAXATION <- 0, MaxLag <- 9,
  AssumeSteady <- TRUE, Requests <- {"read", "delete"}, MonitorOps <- {"tier"},
  Sentinels <- {Head, Tail, FHead, FTail}
Ratio == INSTANCE FrozenCache WITH
  Policy <- "FIFO_FH", Threads <- {Single}, Keys <- 1..6, Nodes <- (1..6) \X {1},
  MaxSize <- 5, SizeMod <- 9, FC_size <- 3, FC_RELAXATION <- 2, MaxLag <- 1,
  AssumeSteady <- TRUE, Requests <- {"read"}, MonitorOps <- {"ratio"},
  Sentinels <- {Head, Tail, FHead, FTail}
Lru == INSTANCE FrozenCache WITH
  Policy <- "LRU_FH", Nodes <- (Keys \X (1..2)) \cup {<<MARKER_KEY, 1>>},
  MaxSize <- 3, SizeMod <- 6, FC_size <- 0, FC_RELAXATION <- 0, MaxLag <- 9,
  AssumeSteady <- TRUE, Requests <- {"read"}, MonitorOps <- {"curve", "tier"},
  Sentinels <- {Head, Tail, FHead, FTail}

shard == <<m_map, list, m_key, fresh, alive, m_size, m_fasthash, fast_hash_ready,
           fast_hash_construct, tier_ready, tier_no_insert, curve_flag, m_marker,
           eviction_counter, pc, key, node, moribund, s, evictionDone, mpc,
           temp_node, temp_key, count, eviction_count, first_pass_flag>>
vars == <<load, shard>>

Init ==
  \/ load = "fifo" /\ Fifo!Init
  \/ load = "delete" /\ Delete!Init
  \/ load = "race" /\ Race!Init
  \/ load = "ratio" /\ Ratio!Init
  \/ load = "lru" /\ Lru!Init

(* The shard of the race may stop: an insert can wait for itself, as       *)
(* orphan_wait shows, and every node of the key can be a lost tomb.        *)
RaceStops == load = "race" /\ UNCHANGED shard

(* The six keys of the ratio are interchangeable, and too many for         *)
(* SYMMETRY beside the other loads.  This load numbers them as the shard   *)
(* sees them first, and splits it only when its list has them in this      *)
(* order, from wherever; between the splits the thread reads any key.      *)
InOrder ==
  \A m, n \in Ratio!Linked(list) : list.next[m] = n => m[1] = (n[1] % 6) + 1

RatioNext ==
  /\ load = "ratio" /\ Ratio!Next
  /\ m_size < 5 => key'[Single] \in {NoKey} \cup (1..(m_size + 1))
  /\ mpc = "idle" /\ mpc' = "flag" => InOrder

Next ==
  /\ UNCHANGED load
  /\ \/ load = "fifo" /\ Fifo!Next
     \/ load = "delete" /\ Delete!Next
     \/ load = "race" /\ Race!Next
     \/ RaceStops
     \/ RatioNext
     \/ load = "lru" /\ Lru!Next

Spec == Init /\ [][Next]_vars

Symmetry ==
  Permutations(TwoKeys) \cup Permutations(Keys) \cup Permutations(Threads)

-----------------------------------------------------------------------------
(* Every variable of the shard has its type. *)
TypeOK ==
  /\ load = "fifo" => Fifo!TypeOK
  /\ load = "delete" => Delete!TypeOK
  /\ load = "race" => Race!TypeOK
  /\ load = "ratio" => Ratio!TypeOK
  /\ load = "lru" => Lru!TypeOK

(* Both lists stay doubly linked although the monitor walks and splices    *)
(* them, partly without the mutex, while find, insert and delete_key go on. *)
ListsWellLinked ==
  /\ load = "fifo" => Fifo!ListsWellLinked
  /\ load = "race" => Race!ListsWellLinked
  /\ load = "ratio" => Ratio!ListsWellLinked
  /\ load = "lru" => Lru!ListsWellLinked

(* No request and no walk of the monitor touches a ListNode that another   *)
(* thread, an eviction or a delete_key, has deleted.                       *)
NoUseAfterFree ==
  /\ load = "fifo" => Fifo!NoUseAfterFree
  /\ load = "delete" => Delete!NoUseAfterFree
  /\ load = "race" => Race!NoUseAfterFree
  /\ load = "ratio" => Ratio!NoUseAfterFree

(* While construct_tier's shard is frozen every key on a list is in        *)
(* m_fasthash: find looks nowhere else.                                    *)
AllFrozenKeysHit ==
  /\ load = "fifo" => Fifo!AllFrozenKeysHit
  /\ load = "race" => Race!AllFrozenKeysHit
  /\ load = "lru" => Lru!AllFrozenKeysHit

(* No set of threads, the monitor included, waits for elements that its    *)
(* members hold, as long as nobody calls delete_key.                       *)
NoCircularWait == load = "fifo" => Fifo!NoCircularWait

(* deconstruct restores the shard: m_fasthash and the second list are      *)
(* empty, every element has a node on the list, inserts are accepted, and  *)
(* a node without an element is owed to a tomb that delete_key left on no  *)
(* list.                                                                   *)
ThawRestores ==
  /\ load = "fifo" => Fifo!ThawRestores
  /\ load = "delete" => Delete!ThawRestores
  /\ load = "race" => Race!ThawRestores
  /\ load = "ratio" => Ratio!ThawRestores

(* The walk of construct_ratio cuts the list before it comes to its end,   *)
(* although the nodes it has not visited yet are evicted.                  *)
WalkMissesTail == load = "ratio" => Ratio!WalkMissesTail

(* The nodes in front of get_curve's marker were hit since it was made,    *)
(* but for one per thread that had decided to promote before.              *)
FrontIsHit == load = "lru" => Lru!FrontIsHit

=============================================================================
