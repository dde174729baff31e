----------------------------- MODULE MCShards -----------------------------
(* One shard of one of the classes that ConcurrentScalableCache makes, by  *)
(* algType: Redis_LRU, which this module extends, FIFO, LFU or LFU_FH,     *)
(* each a small instance of its module.  The classes that are not the      *)
(* shard's stay at their initial state, or their variables are NotUsed.  A *)
(* FIFO or LFU shard has one key more than the others, which is not        *)
(* interchangeable.                                                        *)
EXTENDS RedisLRUCache, TLC

CONSTANTS OneMoreKey, Null, Nodes, Head, Tail, OutOfListMarker, NotUsed

ASSUME RedisShardAssumption == RedisAssumption

VARIABLES
  algType, l_pc, l_s,
  m_map, readers, writer, list, m_key, alive, m_size, node, moribund,
  l_key, l_elements, listNode, order, fast, fre, items, m_fasthash, FH_ready,
  FH_construct, tier_ready, tier_no_insert, curve_flag, temp_node, ready, seen, mpc,
  out_node, in_node, count, held, hits

FIFO == INSTANCE ListCache WITH
  Policy <- "FIFO", Keys <- Keys \cup {OneMoreKey}, MaxSize <- 2, SizeMod <- 8,
  AllowDelete <- FALSE, Sentinels <- {Head, Tail}, pc <- l_pc, s <- l_s
LFU == INSTANCE LFUCache WITH
  Policy <- "LFU", Keys <- Keys \cup {OneMoreKey}, m_maxSize <- 3, FC_size <- 1,
  MaxFre <- 4, pc <- l_pc, s <- l_s, key <- l_key, elements <- l_elements
LFU_FH == INSTANCE LFUCache WITH
  Policy <- "LFU_FH", m_maxSize <- 2, FC_size <- 1,
  MaxFre <- 3, pc <- l_pc, s <- l_s, key <- l_key, elements <- l_elements

bothVars == <<l_pc, l_s>>
listVars == <<m_map, readers, writer, list, m_key, alive, m_size, node, moribund>>
lfuVars == <<l_key, l_elements, listNode, order, fast, fre, items, m_fasthash,
             FH_ready, FH_construct, tier_ready, tier_no_insert, curve_flag, temp_node,
             ready, seen, mpc, out_node, in_node, count, held, hits>>
shardVars == <<algType, vars, bothVars, listVars, lfuVars>>

NoList ==
  /\ m_map = NotUsed /\ readers = NotUsed /\ writer = NotUsed /\ list = NotUsed
  /\ m_key = NotUsed /\ alive = NotUsed /\ m_size = NotUsed /\ node = NotUsed
  /\ moribund = NotUsed
NoLfu ==
  /\ l_key = NotUsed /\ l_elements = NotUsed
  /\ listNode = NotUsed /\ order = NotUsed /\ fast = NotUsed /\ fre = NotUsed
  /\ items = NotUsed /\ m_fasthash = NotUsed /\ FH_ready = NotUsed
  /\ FH_construct = NotUsed /\ tier_ready = NotUsed /\ tier_no_insert = NotUsed
  /\ curve_flag = NotUsed /\ temp_node = NotUsed /\ ready = NotUsed
  /\ seen = NotUsed /\ mpc = NotUsed /\ out_node = NotUsed /\ in_node = NotUsed
  /\ count = NotUsed /\ held = NotUsed /\ hits = NotUsed

ShardInit ==
  /\ Init
  /\ \/ algType = "Redis_LRU" /\ NoList /\ NoLfu /\ l_pc = NotUsed /\ l_s = NotUsed
     \/ algType = "FIFO" /\ FIFO!Init /\ NoLfu
     \/ algType = "LFU" /\ LFU!Init /\ NoList
     \/ algType = "LFU_FH" /\ LFU_FH!Init /\ NoList

ShardNext ==
  /\ UNCHANGED algType
  /\ \/ algType = "Redis_LRU" /\ Next /\ UNCHANGED <<bothVars, listVars, lfuVars>>
     \/ algType = "FIFO" /\ FIFO!Next /\ UNCHANGED <<vars, lfuVars>>
     \/ algType = "FIFO" /\ UNCHANGED shardVars   \* its inserts can wait for each other
     \/ algType = "LFU" /\ LFU!Next /\ UNCHANGED <<vars, listVars>>
     \/ algType = "LFU_FH" /\ LFU_FH!Next /\ UNCHANGED <<vars, listVars>>

ShardSpec == ShardInit /\ [][ShardNext]_shardVars

Symmetry == Permutations(Keys) \cup Permutations(Threads)

-----------------------------------------------------------------------------
(* Every variable of the shard has its type, whichever class it is. *)
ShardTypeOK ==
  /\ TypeOK
  /\ algType = "FIFO" => FIFO!TypeOK
  /\ algType = "LFU" => LFU!TypeOK
  /\ algType = "LFU_FH" => LFU_FH!TypeOK

(* FIFO: m_size is exact whenever no call is in progress, and racing       *)
(* inserts overfill the shard by less than one element per thread.         *)
SizeIsExact == algType = "FIFO" => FIFO!SizeIsExact

(* FIFO: no step takes a full shard below its capacity. *)
NeverUnderfilled == [][algType = "FIFO" => FIFO!StaysFull]_shardVars

(* LFU, LFU_FH: frequencies fall from bucket to bucket, also after a       *)
(* deconstruct has renumbered the frozen ones.                             *)
FrequenciesDescend ==
  /\ algType = "LFU" => LFU!FrequenciesDescend
  /\ algType = "LFU_FH" => LFU_FH!FrequenciesDescend

(* LFU, LFU_FH: m_map, the buckets and s agree between any two steps. *)
MapMatchesLists ==
  /\ algType = "LFU" => LFU!MapMatchesLists
  /\ algType = "LFU_FH" => LFU_FH!MapMatchesLists

(* LFU, LFU_FH: a find counts exactly once, in LFU_FH although it read the *)
(* frequency before it waited for the mutex.                               *)
CountsAreExact ==
  /\ algType = "LFU" => LFU!CountsAreExact
  /\ algType = "LFU_FH" => LFU_FH!CountsAreExact

(* LFU_FH: m_fasthash has every key that find looks for only there. *)
FrozenKeysAreFound == algType = "LFU_FH" => LFU_FH!FrozenKeysAreFound

=============================================================================
