# A TLA+ model of FrozenHot

FrozenHot is a sharded in-memory cache. While the access pattern is stable, a
monitor thread *freezes* the hot part of each shard into a read-only table that
is searched without locks, and *thaws* it when the pattern changes. Beside the
cache the repository has two log servers for an SSD. These modules model the
shards at the grain of their atomic steps, the control loop of the monitor, and
the log servers with the recovery of what they wrote. TLC checks them on small
instances; TLAPS proves the invariants of the baseline shard, of the sampled LRU,
of the monitor and of the group commit for all sizes.

## 1. Survey

| part | state | operations | who runs them |
|---|---|---|---|
| baseline list caches: LRU, StrictLRU, FIFO | `m_map` (TBB hash map, a reader/writer lock per element), a doubly linked list under `m_listMutex`, atomic `m_size` | find, insert, evict, delete_key, clear, snapshotKeys | all workers |
| FrozenHot list caches: LRU_FH, FIFO_FH | the same, plus a second list, `m_fasthash`, unlocked flags, a marker node, `eviction_counter` | the same, plus construct_tier, construct_ratio, deconstruct, get_curve | workers; the monitor |
| fast hash (CLHT, TBBCHT) | key to raw pointer | insert, find, clear | monitor writes, workers read |
| LFU, LFU_FH | `m_map`, buckets of nodes by frequency under one mutex; LFU_FH also a frozen bucket list and flags | find, insert; construct_tier, construct_ratio, deconstruct, get_curve | workers; the monitor |
| sampled LRU (`redis_lru.h`) | `m_map`, a set to sample from, a pool of eviction candidates, `redis_lock` | find, insert, performEvictions | workers |
| monitor (`FastHashMonitor`) | shard queue, fail list, step counts, `best_size`, `should_stop` | observe, search, construct, frozen run, deconstruct | one thread |
| sharded cache | shard vector | choice of the class, sizing, getShard | workers, monitor |
| group commit (`LoggingServer`) | a lock-free stack of writers, `log_free_`, the buffers of the logs | AddLog; GetLeader | client threads; one server thread |
| SPDK log (`SPDKLoggingServer`) | a stack of requests, a pipeline of buffers, `current_offset`, the alive logs, a page of metadata | AddLog, CreateWAL, DeleteLog; the server loop | clients, an owner; the server; the device |
| SPDK recovery | a ring of pages, positions in it | ReadFromSPDK, ProcessData | a reader and a parser |
| statistics, client, trace loader, SPDK device, scripts | | | |

What makes it hard: an element lock is held while the list mutex or another
element is waited for; nodes are used outside the list mutex; the monitor walks
and splices lists partly without the mutex; flags and frequencies are read before
a lock and acted on after it; `m_fasthash` holds raw pointers; sizes are updated
apart from what they count; the monitor must leave every phase when `should_stop`
is set; a writer of the group commit lives on the stack of a thread that another
thread wakes up; pages reach the device in any order, and the process may end at
any moment. The hazards are listed with their source lines in `PROJECT.json`.

## 2. Modules

*Shards*

- **Chains**: what is met by following a pointer field: the walks along the lists
  of a shard. **ChainsProofs**: that this
  is the least set that has the start and that the pointers do not leave.
- **NodeList**: the pointer list: `delink`, `pushAfter`, `pushFront`,
  `moveToFront`, with `m_next` and `m_prev` as functions on nodes and sentinels,
  and `WellLinked`. **NodeListProofs**: what these operators preserve.
- **ListCache**: a baseline shard. One step is one call into `m_map`, one critical
  section of `m_listMutex`, or one access of `m_size`; `pc[t]` says where the call
  of thread t is. `readers` and `writer` are the accessors. erase through a
  const_accessor first unlinks the element and then waits for the other readers,
  as TBB does. `Policy` selects the class. **ListCacheProofs**: its theorems on
  nodes and locks. **ListCacheSizeProofs**: those on reachability and size.
- **FrozenCache**: a shard of LRU_FH or FIFO_FH with the monitor's calls on it.
  `mpc` is the monitor's place; both lists are one list state with four sentinels.
  A value is named by the node allocated with it. Nodes are pairs of a key and a
  copy number, so that two nodes of one key can exist.
- **LFUCache**: a shard of LFU or LFU_FH. All list changes are made under one
  mutex, so a list is a sequence of buckets and a bucket a sequence of keys; the
  lookup in the map, the read of the frequency and the critical section of a find
  are separate steps, as are the walks of the monitor.
- **RedisLRUCache**: a shard of the sampled LRU. The pool is what the code has: an
  array of pointers to entries, which its memmoves can make share an entry.
  **RedisLRUProofs**: its theorems.
- **MCListCache**, **MCFrozenCache**, **MCFrozenTiers**, **MCShards**: instances.
  The last two put several of them into one run: the initial state chooses the
  class of the shard, or the load of a FrozenCache. MCShards extends RedisLRUCache, so that the
  properties the run checks are those RedisLRUProofs is about.

*Monitor*

- **FHMonitor**: `FastHashMonitor` over all shards. A call on a shard begins and
  ends in separate steps. Latencies and ratios are real numbers that depend on the
  workload, so a comparison of two of them is a free choice; sample counts are
  kept. **FHMonitorProofs**: its theorems.
- **ShardProtocol**: the abstract specification of the order in which shards may be
  called. FHMonitor implements it (`ShardsFollowProtocol`, with `state <- shard`).
  FrozenCache's monitor makes its calls in this order by construction, so nothing
  is claimed about it there.

*Logs*

- **LogService**: the abstract specification of a log: a record is acknowledged
  only when it is durable, and what is durable stays. Both servers implement it
  (`ImplementsLogService`).
- **LoggingServer**: the group commit. A Writer is named by its thread, since
  consecutive calls have it at the same address. The spinning of `AwaitState` is
  one step; the way it falls asleep, and `SetState`, are modelled step by step.
  **LoggingServerProofs**: its theorems on writers, logs and waiting.
  **LoggingRecordsProofs**: those on records, and the refinement.
- **LogPages**: pages as sequences of cells, and how entries are laid out in them.
  **SpdkServer**: the server, its clients, the owner that creates and deletes logs,
  and the device, which stores the pages of a write in any order.
  **SpdkRecovery**: the reader, the ring buffer and the parser.
  **SpdkLog**: the composition: the server runs, the process ends at any moment,
  the recovery reads what the device holds. **MCSpdkLog**: its sizes.

## 3. Runs

| run | instance | states | shows |
|---|---|---|---|
| lru_safety | LRU, 3 threads, 2 keys, capacity 1, deletes | 242,642 | list, map, locks and node lifetimes stay consistent; all calls wait for each other only if one is in the overfill eviction |
| frozen_tiers | *fifo*: FIFO_FH, 2 threads, 2 keys, capacity 1; *delete*: 1 thread, 3 keys, capacity 2, deletes; *race*: 2 threads, 1 key, capacity 1, deletes; *ratio*: 1 thread, 6 keys, capacity 5, FC_size 3, relaxation 2; *lru*: LRU_FH, 2 threads, 3 keys, capacity 3 | 759,363 | requests against a construct and deconstruct; tombs are collected; what racing inserts and a frozen delete leave behind; both ways construct_ratio cuts the list; promotions against the freeze and the marker |
| shards | FIFO, 2 threads, 4 keys, capacity 2; LFU, 4 keys, capacity 3; LFU_FH, 3 keys, capacity 2, FC_size 1; Redis LRU, 3 keys, capacity 1, pool of 3 | 746,707 | sizes exact or bounded, a full FIFO shard stays full, frequencies and buckets agree through freeze and thaw, every element can be evicted, the pool stays sorted |
| tier_ends | LRU_FH with get_curve, 1 thread, 2 keys, capacity 2, deletes, one node per key | 27,719 | construct_tier ends |
| monitor | 2 shards, 2 passes, at most 2 samples between looks | 566,179 | call order, shard accounting, the monitor returns |
| group_commit | 3 threads, 2 logs, 3 calls | 52,472 | records stored once, one leader per log, every caller woken up and none too early |
| spdk_log | 3 requests, pages of 6 cells, 2 writes at a time, 3 pages and one more before the wrap, 2 logs, ring of 2 | 231,389 | what is acknowledged is on the device; recovery finds exactly what can be read, and ends |
| insert_self_wait | FIFO, 2 threads, 4 keys, capacity 2 | violated | insert can wait for its own accessor |
| frozen_value | FIFO_FH, 2 threads, 2 keys, capacity 1 | violated | a late insert replaces a frozen value |
| lost_capacity | FIFO_FH, 2 threads, 2 keys, capacity 1 | violated | a rejected insert that has evicted leaves `m_size` too high |
| orphan_wait | FIFO_FH, 2 threads, 1 key, capacity 1, deletes | violated | a node left without an element makes a later insert of its key wait for itself |
| recover_two_logs | 2 requests, 2 logs | violated | the recovery of more than one log joins a thread twice |

The last five are findings: each disagrees with a comment of the code that
`PROJECT.json` quotes.

**What deletes leave behind.** evict has a branch for a node without an element,
under the comments "Presumably unreachable" and "why this happens frequently in
some workloads? Is it due to FH mechanisms?". The model reaches it. Two threads
miss the same key; the first links node n1; the insert of the second gives the
element a node n2 that is never linked. A delete_key of the frozen key marks n2,
not n1, and erases the element. After the thaw n1 is in the list without an
element. `ThawRestores` therefore compares the two sides with this exception: every
element has a live node in the list, and there are at most as many nodes in excess
as tombs that are in no list (`LostTombs`). It is checked with two threads that
insert and delete one key (load *race*). When the next insert of the key evicts n1,
it waits for its own accessor: that is orphan_wait. So `NoCircularWait` is checked
only in the load *fifo*, which has no delete_key.

**Bounds.** Capacities are at or below the number of threads where evictions must
collide, and above it where the property needs that: `SizeIsExact` needs one slot
per thread and no delete_key, and fails otherwise. More keys than capacity
keep evictions going. In tier_ends a deleted key comes back only when its tomb is
gone; in frozen_tiers it may come back before. tier_ends is about construct_tier
only: `ConstructEnds` says nothing of construct_ratio. Its `TierNext` leaves out
construct_ratio and evict, which its instance never enables: with `FairSpec` the run
has the same 27,719 states. They fire in frozen_tiers, in the loads *ratio*
and *fifo*. In the load *ratio* the keys
are alike, but too many for TLC's symmetry beside the other loads: they are numbered
as the shard first sees them, and construct_ratio starts only when the list has
them in this order, from wherever (`InOrder`). Alone, with symmetry and without
this restriction, the load has 8,576 states and the same properties hold. The load *race* has three nodes for its key: the
two of the racing inserts and that of the insert after the thaw. `SizeMod` stands for 2^64 and is
just large enough that only a wrong count wraps. `MaxFre` 4 and 3 let a key pass another and two buckets meet.
In the monitor run the sample counts 5, 100 and 50 become 1, 2 and 1, which keeps
their role (none, too few, enough); FROZEN_THRESHOLD is 2 because with 1 the round
check is never reached. Three calls by three threads are the least with which a
leader finishes a group while the next one is led. The entries of spdk_log have
sizes 1, 2 and 3 in pages of 6 cells, of which every Fixed32 takes 2: one entry
leaves less than a Fixed32 in its page and another continues on the next; no
entry is longer than two pages, so the branch of `More` for one is not reached.

**Deadlock** is not checked in lru_safety, where the self-wait above is a real
one, nor where the program ends: monitor, group_commit, spdk_log. A FIFO shard of
the run shards may stand still for the same reason, and so may the load *race* of
frozen_tiers (`RaceStops`); the other shards and loads may not.

**Assumptions the passing runs make** (the code does not enforce them):
- `AssumeSteady` (FrozenCache): when a freeze starts the list is full, and no
  delete_key and no find of get_curve is between its flag test and the mutex. The
  monitor waits for a stable miss ratio, but looks at no single shard.
- `MaxLag` (load *ratio*): at most MaxLag inserts get past while construct_ratio
  has not cut yet. FC_RELAXATION is meant for this and must be larger: with both
  1 (4 keys, capacity 3, FC_size 2) an insert evicts and frees the very node the
  walk is about to cut before, and `NoUseAfterFree` fails.
- In the LRU_FH instances, which have get_curve, no eviction happens: they have as
  many slots as keys. With 3 keys in 2 slots TLC finds that evict can take the
  marker itself, once every node has moved in front of it. Evict then misses its
  key in `m_map`, in the branch commented "Presumably unreachable", and get_curve
  delinks the marker a second time: `ListsWellLinked` and `ConstructEnds` fail.
  In the code get_curve stops when `movement_counter` is above 0.9 of the
  capacity, but looks at it only between sleeps, and the model lets it stop at
  any time. With an `EvictDelink` that never takes the marker `ConstructEnds`
  holds for 3 keys in 2 slots (11,540 states). No run shows this.
- `NoUseAfterFree` is not checked with get_curve: find may read the marker after
  get_curve has deleted it, as a TODO in the code says.
- `NoOldFind` and `NoFindSinceFrozen` (LFU_FH): no find that was in its critical
  steps before a freeze is still there when the shard is thawed, and the other way
  round. `Cuttable`: construct_ratio has buckets enough that its walk does not
  reach `m_tail`.
- `Quiet` and `Room` (SPDK): the owner, which is not in this repository, creates
  and deletes logs when no request is pending, and deletes them before the device
  wraps into them. There is one server.
- A blank device (SPDK): the constructor does not clear the device, and its call of
  `SetLastLogfileSeq` is commented out. A page of an earlier life with the same log
  number would be taken for one of this log by the recovery; the owner must not
  use a number again.
- What is logged fits the buffers: `MemCopy` and `FSLogWriter::AppendData` assert
  that a batch, or a group, is smaller than `MAX_BUFFER_SIZE`. Neither server limits
  what it collects, so this rests on the clients. The models have no such limit.
- `StopServer` (group commit): the destructor runs when no AddLog does.
- In FHMonitor, a construct freezes at least one node: deconstruct takes an
  empty frozen list for a shard that is not frozen.

Without `AssumeSteady`, `NoOldFind` or `NoFindSinceFrozen` TLC finds requests that are
late by a whole phase of the monitor: `NoUseAfterFree` fails in frozen_tiers,
`CountsAreExact` fails in shards, and a find looks in the list for a bucket that is
in the frozen one. Without `MaxLag` the walk of construct_ratio runs into `m_tail`
(`WalkMissesTail`), and without `Cuttable` `FrozenKeysAreFound` fails. A late
promotion of the only frozen node, between deconstruct's test and its splice, is
possible even with `AssumeSteady` in an LRU_FH shard of capacity 1, and breaks the
list; the instances have more nodes than late threads.

**Types.** Every component states its `TypeOK`. The runs spend their checks on the
other properties and do not list it: those of ListCache and RedisLRUCache are
proved, and the proofs about the monitor and the group commit prove what they need
of theirs.

**Coarse steps.** The walk's read of `m_key` and its `m_map.find` are one step, and
so is its unlocked delink of a tomb. The keys an eviction of the sampled LRU
samples are chosen in one step, and their idle times are free choices.

**Fairness.** tier_ends: weak fairness of each thread inside a call and of the
monitor inside a construct, since the scheduler runs every thread; no request has
to be issued. monitor: weak fairness of the monitor thread, which includes that
its calls on the shards return; nothing is assumed of the workers, and no sample
comes after `monitor_stop`, since they are joined first. group_commit: of the
server thread, of the constructor and of each thread inside AddLog. spdk_log: of
the reader, the parser and the joining thread, and of the device for each read.
Strong fairness is never used.

## 4. Proofs

**ListCacheProofs.** For any threads, keys, nodes and capacity, from
`CacheAssumption` and the list's assumption only: `TypeOK`, `ListWellLinked`,
`EvictFindsItsKey`, `NoUseAfterFree`, `IdleConsistent` and `StuckOnlyAtOverfill`.
None is inductive alone. `IInv` says who may touch a node: accessors are exactly
those the program counters imply; a linked node is in the map under its own key;
an allocated node that is not linked has exactly one owner, the call that will
link or delete it. Ownership is what keeps a node alive between evict's delink and
its erase, and what makes the lookup there succeed. Each action has a lemma
that cites the list lemmas of NodeListProofs; `QuietInv` serves those that leave map,
list and owners alone, `TakeInv` the two that take a node off the list, and `NextInv`
joins them.

**FHMonitorProofs.** For any number of shards and any thresholds, from
`MonitorAssumption` only: `ShardsFollowProtocol`, that is, the monitor implements
ShardProtocol; `ConstructStartsClean`, `UnfrozenAreAccounted` and `EndsThawed`; and
`StepsToDivideBy` and `NeverBuildsUnsuitable`. (`EndsThawed` and `NeverBuildsUnsuitable`
are proved and not listed in the run.) The invariant `IInv` tells for every
place of the monitor the state of every shard. In a loop over all shards the index
tells them apart. In the construct phase their place in `construct_container` does:
the queue turns while i counts, so the shards not yet handled in this pass are the
first `pass_len - i`, those behind them are handled, and those not in the queue are
frozen. `TurnLemma` and `PopLemma` say what a turn does to the queue. That the
search starts over with thawed shards when all have failed is a cardinality
argument (`PassedLemma`). A second, small invariant, `FoundInv`, carries what
CONSTRUCT has measured, or should_stop, to where it is used.

**ListCacheSizeProofs.** For any threads, keys, nodes and capacity `ListReachable`;
and from `SizeAssumption` (no delete_key, at least one thread, a slot for each, and
a counter that does not wrap at one more per thread) `SizeIsExact` and the action
property `NeverUnderfilled`, for the three policies.

- *Reachability.* A doubly linked list may still have nodes in a circle of their
  own. `NoCircle` excludes that without induction: every set of linked nodes has
  one whose `m_prev` is outside of the set. The list operations keep it
  (NodeListProofs), and with it the chain from `m_head`, a set that the links do
  not leave, must have every node (`ListIsReachable`).
- *Size.* `SizeInv` is a balance: the counter, the threads that have pushed and not
  counted, and those that have counted an eviction and not made it, are together
  as many as the linked nodes and the threads that have evicted and not pushed.
  Beside it stand a bound on the threads that will count, and that a thread that
  has loaded a full size finds the shard full to the end of its insert. The last
  gives `EvictFinds`: a thread that evicts never meets an empty list, because each
  other thread has taken at most one node that it has not replaced, and there is a
  slot for each thread. The FIFO shard of the run `shards`, an instance of ListCache
  inside MCShards, meets `SizeAssumption` and is checked for the same two formulas.

**RedisLRUProofs.** For any threads and keys, any capacity and a pool of any size,
from `RedisAssumption` only: `TypeOK`, `ElementsCanBeSampled`, `RedisSizeIsExact`
and `PoolIsSorted`. The invariant has three parts. The elements are
counted but for the inserts in progress. A key between erase and remove is back in
the map only for an insert that waits to register it (`RemovesOnlyErased`). And
the memmoves keep the pointers of the pool in order (`PointersInOrder`), so slots
that share an entry are neighbours, and emptying them from the end leaves no gap.

**LoggingServerProofs** and **LoggingRecordsProofs.** For any number of threads, logs and calls, from
`LoggingAssumption` only: `LogIsExclusive`, `StoredOnce`, `WaitersHaveOneLeader`,
that `FinishGroup` and the server change the state only of writers whose threads
still wait (`OnlyWaitersAreTold`), and that the group commit implements LogService
(`ImplementsLogService`). There are three invariants; the
other two build on the first.

- `IInv` is about pointers: each one that is still to be followed (the top of the
  stack, the link of a waiting writer or of a leader, the writer FinishGroup is
  about to complete) leads to a writer that waits, and no two to the same one. So
  a leader is never completed by another one, and keeps its log until it frees it.
- `RInv` is about records. A group is written from its leader down the links, and
  the leader's head is the next to be written (`WrittenDownward`, `HeadIsNext`); so
  what a leader appends is new, every position has a record of its own, and
  whoever is completed behind the sync has its record on the device. Under the
  refinement mapping (a record is durable when it is on a disk, a call has
  returned when its number is past or its thread is out) `StepIsService` shows
  that each step adds a record, makes some durable, lets some return, or leaves
  the service as it is.
- `WInv` adds that who waits is pointed to, and that the links have no circle. So
  following the links backwards from a waiting writer ends at a root (the top of
  the stack, a leader, or the writer FinishGroup completes next), and roots reach
  disjoint sets of writers.

**Assumptions on the constants** are those of the modules. Threads and nodes are
finite sets, which is what a program has. No size is fixed; `SizeAssumption` alone
relates some.

**How far the proofs reach.** tlapm cannot instantiate the library's induction
theorems. Where a recursive definition has to be reasoned about (ChainsProofs, the
pool of RedisLRUProofs) the proofs go by least counterexample (`LeastNat`), which
is a plain fact about sets of numbers. Liveness, and what `ENABLED` is about, are
out of the prover's reach: `StopEnds`, `PassesEnd`, `ConstructEnds`, `AddLogReturns`
and `RecoveryEnds` are only model-checked. So is everything about FrozenCache,
LFUCache and the SPDK log: their lists and pages are sequences and walks whose
invariants are not worked out for all sizes yet.

## 5. Not modelled

- Device and file access, trace parsing and generation, scripts and plots: I/O and
  floating point. What of it the models need (when the device stores a page, which
  key is asked for, what a latency is) is a free choice in them.
- Statistics: the counters of the shards and their cursors (print_step,
  print_from_last_end). What they report to the monitor is a choice there.
- The inside of CLHT, TBB and SPDK: external libraries, modelled by how they are
  used. That two threads may change the vector of the sampled LRU's set while it is
  sampled, a data race, is not modelled.
- Shard sizing and getShard: a division and a hash, each on one line. BaseMonitor
  only prints.
- `clear` of the FrozenHot, LFU and sampled caches runs in the destructor only;
  `performEviction` of the sampled LRU is never called. Of get_curve of LFU_FH only
  the two critical sections that set and reset `curve_flag` are modelled, which is
  all that find and insert see of it but for `m_threshold`, a statistic.
- `GetLogEntry` of the recovery, which takes an entry off the queue and
  `base_log_tag_seq_` off its number: `RecoveryIsExact` is about the queue that
  ProcessData fills. `MakeGroup` of the group commit, which fills a `WriteGroup`
  of which only assertions read anything.
- Several SPDK servers on one device, and what becomes of a request that is added
  after the server has left.
- In FHMonitor the length of the sleeps, per-shard latencies and
  `stop_sample_stat` (how often workers sample).
