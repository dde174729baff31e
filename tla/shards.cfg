CONSTANTS
  Nodes = {n1, n2, n3, n4, n5, n6}
  Keys = {k1, k2, k3}
  OneMoreKey = k4
  Threads = {t1, t2}
  Head = Head
  Tail = Tail
  OutOfListMarker = OutOfListMarker
  Null = Null
  NoKey = NoKey
  NoThread = NoThread
  NotUsed = NotUsed
  n = 1
  EVICTION_POOL_SIZE = 3
  EVICTION_SAMPLE = 2
  MaxIdle = 2
SPECIFICATION ShardSpec
SYMMETRY Symmetry
INVARIANTS SizeIsExact FrequenciesDescend MapMatchesLists CountsAreExact FrozenKeysAreFound ElementsCanBeSampled RedisSizeIsExact PoolIsSorted
PROPERTY NeverUnderfilled
