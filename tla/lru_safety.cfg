CONSTANTS
  Nodes = {n1, n2, n3, n4, n5}
  Keys = {k1, k2}
  Threads = {t1, t2, t3}
  Head = Head
  Tail = Tail
  Sentinels = {Head, Tail}
  OutOfListMarker = OutOfListMarker
  Null = Null
  NoKey = NoKey
  NoThread = NoThread
  Policy = "LRU"
  MaxSize = 1
  SizeMod = 4
  AllowDelete = TRUE
SPECIFICATION Spec
SYMMETRY Symmetry
CHECK_DEADLOCK FALSE
INVARIANTS ListWellLinked EvictFindsItsKey NoUseAfterFree IdleConsistent ListReachable StuckOnlyAtOverfill
