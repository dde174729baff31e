CONSTANTS
  Nodes <- MarkedNodes
  Copies = 1
  Keys = {k1, k2}
  Threads = {t1}
  Head = Head
  Tail = Tail
  FHead = FHead
  FTail = FTail
  Sentinels = {Head, Tail, FHead, FTail}
  OutOfListMarker = OutOfListMarker
  Null = Null
  NoKey = NoKey
  TOMB_KEY = TOMB_KEY
  MARKER_KEY = MARKER_KEY
  Policy = "LRU_FH"
  MaxSize = 2
  SizeMod = 5
  FC_size = 0
  FC_RELAXATION = 0
  MaxLag = 9
  AssumeSteady = TRUE
  Requests = {"read", "delete"}
  MonitorOps = {"tier", "curve"}
SPECIFICATION FairTierSpec
PROPERTY ConstructEnds
