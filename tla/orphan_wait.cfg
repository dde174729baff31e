CONSTANTS
  Nodes <- KeyNodes
  Copies = 3
  Keys = {k1}
  Threads = {t1, t2}
  Head = Head
  Tail = Tail
  FHead = FHead
  FTail = FTail
  Sentinels = {Head, Tail, FHead, FTail}
  OutOfListMarker = OutOfListMarker
  Null = Null
  NoKey = NoKey
  TOMB_KEY = TOMB_KEY
  MARKER_KEY = MARKER_KEY
  Policy = "FIFO_FH"
  MaxSize = 1
  SizeMod = 4
  FC_size = 0
  FC_RELAXATION = 0
  MaxLag = 9
  AssumeSteady = TRUE
  Requests = {"read", "delete"}
  MonitorOps = {"tier"}
SPECIFICATION Spec
INVARIANT EvictNeverWaitsForItself
