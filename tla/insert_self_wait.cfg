CONSTANTS
  Nodes = {n1, n2, n3, n4, n5, n6}
  Keys = {k1, k2, k3, k4}
  Threads = {t1, t2}
  Head = Head
  Tail = Tail
  Sentinels = {Head, Tail}
  OutOfListMarker = OutOfListMarker
  Null = Null
  NoKey = NoKey
  NoThread = NoThread
  Policy = "FIFO"
  MaxSize = 2
  SizeMod = 6
  AllowDelete = FALSE
SPECIFICATION Spec
SYMMETRY Symmetry
CHECK_DEADLOCK FALSE
INVARIANT InsertNeverWaitsForItself
