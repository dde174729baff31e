CONSTANTS
  TwoKeys = {j1, j2}
  Keys = {k1, k2, k3}
  Threads = {t1, t2}
  Single = t3
  Key = i1
  Head = Head
  Tail = Tail
  FHead = FHead
  FTail = FTail
  OutOfListMarker = OutOfListMarker
  Null = Null
  NoKey = NoKey
  TOMB_KEY = TOMB_KEY
  MARKER_KEY = MARKER_KEY
SPECIFICATION Spec
SYMMETRY Symmetry
INVARIANTS ListsWellLinked NoUseAfterFree AllFrozenKeysHit NoCircularWait ThawRestores WalkMissesTail FrontIsHit
