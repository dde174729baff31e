CONSTANTS
  r1 = r1
  r2 = r2
  r3 = r3
  Null = Null
  Requests = {r1, r2, r3}
  size_ <- SizesOf3
  PAGESIZE = 6
  WIDTH = 2
  DeviceEnd = 4
  pipeline_num = 2
  MAX_LPN_FOR_LOGGING = 3
  MaxLogs = 2
  reader_num = 2
  ring_size = 2
SPECIFICATION Spec
INVARIANTS CompletedIsOnDisk RecoveryIsExact LostOnlyBehindHole
PROPERTIES RecoveryEnds ImplementsLogService
CHECK_DEADLOCK FALSE
