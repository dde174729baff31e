CONSTANTS
  r1 = r1
  r2 = r2
  r3 = r3
  Null = Null
  Requests = {r1, r2}
  size_ <- SizesOf2
  PAGESIZE = 6
  WIDTH = 2
  DeviceEnd = 6
  pipeline_num = 1
  MAX_LPN_FOR_LOGGING = 5
  MaxLogs = 2
  reader_num = 2
  ring_size = 2
SPECIFICATION Spec
INVARIANT CompletedIsRecovered
CHECK_DEADLOCK FALSE
