CONSTANTS
  Threads = {t1, t2, t3}
  logs_num_ = 2
  MaxCalls = 3
  Null = Null
SPECIFICATION Spec
INVARIANTS LogIsExclusive StoredOnce WaitersHaveOneLeader
PROPERTIES AddLogReturns ImplementsLogService
CHECK_DEADLOCK FALSE
