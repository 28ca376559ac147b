CONSTANTS
  None = None
  NumThreads = 2
  MAX_THREAD_NUM = 10
  MaxTime = 5
  Mutex = {m1, m2}
  Addr = {x}
  Inst = {i1}
  Site = {s1}
  Ops = {"R", "W"}
  WaitTypes = {"condwait"}
  PauseTypes = {"barrier"}
  UsesTrylock = FALSE
  StrayIndex = {"miss"}
SYMMETRY MutexSymmetry
SPECIFICATION OfflineSpec
INVARIANTS
  PredictsExactly
  ReportsArePredicted
PROPERTIES
  LogsHoldTables
CHECK_DEADLOCK FALSE
