CONSTANTS
  None = None
  NumThreads = 2
  MAX_THREAD_NUM = 10
  MaxTime = 5
  Mutex = {m1}
  Addr = {x}
  Inst = {i1}
  Site = {s1}
  Ops = {"R", "W"}
  WaitTypes = {"condwait", "condtimewait"}
  PauseTypes = {"barrier", "sleep"}
  UsesTrylock = TRUE
  StrayIndex = {"miss", "crash"}
  AnalysisEnabled = TRUE
SPECIFICATION Spec
INVARIANTS
  TypeOK
  ReportsExactly
CHECK_DEADLOCK FALSE
