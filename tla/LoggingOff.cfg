CONSTANTS
  None = None
  NumThreads = 3
  MAX_THREAD_NUM = 10
  MaxTime = 3
  Mutex = {m1, m2}
  Addr = {x}
  Inst = {i1}
  Site = {s1}
  Ops = {"R", "W"}
  WaitTypes = {}
  PauseTypes = {}
  UsesTrylock = FALSE
  StrayIndex = {}
SPECIFICATION Spec
INVARIANTS
  LoggingCoversConcurrency
CHECK_DEADLOCK FALSE
