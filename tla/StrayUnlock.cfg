CONSTANTS
  None = None
  NumThreads = 2
  MAX_THREAD_NUM = 10
  MaxTime = 4
  Mutex = {m1}
  Addr = {x}
  Inst = {i1}
  Site = {s1}
  Ops = {"R", "W"}
  WaitTypes = {}
  PauseTypes = {}
  UsesTrylock = FALSE
  StrayIndex = {"miss"}
SPECIFICATION Spec
INVARIANTS
  UnlockAlwaysMatched
CHECK_DEADLOCK FALSE
