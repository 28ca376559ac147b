CONSTANTS
  None = None
  NumThreads = 2
  MAX_THREAD_NUM = 10
  MaxTime = 6
  Mutex = {m1}
  Addr = {x}
  Inst = {i1}
  Site = {s1}
  Ops = {"W"}
  WaitTypes = {}
  PauseTypes = {}
  UsesTrylock = FALSE
  StrayIndex = {"crash"}
SPECIFICATION Spec
INVARIANTS
  OnlyEmptyRemoved
CHECK_DEADLOCK FALSE
