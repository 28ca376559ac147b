CONSTANTS
  None = None
  NumThreads = 2
  MAX_THREAD_NUM = 10
  MaxTime = 9
  Mutex = {m1}
  Addr = {x}
  Inst = {i1}
  Site = {s1}
  Ops = {"W"}
  WaitTypes = {"condwait"}
  PauseTypes = {}
  UsesTrylock = FALSE
  StrayIndex = {}
SPECIFICATION Spec
INVARIANTS
  SectionsAtomic
CHECK_DEADLOCK FALSE
