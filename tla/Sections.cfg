CONSTANTS
  None = None
  NumThreads = 2
  MAX_THREAD_NUM = 10
  MaxTime = 8
  Mutex = {m1, m2}
  Addr = {x}
  Inst = {i1}
  Site = {s1}
  Ops = {"W"}
  WaitTypes = {}
  PauseTypes = {}
  UsesTrylock = FALSE
  StrayIndex = {"crash"}
SPECIFICATION Spec
INVARIANTS
  StampsOrderEvents
  SectionsArePaired
  SpanSound
  SpanComplete
  AnnotationSound
  AnnotationComplete
  RowsAreScanned
  LoggedUntilFini
PROPERTIES
  SectionsStack
CHECK_DEADLOCK FALSE
