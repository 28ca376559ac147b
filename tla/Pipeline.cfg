CONSTANTS
  None = None
  NumThreads = 3
  MAX_THREAD_NUM = 10
  MaxTime = 40
  Mutex = {"account.lock", "mutex_lock", "buffer.lock", "sb.lock", "mutex_", "list.lock", "mem_lock", "log.lock", "m1", "m2"}
  Addr = {"balance", "outcnt", "gCurrentScript", "log_type", "buffer.count", "sb.count", "count", "log_contents_", "table_contents_", "tail", "shared_log", "x"}
  Inst = {"get", "set", "print", "check", "use", "update", "store", "compare", "load", "compile", "free", "close", "open", "insert", "eraseR", "eraseW", "clear", "put", "length", "new", "appendR", "getChars", "appendW", "decR", "decW", "incR", "incW", "logR", "logI", "empty", "validate", "push", "append", "last", "reset", "renew", "inc", "init", "fill", "read", "r1", "w1", "r2", "w2"}
  Site = {"get_balance", "set_balance", "LoadScript", "OnLoadComplete", "sFree", "erase", "append_str", "append", "length", "getChars", "Lock", "Unlock", "new_list_node", "free_list_node", "t1_pop", "t1_push", "t2_main", "new_log_entry", "add_log_entry", "s1", "s2", "s3"}
  Ops = {"R", "W"}
  WaitTypes = {}
  PauseTypes = {"sleep"}
  UsesTrylock = FALSE
  StrayIndex = {"miss", "crash"}
  AnalysisEnabled = TRUE
  Programs <- BuggyPrograms
SPECIFICATION PipelineSpec
INVARIANTS
  BugPredicted
  SectionsAtomic
  ReportsExactly
  SkipJustified
  LockedPatternsFeasible
  ReplayTypeOK
  PatternNamesSections
  LockedInOrder
  HangsAfterReplay
  MixedHangsOnMutex
PROPERTIES
  TargetFinishes
  ReplaySucceeds
  UnlockedFinishes
CHECK_DEADLOCK FALSE
