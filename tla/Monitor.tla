------------------------------ MODULE Monitor -------------------------------
(***************************************************************************)
(* The monitor tool (mypintool/monitor.cpp): the callbacks of the tracing  *)
(* tool, which write what happens into three log files instead of keeping  *)
(* it in tables.  predictor.py reads the files later.  A line of a file is *)
(* a record; the routine name in a line is left out.                       *)
(*                                                                         *)
(* The target and Pin are those of Tracer.                                 *)
(***************************************************************************)
EXTENDS LockAnnotation, SequencesExt

CONSTANTS NumThreads, MAX_THREAD_NUM, MaxTime, Mutex, Addr, Inst, Site, Ops,
          WaitTypes, PauseTypes, UsesTrylock, StrayIndex   \* as in Tracer

ASSUME MonitorAssumption ==
  /\ NumThreads \in Nat \ {0}
  /\ MAX_THREAD_NUM \in Nat
  /\ NumThreads <= MAX_THREAD_NUM
  /\ MaxTime \in Nat
  /\ None \notin Mutex \cup Addr \cup Inst \cup Site
  /\ Ops \subseteq {"R", "W"}
  /\ WaitTypes \subseteq {"condwait", "condtimewait"}
  /\ PauseTypes \subseteq {"barrier", "sleep"}
  /\ UsesTrylock \in BOOLEAN
  /\ StrayIndex \subseteq {"miss", "crash"}

VARIABLES
  threadNum, threadExisted, logging_start, timestamp,
  file_mem_access, file_lock, file_sync,   \* the lines of the three files
  on_disk,   \* how many lines of file_mem_access are in the file for good
  nascent, phase, pend, held, status, guards, jumbled   \* as in Tracer

files   == <<file_mem_access, file_lock, file_sync, on_disk>>
globals == <<threadNum, threadExisted, logging_start, timestamp>>
target  == <<nascent, phase, held, status>>
vars    == <<files, globals, target, pend, guards, jumbled>>

-----------------------------------------------------------------------------
(* What the tables of the tracing tool would hold: its view of the files.  *)

\* The access of a line is the next one of its thread.
Row(rows, l) ==
  [t \in DOMAIN rows |->
     IF t = l.tid THEN Append(rows[t], MemAccess(l.op, l.ip, l.addr, t, l.time))
                  ELSE rows[t]]

RowsOf(lines) ==
  LET upto[k \in 0 .. Len(lines)] ==
        IF k = 0 THEN [t \in 0 .. NumThreads - 1 |-> <<>>]
                 ELSE Row(upto[k - 1], lines[k])
  IN  upto[Len(lines)]

\* An unlock finishes the last open section of its thread.
Match(sections, l) ==
  IF l.op = "L"
    THEN Append(sections, CriticalSection(l.tid, l.callsite_v, l.entry_v, l.time))
    ELSE LET i == Max({k \in DOMAIN sections : IsOpen(sections[k], l.tid)})
         IN  [sections EXCEPT ![i].ft = l.time,
                              ![i].unlock_callsite_v = l.callsite_v,
                              ![i].unlock_entry_v = l.entry_v]

SectionsOf(lines) ==
  LET upto[k \in 0 .. Len(lines)] ==
        IF k = 0 THEN <<>> ELSE Match(upto[k - 1], lines[k])
  IN  upto[Len(lines)]

MemRows  == RowsOf(file_mem_access)
Sections == SectionsOf(file_lock)

\* At the end the tracing tool erases sections and annotates accesses.
KeptTable ==
  LET kept == KeptSections(Sections, MemRows)
      list == CHOOSE f \in [1 .. Cardinality(kept) -> kept] :
                \A i, j \in DOMAIN f : i < j => f[i] < f[j]
  IN  [k \in DOMAIN list |-> Sections[list[k]]]

AnnotatedRows ==
  [t \in DOMAIN MemRows |->
     [j \in DOMAIN MemRows[t] |-> Annotate(MemRows[t][j], KeptTable)]]

maTable    == IF status = "finished" THEN AnnotatedRows ELSE MemRows
csTable    == IF status = "finished" THEN KeptTable ELSE Sections
synchTable == file_sync

T == INSTANCE Tracer

-----------------------------------------------------------------------------
(* The callbacks. *)

Tick == timestamp < MaxTime /\ timestamp' = timestamp + 1

ThreadStart(t) ==
  /\ status = "running"
  /\ nascent > 0 /\ t = threadExisted
  /\ nascent' = nascent - 1
  /\ phase' = [phase EXCEPT ![t] = "running"]
  /\ threadNum' = threadNum + 1
  /\ threadExisted' = threadExisted + 1
  /\ UNCHANGED <<files, logging_start, timestamp, pend, held, status, guards,
                 jumbled>>

ThreadFini(t) ==
  /\ T!Ready(t)
  /\ held[t] = <<>>
  /\ phase' = [phase EXCEPT ![t] = "done"]
  /\ threadNum' = threadNum - 1
  /\ logging_start' = (logging_start /\ threadNum' # 1)
  /\ UNCHANGED <<files, threadExisted, timestamp, nascent, pend, held, status,
                 guards, jumbled>>

afterThreadCreate(t) ==
  /\ T!Doing(t, "create")
  /\ logging_start' = TRUE
  /\ T!Complete(t)
  /\ UNCHANGED <<files, threadNum, threadExisted, timestamp, target, guards,
                 jumbled>>

RecordMem(t, op, inst, addr) ==
  /\ op \in Ops
  /\ Tick
  /\ IF logging_start
       THEN /\ file_mem_access' = Append(file_mem_access,
                 [tid |-> t, op |-> op, time |-> timestamp', ip |-> inst, addr |-> addr])
            /\ guards' = [guards EXCEPT ![t] =
                            Append(@, {m \in Mutex : T!Holds(t, m)})]
       ELSE UNCHANGED <<file_mem_access, guards>>
  /\ T!Begin(t, op, None, addr)
  /\ UNCHANGED <<file_lock, file_sync, on_disk, threadNum, threadExisted,
                 logging_start, target, jumbled>>

RecordMemRead(t, inst, addr) == T!Ready(t) /\ RecordMem(t, "R", inst, addr)

RecordMemWrite(t, inst, addr) ==
  /\ T!Ready(t) \/ (T!Doing(t, "R") /\ pend[t].addr = addr)
  /\ RecordMem(t, "W", inst, addr)

\* Mutant: the line of an unlock is written only while accesses are logged.
UnlockLineWhenLogging(t, op, site, m) ==
  IF op = "U" /\ ~logging_start THEN UNCHANGED file_lock
  ELSE file_lock' = Append(file_lock,
    [tid |-> t, op |-> op, time |-> timestamp', callsite_v |-> site, entry_v |-> m])

\* Lines of file_lock and file_sync are written whether or not logging_start
\* holds.
LockLine(t, op, site, m) ==
  file_lock' = Append(file_lock,
    [tid |-> t, op |-> op, time |-> timestamp', callsite_v |-> site, entry_v |-> m])

beforeThreadLock(t, site, m) ==
  /\ T!Ready(t)
  /\ ~T!Holds(t, m)
  /\ Tick
  /\ LockLine(t, "L", site, m)
  /\ T!Begin(t, "lock", m, None)
  /\ UNCHANGED <<file_mem_access, file_sync, on_disk, threadNum, threadExisted,
                 logging_start, target, guards, jumbled>>

beforeThreadUnLock(t, site, m) ==
  /\ T!CanUnlock(t, m)
  /\ Tick
  /\ LockLine(t, "U", site, m)
  /\ T!Begin(t, "unlock", m, None)
  /\ jumbled' = IF m = held[t][Len(held[t])] THEN jumbled ELSE jumbled \cup {t}
  /\ UNCHANGED <<file_mem_access, file_sync, on_disk, threadNum, threadExisted,
                 logging_start, target, guards>>

\* afterThreadBarrier and afterThreadCondWait write the time; but
\* afterThreadCondTimedwait and afterThreadSleep pass tid for it.
WrittenTime(t, type) ==
  IF type \in {"condtimewait", "sleep"} THEN t ELSE timestamp'

afterThreadSynch(t, type) ==
  /\ \/ type \in PauseTypes /\ T!Ready(t)
     \/ type \in WaitTypes /\ T!Doing(t, "woken")
  /\ Tick
  /\ file_sync' = Append(file_sync, Synch(type, t, WrittenTime(t, type)))
  /\ T!Complete(t)
  /\ UNCHANGED <<file_mem_access, file_lock, on_disk, threadNum, threadExisted,
                 logging_start, target, guards, jumbled>>

\* file_lock and file_sync are closed.  file_mem_access is not: as much of it
\* reaches the file as stdio has written before.
Fini ==
  /\ status = "running"
  /\ phase[0] = "done"
  /\ status' = "finished"
  /\ on_disk' \in 0 .. Len(file_mem_access)
  /\ UNCHANGED <<file_mem_access, file_lock, file_sync, globals, nascent, phase,
                 held, pend, guards, jumbled>>

-----------------------------------------------------------------------------
Init ==
  /\ file_mem_access = <<>> /\ file_lock = <<>> /\ file_sync = <<>>
  /\ on_disk = 0
  /\ status = "running"
  /\ T!Init

TargetStep(t) == UNCHANGED <<files, status>> /\ T!TargetStep(t)

Callback(t) ==
  \/ ThreadStart(t)
  \/ ThreadFini(t)
  \/ afterThreadCreate(t)
  \/ \E inst \in Inst, addr \in Addr : RecordMemRead(t, inst, addr)
  \/ \E inst \in Inst, addr \in Addr : RecordMemWrite(t, inst, addr)
  \/ \E site \in Site, m \in Mutex : beforeThreadLock(t, site, m)
  \/ \E site \in Site, m \in Mutex : beforeThreadUnLock(t, site, m)
  \/ \E type \in PauseTypes \cup WaitTypes : afterThreadSynch(t, type)

Next == Fini \/ \E t \in T!Tid : TargetStep(t) \/ Callback(t)

Spec == Init /\ [][Next]_vars

-----------------------------------------------------------------------------
(* Properties. *)

\* The files lose nothing that the tables of the tracing tool hold: read with
\* the rule of callbacks.h for matching unlocks, they grow as its tables do in
\* a run of its own, and with what its Fini does they end as its tables end.
\* This is so for barriers and condition waits.
LogsHoldTables == T!Spec
=============================================================================
