------------------------------- MODULE Tracer -------------------------------
(***************************************************************************)
(* The tracing tool: pintool_main.cpp with the callbacks of callbacks.h.   *)
(*                                                                         *)
(* Pin runs a callback of the tool just before (IPOINT_BEFORE) or just     *)
(* after (IPOINT_AFTER) an instruction or routine of the target program.   *)
(* Every callback holds the PIN lock from its first shared access to its   *)
(* last, so a callback is one atomic step.  The instruction it announces   *)
(* is a step of its own: between the two, any other thread may run.        *)
(*                                                                         *)
(* The target is arbitrary: at each step a thread does any legal thing a   *)
(* pthreads program may do.  Accesses that Instruction() never instruments *)
(* or that lie above STACK_LOWERBOUND do not touch the tool's state and    *)
(* are not modelled.                                                       *)
(***************************************************************************)
EXTENDS LockAnnotation

CONSTANTS
  NumThreads,      \* bound: threads the target ever starts
  MAX_THREAD_NUM,  \* rows of maTable
  MaxTime,         \* bound: time stamps handed out in a run
  Mutex, Addr,     \* the target's mutexes and shared addresses
  Inst, Site,      \* addresses of access instructions and of call sites
  Ops,             \* subset of {"R", "W"}: kinds of access the target makes
  WaitTypes,       \* subset of {"condwait", "condtimewait"}: waits in use
  PauseTypes,      \* subset of {"barrier", "sleep"}: pauses in use
  UsesTrylock,     \* may the target call pthread_mutex_trylock?
  StrayIndex       \* what reading csTable at the uninitialised index of
                   \* beforeThreadUnLock may do when that index is not 0

Tid == 0 .. NumThreads - 1

ASSUME TracerAssumption ==
  /\ NumThreads \in Nat \ {0}
  /\ MAX_THREAD_NUM \in Nat
  /\ NumThreads <= MAX_THREAD_NUM
  /\ MaxTime \in Nat
  /\ None \notin Mutex \cup Addr \cup Inst \cup Site
  /\ Ops \subseteq {"R", "W"}
  /\ WaitTypes \subseteq {"condwait", "condtimewait"}
  /\ PauseTypes \subseteq {"barrier", "sleep"}
  /\ UsesTrylock \in BOOLEAN
  /\ StrayIndex \subseteq {"miss", "crash"}

VARIABLES
  \* The globals of structs.h.
  threadNum, threadExisted, logging_start, timestamp,
  maTable, csTable, synchTable,
  \* The target program.
  nascent,   \* threads created whose ThreadStart callback has not run yet
  phase,     \* "unborn", "running" or "done"
  pend,      \* the operation a thread has announced and not completed
  held,      \* the mutexes a thread has locked, in locking order
  status,    \* of the process: "running", "aborted" or "finished"
  \* History.
  guards,    \* guards[t][j] is what t held when maTable[t][j] was recorded
  jumbled    \* the threads that have unlocked a mutex before one they had
             \* locked later

tool   == <<threadNum, threadExisted, logging_start, timestamp,
            maTable, csTable, synchTable>>
target == <<nascent, phase, pend, held, status>>
history == <<guards, jumbled>>
vars   == <<tool, target, history>>

-----------------------------------------------------------------------------
(* The target program. *)

Op(kind, mutex, addr, time) ==
  [kind |-> kind, mutex |-> mutex, addr |-> addr, time |-> time]
Idle == Op("idle", None, None, 0)

Running(t) == status = "running" /\ phase[t] = "running"
Ready(t)   == Running(t) /\ pend[t] = Idle
Doing(t, kind) == Running(t) /\ pend[t].kind = kind

Begin(t, kind, mutex, addr) ==
  pend' = [pend EXCEPT ![t] = Op(kind, mutex, addr, timestamp')]
Complete(t) == pend' = [pend EXCEPT ![t] = Idle]

Holds(t, m) == \E i \in DOMAIN held[t] : held[t][i] = m
\* A thread inside pthread_cond_wait has given its mutex back.
Owns(t, m)  == Holds(t, m) /\ ~(pend[t].kind = "wait" /\ pend[t].mutex = m)
Free(m)     == \A t \in Tid : ~Owns(t, m)

\* pthread_create is entered.  It may fail, and then no thread is born.
CreateThread(t) ==
  /\ Ready(t)
  /\ threadExisted + nascent < NumThreads
  /\ nascent' \in {nascent, nascent + 1}
  /\ pend' = [pend EXCEPT ![t] = Op("create", None, None, timestamp)]
  /\ UNCHANGED <<tool, phase, held, status, history>>

\* The memory access of which the callback has run takes place.
ExecMemAccess(t) ==
  /\ Doing(t, "R") \/ Doing(t, "W")
  /\ Complete(t)
  /\ UNCHANGED <<tool, nascent, phase, held, status, history>>

AcquireMutex(t) ==
  /\ Doing(t, "lock")
  /\ Free(pend[t].mutex)
  /\ held' = [held EXCEPT ![t] = Append(@, pend[t].mutex)]
  /\ Complete(t)
  /\ UNCHANGED <<tool, nascent, phase, status, history>>

Without(s, i) == SubSeq(s, 1, i - 1) \o SubSeq(s, i + 1, Len(s))

ReleaseMutex(t) ==
  /\ Doing(t, "unlock")
  /\ \E i \in DOMAIN held[t] :
       /\ held[t][i] = pend[t].mutex
       /\ held' = [held EXCEPT ![t] = Without(@, i)]
  /\ Complete(t)
  /\ UNCHANGED <<tool, nascent, phase, status, history>>

\* pthread_mutex_trylock: Routine() gives it no callback.
TrylockMutex(t, m) ==
  /\ UsesTrylock
  /\ Ready(t)
  /\ ~Holds(t, m) /\ Free(m)
  /\ held' = [held EXCEPT ![t] = Append(@, m)]
  /\ UNCHANGED <<tool, nascent, phase, pend, status, history>>

CondWait(t, m) ==
  /\ WaitTypes # {}
  /\ Ready(t)
  /\ Holds(t, m)
  /\ pend' = [pend EXCEPT ![t] = Op("wait", m, None, timestamp)]
  /\ UNCHANGED <<tool, nascent, phase, held, status, history>>

CondWake(t) ==
  /\ Doing(t, "wait")
  /\ Free(pend[t].mutex)
  /\ pend' = [pend EXCEPT ![t] = Op("woken", None, None, timestamp)]
  /\ UNCHANGED <<tool, nascent, phase, held, status, history>>

-----------------------------------------------------------------------------
(* The tool's callbacks. *)

\* Mutant: the timer only advances while accesses are logged.
TickWhenLogging ==
  /\ timestamp < MaxTime
  /\ timestamp' = IF logging_start THEN timestamp + 1 ELSE timestamp

\* timestamp++.  MaxTime, which bounds the model, is far below the 2^32 at
\* which TIME (unsigned int) wraps.
Tick == timestamp < MaxTime /\ timestamp' = timestamp + 1

\* Pin numbers the threads from 0 in the order in which they start.
ThreadStart(t) ==
  /\ status = "running"
  /\ nascent > 0 /\ t = threadExisted
  /\ nascent' = nascent - 1
  /\ phase' = [phase EXCEPT ![t] = "running"]
  /\ threadNum' = threadNum + 1
  /\ threadExisted' = threadExisted + 1
  /\ UNCHANGED <<logging_start, timestamp, maTable, csTable, synchTable,
                 pend, held, status, history>>

\* Mutant: a finished thread is taken off both counters.
ThreadFiniBothCounters(t) ==
  /\ Ready(t)
  /\ held[t] = <<>>
  /\ phase' = [phase EXCEPT ![t] = "done"]
  /\ threadNum' = threadNum - 1
  /\ threadExisted' = threadExisted - 1
  /\ logging_start' = (logging_start /\ threadNum' # 1)
  /\ UNCHANGED <<timestamp, maTable, csTable, synchTable,
                 nascent, pend, held, status, history>>

ThreadFini(t) ==
  /\ Ready(t)
  /\ held[t] = <<>>
  /\ phase' = [phase EXCEPT ![t] = "done"]
  /\ threadNum' = threadNum - 1
  /\ logging_start' = (logging_start /\ threadNum' # 1)
  /\ UNCHANGED <<threadExisted, timestamp, maTable, csTable, synchTable,
                 nascent, pend, held, status, history>>

\* Mutant: logging starts only if the new thread has already shown up.
afterThreadCreateIfStarted(t) ==
  /\ Doing(t, "create")
  /\ logging_start' = (logging_start \/ threadNum > 1)
  /\ Complete(t)
  /\ UNCHANGED <<threadNum, threadExisted, timestamp, maTable, csTable,
                 synchTable, nascent, phase, held, status, history>>

afterThreadCreate(t) ==
  /\ Doing(t, "create")
  /\ logging_start' = TRUE
  /\ Complete(t)
  /\ UNCHANGED <<threadNum, threadExisted, timestamp, maTable, csTable,
                 synchTable, nascent, phase, held, status, history>>

\* The common part of RecordMemRead and RecordMemWrite.
RecordMem(t, op, inst, addr) ==
  /\ op \in Ops
  /\ Tick
  /\ IF logging_start
       THEN /\ maTable' = [maTable EXCEPT ![t] =
                             Append(@, MemAccess(op, inst, addr, t, timestamp'))]
            /\ guards' = [guards EXCEPT ![t] =
                            Append(@, {m \in Mutex : Holds(t, m)})]
       ELSE UNCHANGED <<maTable, guards>>
  /\ UNCHANGED jumbled
  /\ Begin(t, op, None, addr)
  /\ UNCHANGED <<threadNum, threadExisted, logging_start, csTable, synchTable,
                 nascent, phase, held, status>>

RecordMemRead(t, inst, addr) == Ready(t) /\ RecordMem(t, "R", inst, addr)

\* An instruction that reads and writes memory has both callbacks, the read's
\* first, and is executed after the second.
RecordMemWrite(t, inst, addr) ==
  /\ Ready(t) \/ (Doing(t, "R") /\ pend[t].addr = addr)
  /\ RecordMem(t, "W", inst, addr)

\* Mutant: sections, like accesses, are recorded while logging only.
beforeThreadLockWhenLogging(t, site, m) ==
  /\ Ready(t)
  /\ ~Holds(t, m)
  /\ Tick
  /\ csTable' = IF logging_start
                  THEN Append(csTable, CriticalSection(t, site, m, timestamp'))
                  ELSE csTable
  /\ Begin(t, "lock", m, None)
  /\ UNCHANGED <<threadNum, threadExisted, logging_start, maTable, synchTable,
                 nascent, phase, held, status, history>>

\* Runs before the mutex is acquired, and whether or not logging_start holds.
beforeThreadLock(t, site, m) ==
  /\ Ready(t)
  /\ ~Holds(t, m)
  /\ Tick
  /\ csTable' = Append(csTable, CriticalSection(t, site, m, timestamp'))
  /\ Begin(t, "lock", m, None)
  /\ UNCHANGED <<threadNum, threadExisted, logging_start, maTable, synchTable,
                 nascent, phase, held, status, history>>

\* Mutants: the search runs from front to back; it forgets the thread test.
FirstOpen(i, t) ==
  /\ IsOpen(csTable[i], t)
  /\ \A j \in DOMAIN csTable : j < i => ~IsOpen(csTable[j], t)
LastOpenOfAny(i, t) ==
  /\ csTable[i].ft = 0
  /\ \A j \in DOMAIN csTable : j > i => csTable[j].ft # 0

LastOpen(i, t) ==
  /\ IsOpen(csTable[i], t)
  /\ \A j \in DOMAIN csTable : j > i => ~IsOpen(csTable[j], t)

\* Mutant: the two address arguments are swapped.
FinishSectionSwapped(i, site, m) ==
  csTable' = [csTable EXCEPT ![i].ft = timestamp',
                             ![i].unlock_callsite_v = m,
                             ![i].unlock_entry_v = site]

FinishSection(i, site, m) ==
  csTable' = [csTable EXCEPT ![i].ft = timestamp',
                             ![i].unlock_callsite_v = site,
                             ![i].unlock_entry_v = m]

\* The target unlocks its mutexes in any order.
CanUnlock(t, m) == Ready(t) /\ Holds(t, m)

\* With two sections or more the table is searched from back to front.  With
\* one, csTable[i] is tested with an i that was never initialised: it may
\* happen to be 0, or the test may read outside the table and fail.
MatchUnlock(t, site, m) ==
  \/ \E i \in DOMAIN csTable : LastOpen(i, t) /\ FinishSection(i, site, m)
  \/ /\ Len(csTable) = 1
     /\ IsOpen(csTable[1], t) => "miss" \in StrayIndex
     /\ UNCHANGED csTable

beforeThreadUnLock(t, site, m) ==
  /\ CanUnlock(t, m)
  /\ Tick
  /\ MatchUnlock(t, site, m)
  /\ Begin(t, "unlock", m, None)
  /\ jumbled' = IF m = held[t][Len(held[t])] THEN jumbled ELSE jumbled \cup {t}
  /\ UNCHANGED <<threadNum, threadExisted, logging_start, maTable, synchTable,
                 nascent, phase, held, status, guards>>

\* beforeThreadUnLock does not return: the table is empty and the first
\* assertion fails; or the uninitialised index faults; or no section of t is
\* open, and the search, whose unsigned index is always >= 0, runs out of the
\* front of the table.
UnLockAborts(t) ==
  /\ \E m \in Mutex : CanUnlock(t, m)
  /\ Tick
  /\ \/ Len(csTable) = 0
     \/ Len(csTable) = 1 /\ "crash" \in StrayIndex
     \/ Len(csTable) > 1 /\ \A i \in DOMAIN csTable : ~IsOpen(csTable[i], t)
  /\ status' = "aborted"
  /\ UNCHANGED <<threadNum, threadExisted, logging_start, maTable, csTable,
                 synchTable, nascent, phase, pend, held, history>>

\* afterThreadBarrier, afterThreadCondWait, afterThreadCondTimedwait and
\* afterThreadSleep differ in the type they record only.
afterThreadSynch(t, type) ==
  /\ \/ type \in PauseTypes /\ Ready(t)
     \/ type \in WaitTypes /\ Doing(t, "woken")
  /\ Tick
  /\ synchTable' = Append(synchTable, Synch(type, t, timestamp'))
  /\ Complete(t)
  /\ UNCHANGED <<threadNum, threadExisted, logging_start, maTable, csTable,
                 nascent, phase, held, status, history>>

\* f lists the kept sections in the order of the table.
EraseSections(f) ==
  /\ \A i, j \in DOMAIN f : i < j => f[i] < f[j]
  /\ csTable' = [i \in DOMAIN f |-> csTable[f[i]]]

\* The target exits when its main thread is done, whatever the others do.
\* The call of start_anlysis() at the end of Fini is commented out.
Fini ==
  /\ status = "running"
  /\ phase[0] = "done"
  /\ LET kept == KeptSections(csTable, maTable)
     IN  \E f \in [1 .. Cardinality(kept) -> kept] : EraseSections(f)
  /\ maTable' = [t \in Tid |->
                   IF t < threadExisted
                     THEN [j \in DOMAIN maTable[t] |->
                             Annotate(maTable[t][j], csTable')]
                     ELSE maTable[t]]
  /\ status' = "finished"
  /\ UNCHANGED <<threadNum, threadExisted, logging_start, timestamp,
                 synchTable, nascent, phase, pend, held, history>>

-----------------------------------------------------------------------------
\* Pin calls ThreadStart for the main thread first.
Init ==
  /\ threadNum = 0 /\ threadExisted = 0
  /\ logging_start = FALSE
  /\ timestamp = 1
  /\ maTable = [t \in Tid |-> <<>>]
  /\ csTable = <<>>
  /\ synchTable = <<>>
  /\ nascent = 1
  /\ phase = [t \in Tid |-> "unborn"]
  /\ pend = [t \in Tid |-> Idle]
  /\ held = [t \in Tid |-> <<>>]
  /\ status = "running"
  /\ guards = [t \in Tid |-> <<>>]
  /\ jumbled = {}

TargetStep(t) ==
  \/ CreateThread(t)
  \/ ExecMemAccess(t)
  \/ AcquireMutex(t)
  \/ ReleaseMutex(t)
  \/ \E m \in Mutex : TrylockMutex(t, m) \/ CondWait(t, m)
  \/ CondWake(t)

Callback(t) ==
  \/ ThreadStart(t)
  \/ ThreadFini(t)
  \/ afterThreadCreate(t)
  \/ \E inst \in Inst, addr \in Addr : RecordMemRead(t, inst, addr)
  \/ \E inst \in Inst, addr \in Addr : RecordMemWrite(t, inst, addr)
  \/ \E site \in Site, m \in Mutex : beforeThreadLock(t, site, m)
  \/ \E site \in Site, m \in Mutex : beforeThreadUnLock(t, site, m)
  \/ UnLockAborts(t)
  \/ \E type \in PauseTypes \cup WaitTypes : afterThreadSynch(t, type)

Next == Fini \/ \E t \in Tid : TargetStep(t) \/ Callback(t)

Spec == Init /\ [][Next]_vars

-----------------------------------------------------------------------------
(* Properties. *)

MemRow ==
  [op : {"R", "W"}, inst : Inst, addr : Addr, tid : Tid, time : Nat,
   lock_ev : Mutex \cup {None}, lock_cv : Site \cup {None},
   unlock_cv : Site \cup {None}]

SectionRow ==
  [tid : Tid, lock_callsite_v : Site, unlock_callsite_v : Site \cup {None},
   lock_entry_v : Mutex, unlock_entry_v : Mutex \cup {None},
   st : Nat, ft : Nat]

SynchRow == [type : WaitTypes \cup PauseTypes, tid : Tid, time : Nat]

OpRow ==
  [kind : {"idle", "create", "woken"}, mutex : {None}, addr : {None}, time : Nat]
    \cup [kind : {"R", "W"}, mutex : {None}, addr : Addr, time : Nat]
    \cup [kind : {"lock", "unlock", "wait"}, mutex : Mutex, addr : {None},
          time : Nat]

\* Type correctness of the tables, the globals and the target's state.
TypeOK ==
  /\ threadNum \in Int /\ threadExisted \in 0 .. NumThreads
  /\ logging_start \in BOOLEAN
  /\ timestamp \in Nat
  /\ maTable \in [Tid -> Seq(MemRow)]
  /\ csTable \in Seq(SectionRow)
  /\ synchTable \in Seq(SynchRow)
  /\ nascent \in Nat
  /\ phase \in [Tid -> {"unborn", "running", "done"}]
  /\ pend \in [Tid -> OpRow]
  /\ held \in [Tid -> Seq(Mutex)]
  /\ status \in {"running", "aborted", "finished"}
  /\ guards \in [Tid -> Seq(SUBSET Mutex)]
  /\ jumbled \subseteq Tid

\* Time stamps identify events: no access shares its stamp with another
\* access, with the start or finish of a section or with a synchronization,
\* and the tables are in time order.  examine_interleaving compares stamps
\* with < and > only and silently drops a triple in which two are equal.
StampsOrderEvents ==
  /\ \A t, u \in Tid : \A i \in DOMAIN maTable[t], j \in DOMAIN maTable[u] :
       /\ maTable[t][i].time = maTable[u][j].time => t = u /\ i = j
       /\ t = u /\ i < j => maTable[t][i].time < maTable[u][j].time
  /\ \A t \in Tid : \A i \in DOMAIN maTable[t] :
       /\ \A k \in DOMAIN csTable :
            maTable[t][i].time \notin {csTable[k].st, csTable[k].ft}
       /\ \A k \in DOMAIN synchTable :
            maTable[t][i].time # synchTable[k].time
  /\ \A k, l \in DOMAIN csTable : k < l => csTable[k].st < csTable[l].st
  /\ \A k, l \in DOMAIN synchTable :
       k < l => synchTable[k].time < synchTable[l].time

\* A finished section was locked and unlocked through the same mutex, if its
\* thread unlocks in reverse order of locking: searching the table from back
\* to front pairs nested sections like a stack.
SectionsArePaired ==
  \A k \in DOMAIN csTable :
    csTable[k].ft # 0 /\ csTable[k].tid \notin jumbled =>
      /\ csTable[k].lock_entry_v = csTable[k].unlock_entry_v
      /\ csTable[k].st < csTable[k].ft

\* The span of a finished section holds only accesses its thread made while
\* it held the section's mutex, again if it unlocks in reverse order.
SpanSound ==
  \A k \in DOMAIN csTable :
    LET t == csTable[k].tid
    IN  t \notin jumbled =>
          \A j \in DOMAIN maTable[t] :
            Encloses(csTable[k], maTable[t][j])
              => csTable[k].lock_entry_v \in guards[t][j]

\* Until Fini erases sections, every mutex held at an access has a section of
\* that thread which began before the access and did not finish before it.
SpanComplete ==
  status = "running" =>
    \A t \in Tid \ jumbled : \A j \in DOMAIN maTable[t] : \A m \in guards[t][j] :
      \E k \in DOMAIN csTable :
        /\ csTable[k].tid = t /\ csTable[k].lock_entry_v = m
        /\ csTable[k].st < maTable[t][j].time
        /\ csTable[k].ft = 0 \/ maTable[t][j].time < csTable[k].ft

\* What find_interleave_write and find_interleave_read rely on when they skip
\* a remote access: between two accesses in one section there is no access
\* made in another thread's section of the same mutex.
SectionsAtomic ==
  \A k, l \in DOMAIN csTable :
    LET t == csTable[k].tid
        u == csTable[l].tid
    IN  /\ t # u /\ {t, u} \cap jumbled = {}
        /\ csTable[k].lock_entry_v = csTable[l].lock_entry_v
        => ~ \E i, j \in DOMAIN maTable[t] : \E r \in DOMAIN maTable[u] :
               /\ Encloses(csTable[k], maTable[t][i])
               /\ Encloses(csTable[k], maTable[t][j])
               /\ Encloses(csTable[l], maTable[u][r])
               /\ maTable[t][i].time < maTable[u][r].time
               /\ maTable[u][r].time < maTable[t][j].time

\* Fini writes into an access only a lock its thread held at the access.
AnnotationSound ==
  \A t \in Tid \ jumbled : \A j \in DOMAIN maTable[t] :
    maTable[t][j].lock_ev # None => maTable[t][j].lock_ev \in guards[t][j]

Creating == \E t \in Tid : Doing(t, "create")

\* Whatever has been recorded lies in a row below threadExisted, the bound of
\* every loop of Fini and of the analysis over maTable.
RowsAreScanned ==
  \A t \in Tid : maTable[t] # <<>> => t < threadExisted

\* As long as no thread has finished and no pthread_create is in progress,
\* every access made by two threads or more is logged, whichever of ThreadStart
\* (in the new thread) and afterThreadCreate (in its creator) comes first.
\* (While the first pthread_create is in progress its caller makes no access.)
LoggedUntilFini ==
  /\ status = "running" /\ threadNum >= 2 /\ ~Creating
  /\ \A t \in Tid : phase[t] # "done"
  => logging_start

\* After Fini, an access made under a lock carries a lock, if its thread had
\* released everything by then, in whatever order: no section is lost to the
\* erasing loop, and a thread is in as many sections as it holds mutexes.
AnnotationComplete ==
  status = "finished" =>
    \A t \in Tid : held[t] = <<>> =>
      \A j \in DOMAIN maTable[t] :
        guards[t][j] # {} => maTable[t][j].lock_ev # None

-----------------------------------------------------------------------------
(* The promise about sections (callbacks.h:368) is kept whatever the order   *)
(* of unlocking: the two parts of csTable behave as stacks.                  *)

OpenSections   == {csTable[k] : k \in {k \in DOMAIN csTable : csTable[k].ft = 0}}
ClosedSections == {csTable[k] : k \in {k \in DOMAIN csTable : csTable[k].ft # 0}}

Stack == INSTANCE SectionStack WITH
           open      <- OpenSections,
           closed    <- ClosedSections,
           unlocking <- {t \in Tid : pend[t].kind = "unlock"},
           ended     <- status = "finished"

SectionsStack == Stack!Spec

-----------------------------------------------------------------------------
(* What comments and assertions of the source say, and the code does not do. *)

\* callbacks.h:377 "should always matched": an unlock finishes a section.
UnlockAlwaysMatched ==
  /\ status # "aborted"
  /\ \A t \in Tid : pend[t].kind = "unlock" /\ Running(t) =>
       \E k \in DOMAIN csTable :
         csTable[k].tid = t /\ csTable[k].ft = pend[t].time

\* structs.h:36 "start logging the memory accessing when at least two threads
\* exist": with main and another thread running and no pthread_create in
\* progress, accesses are logged.
LoggingCoversConcurrency ==
  phase[0] = "running" /\ threadNum >= 2 /\ ~Creating => logging_start

\* pintool_main.cpp:136 "If a critical section does not protect any memory access
\* from the same thread, it is an empty cs, we should remove it": Fini removes no
\* section around an access that was made under its mutex.
OnlyEmptyRemoved ==
  status = "finished" =>
    \A t \in Tid \ jumbled : \A j \in DOMAIN maTable[t] : \A m \in guards[t][j] :
      \E k \in DOMAIN csTable :
        /\ csTable[k].tid = t /\ csTable[k].lock_entry_v = m
        /\ csTable[k].st < maTable[t][j].time
        /\ csTable[k].ft = 0 \/ maTable[t][j].time < csTable[k].ft
=============================================================================
