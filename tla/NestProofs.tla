----------------------------- MODULE NestProofs -----------------------------
(***************************************************************************)
(* Two results about the critical sections of the tracing tool.  First,    *)
(* the tool keeps the promise of SectionStack: csTable behaves as a stack  *)
(* of sections per thread, whatever the order of unlocking.                *)
(*                                                                         *)
(* Then, two accesses of a thread in one critical section have no access   *)
(* of another thread's section of the same mutex between them: what the    *)
(* analysis relies on when it skips remote accesses.  That is proved of    *)
(* targets that wait for no condition, since a section that waits lets     *)
(* others in.                                                              *)
(***************************************************************************)
EXTENDS SectionProofs

-----------------------------------------------------------------------------
(* The stack. *)

Unlocking == {t \in Tid : pend[t].kind = "unlock"}

\* Distinct sections begin at distinct times, and all stamps are past.
LEMMA SectionTimes ==
  ASSUME StampsInv
  PROVE  /\ \A k, l \in DOMAIN csTable :
              /\ csTable[k].st = csTable[l].st => k = l
              /\ csTable[k].st <= csTable[l].st <=> k <= l
         /\ \A k \in DOMAIN csTable : csTable[k].st <= timestamp /\ csTable[k].ft <= timestamp
         /\ timestamp \in Nat
<1>1. TypeOK
  BY DEF StampsInv
<1>2. /\ DOMAIN csTable = 1 .. Len(csTable) /\ Len(csTable) \in Nat
      /\ \A k \in DOMAIN csTable : csTable[k].st \in Nat /\ csTable[k].ft \in Nat
  BY <1>1, Tables
<1>3. \A k, l \in DOMAIN csTable : k < l => csTable[k].st < csTable[l].st
  BY DEF StampsInv, StampsOrderEvents
<1>4. timestamp \in Nat
  BY <1>1 DEF TypeOK
<1>5. \A k \in DOMAIN csTable : csTable[k].st <= timestamp /\ csTable[k].ft <= timestamp
  BY <1>2, <1>4 DEF StampsInv, StampsInPast
<1>6. \A k, l \in DOMAIN csTable :
         /\ csTable[k].st = csTable[l].st => k = l
         /\ csTable[k].st <= csTable[l].st <=> k <= l
  <2> TAKE k, l \in DOMAIN csTable
  <2>1. k \in Nat /\ l \in Nat /\ csTable[k].st \in Nat /\ csTable[l].st \in Nat
    BY <1>2
  <2>2. (k < l => csTable[k].st < csTable[l].st) /\ (l < k => csTable[l].st < csTable[k].st)
    BY <1>3
  <2> QED BY <2>1, <2>2
<1> QED BY <1>4, <1>5, <1>6

\* A stamp handed out now is later than any section.
LEMMA LaterNow ==
  ASSUME StampsInv PROVE Stack!Later(timestamp + 1)
<1>1. ASSUME NEW k \in DOMAIN csTable
      PROVE  csTable[k].st < timestamp + 1 /\ csTable[k].ft < timestamp + 1
  BY SectionTimes, Tables DEF StampsInv
<1>2. \A r \in OpenSections \cup ClosedSections : \E k \in DOMAIN csTable : r = csTable[k]
  BY DEF OpenSections, ClosedSections
<1> QED BY <1>1, <1>2 DEF Stack!Later

\* A thread that announces an unlock, or completes one, is the only one whose
\* place in the set of the unlocking threads changes.
LEMMA UnlockingStep ==
  ASSUME TypeOK, NEW t \in Tid, NEW op, pend' = [pend EXCEPT ![t] = op]
  PROVE  Unlocking' = IF op.kind = "unlock" THEN Unlocking \cup {t} ELSE Unlocking \ {t}
<1>1. pend \in [Tid -> OpRow]
  BY DEF TypeOK
<1>2. \A u \in Tid : pend'[u] = IF u = t THEN op ELSE pend[u]
  BY <1>1
<1> QED BY <1>2 DEF Unlocking

\* The stack is empty at first.
LEMMA StackInit == Init => Stack!Init
<1> SUFFICES ASSUME Init PROVE Stack!Init
  OBVIOUS
<1>1. OpenSections = {} /\ ClosedSections = {}
  BY DEF Init, OpenSections, ClosedSections
<1>2. \A t \in Tid : pend[t].kind # "unlock"
  BY DEF Init, Idle, Op
<1>3. status # "finished"
  BY DEF Init
<1> QED BY <1>1, <1>2, <1>3 DEF Stack!Init

\* A step that changes no section and neither announces nor completes an
\* unlock is a stutter.
LEMMA StackStutter ==
  ASSUME csTable' = csTable, Unlocking' = Unlocking,
         status' = "finished" <=> status = "finished"
  PROVE  UNCHANGED Stack!vars
<1>1. OpenSections' = OpenSections /\ ClosedSections' = ClosedSections
  BY DEF OpenSections, ClosedSections
<1> QED BY <1>1 DEF Stack!vars, Unlocking

-----------------------------------------------------------------------------
(* The steps. *)

\* beforeThreadLock pushes a section.
LEMMA StackLock ==
  ASSUME StampsInv, NEW t \in Tid, NEW site \in Site, NEW m \in Mutex,
         beforeThreadLock(t, site, m)
  PROVE  Stack!Enter
<1> DEFINE s == CriticalSection(t, site, m, timestamp + 1)
<1>1. TypeOK
  BY DEF StampsInv
<1>2. /\ pend[t].kind = "idle"
      /\ pend' = [pend EXCEPT ![t] = Op("lock", m, None, timestamp')]
      /\ DOMAIN csTable' = 1 .. Len(csTable) + 1
      /\ \A k \in DOMAIN csTable : csTable'[k] = csTable[k]
      /\ csTable'[Len(csTable) + 1] = s
  BY <1>1, LockRow
<1>3. s.ft = 0 /\ s.st = timestamp + 1
  BY DEF CriticalSection
<1>4. Unlocking' = Unlocking
  <2> DEFINE op == Op("lock", m, None, timestamp')
  <2>1. op.kind = "lock" /\ pend' = [pend EXCEPT ![t] = op]
    BY <1>2 DEF Op
  <2> HIDE DEF op
  <2>2. Unlocking' = Unlocking \ {t}
    BY <1>1, <2>1, UnlockingStep
  <2> QED BY <1>2, <2>2 DEF Unlocking
<1>5. status' = status
  BY DEF beforeThreadLock
<1>6. DOMAIN csTable' = DOMAIN csTable \cup {Len(csTable) + 1}
  BY <1>1, <1>2, Tables
<1> HIDE DEF s
<1>7. OpenSections' = OpenSections \cup {s}
  <2>1. \A r : r \in OpenSections' <=>
                 \E k \in DOMAIN csTable' : csTable'[k].ft = 0 /\ r = csTable'[k]
    BY DEF OpenSections
  <2>2. \A r : r \in OpenSections <=>
                 \E k \in DOMAIN csTable : csTable[k].ft = 0 /\ r = csTable[k]
    BY DEF OpenSections
  <2>3. \A r : r \in OpenSections' <=> r \in OpenSections \/ r = s
    <3> DEFINE K == Len(csTable) + 1
    <3>1. \A k : k \in DOMAIN csTable' <=> k \in DOMAIN csTable \/ k = K
      BY <1>6
    <3>2. csTable'[K] = s /\ \A k \in DOMAIN csTable : csTable'[k] = csTable[k]
      BY <1>2
    <3> HIDE DEF K
    <3> QED BY <1>3, <2>1, <2>2, <3>1, <3>2
  <2> QED BY <2>3
<1>8. ClosedSections' = ClosedSections
  BY <1>2, <1>3, <1>6 DEF ClosedSections
<1>9. Stack!Later(s.st)
  BY <1>3, LaterNow
<1> QED BY <1>3, <1>4, <1>5, <1>7, <1>8, <1>9 DEF Stack!Enter, Unlocking

\* beforeThreadUnLock pops the section of its thread begun last, or misses the
\* only section of the table.
LEMMA StackUnlock ==
  ASSUME StampsInv, Marked, NEW t \in Tid, NEW site \in Site, NEW m \in Mutex,
         beforeThreadUnLock(t, site, m)
  PROVE  Stack!Leave(t) \/ Stack!Miss(t)
<1> DEFINE op == Op("unlock", m, None, timestamp')
<1>1. /\ TypeOK /\ DOMAIN csTable = 1 .. Len(csTable)
      /\ \A k \in DOMAIN csTable : csTable[k] \in SectionRow
  BY Tables DEF StampsInv
<1>2. /\ pend[t].kind = "idle" /\ timestamp' = timestamp + 1
      /\ pend' = [pend EXCEPT ![t] = op] /\ status' = status
      /\ MatchUnlock(t, site, m)
  BY DEF beforeThreadUnLock, CanUnlock, Ready, Idle, Op, Begin, Tick
<1>3. op.kind = "unlock"
  BY DEF Op
<1> HIDE DEF op
<1>4. t \notin Unlocking /\ Unlocking' = Unlocking \cup {t}
  BY <1>1, <1>2, <1>3, UnlockingStep DEF Unlocking
<1>5. ASSUME NEW i \in DOMAIN csTable, LastOpen(i, t), FinishSection(i, site, m)
      PROVE  Stack!Leave(t)
  <2> DEFINE s == csTable[i]
             f == [s EXCEPT !.ft = timestamp', !.unlock_callsite_v = site,
                            !.unlock_entry_v = m]
  <2>1. csTable' = [csTable EXCEPT ![i] = f]
    BY <1>5 DEF FinishSection
  <2>2. /\ s.tid = t /\ s.ft = 0
        /\ f.tid = t /\ f.st = s.st /\ f.ft = timestamp + 1
        /\ f.lock_entry_v = s.lock_entry_v /\ f.lock_callsite_v = s.lock_callsite_v
    BY <1>1, <1>2, <1>5 DEF SectionRow, LastOpen, IsOpen
  <2>3. f.ft # 0 /\ \A k \in DOMAIN csTable : csTable[k].st = s.st => k = i
    BY <2>2, SectionTimes
  <2>4. Stack!Innermost(s)
    <3>1. ASSUME NEW k \in DOMAIN csTable, csTable[k].ft = 0, csTable[k].tid = t
          PROVE  csTable[k].st <= s.st
      <4>1. IsOpen(csTable[k], t)
        BY <3>1 DEF Marked, IsOpen
      <4>2. ~(k > i)
        BY <1>5, <4>1 DEF LastOpen
      <4>3. k <= i
        BY <1>1, <4>2, Tables
      <4> QED BY <4>3, SectionTimes
    <3>2. \A r \in OpenSections : r.tid = s.tid => r.st <= s.st
      BY <2>2, <3>1 DEF OpenSections
    <3> QED BY <3>2 DEF Stack!Innermost
  <2>5. Stack!Later(f.ft)
    BY <2>2, LaterNow
  <2> HIDE DEF f
  <2>6. /\ DOMAIN csTable' = DOMAIN csTable /\ csTable'[i] = f
        /\ \A k \in DOMAIN csTable : k # i => csTable'[k] = csTable[k]
    BY <2>1
  <2>7. OpenSections' = OpenSections \ {s}
    <3>1. OpenSections' = {csTable[k] : k \in {k \in DOMAIN csTable : k # i /\ csTable[k].ft = 0}}
      BY <2>3, <2>6 DEF OpenSections
    <3>2. \A k \in DOMAIN csTable : csTable[k] = s <=> k = i
      BY <2>3
    <3> HIDE DEF s
    <3> QED BY <3>1, <3>2 DEF OpenSections
  <2>8. ClosedSections' = ClosedSections \cup {f}
    BY <2>2, <2>3, <2>6 DEF ClosedSections
  <2>9. s \in OpenSections
    BY <2>2 DEF OpenSections
  <2> HIDE DEF s
  <2>10. f \in ClosedSections'
    BY <2>8
  <2>11. \E s0 \in OpenSections, f0 \in ClosedSections' :
           /\ s0.tid = t /\ Stack!Innermost(s0)
           /\ f0.tid = t /\ f0.st = s0.st /\ Stack!Later(f0.ft)
           /\ f0.lock_entry_v = s0.lock_entry_v
           /\ f0.lock_callsite_v = s0.lock_callsite_v
           /\ OpenSections' = OpenSections \ {s0}
           /\ ClosedSections' = ClosedSections \cup {f0}
    BY <2>2, <2>4, <2>5, <2>7, <2>8, <2>9, <2>10
  <2> QED BY <1>2, <1>4, <2>11 DEF Stack!Leave, Unlocking
<1>6. ASSUME Len(csTable) = 1, csTable' = csTable
      PROVE  Stack!Miss(t)
  <2>1. OpenSections \cup ClosedSections = {csTable[1]}
    BY <1>1, <1>6 DEF OpenSections, ClosedSections
  <2>2. OpenSections' = OpenSections /\ ClosedSections' = ClosedSections
    BY <1>6 DEF OpenSections, ClosedSections
  <2> QED BY <1>2, <1>4, <2>1, <2>2 DEF Stack!Miss, Unlocking
<1> QED BY <1>2, <1>5, <1>6 DEF MatchUnlock

\* An open section encloses nothing, so Fini drops it; it adds no section.
LEMMA StackFini ==
  ASSUME StampsInv, RowsInv, Fini
  PROVE  Stack!End
<1>1. /\ TypeOK /\ TypeOK' /\ status = "running" /\ status' = "finished" /\ pend' = pend
  BY TypeStep DEF StampsInv, Fini, Next
<1>2. \A k \in DOMAIN csTable' : \E l \in DOMAIN csTable : csTable'[k] = csTable[l]
  BY FiniTables
<1>3. \A k \in DOMAIN csTable' : csTable'[k].ft # 0
  <2> DEFINE kept == KeptSections(csTable, maTable)
  <2> TAKE k \in DOMAIN csTable'
  <2>1. PICK f \in [1 .. Cardinality(kept) -> kept] : EraseSections(f)
    BY DEF Fini
  <2>2. f[k] \in kept /\ csTable'[k] = csTable[f[k]]
    BY <2>1 DEF EraseSections
  <2>3. f[k] \in DOMAIN csTable /\ ~is_cs_empty(csTable[f[k]], maTable)
    BY <2>2 DEF KeptSections
  <2> DEFINE cs == csTable[f[k]]
  <2>4. PICK j \in DOMAIN maTable[cs.tid] : Encloses(cs, maTable[cs.tid][j])
    BY <2>3 DEF is_cs_empty
  <2>5. cs.tid \in Tid /\ cs.st \in Nat /\ cs.ft \in Nat /\ maTable[cs.tid][j].time \in Nat
    BY <1>1, <2>3, Tables
  <2> HIDE DEF cs
  <2>6. cs.ft # 0
    BY <2>4, <2>5 DEF Encloses
  <2> QED BY <2>2, <2>6 DEF cs
<1>4. OpenSections' = {}
  BY <1>3 DEF OpenSections
<1>5. ClosedSections' \subseteq ClosedSections
  BY <1>2, <1>3 DEF ClosedSections
<1> QED BY <1>1, <1>4, <1>5 DEF Stack!End

\* Neither mark of a section is set without the other.
LEMMA MarkedStep == StampsInv /\ RowsInv /\ Marked /\ [Next]_vars => Marked'
<1> SUFFICES ASSUME StampsInv, RowsInv, Marked, [Next]_vars PROVE Marked'
  OBVIOUS
<1>1. TypeOK /\ None \notin Site /\ timestamp \in Nat
  BY TracerAssumption DEF StampsInv, TypeOK
<1>2. ASSUME csTable' = csTable PROVE Marked'
  BY <1>2 DEF Marked
<1>3. ASSUME NEW t \in Tid, NEW site \in Site, NEW m \in Mutex,
             beforeThreadLock(t, site, m)
      PROVE  Marked'
  <2>1. /\ DOMAIN csTable' = DOMAIN csTable \cup {Len(csTable) + 1}
        /\ \A k \in DOMAIN csTable : csTable'[k] = csTable[k]
        /\ csTable'[Len(csTable) + 1].ft = 0
        /\ csTable'[Len(csTable) + 1].unlock_callsite_v = None
    <3>1. /\ DOMAIN csTable' = 1 .. Len(csTable) + 1
          /\ \A k \in DOMAIN csTable : csTable'[k] = csTable[k]
          /\ csTable'[Len(csTable) + 1] = CriticalSection(t, site, m, timestamp + 1)
      BY <1>1, <1>3, LockRow
    <3>2. DOMAIN csTable = 1 .. Len(csTable) /\ Len(csTable) \in Nat
      BY <1>1, Tables
    <3> QED BY <3>1, <3>2 DEF CriticalSection
  <2> QED BY <2>1 DEF Marked
<1>4. ASSUME NEW t \in Tid, NEW site \in Site, NEW m \in Mutex,
             beforeThreadUnLock(t, site, m)
      PROVE  Marked'
  <2>1. MatchUnlock(t, site, m) /\ timestamp' = timestamp + 1
    BY <1>4 DEF beforeThreadUnLock, Tick
  <2>2. ASSUME NEW i \in DOMAIN csTable, FinishSection(i, site, m) PROVE Marked'
    <3>1. csTable[i] \in SectionRow
      BY <1>1, Tables
    <3>2. /\ DOMAIN csTable' = DOMAIN csTable
          /\ \A k \in DOMAIN csTable : k # i => csTable'[k] = csTable[k]
      BY <2>2 DEF FinishSection
    <3>3. csTable'[i].ft = timestamp + 1 /\ csTable'[i].unlock_callsite_v = site
      BY <2>1, <2>2, <3>1 DEF FinishSection, SectionRow
    <3>4. timestamp + 1 # 0 /\ site # None
      BY <1>1
    <3> QED BY <3>2, <3>3, <3>4 DEF Marked
  <2> QED BY <1>2, <2>1, <2>2 DEF MatchUnlock
<1>5. CASE Fini
  <2>1. \A k \in DOMAIN csTable' : \E l \in DOMAIN csTable : csTable'[k] = csTable[l]
    BY <1>5, FiniTables
  <2> QED BY <2>1 DEF Marked
<1>6. ASSUME NEW t \in Tid, Quiet(t) \/ Accessing(t) PROVE csTable' = csTable
  BY <1>1, <1>6, QuietStep, AccessStep
<1>7. ASSUME NEW t \in Tid,
             \/ AcquireMutex(t) \/ ReleaseMutex(t) \/ \E m \in Mutex : TrylockMutex(t, m)
      PROVE  csTable' = csTable
  BY <1>7 DEF AcquireMutex, ReleaseMutex, TrylockMutex, tool
<1>8. CASE UNCHANGED vars
  BY <1>2, <1>8 DEF vars, tool
<1> QED BY <1>2, <1>3, <1>4, <1>5, <1>6, <1>7, <1>8, StepKinds

\* Every step of the tracing tool and its target is a step of the stack, or
\* leaves it alone.
LEMMA StackStep ==
  StampsInv /\ RowsInv /\ Marked /\ [Next]_vars => [Stack!Next]_(Stack!vars)
<1> SUFFICES ASSUME StampsInv, RowsInv, Marked, [Next]_vars
             PROVE  Stack!Next \/ UNCHANGED Stack!vars
  OBVIOUS
<1>1. TypeOK
  BY DEF StampsInv
<1>2. ASSUME NEW t \in Tid, Quiet(t) \/ Accessing(t) PROVE UNCHANGED Stack!vars
  <2>1. /\ csTable' = csTable
        /\ \A u \in Tid : pend'[u].kind = "unlock" <=> pend[u].kind = "unlock"
    BY <1>1, <1>2, QuietStep, AccessStep
  <2>2. Unlocking' = Unlocking
    BY <2>1 DEF Unlocking
  <2>3. status' = "finished" <=> status = "finished"
    BY <1>2 DEF Quiet, Accessing, CreateThread, ExecMemAccess, CondWake, CondWait,
       ThreadStart, ThreadFini, UnLockAborts, afterThreadCreate, afterThreadSynch,
       RecordMem, Running, Ready, Doing, CanUnlock
  <2> QED BY <2>1, <2>2, <2>3, StackStutter
<1>3. ASSUME NEW t \in Tid, AcquireMutex(t) PROVE UNCHANGED Stack!vars
  <2>1. /\ csTable' = csTable /\ status' = status /\ pend[t].kind = "lock"
        /\ pend' = [pend EXCEPT ![t] = Idle]
    BY <1>3 DEF AcquireMutex, Doing, Complete, tool
  <2>2. Idle.kind = "idle"
    BY DEF Idle, Op
  <2>3. Unlocking' = Unlocking
    BY <1>1, <2>1, <2>2, UnlockingStep DEF Unlocking
  <2> QED BY <2>1, <2>3, StackStutter
<1>4. ASSUME NEW t \in Tid, ReleaseMutex(t) PROVE Stack!Unlocked(t)
  <2>1. /\ csTable' = csTable /\ status' = status /\ pend[t].kind = "unlock"
        /\ pend' = [pend EXCEPT ![t] = Idle]
    BY <1>4 DEF ReleaseMutex, Doing, Complete, tool
  <2>2. Idle.kind = "idle"
    BY DEF Idle, Op
  <2>3. t \in Unlocking /\ Unlocking' = Unlocking \ {t}
    BY <1>1, <2>1, <2>2, UnlockingStep DEF Unlocking
  <2>4. OpenSections' = OpenSections /\ ClosedSections' = ClosedSections
    BY <2>1 DEF OpenSections, ClosedSections
  <2> QED BY <2>1, <2>3, <2>4 DEF Stack!Unlocked, Unlocking
<1>5. ASSUME NEW t \in Tid, NEW m \in Mutex, TrylockMutex(t, m)
      PROVE  UNCHANGED Stack!vars
  <2>1. csTable' = csTable /\ status' = status /\ pend' = pend
    BY <1>5 DEF TrylockMutex, tool
  <2>2. Unlocking' = Unlocking
    BY <2>1 DEF Unlocking
  <2> QED BY <2>1, <2>2, StackStutter
<1>6. CASE UNCHANGED vars
  <2>1. csTable' = csTable /\ status' = status /\ pend' = pend
    BY <1>6 DEF vars, tool, target
  <2>2. Unlocking' = Unlocking
    BY <2>1 DEF Unlocking
  <2> QED BY <2>1, <2>2, StackStutter
<1>7. ASSUME NEW t \in Tid, NEW site \in Site, NEW m \in Mutex,
             beforeThreadUnLock(t, site, m)
      PROVE  Stack!Next
  <2>1. Stack!Leave(t) \/ Stack!Miss(t)
    BY <1>7, StackUnlock
  <2>2. t \in Unlocking'
    BY <2>1 DEF Stack!Leave, Stack!Miss, Unlocking
  <2> QED BY <2>1, <2>2 DEF Stack!Next, Unlocking
<1>8. ASSUME NEW t \in Tid, ReleaseMutex(t) PROVE Stack!Next
  <2>1. t \in Unlocking
    BY <1>8 DEF Unlocking, ReleaseMutex, Doing
  <2> QED BY <1>4, <1>8, <2>1 DEF Stack!Next, Unlocking
<1>9. ASSUME NEW t \in Tid, NEW site \in Site, NEW m \in Mutex,
             beforeThreadLock(t, site, m)
      PROVE  Stack!Next
  BY <1>9, StackLock DEF Stack!Next
<1>10. CASE Fini
  BY <1>10, StackFini DEF Stack!Next
<1> QED BY <1>2, <1>3, <1>5, <1>6, <1>7, <1>8, <1>9, <1>10, StepKinds

\* The refinement: in every run of any target, with any order of unlocking,
\* with trylock and with a missed section, csTable changes as the promise of
\* callbacks.h ("should be processed like a stack") allows.
THEOREM StackCorrect == Spec => SectionsStack
<1> DEFINE Inv == StampsInv /\ RowsInv /\ Marked
<1>1. Init => Inv
  BY TypeInit, StampsInit, RowsInit DEF StampsInv, Marked, Init
<1>2. Inv /\ [Next]_vars => Inv'
  BY StampsStep, RowsStep, MarkedStep DEF StampsInv
<1>3. Init => Stack!Init
  BY StackInit
<1>4. Inv /\ [Next]_vars => [Stack!Next]_(Stack!vars)
  BY StackStep
<1> HIDE DEF Inv
<1> QED BY <1>1, <1>2, <1>3, <1>4, PTL DEF Spec, SectionsStack, Stack!Spec

-----------------------------------------------------------------------------
(* Atomicity. *)

Exclusion ==
  \A t, u \in Tid : \A m \in Mutex : Holds(t, m) /\ Holds(u, m) => t = u

NoWait == \A t \in Tid : pend[t].kind # "wait"

\* Section k has been left or is one of the nest F: a section that an unlock
\* missed is neither.
Live(F, k) ==
  \/ csTable[k].ft # 0
  \/ \E n \in 1 .. Len(F[csTable[k].tid]) : F[csTable[k].tid][n] = k

Rivals(F, k, l) ==
  /\ csTable[k].tid # csTable[l].tid
  /\ csTable[k].tid \notin jumbled /\ csTable[l].tid \notin jumbled
  /\ csTable[k].lock_entry_v = csTable[l].lock_entry_v
  /\ Live(F, k) /\ Live(F, l)

\* Access a is in section c, if c has not been left before it.
Within(c, a) == c.st < a.time /\ (c.ft = 0 \/ a.time < c.ft)

\* After access a in section c there is access b in section d, and section c
\* goes on after that, with an access of its thread if it is finished.
Cuts(c, d, a, b, row) ==
  /\ Within(c, a) /\ Within(d, b) /\ a.time < b.time
  /\ c.ft = 0 \/ \E j \in DOMAIN row : Within(c, row[j]) /\ b.time < row[j].time

NestAtomic(F) ==
  \A k, l \in DOMAIN csTable : Rivals(F, k, l) =>
    \A i \in DOMAIN maTable[csTable[k].tid], r \in DOMAIN maTable[csTable[l].tid] :
      ~Cuts(csTable[k], csTable[l], maTable[csTable[k].tid][i],
            maTable[csTable[l].tid][r], maTable[csTable[k].tid])

AtomicInv ==
  /\ PairingInv /\ Exclusion /\ NoWait
  /\ status = "finished" => SectionsAtomic
  /\ status # "finished" => \E F \in [Tid -> Seq(Nat)] : Nest(F) /\ NestAtomic(F)

-----------------------------------------------------------------------------
(* Mutual exclusion. *)

\* Nobody waits for a condition, and a mutex is acquired when it is free.
LEMMA ExclusionStep ==
  ASSUME ~UsesTrylock, WaitTypes = {}
  PROVE  TypeOK /\ Exclusion /\ NoWait /\ [Next]_vars => Exclusion' /\ NoWait'
<1> SUFFICES ASSUME TypeOK, Exclusion, NoWait, [Next]_vars PROVE Exclusion' /\ NoWait'
  OBVIOUS
<1>1. /\ held \in [Tid -> Seq(Mutex)] /\ pend \in [Tid -> OpRow]
      /\ \A t \in Tid : Len(held[t]) \in Nat /\ DOMAIN held[t] = 1 .. Len(held[t])
  BY Tables DEF TypeOK
<1>2. ASSUME held' = held PROVE Exclusion'
  BY <1>2 DEF Exclusion, Holds
<1>3. ASSUME NEW t \in Tid, NEW op, op.kind # "wait", pend' = [pend EXCEPT ![t] = op]
      PROVE  NoWait'
  BY <1>1, <1>3 DEF NoWait
<1>4. ASSUME NEW t \in Tid, AcquireMutex(t) PROVE Exclusion' /\ NoWait'
  <2> DEFINE m == pend[t].mutex
  <2>1. /\ m \in Mutex /\ held' = [held EXCEPT ![t] = Append(@, m)]
        /\ pend' = [pend EXCEPT ![t] = Idle] /\ Free(m)
    BY <1>1, <1>4, MutexOfOp DEF AcquireMutex, Doing, Complete
  <2>2. Idle.kind # "wait"
    BY DEF Idle, Op
  <2>3. \A u \in Tid : ~Holds(u, m)
    BY <2>1 DEF Free, Owns, NoWait
  <2>4. \A u \in Tid, n \in Mutex : Holds(u, n)' => Holds(u, n) \/ (u = t /\ n = m)
    <3>1. \A u \in Tid : u # t => held'[u] = held[u]
      BY <1>1, <2>1
    <3>2. held'[t] = Append(held[t], m) /\ held[t] \in Seq(Mutex)
      BY <1>1, <2>1
    <3>3. \A i \in DOMAIN held'[t] :
            \/ i \in DOMAIN held[t] /\ held'[t][i] = held[t][i]
            \/ held'[t][i] = m
      BY <1>1, <2>1, <3>2, AppendProperties, LenProperties
    <3> QED BY <3>1, <3>3 DEF Holds
  <2>5. Exclusion'
    BY <2>3, <2>4 DEF Exclusion
  <2> QED BY <1>3, <2>1, <2>2, <2>5
<1>5. ASSUME NEW t \in Tid, ReleaseMutex(t) PROVE Exclusion' /\ NoWait'
  <2>1. PICK i \in DOMAIN held[t] : held' = [held EXCEPT ![t] = Without(@, i)]
    BY <1>5 DEF ReleaseMutex
  <2>2. pend' = [pend EXCEPT ![t] = Idle] /\ Idle.kind # "wait"
    BY <1>5 DEF ReleaseMutex, Complete, Idle, Op
  <2>3. \A u \in Tid, n \in Mutex : Holds(u, n)' => Holds(u, n)
    <3>1. \A u \in Tid : u # t => held'[u] = held[u]
      BY <1>1, <2>1
    <3>2. held'[t] = Without(held[t], i)
      BY <1>1, <2>1
    <3>3. /\ Without(held[t], i) \in Seq(Mutex)
          /\ Len(Without(held[t], i)) = Len(held[t]) - 1
          /\ \A n \in 1 .. Len(held[t]) - 1 :
               Without(held[t], i)[n] = IF n < i THEN held[t][n] ELSE held[t][n + 1]
      <4>1. held[t] \in Seq(Mutex) /\ i \in 1 .. Len(held[t])
        BY <1>1
      <4> QED BY <4>1, WithoutMembers
    <3>4. DOMAIN held'[t] = 1 .. Len(held[t]) - 1
      BY <3>2, <3>3, LenProperties
    <3>5. \A n \in DOMAIN held'[t] : \E o \in DOMAIN held[t] : held'[t][n] = held[t][o]
      <4> TAKE n \in DOMAIN held'[t]
      <4>1. n \in DOMAIN held[t] /\ n + 1 \in DOMAIN held[t]
        BY <1>1, <3>4
      <4> QED BY <3>2, <3>3, <3>4, <4>1
    <3> QED BY <3>1, <3>5 DEF Holds
  <2>4. Exclusion'
    BY <2>3 DEF Exclusion
  <2> QED BY <1>3, <2>2, <2>4
<1>6. ASSUME NEW t \in Tid, Quiet(t) PROVE Exclusion' /\ NoWait'
  <2>1. held' = held
    BY <1>6, QuietStep
  <2>2. ~ \E m \in Mutex : CondWait(t, m)
    BY DEF CondWait
  <2>3. CASE ThreadStart(t) \/ ThreadFini(t) \/ UnLockAborts(t)
    BY <1>2, <2>1, <2>3 DEF ThreadStart, ThreadFini, UnLockAborts, NoWait
  <2>4. CASE CreateThread(t)
    <3>1. Op("create", None, None, timestamp).kind # "wait"
      BY DEF Op
    <3> QED BY <1>2, <1>3, <2>1, <2>4, <3>1 DEF CreateThread
  <2>5. CASE CondWake(t)
    <3>1. Op("woken", None, None, timestamp).kind # "wait"
      BY DEF Op
    <3> QED BY <1>2, <1>3, <2>1, <2>5, <3>1 DEF CondWake
  <2>6. CASE \/ ExecMemAccess(t) \/ afterThreadCreate(t)
             \/ \E type \in PauseTypes \cup WaitTypes : afterThreadSynch(t, type)
    <3>1. pend' = [pend EXCEPT ![t] = Idle] /\ Idle.kind # "wait"
      BY <2>6 DEF ExecMemAccess, afterThreadCreate, afterThreadSynch, Complete, Idle, Op
    <3> QED BY <1>2, <1>3, <2>1, <3>1
  <2> QED BY <1>2, <1>6, <2>1, <2>2, <2>3, <2>4, <2>5, <2>6 DEF Quiet
<1>7. ASSUME NEW t \in Tid, Accessing(t) PROVE Exclusion' /\ NoWait'
  <2>1. held' = held
    BY <1>7, AccessStep
  <2>2. PICK op \in {"R", "W"}, addr \in Addr :
          pend' = [pend EXCEPT ![t] = Op(op, None, addr, timestamp')]
    BY <1>7 DEF Accessing, RecordMem, Begin
  <2>3. Op(op, None, addr, timestamp').kind # "wait"
    BY DEF Op
  <2> QED BY <1>2, <1>3, <2>1, <2>2, <2>3
<1>8. ASSUME NEW t \in Tid, NEW site \in Site, NEW m \in Mutex,
             beforeThreadLock(t, site, m) \/ beforeThreadUnLock(t, site, m)
      PROVE  Exclusion' /\ NoWait'
  <2>1. PICK kind \in {"lock", "unlock"} :
          held' = held /\ pend' = [pend EXCEPT ![t] = Op(kind, m, None, timestamp')]
    BY <1>8 DEF beforeThreadLock, beforeThreadUnLock, Begin
  <2>2. Op(kind, m, None, timestamp').kind # "wait"
    BY DEF Op
  <2> QED BY <1>2, <1>3, <2>1, <2>2
<1>9. ~ \E t \in Tid, m \in Mutex : TrylockMutex(t, m)
  BY DEF TrylockMutex
<1>10. CASE Fini \/ UNCHANGED vars
  BY <1>2, <1>10 DEF Fini, vars, target, NoWait
<1> QED BY <1>4, <1>5, <1>6, <1>7, <1>8, <1>9, <1>10, StepKinds

-----------------------------------------------------------------------------
(* No step lets an access into a section of another thread. *)

\* No section is there at first.
LEMMA AtomicInit ==
  Init => Exclusion /\ NoWait /\ SectionsAtomic /\ \A F : NestAtomic(F)
BY DEF Init, Exclusion, NoWait, Holds, Idle, Op, SectionsAtomic, NestAtomic

\* Nothing changes if no table does.
LEMMA AtomicSame ==
  ASSUME NEW F, NestAtomic(F), UNCHANGED <<csTable, maTable, jumbled>>
  PROVE  NestAtomic(F)'
<1>1. \A k, l : Rivals(F, k, l)' <=> Rivals(F, k, l)
  BY DEF Rivals, Live
<1>2. csTable' = csTable /\ maTable' = maTable
  OBVIOUS
<1> SUFFICES ASSUME NEW k \in DOMAIN csTable, NEW l \in DOMAIN csTable, Rivals(F, k, l),
                      NEW i \in DOMAIN maTable[csTable[k].tid],
                      NEW r \in DOMAIN maTable[csTable[l].tid]
               PROVE  ~Cuts(csTable[k], csTable[l], maTable[csTable[k].tid][i],
                           maTable[csTable[l].tid][r], maTable[csTable[k].tid])
  BY <1>1, <1>2 DEF NestAtomic
<1> QED BY DEF NestAtomic

\* Two threads are not inside sections of one mutex at the same time.
LEMMA AloneInside ==
  ASSUME TypeOK, Exclusion, NEW F \in [Tid -> Seq(Nat)], Nest(F),
         NEW k \in DOMAIN csTable, NEW l \in DOMAIN csTable, Rivals(F, k, l),
         csTable[k].ft = 0, csTable[l].ft = 0,
         pend[csTable[l].tid].kind \notin {"lock", "unlock"},
         NEW i \in DOMAIN maTable[csTable[k].tid],
         csTable[k].st < maTable[csTable[k].tid][i].time
  PROVE  FALSE
<1> DEFINE t == csTable[k].tid
           u == csTable[l].tid
<1>1. t \in Tid /\ u \in Tid /\ t # u /\ t \notin jumbled /\ u \notin jumbled
  BY Tables DEF Rivals
<1>2. PICK n \in 1 .. Len(F[t]) : F[t][n] = k
  BY DEF Rivals, Live
<1>3. PICK o \in 1 .. Len(F[u]) : F[u][o] = l
  BY DEF Rivals, Live
<1>4. /\ csTable[k].lock_entry_v = Entered(t, n)
      /\ csTable[l].lock_entry_v = Entered(u, o)
      /\ Len(F[t]) = Depth(t) /\ Len(F[u]) = Depth(u)
  BY <1>1, <1>2, <1>3 DEF Nest, NestNamed, NestOpen
<1>5. Holds(u, csTable[l].lock_entry_v)
  <2>1. o \in DOMAIN held[u]
    BY <1>1, <1>4, Tables DEF Depth
  <2> QED BY <1>1, <1>4, <2>1, Tables DEF Entered, Holds
<1>6. ~(pend[t].kind = "lock" /\ n = Len(F[t]))
  <2> SUFFICES ASSUME pend[t].kind = "lock", n = Len(F[t]) PROVE FALSE
    OBVIOUS
  <2>1. maTable[t][i].time < csTable[k].st
    BY <1>1, <1>2 DEF Nest, NestWaits
  <2>2. csTable[k].st \in Nat /\ maTable[t][i].time \in Nat
    BY <1>1, Tables
  <2> QED BY <2>1, <2>2
<1>7. Holds(t, csTable[k].lock_entry_v)
  <2> DEFINE L == Len(held[t])
  <2>1. /\ L \in Nat /\ DOMAIN held[t] = 1 .. L
        /\ n \in 1 .. Len(F[t]) /\ Len(F[t]) = Depth(t)
    BY <1>1, <1>4, Tables
  <2>2. \/ Depth(t) = L \/ Depth(t) = L - 1
        \/ Depth(t) = L + 1 /\ n # L + 1
    BY <1>4, <1>6 DEF Depth
  <2> HIDE DEF L
  <2>3. n \in DOMAIN held[t]
    BY <2>1, <2>2
  <2> QED BY <1>1, <1>4, <2>1, <2>3 DEF Entered, Holds, L
<1>8. csTable[k].lock_entry_v \in Mutex
  BY Tables
<1> QED BY <1>1, <1>5, <1>7, <1>8 DEF Exclusion, Rivals

\* An access is made in the open sections of its thread, which are closed to
\* the others by their mutexes.
LEMMA AtomicAccess ==
  ASSUME StampsInv, Exclusion, GuardRows,
         NEW F \in [Tid -> Seq(Nat)], Nest(F), NestAtomic(F),
         NEW t0 \in Tid, Accessing(t0)
  PROVE  NestAtomic(F)'
<1>1. /\ TypeOK /\ timestamp \in Nat
      /\ UNCHANGED <<jumbled, csTable>> /\ pend[t0].kind \notin {"lock", "unlock"}
  BY AccessStep DEF StampsInv, TypeOK
<1>2. CASE UNCHANGED <<maTable, guards>>
  BY <1>1, <1>2, AtomicSame
<1>3. ASSUME NEW a \in MemRow, NEW S \in SUBSET Mutex, a.time = timestamp + 1,
             Logged(t0, a, S)
      PROVE  NestAtomic(F)'
  <2>1. \A u \in Tid : \A j \in DOMAIN maTable'[u] :
              \/ j \in DOMAIN maTable[u] /\ maTable'[u][j] = maTable[u][j]
              \/ u = t0 /\ maTable'[u][j] = a
    BY <1>1, <1>3, AppendAccess
  <2>2. \A u \in Tid : \A j \in DOMAIN maTable[u] : maTable[u][j].time \in 1 .. timestamp
    BY DEF StampsInv, StampsInPast
  <2>3. \A k \in DOMAIN csTable : csTable[k].ft \in 0 .. timestamp /\ csTable[k].tid \in Tid
    BY <1>1, Tables DEF StampsInv, StampsInPast
  <2>0. \A k, l : Rivals(F, k, l)' <=> Rivals(F, k, l)
    BY <1>1 DEF Rivals, Live
  <2> SUFFICES ASSUME NEW k \in DOMAIN csTable, NEW l \in DOMAIN csTable, Rivals(F, k, l),
                      NEW i \in DOMAIN maTable'[csTable[k].tid],
                      NEW r \in DOMAIN maTable'[csTable[l].tid],
                      Cuts(csTable[k], csTable[l], maTable'[csTable[k].tid][i],
                           maTable'[csTable[l].tid][r], maTable'[csTable[k].tid])
               PROVE  FALSE
    BY <1>1, <2>0 DEF NestAtomic
  <2> DEFINE t == csTable[k].tid
             u == csTable[l].tid
             x == maTable'[t][i]
             y == maTable'[u][r]
  <2>4. t \in Tid /\ u \in Tid /\ t # u
    BY <2>3 DEF Rivals
  <2>5. /\ csTable[k].st < x.time
        /\ csTable[k].ft = 0 \/ x.time < csTable[k].ft
        /\ csTable[l].st < y.time
        /\ csTable[l].ft = 0 \/ y.time < csTable[l].ft
        /\ x.time < y.time
        /\ \/ csTable[k].ft = 0
           \/ \E j \in DOMAIN maTable'[t] :
                /\ csTable[k].st < maTable'[t][j].time
                /\ csTable[k].ft = 0 \/ maTable'[t][j].time < csTable[k].ft
                /\ y.time < maTable'[t][j].time
    BY DEF Cuts, Within
  <2>6. i \in DOMAIN maTable[t] /\ x = maTable[t][i]
    <3> SUFFICES ASSUME t = t0, x = a PROVE FALSE
      BY <2>1, <2>4
    <3>1. r \in DOMAIN maTable[u] /\ y = maTable[u][r]
      BY <2>1, <2>4
    <3> QED BY <1>1, <1>3, <2>2, <2>4, <2>5, <3>1
  <2>7. CASE r \in DOMAIN maTable[u] /\ y = maTable[u][r]
    <3>1. \/ csTable[k].ft = 0
          \/ \E j \in DOMAIN maTable[t] :
               /\ csTable[k].st < maTable[t][j].time
               /\ csTable[k].ft = 0 \/ maTable[t][j].time < csTable[k].ft
               /\ y.time < maTable[t][j].time
      <4> SUFFICES ASSUME csTable[k].ft # 0
                   PROVE  \E j \in DOMAIN maTable[t] :
                            /\ csTable[k].st < maTable[t][j].time
                            /\ csTable[k].ft = 0 \/ maTable[t][j].time < csTable[k].ft
                            /\ y.time < maTable[t][j].time
        OBVIOUS
      <4>1. PICK j \in DOMAIN maTable'[t] :
              /\ csTable[k].st < maTable'[t][j].time
              /\ maTable'[t][j].time < csTable[k].ft
              /\ y.time < maTable'[t][j].time
        BY <2>5
      <4>2. maTable'[t][j] # a
        BY <1>1, <1>3, <2>3, <4>1
      <4> QED BY <2>1, <2>4, <4>1, <4>2
    <3>2. Cuts(csTable[k], csTable[l], maTable[t][i], maTable[u][r], maTable[t])
      BY <2>5, <2>6, <2>7, <3>1 DEF Cuts, Within
    <3> QED BY <2>6, <2>7, <3>2 DEF NestAtomic
  <2>8. CASE u = t0 /\ y = a
    <3>1. csTable[l].ft = 0
      BY <1>1, <1>3, <2>3, <2>5, <2>8
    <3>2. csTable[k].ft = 0
      <4> SUFFICES ASSUME NEW j \in DOMAIN maTable'[t], y.time < maTable'[t][j].time
                   PROVE  FALSE
        BY <2>5
      <4>1. j \in DOMAIN maTable[t] /\ maTable'[t][j] = maTable[t][j]
        BY <2>1, <2>4, <2>8
      <4> QED BY <1>1, <1>3, <2>2, <2>4, <2>8, <4>1
    <3>3. pend[u].kind \notin {"lock", "unlock"}
      BY <1>1, <2>8
    <3>4. csTable[k].st < maTable[t][i].time /\ i \in DOMAIN maTable[t]
      BY <2>5, <2>6
    <3> QED BY <1>1, <3>1, <3>2, <3>3, <3>4, AloneInside
  <2> QED BY <2>1, <2>4, <2>7, <2>8
<1>4. {m \in Mutex : Holds(t0, m)} \in SUBSET Mutex
  OBVIOUS
<1> QED BY <1>1, <1>2, <1>3, <1>4, AccessStep

\* A section that is begun has no access in it.
LEMMA AtomicLock ==
  ASSUME StampsInv, NEW F \in [Tid -> Seq(Nat)], Nest(F), NestAtomic(F), NEW t \in Tid,
         NEW site \in Site, NEW m \in Mutex, beforeThreadLock(t, site, m),
         NEW G, G = Pushed(F, t)
  PROVE  NestAtomic(G)'
<1> DEFINE new == Len(csTable) + 1
<1>1. /\ TypeOK /\ timestamp \in Nat /\ Len(csTable) \in Nat
      /\ DOMAIN csTable = 1 .. Len(csTable)
  BY Tables DEF StampsInv, TypeOK
<1>2. /\ UNCHANGED <<jumbled, maTable>>
      /\ DOMAIN csTable' = 1 .. new
      /\ \A k \in DOMAIN csTable : csTable'[k] = csTable[k]
      /\ csTable'[new] = CriticalSection(t, site, m, timestamp + 1)
  BY <1>1, LockRow
<1>3. csTable'[new].st = timestamp + 1 /\ csTable'[new].tid = t
  BY <1>2 DEF CriticalSection
<1>4. /\ \A u \in Tid : u # t => G[u] = F[u]
      /\ Len(F[t]) \in Nat /\ Len(G[t]) = Len(F[t]) + 1
      /\ \A n \in 1 .. Len(F[t]) : G[t][n] = F[t][n]
      /\ G[t][Len(F[t]) + 1] = new
  BY <1>1, PushedNest
<1>5. \A k \in DOMAIN csTable : k # new /\ csTable[k].tid \in Tid
  BY <1>1, Tables
<1>6. \A u \in Tid : \A j \in DOMAIN maTable[u] : maTable[u][j].time \in 1 .. timestamp
  BY DEF StampsInv, StampsInPast
<1>7. \A k \in DOMAIN csTable' : k \in DOMAIN csTable \/ k = new
  BY <1>1, <1>2
<1> HIDE DEF new
<1>8. ASSUME NEW k \in DOMAIN csTable, Live(G, k)' PROVE Live(F, k)
  <2>1. csTable'[k] = csTable[k] /\ csTable[k].tid \in Tid /\ k # new
    BY <1>2, <1>5
  <2>2. ASSUME NEW n \in 1 .. Len(G[csTable[k].tid]), G[csTable[k].tid][n] = k
        PROVE  \E o \in 1 .. Len(F[csTable[k].tid]) : F[csTable[k].tid][o] = k
    <3>1. CASE csTable[k].tid # t
      BY <1>4, <2>1, <2>2, <3>1
    <3>2. CASE csTable[k].tid = t
      <4>1. n # Len(F[t]) + 1
        BY <1>4, <2>1, <2>2, <3>2
      <4>2. n \in 1 .. Len(F[t])
        BY <1>4, <3>2, <4>1
      <4> QED BY <1>4, <2>2, <3>2, <4>2
    <3> QED BY <3>1, <3>2
  <2> QED BY <1>8, <2>1, <2>2 DEF Live
<1> SUFFICES ASSUME NEW k \in DOMAIN csTable', NEW l \in DOMAIN csTable',
                    Rivals(G, k, l)',
                    NEW i \in DOMAIN maTable[csTable'[k].tid],
                    NEW r \in DOMAIN maTable[csTable'[l].tid],
                    Cuts(csTable'[k], csTable'[l], maTable[csTable'[k].tid][i],
                         maTable[csTable'[l].tid][r], maTable[csTable'[k].tid])
             PROVE  FALSE
  BY <1>2 DEF NestAtomic
<1>9. k # new
  <2> SUFFICES ASSUME k = new PROVE FALSE
    OBVIOUS
  <2>1. timestamp + 1 < maTable[t][i].time /\ i \in DOMAIN maTable[t]
    BY <1>3 DEF Cuts, Within
  <2> QED BY <1>1, <1>6, <2>1
<1>10. l # new
  <2> SUFFICES ASSUME l = new PROVE FALSE
    OBVIOUS
  <2>1. timestamp + 1 < maTable[t][r].time /\ r \in DOMAIN maTable[t]
    BY <1>3 DEF Cuts, Within
  <2> QED BY <1>1, <1>6, <2>1
<1>11. k \in DOMAIN csTable /\ l \in DOMAIN csTable
       /\ csTable'[k] = csTable[k] /\ csTable'[l] = csTable[l]
  BY <1>2, <1>7, <1>9, <1>10
<1>12. Rivals(F, k, l)
  BY <1>2, <1>8, <1>11 DEF Rivals
<1> QED BY <1>11, <1>12 DEF NestAtomic

\* The accesses in a section that is finished are those it was around, and a
\* section that is missed is live no more.
LEMMA AtomicUnlock ==
  ASSUME StampsInv, Ownership, NEW F \in [Tid -> Seq(Nat)], Nest(F), NestAtomic(F),
         NEW t \in Tid, NEW site \in Site, NEW m \in Mutex,
         beforeThreadUnLock(t, site, m), NEW G, G = Popped(F, t)
  PROVE  NestAtomic(G)'
<1> DEFINE i == F[t][Len(F[t])]
<1>1. TypeOK /\ timestamp \in Nat
  BY DEF StampsInv, TypeOK
<1>2. /\ maTable' = maTable
      /\ jumbled' = IF m = held[t][Len(held[t])] THEN jumbled ELSE jumbled \cup {t}
      /\ Len(F[t]) \in Nat /\ Len(F[t]) >= 1
      /\ i \in DOMAIN csTable /\ DOMAIN csTable' = DOMAIN csTable
      /\ \A k \in DOMAIN csTable : k # i => csTable'[k] = csTable[k]
      /\ Finished(i, site, m) \/ Missed
  BY <1>1, UnlockRow
<1>3. jumbled \subseteq jumbled'
  BY <1>2
<1>4. /\ \A u \in Tid : u # t => G[u] = F[u]
      /\ Len(G[t]) = Len(F[t]) - 1
      /\ \A n \in 1 .. Len(F[t]) - 1 : G[t][n] = F[t][n]
  BY <1>2, PoppedNest
<1>5. Len(F[t]) \in 1 .. Len(F[t]) /\ IsOpen(csTable[i], t)
  <2>1. Len(F[t]) \in 1 .. Len(F[t])
    BY <1>2
  <2> QED BY <2>1 DEF Nest, NestOpen
<1>6. csTable[i].tid = t /\ csTable[i].ft = 0
  BY <1>5 DEF IsOpen
<1>7. \A k \in DOMAIN csTable :
        /\ csTable'[k].tid = csTable[k].tid /\ csTable'[k].st = csTable[k].st
        /\ csTable'[k].lock_entry_v = csTable[k].lock_entry_v
        /\ csTable'[k].ft = csTable[k].ft
             \/ (csTable'[k].ft = timestamp + 1 /\ csTable[k].ft = 0)
  BY <1>2, <1>6 DEF Finished, Missed
<1>8. \A u \in Tid : \A j \in DOMAIN maTable[u] : maTable[u][j].time \in 1 .. timestamp
  BY DEF StampsInv, StampsInPast
<1>9. \A k \in DOMAIN csTable : csTable[k].tid \in Tid
  BY <1>1, Tables
<1>10. Live(F, i)
  BY <1>5, <1>6 DEF Live
<1> HIDE DEF i
<1>11. ASSUME NEW k \in DOMAIN csTable, Live(G, k)' PROVE Live(F, k)
  <2>1. CASE k = i
    BY <1>10, <2>1
  <2>2. CASE k # i
    <3>1. ASSUME NEW n \in 1 .. Len(G[csTable[k].tid]), G[csTable[k].tid][n] = k
          PROVE  \E o \in 1 .. Len(F[csTable[k].tid]) : F[csTable[k].tid][o] = k
      <4>1. CASE csTable[k].tid # t
        BY <1>4, <1>9, <3>1, <4>1
      <4>2. CASE csTable[k].tid = t
        <5>1. n \in 1 .. Len(F[t]) - 1 /\ n \in 1 .. Len(F[t])
          BY <1>2, <1>4, <4>2
        <5> QED BY <1>4, <3>1, <4>2, <5>1
      <4> QED BY <4>1, <4>2
    <3>2. csTable'[k] = csTable[k]
      BY <1>2, <2>2
    <3> QED BY <1>11, <3>1, <3>2 DEF Live
  <2> QED BY <2>1, <2>2
<1>12. \A k \in DOMAIN csTable : \A u \in Tid : \A j \in DOMAIN maTable[u] :
         Within(csTable'[k], maTable[u][j]) => Within(csTable[k], maTable[u][j])
  BY <1>1, <1>7, <1>8 DEF Within
<1> SUFFICES ASSUME NEW k \in DOMAIN csTable, NEW l \in DOMAIN csTable,
                    Rivals(G, k, l)',
                    NEW x \in DOMAIN maTable[csTable'[k].tid],
                    NEW r \in DOMAIN maTable[csTable'[l].tid],
                    Cuts(csTable'[k], csTable'[l], maTable[csTable'[k].tid][x],
                         maTable[csTable'[l].tid][r], maTable[csTable'[k].tid])
             PROVE  FALSE
  BY <1>2 DEF NestAtomic
<1>13. csTable'[k].tid = csTable[k].tid /\ csTable'[l].tid = csTable[l].tid
  BY <1>7
<1>14. Rivals(F, k, l)
  BY <1>3, <1>7, <1>11 DEF Rivals
<1>15. Cuts(csTable[k], csTable[l], maTable[csTable[k].tid][x],
            maTable[csTable[l].tid][r], maTable[csTable[k].tid])
  <2> DEFINE row == maTable[csTable[k].tid]
             a == row[x]
             b == maTable[csTable[l].tid][r]
  <2>1. csTable[k].tid \in Tid /\ csTable[l].tid \in Tid
    BY <1>9
  <2>2. /\ Within(csTable'[k], a) /\ Within(csTable'[l], b) /\ a.time < b.time
        /\ \/ csTable'[k].ft = 0
           \/ \E j \in DOMAIN row : Within(csTable'[k], row[j]) /\ b.time < row[j].time
    BY <1>13 DEF Cuts
  <2>3. Within(csTable[k], a) /\ Within(csTable[l], b)
    BY <1>12, <1>13, <2>1, <2>2
  <2>4. \/ csTable[k].ft = 0
        \/ \E j \in DOMAIN row : Within(csTable[k], row[j]) /\ b.time < row[j].time
    BY <1>7, <1>12, <2>1, <2>2
  <2> QED BY <2>2, <2>3, <2>4 DEF Cuts
<1> QED BY <1>13, <1>14, <1>15 DEF NestAtomic

-----------------------------------------------------------------------------
(* The theorem. *)

\* Finished sections are live, so no access comes between two accesses in one.
LEMMA AtomicNest ==
  ASSUME TypeOK, NEW F, NestAtomic(F)
  PROVE  SectionsAtomic
<1> SUFFICES ASSUME NEW k \in DOMAIN csTable, NEW l \in DOMAIN csTable,
                    csTable[k].tid # csTable[l].tid,
                    {csTable[k].tid, csTable[l].tid} \cap jumbled = {},
                    csTable[k].lock_entry_v = csTable[l].lock_entry_v,
                    NEW i \in DOMAIN maTable[csTable[k].tid],
                    NEW j \in DOMAIN maTable[csTable[k].tid],
                    NEW r \in DOMAIN maTable[csTable[l].tid],
                    Encloses(csTable[k], maTable[csTable[k].tid][i]),
                    Encloses(csTable[k], maTable[csTable[k].tid][j]),
                    Encloses(csTable[l], maTable[csTable[l].tid][r]),
                    maTable[csTable[k].tid][i].time < maTable[csTable[l].tid][r].time,
                    maTable[csTable[l].tid][r].time < maTable[csTable[k].tid][j].time
             PROVE  FALSE
  BY DEF SectionsAtomic
<1>1. csTable[k].tid \in Tid /\ csTable[l].tid \in Tid
  BY Tables
<1>2. csTable[k].ft # 0 /\ csTable[l].ft # 0
  <2>1. /\ csTable[k].st \in Nat /\ csTable[k].ft \in Nat
        /\ csTable[l].st \in Nat /\ csTable[l].ft \in Nat
        /\ maTable[csTable[k].tid][i].time \in Nat
        /\ maTable[csTable[l].tid][r].time \in Nat
    BY <1>1, Tables
  <2> QED BY <2>1 DEF Encloses
<1>3. Rivals(F, k, l)
  BY <1>2 DEF Rivals, Live
<1>4. Cuts(csTable[k], csTable[l], maTable[csTable[k].tid][i],
           maTable[csTable[l].tid][r], maTable[csTable[k].tid])
  BY DEF Cuts, Within, Encloses
<1> QED BY <1>3, <1>4 DEF NestAtomic

\* Fini keeps the spans of the sections it keeps, and the times.
LEMMA AtomicFini ==
  ASSUME StampsInv, RowsInv, SectionsAtomic, Fini
  PROVE  SectionsAtomic'
<1>1. /\ jumbled' = jumbled
      /\ \A k \in DOMAIN csTable' : \E o \in DOMAIN csTable : csTable'[k] = csTable[o]
      /\ \A t \in Tid : /\ DOMAIN maTable'[t] = DOMAIN maTable[t]
                        /\ \A j \in DOMAIN maTable[t] :
                             maTable'[t][j].time = maTable[t][j].time
  BY FiniTables
<1> SUFFICES ASSUME NEW k \in DOMAIN csTable', NEW l \in DOMAIN csTable',
                    csTable'[k].tid # csTable'[l].tid,
                    {csTable'[k].tid, csTable'[l].tid} \cap jumbled = {},
                    csTable'[k].lock_entry_v = csTable'[l].lock_entry_v,
                    NEW i \in DOMAIN maTable'[csTable'[k].tid],
                    NEW j \in DOMAIN maTable'[csTable'[k].tid],
                    NEW r \in DOMAIN maTable'[csTable'[l].tid],
                    Encloses(csTable'[k], maTable'[csTable'[k].tid][i]),
                    Encloses(csTable'[k], maTable'[csTable'[k].tid][j]),
                    Encloses(csTable'[l], maTable'[csTable'[l].tid][r]),
                    maTable'[csTable'[k].tid][i].time < maTable'[csTable'[l].tid][r].time,
                    maTable'[csTable'[l].tid][r].time < maTable'[csTable'[k].tid][j].time
             PROVE  FALSE
  BY <1>1 DEF SectionsAtomic
<1>2. PICK k0 \in DOMAIN csTable : csTable'[k] = csTable[k0]
  BY <1>1
<1>3. PICK l0 \in DOMAIN csTable : csTable'[l] = csTable[l0]
  BY <1>1
<1> DEFINE t == csTable[k0].tid
           u == csTable[l0].tid
<1>4. t \in Tid /\ u \in Tid
  BY Tables DEF StampsInv
<1>5. /\ i \in DOMAIN maTable[t] /\ maTable'[t][i].time = maTable[t][i].time
      /\ j \in DOMAIN maTable[t] /\ maTable'[t][j].time = maTable[t][j].time
      /\ r \in DOMAIN maTable[u] /\ maTable'[u][r].time = maTable[u][r].time
  BY <1>1, <1>2, <1>3, <1>4
<1>6. /\ Encloses(csTable[k0], maTable[t][i]) /\ Encloses(csTable[k0], maTable[t][j])
      /\ Encloses(csTable[l0], maTable[u][r])
      /\ maTable[t][i].time < maTable[u][r].time
      /\ maTable[u][r].time < maTable[t][j].time
  BY <1>2, <1>3, <1>5 DEF Encloses
<1> QED BY <1>2, <1>3, <1>5, <1>6 DEF SectionsAtomic

\* Every step before Fini keeps a nest whose sections are atomic.
LEMMA AtomicNestStep ==
  ASSUME ~UsesTrylock, AtomicInv, Next, ~Fini
  PROVE  \E G \in [Tid -> Seq(Nat)] : Nest(G)' /\ NestAtomic(G)'
<1>1. /\ StampsInv /\ TypeOK /\ Ownership /\ Exclusion /\ GuardRows
      /\ status = "running"
  BY Alive DEF AtomicInv, PairingInv, StampsInv, SectionInv, Recording
<1>2. PICK F \in [Tid -> Seq(Nat)] : Nest(F) /\ NestAtomic(F)
  BY <1>1 DEF AtomicInv
<1>3. ASSUME NEW t \in Tid, Quiet(t) \/ AcquireMutex(t) \/ ReleaseMutex(t)
      PROVE  Nest(F)' /\ NestAtomic(F)'
  <2>1. UNCHANGED <<csTable, maTable, jumbled>>
    BY <1>1, <1>3, QuietStep DEF AcquireMutex, ReleaseMutex, tool, history
  <2>2. Nest(F)'
    BY <1>1, <1>2, <1>3, NestQuiet, NestAcquire, NestRelease
  <2>3. NestAtomic(F)'
    BY <1>2, <2>1, AtomicSame
  <2> QED BY <2>2, <2>3
<1>4. ASSUME NEW t \in Tid, Accessing(t) PROVE Nest(F)' /\ NestAtomic(F)'
  BY <1>1, <1>2, <1>4, NestAccess, AtomicAccess
<1>5. ASSUME NEW t \in Tid, NEW site \in Site, NEW m \in Mutex,
             beforeThreadLock(t, site, m)
      PROVE  \E G \in [Tid -> Seq(Nat)] : Nest(G)' /\ NestAtomic(G)'
  <2>1. \E G : G = Pushed(F, t)
    OBVIOUS
  <2>2. PICK G : G = Pushed(F, t)
    BY <2>1
  <2>3. G \in [Tid -> Seq(Nat)] /\ Nest(G)'
    BY <1>1, <1>2, <1>5, <2>2, NestLock
  <2>4. NestAtomic(G)'
    BY <1>1, <1>2, <1>5, <2>2, AtomicLock
  <2> QED BY <2>3, <2>4
<1>6. ASSUME NEW t \in Tid, NEW site \in Site, NEW m \in Mutex,
             beforeThreadUnLock(t, site, m)
      PROVE  \E G \in [Tid -> Seq(Nat)] : Nest(G)' /\ NestAtomic(G)'
  <2>1. \E G : G = Popped(F, t)
    OBVIOUS
  <2>2. PICK G : G = Popped(F, t)
    BY <2>1
  <2>3. G \in [Tid -> Seq(Nat)] /\ Nest(G)'
    BY <1>1, <1>2, <1>6, <2>2, NestUnlock
  <2>4. NestAtomic(G)'
    BY <1>1, <1>2, <1>6, <2>2, AtomicUnlock
  <2> QED BY <2>3, <2>4
<1>7. ~ \E t \in Tid, m \in Mutex : TrylockMutex(t, m)
  BY DEF TrylockMutex
<1> QED BY <1>2, <1>3, <1>4, <1>5, <1>6, <1>7, StepKinds

\* A step that leaves the tables alone leaves the sections atomic.
LEMMA SectionsAtomicSame ==
  UNCHANGED <<csTable, maTable, jumbled>> => SectionsAtomic' = SectionsAtomic
BY DEF SectionsAtomic

\* Every step keeps the invariant.
LEMMA AtomicStep ==
  ASSUME ~UsesTrylock, WaitTypes = {}
  PROVE  AtomicInv /\ [Next]_vars => AtomicInv'
<1> SUFFICES ASSUME AtomicInv, [Next]_vars PROVE AtomicInv'
  OBVIOUS
<1>1. PairingInv' /\ Exclusion' /\ NoWait' /\ TypeOK'
  BY PairingStep, ExclusionStep DEF AtomicInv, PairingInv, StampsInv
<1>2. CASE Next /\ ~Fini
  <2>1. \E G \in [Tid -> Seq(Nat)] : Nest(G)' /\ NestAtomic(G)'
    BY <1>2, AtomicNestStep
  <2>2. status' # "finished"
    BY <1>2, OnlyFiniFinishes
  <2> QED BY <1>1, <2>1, <2>2 DEF AtomicInv
<1>3. CASE Fini
  <2>1. status = "running" /\ status' = "finished" /\ TypeOK /\ StampsInv /\ RowsInv
    BY <1>3 DEF Fini, AtomicInv, PairingInv, StampsInv
  <2>2. SectionsAtomic
    BY <2>1, AtomicNest DEF AtomicInv
  <2>3. SectionsAtomic'
    BY <1>3, <2>1, <2>2, AtomicFini
  <2> QED BY <1>1, <2>1, <2>3 DEF AtomicInv
<1>4. CASE UNCHANGED vars
  <2>1. UNCHANGED <<csTable, maTable, guards, jumbled, held, pend, status>>
    BY <1>4 DEF vars, tool, target, history
  <2>2. status' = "finished" => SectionsAtomic'
    <3>1. (status = "finished" => SectionsAtomic)
            /\ UNCHANGED <<csTable, maTable, jumbled, status>>
      BY <2>1 DEF AtomicInv
    <3> QED BY <3>1, SectionsAtomicSame
  <2>3. ASSUME NEW F \in [Tid -> Seq(Nat)], Nest(F), NestAtomic(F)
        PROVE  Nest(F)' /\ NestAtomic(F)'
    <3>1. \A t \in Tid : /\ Depth(t)' = Depth(t)
                         /\ \A n \in 1 .. Depth(t) : Entered(t, n)' = Entered(t, n)
      BY <2>1 DEF Depth, Entered
    <3>2. Nest(F)'
      BY <2>1, <2>3, <3>1, NestSame DEF AtomicInv, PairingInv, StampsInv
    <3> QED BY <2>1, <2>3, <3>2, AtomicSame
  <2>4. status' # "finished" => \E F \in [Tid -> Seq(Nat)] : Nest(F)' /\ NestAtomic(F)'
    BY <2>1, <2>3 DEF AtomicInv
  <2> QED BY <1>1, <2>2, <2>4 DEF AtomicInv
<1> QED BY <1>2, <1>3, <1>4

\* In every run of a target without pthread_mutex_trylock and condition waits,
\* two accesses in one critical section have no access between them that was
\* made in another thread's section of the same mutex, as
\* find_interleave_write and find_interleave_read take for granted.
THEOREM AtomicityCorrect ==
  ASSUME ~UsesTrylock, WaitTypes = {}
  PROVE  Spec => []SectionsAtomic
<1>1. Init => AtomicInv
  <2> SUFFICES ASSUME Init PROVE AtomicInv
    OBVIOUS
  <2>1. \E F \in [Tid -> Seq(Nat)] : Nest(F)
    BY NestInit
  <2> QED BY <2>1, PairingInit, AtomicInit DEF AtomicInv
<1>2. AtomicInv => SectionsAtomic
  BY AtomicNest DEF AtomicInv, PairingInv, StampsInv
<1> QED BY <1>1, <1>2, AtomicStep, PTL DEF Spec
=============================================================================
