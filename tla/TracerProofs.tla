---------------------------- MODULE TracerProofs ----------------------------
(***************************************************************************)
(* Proofs about Tracer for any number of threads, mutexes and addresses    *)
(* and any length of the run: type correctness, that time stamps identify  *)
(* and order the recorded events, and that every access lies in the row of *)
(* a thread that has been counted.                                         *)
(***************************************************************************)
EXTENDS Tracer, SequenceTheorems, FiniteSetTheorems, WellFoundedInduction,
        TLAPS

-----------------------------------------------------------------------------
(* Lemmas about the operators of Fini.                                     *)

\* The largest index of a nonempty set of table indices exists.
LEMMA MaxIndex ==
  ASSUME NEW n \in Nat, NEW S \in SUBSET (1 .. n), S # {}
  PROVE  Max(S) \in S /\ \A y \in S : Max(S) >= y
<1> DEFINE T == {n - x : x \in S}
<1>1. T \subseteq Nat /\ T # {}
  <2>1. PICK y \in S : TRUE
    OBVIOUS
  <2>2. n - y \in T
    BY <2>1
  <2>3. \A z \in S : n - z \in Nat
    OBVIOUS
  <2> QED BY <2>2, <2>3
<1>2. PICK m \in T : \A y \in T : ~ (<<y, m>> \in OpToRel(<, Nat))
  BY <1>1, NatLessThanWellFounded, WFMin
<1>3. PICK x \in S : m = n - x
  OBVIOUS
<1>4. \A y \in S : x >= y
  <2> TAKE y \in S
  <2>1. ~ (n - y < m)
    <3>1. n - y \in T /\ m \in Nat
      BY <1>1
    <3> QED BY <1>2, <3>1, <1>1 DEF OpToRel
  <2> QED BY <2>1, <1>3
<1> QED BY <1>4 DEF Max

\* Fini marks an access with addresses taken from the section table, and
\* leaves its identity, its thread and its time as they were.
LEMMA AnnotateType ==
  ASSUME NEW a \in MemRow, NEW csTab \in Seq(SectionRow)
  PROVE  /\ Annotate(a, csTab) \in MemRow
         /\ Annotate(a, csTab).time = a.time
         /\ Annotate(a, csTab).tid = a.tid
<1> DEFINE E == EnclosingSections(a, csTab)
           k == AnnotatingSection(E)
<1>1. CASE E = {}
  BY <1>1 DEF Annotate
<1>2. CASE E # {}
  <2>1. E \in SUBSET (1 .. Len(csTab)) /\ Len(csTab) \in Nat
    BY DEF EnclosingSections
  <2>2. k \in 1 .. Len(csTab)
    BY <1>2, <2>1, MaxIndex DEF AnnotatingSection
  <2>3. csTab[k] \in SectionRow
    BY <2>2, ElementOfSeq
  <2>4. Annotate(a, csTab) =
          [a EXCEPT !.lock_ev = csTab[k].lock_entry_v,
                    !.lock_cv = csTab[k].lock_callsite_v,
                    !.unlock_cv = csTab[k].unlock_callsite_v]
    BY <1>2 DEF Annotate
  <2> HIDE DEF k
  <2> QED BY <2>3, <2>4 DEF MemRow, SectionRow
<1> QED BY <1>1, <1>2

\* A selection of table rows is a table.
LEMMA SelectionType ==
  ASSUME NEW tab \in Seq(SectionRow), NEW n \in Nat,
         NEW f \in [1 .. n -> DOMAIN tab]
  PROVE  [i \in DOMAIN f |-> tab[f[i]]] \in Seq(SectionRow)
<1>1. \A i \in 1 .. n : tab[f[i]] \in SectionRow
  BY ElementOfSeq
<1>2. DOMAIN f = 1 .. n
  OBVIOUS
<1> QED BY <1>1, <1>2, SeqDef

\* The kept sections are finitely many table indices.
LEMMA KeptCount ==
  ASSUME NEW tab \in Seq(SectionRow), NEW ma
  PROVE  /\ KeptSections(tab, ma) \subseteq DOMAIN tab
         /\ Cardinality(KeptSections(tab, ma)) \in Nat
<1>1. KeptSections(tab, ma) \subseteq DOMAIN tab
  BY DEF KeptSections
<1>2. IsFiniteSet(1 .. Len(tab))
  BY FS_Interval, LenProperties
<1> QED BY <1>1, <1>2, FS_Subset, FS_CardinalityType, LenProperties

-----------------------------------------------------------------------------
(* Type correctness.                                                       *)

\* A thread that announces nothing.
LEMMA IdleType == Idle \in OpRow
BY DEF Idle, Op, OpRow

\* The tables are empty and the globals are as structs.h initialises them.
LEMMA TypeInit == Init => TypeOK
BY TracerAssumption, EmptySeq, IdleType DEF Init, TypeOK, Tid

\* A waiting or locking thread names a mutex.
LEMMA MutexOfOp ==
  ASSUME NEW op \in OpRow, op.kind \in {"lock", "unlock", "wait"}
  PROVE  op.mutex \in Mutex
BY DEF OpRow

\* A thread that lets go of one of its mutexes holds the others.
LEMMA WithoutType ==
  ASSUME NEW s \in Seq(Mutex), NEW i \in DOMAIN s
  PROVE  Without(s, i) \in Seq(Mutex)
<1>1. /\ Len(s) \in Nat /\ i \in 1 .. Len(s)
      /\ \A j \in 1 .. Len(s) : s[j] \in Mutex
  BY ElementOfSeq, LenProperties
<1>2. SubSeq(s, 1, i - 1) \in Seq(Mutex)
  BY <1>1, SubSeqProperties
<1>3. SubSeq(s, i + 1, Len(s)) \in Seq(Mutex)
  BY <1>1, SubSeqProperties
<1> QED BY <1>2, <1>3, ConcatProperties DEF Without

\* No callback and no step of the target leaves the types.
THEOREM TypeStep == TypeOK /\ [Next]_vars => TypeOK'
<1> SUFFICES ASSUME TypeOK, [Next]_vars PROVE TypeOK'
  OBVIOUS
<1> USE DEF TypeOK
<1>1. ASSUME NEW t \in Tid, CreateThread(t) PROVE TypeOK'
  <2>1. Op("create", None, None, timestamp) \in OpRow
    BY DEF Op, OpRow
  <2> QED BY <1>1, <2>1 DEF CreateThread, tool, history
<1>2. ASSUME NEW t \in Tid, ExecMemAccess(t) PROVE TypeOK'
  BY <1>2, IdleType DEF ExecMemAccess, Complete, tool, history
<1>3. ASSUME NEW t \in Tid, AcquireMutex(t) PROVE TypeOK'
  <2>1. pend[t].mutex \in Mutex
    BY <1>3, MutexOfOp DEF AcquireMutex, Doing
  <2>2. Append(held[t], pend[t].mutex) \in Seq(Mutex)
    BY <2>1, AppendProperties
  <2> QED BY <1>3, <2>2, IdleType DEF AcquireMutex, Complete, tool, history
<1>4. ASSUME NEW t \in Tid, ReleaseMutex(t) PROVE TypeOK'
  <2>1. PICK i \in DOMAIN held[t] : held' = [held EXCEPT ![t] = Without(@, i)]
    BY <1>4 DEF ReleaseMutex
  <2>2. Without(held[t], i) \in Seq(Mutex)
    BY WithoutType
  <2> QED BY <1>4, <2>1, <2>2, IdleType DEF ReleaseMutex, Complete, tool, history
<1>5. ASSUME NEW t \in Tid, NEW m \in Mutex, TrylockMutex(t, m) PROVE TypeOK'
  <2>1. Append(held[t], m) \in Seq(Mutex)
    BY AppendProperties
  <2> QED BY <1>5, <2>1 DEF TrylockMutex, tool, history
<1>6. ASSUME NEW t \in Tid, NEW m \in Mutex, CondWait(t, m) PROVE TypeOK'
  <2>1. Op("wait", m, None, timestamp) \in OpRow
    BY DEF Op, OpRow
  <2> QED BY <1>6, <2>1 DEF CondWait, tool, history
<1>7. ASSUME NEW t \in Tid, CondWake(t) PROVE TypeOK'
  <2>1. Op("woken", None, None, timestamp) \in OpRow
    BY DEF Op, OpRow
  <2> QED BY <1>7, <2>1 DEF CondWake, tool, history
<1>8. ASSUME NEW t \in Tid, ThreadStart(t) PROVE TypeOK'
  <2>1. threadExisted + 1 \in 0 .. NumThreads /\ nascent - 1 \in Nat
    BY <1>8, TracerAssumption DEF ThreadStart, Tid
  <2> QED BY <1>8, <2>1 DEF ThreadStart, history
<1>9. ASSUME NEW t \in Tid, ThreadFini(t) PROVE TypeOK'
  <2>1. logging_start' \in BOOLEAN
    BY <1>9, Zenon DEF ThreadFini
  <2> QED BY <1>9, <2>1 DEF ThreadFini, history
<1>10. ASSUME NEW t \in Tid, afterThreadCreate(t) PROVE TypeOK'
  BY <1>10, IdleType DEF afterThreadCreate, Complete, history
<1>11. ASSUME NEW t \in Tid, NEW op \in {"R", "W"}, NEW inst \in Inst,
              NEW addr \in Addr, RecordMem(t, op, inst, addr)
       PROVE  TypeOK'
  <2>1. timestamp' \in Nat
    BY <1>11 DEF RecordMem, Tick
  <2>2. Op(op, None, addr, timestamp') \in OpRow
    BY <2>1 DEF Op, OpRow
  <2>3. Append(maTable[t], MemAccess(op, inst, addr, t, timestamp')) \in Seq(MemRow)
    <3>1. MemAccess(op, inst, addr, t, timestamp') \in MemRow
      BY <2>1 DEF MemAccess, MemRow
    <3> QED BY <3>1, AppendProperties
  <2>4. Append(guards[t], {m \in Mutex : Holds(t, m)}) \in Seq(SUBSET Mutex)
    <3>1. {m \in Mutex : Holds(t, m)} \in SUBSET Mutex
      OBVIOUS
    <3> QED BY <3>1, AppendProperties
  <2>5. maTable' \in [Tid -> Seq(MemRow)] /\ guards' \in [Tid -> Seq(SUBSET Mutex)]
    BY <1>11, <2>3, <2>4 DEF RecordMem
  <2> QED BY <1>11, <2>1, <2>2, <2>5 DEF RecordMem, Begin
<1>12. ASSUME NEW t \in Tid, NEW site \in Site, NEW m \in Mutex,
              beforeThreadLock(t, site, m)
       PROVE  TypeOK'
  <2>1. timestamp' \in Nat
    BY <1>12 DEF beforeThreadLock, Tick
  <2>2. Op("lock", m, None, timestamp') \in OpRow
    BY <2>1 DEF Op, OpRow
  <2>3. Append(csTable, CriticalSection(t, site, m, timestamp')) \in Seq(SectionRow)
    <3>1. CriticalSection(t, site, m, timestamp') \in SectionRow
      BY <2>1 DEF CriticalSection, SectionRow
    <3> QED BY <3>1, AppendProperties
  <2> QED BY <1>12, <2>1, <2>2, <2>3 DEF beforeThreadLock, Begin, history
<1>13. ASSUME NEW t \in Tid, NEW site \in Site, NEW m \in Mutex,
              beforeThreadUnLock(t, site, m)
       PROVE  TypeOK'
  <2>1. timestamp' \in Nat
    BY <1>13 DEF beforeThreadUnLock, Tick
  <2>2. Op("unlock", m, None, timestamp') \in OpRow
    BY <2>1 DEF Op, OpRow
  <2>3. csTable' \in Seq(SectionRow)
    <3>1. ASSUME NEW i \in DOMAIN csTable, FinishSection(i, site, m)
          PROVE  csTable' \in Seq(SectionRow)
      <4> DEFINE row == [csTable[i] EXCEPT !.ft = timestamp',
                                           !.unlock_callsite_v = site,
                                           !.unlock_entry_v = m]
      <4>1. i \in 1 .. Len(csTable) /\ csTable[i] \in SectionRow
        BY ElementOfSeq
      <4>2. row \in SectionRow
        BY <2>1, <4>1 DEF SectionRow
      <4>3. csTable' = [csTable EXCEPT ![i] = row]
        BY <3>1 DEF FinishSection
      <4> QED BY <4>1, <4>2, <4>3, ExceptSeq
    <3> QED BY <1>13, <3>1 DEF beforeThreadUnLock, MatchUnlock
  <2>4. jumbled' \in {jumbled, jumbled \cup {t}}
    BY <1>13 DEF beforeThreadUnLock
  <2> QED BY <1>13, <2>1, <2>2, <2>3, <2>4 DEF beforeThreadUnLock, Begin
<1>14. ASSUME NEW t \in Tid, UnLockAborts(t) PROVE TypeOK'
  BY <1>14 DEF UnLockAborts, Tick, history
<1>15. ASSUME NEW t \in Tid, NEW type \in PauseTypes \cup WaitTypes,
              afterThreadSynch(t, type)
       PROVE  TypeOK'
  <2>1. timestamp' \in Nat
    BY <1>15 DEF afterThreadSynch, Tick
  <2>2. Append(synchTable, Synch(type, t, timestamp')) \in Seq(SynchRow)
    <3>1. Synch(type, t, timestamp') \in SynchRow
      BY <2>1 DEF Synch, SynchRow
    <3> QED BY <3>1, AppendProperties
  <2> QED BY <1>15, <2>1, <2>2, IdleType DEF afterThreadSynch, Complete, history
<1>16. ASSUME Fini PROVE TypeOK'
  <2>1. csTable' \in Seq(SectionRow)
    <3> DEFINE kept == KeptSections(csTable, maTable)
    <3>1. PICK f \in [1 .. Cardinality(kept) -> kept] : EraseSections(f)
      BY <1>16 DEF Fini
    <3>2. f \in [1 .. Cardinality(kept) -> DOMAIN csTable] /\ Cardinality(kept) \in Nat
      BY KeptCount
    <3> QED BY <3>1, <3>2, SelectionType DEF EraseSections
  <2>2. maTable' \in [Tid -> Seq(MemRow)]
    <3>1. ASSUME NEW t \in Tid
          PROVE  [j \in DOMAIN maTable[t] |-> Annotate(maTable[t][j], csTable')]
                   \in Seq(MemRow)
      <4>1. \A j \in 1 .. Len(maTable[t]) :
              Annotate(maTable[t][j], csTable') \in MemRow
        BY <2>1, AnnotateType, ElementOfSeq
      <4>2. DOMAIN maTable[t] = 1 .. Len(maTable[t]) /\ Len(maTable[t]) \in Nat
        BY LenProperties
      <4> QED BY <4>1, <4>2, SeqDef
    <3>2. maTable' = [t \in Tid |->
                        IF t < threadExisted
                          THEN [j \in DOMAIN maTable[t] |->
                                  Annotate(maTable[t][j], csTable')]
                          ELSE maTable[t]]
      BY <1>16 DEF Fini
    <3> QED BY <3>1, <3>2
  <2> QED BY <1>16, <2>1, <2>2 DEF Fini, history
<1>17. CASE UNCHANGED vars
  BY <1>17 DEF vars, tool, target, history
<1>18. ASSUME NEW t \in Tid, TargetStep(t) PROVE TypeOK'
  BY <1>18, <1>1, <1>2, <1>3, <1>4, <1>5, <1>6, <1>7 DEF TargetStep
<1>19. ASSUME NEW t \in Tid, Callback(t) PROVE TypeOK'
  BY <1>19, <1>8, <1>9, <1>10, <1>11, <1>12, <1>13, <1>14, <1>15
     DEF Callback, RecordMemRead, RecordMemWrite
<1> QED BY <1>16, <1>17, <1>18, <1>19 DEF Next

\* The tables and globals keep their types in every run of every target.
THEOREM TypeCorrect == Spec => []TypeOK
BY TypeInit, TypeStep, PTL DEF Spec

-----------------------------------------------------------------------------
(* Time stamps.                                                            *)

\* Every recorded stamp was handed out before: it lies between 1 and the
\* current time, so the next stamp differs from all of them.
StampsInPast ==
  /\ \A t \in Tid : \A i \in DOMAIN maTable[t] : maTable[t][i].time \in 1 .. timestamp
  /\ \A k \in DOMAIN csTable :
       csTable[k].st \in 1 .. timestamp /\ csTable[k].ft \in 0 .. timestamp
  /\ \A k \in DOMAIN synchTable : synchTable[k].time \in 1 .. timestamp

StampsInv == TypeOK /\ StampsInPast /\ StampsOrderEvents

\* Nothing is stamped at first.
LEMMA StampsInit == Init => StampsInPast /\ StampsOrderEvents
BY DEF Init, StampsInPast, StampsOrderEvents

\* A step that leaves the tables alone keeps the invariant.
LEMMA StampsSameTables ==
  ASSUME StampsInv, TypeOK', timestamp' \in {timestamp, timestamp + 1},
         UNCHANGED <<maTable, csTable, synchTable>>
  PROVE  StampsInPast' /\ StampsOrderEvents'
<1>1. timestamp \in Nat /\ timestamp' >= timestamp
  BY DEF StampsInv, TypeOK
<1>2. \A n \in 0 .. timestamp : n \in 0 .. timestamp'
  BY <1>1
<1>3. \A n \in 1 .. timestamp : n \in 1 .. timestamp'
  BY <1>1
<1>4. StampsInPast'
  BY <1>2, <1>3 DEF StampsInv, StampsInPast
<1>5. StampsOrderEvents'
  BY DEF StampsInv, StampsOrderEvents
<1> QED BY <1>4, <1>5

\* RecordMem appends an access whose stamp is later than all others.
LEMMA StampsRecordMem ==
  ASSUME StampsInv, TypeOK',
         NEW t \in Tid, NEW op \in {"R", "W"}, NEW inst \in Inst,
         NEW addr \in Addr, RecordMem(t, op, inst, addr)
  PROVE  StampsInPast' /\ StampsOrderEvents'
<1> DEFINE ma == MemAccess(op, inst, addr, t, timestamp')
<1>1. timestamp \in Nat /\ timestamp' = timestamp + 1
      /\ UNCHANGED <<csTable, synchTable>>
  BY DEF StampsInv, TypeOK, RecordMem, Tick
<1>2. CASE maTable' = maTable
  BY <1>1, <1>2, StampsSameTables
<1>3. CASE maTable' = [maTable EXCEPT ![t] = Append(@, ma)]
  <2>1. maTable \in [Tid -> Seq(MemRow)] /\ ma \in MemRow /\ ma.time = timestamp'
    BY <1>1 DEF StampsInv, TypeOK, MemAccess, MemRow
  <2>2. /\ \A u \in Tid \ {t} : maTable'[u] = maTable[u]
        /\ DOMAIN maTable'[t] = 1 .. Len(maTable[t]) + 1
        /\ \A i \in DOMAIN maTable[t] : maTable'[t][i] = maTable[t][i]
        /\ maTable'[t][Len(maTable[t]) + 1] = ma
        /\ DOMAIN maTable[t] = 1 .. Len(maTable[t]) /\ Len(maTable[t]) \in Nat
    <3>1. maTable'[t] = Append(maTable[t], ma) /\ maTable[t] \in Seq(MemRow)
      BY <1>3, <2>1
    <3>2. \A u \in Tid \ {t} : maTable'[u] = maTable[u]
      BY <1>3, <2>1
    <3> QED BY <3>1, <3>2, <2>1, AppendProperties, LenProperties
  <2> DEFINE Old(u, i) == i \in DOMAIN maTable[u]
  \* Every entry is an old one or the new one.
  <2>3. \A u \in Tid : \A i \in DOMAIN maTable'[u] :
          \/ Old(u, i) /\ maTable'[u][i] = maTable[u][i]
               /\ maTable[u][i].time \in 1 .. timestamp
          \/ u = t /\ i = Len(maTable[t]) + 1 /\ maTable'[u][i].time = timestamp + 1
    BY <1>1, <2>1, <2>2 DEF StampsInv, StampsInPast
  <2>4. StampsInPast'
    <3>1. \A u \in Tid : \A i \in DOMAIN maTable'[u] :
            maTable'[u][i].time \in 1 .. timestamp'
      BY <1>1, <2>3
    <3>2. \A k \in DOMAIN csTable' : /\ csTable'[k].st \in 1 .. timestamp'
                                    /\ csTable'[k].ft \in 0 .. timestamp'
      BY <1>1 DEF StampsInv, StampsInPast
    <3>3. \A k \in DOMAIN synchTable' : synchTable'[k].time \in 1 .. timestamp'
      BY <1>1 DEF StampsInv, StampsInPast
    <3> QED BY <3>1, <3>2, <3>3 DEF StampsInPast
  <2>5. ASSUME NEW u \in Tid, NEW v \in Tid, NEW i \in DOMAIN maTable'[u],
               NEW j \in DOMAIN maTable'[v]
        PROVE  /\ maTable'[u][i].time = maTable'[v][j].time => u = v /\ i = j
               /\ u = v /\ i < j => maTable'[u][i].time < maTable'[v][j].time
    <3>1. CASE Old(u, i) /\ Old(v, j)
      <4>1. maTable'[u][i] = maTable[u][i] /\ maTable'[v][j] = maTable[v][j]
        BY <2>2, <3>1
      <4> QED BY <3>1, <4>1 DEF StampsInv, StampsOrderEvents
    <3>2. CASE Old(u, i) /\ ~Old(v, j)
      BY <1>1, <2>2, <2>3, <3>2
    <3>3. CASE ~Old(u, i) /\ Old(v, j)
      <4>1. /\ maTable'[u][i].time = timestamp + 1 /\ u = t
            /\ i = Len(maTable[t]) + 1
        BY <2>3, <3>3
      <4>2. maTable'[v][j].time \in 1 .. timestamp
        BY <1>1, <2>2, <2>3, <3>3
      <4>3. v = t => j \in 1 .. Len(maTable[t])
        BY <2>2, <3>3
      <4> QED BY <1>1, <2>2, <4>1, <4>2, <4>3
    <3>4. CASE ~Old(u, i) /\ ~Old(v, j)
      BY <2>2, <2>3, <3>4
    <3> QED BY <3>1, <3>2, <3>3, <3>4
  <2>6. \A u \in Tid : \A i \in DOMAIN maTable'[u] :
          /\ \A k \in DOMAIN csTable' :
               maTable'[u][i].time \notin {csTable'[k].st, csTable'[k].ft}
          /\ \A k \in DOMAIN synchTable' :
               maTable'[u][i].time # synchTable'[k].time
    <3> SUFFICES ASSUME NEW u \in Tid, NEW i \in DOMAIN maTable'[u]
                 PROVE  /\ \A k \in DOMAIN csTable :
                             maTable'[u][i].time \notin {csTable[k].st, csTable[k].ft}
                        /\ \A k \in DOMAIN synchTable :
                             maTable'[u][i].time # synchTable[k].time
      BY <1>1
    <3>1. CASE Old(u, i) /\ maTable'[u][i] = maTable[u][i]
      BY <3>1 DEF StampsInv, StampsOrderEvents
    <3>2. CASE maTable'[u][i].time = timestamp + 1
      BY <1>1, <3>2 DEF StampsInv, StampsInPast
    <3> QED BY <2>3, <3>1, <3>2
  <2>7. /\ \A k, l \in DOMAIN csTable' : k < l => csTable'[k].st < csTable'[l].st
        /\ \A k, l \in DOMAIN synchTable' :
             k < l => synchTable'[k].time < synchTable'[l].time
    BY <1>1 DEF StampsInv, StampsOrderEvents
  <2> QED BY <2>4, <2>5, <2>6, <2>7 DEF StampsOrderEvents
<1> QED BY <1>2, <1>3 DEF RecordMem

\* beforeThreadLock appends an open section that begins later than all
\* others.
LEMMA StampsLock ==
  ASSUME StampsInv, TypeOK',
         NEW t \in Tid, NEW site \in Site, NEW m \in Mutex,
         beforeThreadLock(t, site, m)
  PROVE  StampsInPast' /\ StampsOrderEvents'
<1> DEFINE cs == CriticalSection(t, site, m, timestamp')
           n  == Len(csTable) + 1
<1>1. /\ timestamp \in Nat /\ timestamp' = timestamp + 1
      /\ csTable' = Append(csTable, cs)
      /\ UNCHANGED <<maTable, synchTable>>
  BY DEF StampsInv, TypeOK, beforeThreadLock, Tick
<1>2. csTable \in Seq(SectionRow) /\ cs \in SectionRow
      /\ cs.st = timestamp + 1 /\ cs.ft = 0
  BY <1>1 DEF StampsInv, TypeOK, CriticalSection, SectionRow
<1>3. /\ DOMAIN csTable' = 1 .. n
      /\ \A k \in DOMAIN csTable : csTable'[k] = csTable[k]
      /\ csTable'[n] = cs
      /\ DOMAIN csTable = 1 .. n - 1 /\ n \in Nat
  <2> HIDE DEF cs
  <2> QED BY <1>1, <1>2, AppendProperties, LenProperties
<1>4. \A k \in DOMAIN csTable' : k \in DOMAIN csTable \/ k = n
  BY <1>3
<1> HIDE DEF cs, n
<1>5. \A k \in DOMAIN csTable' :
        csTable'[k].st \in 1 .. timestamp' /\ csTable'[k].ft \in 0 .. timestamp'
  BY <1>1, <1>2, <1>3, <1>4 DEF StampsInv, StampsInPast
<1>6. StampsInPast'
  BY <1>1, <1>5 DEF StampsInv, StampsInPast
<1>7. \A u \in Tid : \A i \in DOMAIN maTable'[u] : \A k \in DOMAIN csTable' :
        maTable'[u][i].time \notin {csTable'[k].st, csTable'[k].ft}
  BY <1>1, <1>2, <1>3, <1>4 DEF StampsInv, StampsInPast, StampsOrderEvents
<1>8. \A k, l \in DOMAIN csTable' : k < l => csTable'[k].st < csTable'[l].st
  BY <1>1, <1>2, <1>3, <1>4 DEF StampsInv, StampsInPast, StampsOrderEvents
<1>9. StampsOrderEvents'
  BY <1>1, <1>7, <1>8 DEF StampsInv, StampsOrderEvents
<1> QED BY <1>6, <1>9

\* Finishing a section stamps it later than everything recorded.
LEMMA StampsFinish ==
  ASSUME StampsInv, TypeOK', timestamp' = timestamp + 1,
         UNCHANGED <<maTable, synchTable>>,
         NEW i \in DOMAIN csTable, NEW site, NEW m, FinishSection(i, site, m)
  PROVE  StampsInPast' /\ StampsOrderEvents'
<1>1. timestamp \in Nat /\ csTable \in Seq(SectionRow)
  BY DEF StampsInv, TypeOK
<1>2. /\ DOMAIN csTable' = DOMAIN csTable
      /\ \A k \in DOMAIN csTable : csTable'[k].st = csTable[k].st
      /\ \A k \in DOMAIN csTable \ {i} : csTable'[k].ft = csTable[k].ft
      /\ csTable'[i].ft = timestamp + 1
  <2>1. csTable[i] \in SectionRow
    BY <1>1, ElementOfSeq
  <2>2. DOMAIN csTable' = DOMAIN csTable
    BY DEF FinishSection
  <2>3. \A k \in DOMAIN csTable \ {i} : csTable'[k] = csTable[k]
    BY DEF FinishSection
  <2>4. csTable'[i].st = csTable[i].st /\ csTable'[i].ft = timestamp + 1
    BY <2>1 DEF FinishSection, SectionRow
  <2> QED BY <2>2, <2>3, <2>4
<1>3. StampsInPast'
  <2>1. \A k \in DOMAIN csTable :
          csTable'[k].st \in 1 .. timestamp' /\ csTable'[k].ft \in 0 .. timestamp'
    <3> TAKE k \in DOMAIN csTable
    <3>1. csTable[k].st \in 1 .. timestamp /\ csTable[k].ft \in 0 .. timestamp
      BY DEF StampsInv, StampsInPast
    <3>2. CASE k = i
      BY <1>1, <1>2, <3>1, <3>2
    <3>3. CASE k # i
      BY <1>1, <1>2, <3>1, <3>3
    <3> QED BY <3>2, <3>3
  <2> QED BY <1>1, <1>2, <2>1 DEF StampsInv, StampsInPast
<1>4. \A u \in Tid : \A j \in DOMAIN maTable'[u] : \A k \in DOMAIN csTable' :
        maTable'[u][j].time \notin {csTable'[k].st, csTable'[k].ft}
  <2> SUFFICES ASSUME NEW u \in Tid, NEW j \in DOMAIN maTable[u],
                      NEW k \in DOMAIN csTable
               PROVE  maTable[u][j].time \notin {csTable'[k].st, csTable'[k].ft}
    BY <1>2
  <2>1. /\ maTable[u][j].time \notin {csTable[k].st, csTable[k].ft}
        /\ maTable[u][j].time \in 1 .. timestamp
    BY DEF StampsInv, StampsInPast, StampsOrderEvents
  <2>2. CASE k = i
    BY <1>1, <1>2, <2>1, <2>2
  <2>3. CASE k # i
    BY <1>2, <2>1, <2>3
  <2> QED BY <2>2, <2>3
<1>5. StampsOrderEvents'
  BY <1>2, <1>4 DEF StampsInv, StampsOrderEvents
<1> QED BY <1>3, <1>5

\* afterThreadSynch appends the latest synchronization.
LEMMA StampsSynch ==
  ASSUME StampsInv, TypeOK',
         NEW t \in Tid, NEW type \in PauseTypes \cup WaitTypes,
         afterThreadSynch(t, type)
  PROVE  StampsInPast' /\ StampsOrderEvents'
<1> DEFINE s == Synch(type, t, timestamp')
           n == Len(synchTable) + 1
<1>1. /\ timestamp \in Nat /\ timestamp' = timestamp + 1
      /\ synchTable' = Append(synchTable, s)
      /\ UNCHANGED <<maTable, csTable>>
  BY DEF StampsInv, TypeOK, afterThreadSynch, Tick
<1>2. synchTable \in Seq(SynchRow) /\ s \in SynchRow /\ s.time = timestamp + 1
  BY <1>1 DEF StampsInv, TypeOK, Synch, SynchRow
<1>3. /\ DOMAIN synchTable' = 1 .. n
      /\ \A k \in DOMAIN synchTable : synchTable'[k] = synchTable[k]
      /\ synchTable'[n] = s
      /\ DOMAIN synchTable = 1 .. n - 1 /\ n \in Nat
  <2> HIDE DEF s
  <2> QED BY <1>1, <1>2, AppendProperties, LenProperties
<1>4. \A k \in DOMAIN synchTable' : k \in DOMAIN synchTable \/ k = n
  BY <1>3
<1> HIDE DEF s, n
<1>5. StampsInPast'
  BY <1>1, <1>2, <1>3, <1>4 DEF StampsInv, StampsInPast
<1>6. \A u \in Tid : \A i \in DOMAIN maTable'[u] : \A k \in DOMAIN synchTable' :
        maTable'[u][i].time # synchTable'[k].time
  BY <1>1, <1>2, <1>3, <1>4 DEF StampsInv, StampsInPast, StampsOrderEvents
<1>7. \A k, l \in DOMAIN synchTable' :
        k < l => synchTable'[k].time < synchTable'[l].time
  BY <1>1, <1>2, <1>3, <1>4 DEF StampsInv, StampsInPast, StampsOrderEvents
<1>8. StampsOrderEvents'
  BY <1>1, <1>6, <1>7 DEF StampsInv, StampsOrderEvents
<1> QED BY <1>5, <1>8

\* Fini erases sections without reordering the others, and keeps the stamps.
LEMMA StampsFini ==
  ASSUME StampsInv, TypeOK', Fini
  PROVE  StampsInPast' /\ StampsOrderEvents'
<1> DEFINE kept == KeptSections(csTable, maTable)
<1>1. PICK f \in [1 .. Cardinality(kept) -> kept] : EraseSections(f)
  BY DEF Fini
<1>2. /\ maTable \in [Tid -> Seq(MemRow)] /\ csTable \in Seq(SectionRow)
      /\ csTable' \in Seq(SectionRow)
      /\ UNCHANGED <<timestamp, synchTable>>
  BY DEF StampsInv, TypeOK, Fini
<1>3. Cardinality(kept) \in Nat /\ \A k \in DOMAIN csTable' :
        f[k] \in DOMAIN csTable /\ csTable'[k] = csTable[f[k]]
  BY <1>1, <1>2, KeptCount DEF EraseSections
<1>4. \A k, l \in DOMAIN csTable' : k < l => f[k] < f[l]
  BY <1>1 DEF EraseSections
<1>5. \A t \in Tid : /\ DOMAIN maTable'[t] = DOMAIN maTable[t]
                     /\ \A j \in DOMAIN maTable[t] :
                          maTable'[t][j].time = maTable[t][j].time
  <2> TAKE t \in Tid
  <2>1. \A j \in DOMAIN maTable[t] :
          Annotate(maTable[t][j], csTable').time = maTable[t][j].time
    BY <1>2, AnnotateType, ElementOfSeq
  <2>2. CASE t < threadExisted
    <3>1. maTable'[t] = [j \in DOMAIN maTable[t] |-> Annotate(maTable[t][j], csTable')]
      BY <2>2 DEF Fini
    <3> QED BY <2>1, <3>1
  <2>3. CASE ~(t < threadExisted)
    BY <2>3 DEF Fini
  <2> QED BY <2>2, <2>3
<1> HIDE DEF kept
<1>6. StampsInPast'
  BY <1>2, <1>3, <1>5 DEF StampsInv, StampsInPast
<1>7. \A k, l \in DOMAIN csTable' : k < l => csTable'[k].st < csTable'[l].st
  BY <1>3, <1>4 DEF StampsInv, StampsOrderEvents
<1>8. \A t \in Tid : \A i \in DOMAIN maTable'[t] :
        /\ \A k \in DOMAIN csTable' :
             maTable'[t][i].time \notin {csTable'[k].st, csTable'[k].ft}
        /\ \A k \in DOMAIN synchTable' :
             maTable'[t][i].time # synchTable'[k].time
  <2> TAKE t \in Tid
  <2> TAKE i \in DOMAIN maTable'[t]
  <2>1. i \in DOMAIN maTable[t] /\ maTable'[t][i].time = maTable[t][i].time
    BY <1>5
  <2>2. ASSUME NEW k \in DOMAIN csTable'
        PROVE  maTable'[t][i].time \notin {csTable'[k].st, csTable'[k].ft}
    BY <1>3, <2>1 DEF StampsInv, StampsOrderEvents
  <2>3. ASSUME NEW k \in DOMAIN synchTable'
        PROVE  maTable'[t][i].time # synchTable'[k].time
    BY <1>2, <2>1 DEF StampsInv, StampsOrderEvents
  <2> QED BY <2>2, <2>3
<1>9. \A t, u \in Tid : \A i \in DOMAIN maTable'[t], j \in DOMAIN maTable'[u] :
        /\ maTable'[t][i].time = maTable'[u][j].time => t = u /\ i = j
        /\ t = u /\ i < j => maTable'[t][i].time < maTable'[u][j].time
  BY <1>5 DEF StampsInv, StampsOrderEvents
<1>10. \A k, l \in DOMAIN synchTable' :
         k < l => synchTable'[k].time < synchTable'[l].time
  BY <1>2 DEF StampsInv, StampsOrderEvents
<1>11. StampsOrderEvents'
  BY <1>7, <1>8, <1>9, <1>10 DEF StampsOrderEvents
<1> QED BY <1>6, <1>11

\* Every step keeps the stamps identifying, in order and in the past.
LEMMA StampsStep == StampsInv /\ [Next]_vars => StampsInv'
<1> SUFFICES ASSUME StampsInv, [Next]_vars PROVE StampsInv'
  OBVIOUS
<1>1. TypeOK'
  BY TypeStep DEF StampsInv
<1> SUFFICES StampsInPast' /\ StampsOrderEvents'
  BY <1>1 DEF StampsInv
<1>2. timestamp \in Nat
  BY DEF StampsInv, TypeOK
<1>3. ASSUME NEW t \in Tid, TargetStep(t)
      PROVE  timestamp' = timestamp /\ UNCHANGED <<maTable, csTable, synchTable>>
  BY <1>3 DEF TargetStep, CreateThread, ExecMemAccess, AcquireMutex,
              ReleaseMutex, TrylockMutex, CondWait, CondWake, tool
<1>4. ASSUME NEW t \in Tid, ThreadStart(t) \/ ThreadFini(t) \/ afterThreadCreate(t)
      PROVE  timestamp' = timestamp /\ UNCHANGED <<maTable, csTable, synchTable>>
  BY <1>4 DEF ThreadStart, ThreadFini, afterThreadCreate
<1>5. ASSUME NEW t \in Tid, UnLockAborts(t)
      PROVE  timestamp' = timestamp + 1 /\ UNCHANGED <<maTable, csTable, synchTable>>
  BY <1>5 DEF UnLockAborts, Tick
<1>6. ASSUME NEW t \in Tid, NEW site \in Site, NEW m \in Mutex,
             beforeThreadUnLock(t, site, m)
      PROVE  StampsInPast' /\ StampsOrderEvents'
  <2>1. timestamp' = timestamp + 1 /\ UNCHANGED <<maTable, synchTable>>
    BY <1>6 DEF beforeThreadUnLock, Tick
  <2>2. CASE UNCHANGED csTable
    BY <1>1, <2>1, <2>2, StampsSameTables
  <2>3. CASE \E i \in DOMAIN csTable : FinishSection(i, site, m)
    BY <1>1, <2>1, <2>3, StampsFinish
  <2> QED BY <1>6, <2>2, <2>3 DEF beforeThreadUnLock, MatchUnlock
<1>7. ASSUME NEW t \in Tid, Callback(t) PROVE StampsInPast' /\ StampsOrderEvents'
  BY <1>1, <1>4, <1>5, <1>6, <1>7, StampsSameTables, StampsRecordMem, StampsLock,
     StampsSynch DEF Callback, RecordMemRead, RecordMemWrite
<1>8. CASE UNCHANGED vars
  BY <1>1, <1>8, StampsSameTables DEF vars, tool
<1>9. CASE Fini
  BY <1>1, <1>9, StampsFini
<1>10. ASSUME NEW t \in Tid, TargetStep(t) PROVE StampsInPast' /\ StampsOrderEvents'
  BY <1>1, <1>3, <1>10, StampsSameTables
<1> QED BY <1>7, <1>8, <1>9, <1>10 DEF Next

\* In every run of every target, the stamps of the three tables identify the
\* recorded events and list them in order, after Fini too.
THEOREM StampsCorrect == Spec => []StampsOrderEvents
<1>1. Init => StampsInv
  BY TypeInit, StampsInit DEF StampsInv
<1>2. StampsInv => StampsOrderEvents
  BY DEF StampsInv
<1> QED BY <1>1, <1>2, StampsStep, PTL DEF Spec

-----------------------------------------------------------------------------
(* Rows.                                                                   *)

\* A row of maTable belongs to one thread, which has been counted.
RowsInv ==
  /\ \A t \in Tid : phase[t] # "unborn" => t < threadExisted
  /\ \A t \in Tid : maTable[t] # <<>> => phase[t] # "unborn"
  /\ \A t \in Tid : \A j \in DOMAIN maTable[t] : maTable[t][j].tid = t

\* The rows are empty at first.
LEMMA RowsInit == Init => RowsInv
BY DEF Init, RowsInv

\* An access goes into the row of the running thread that makes it.
LEMMA RowsRecordMem ==
  ASSUME TypeOK, TypeOK', RowsInv,
         NEW t \in Tid, phase[t] = "running",
         NEW op, NEW inst \in Inst, NEW addr \in Addr, RecordMem(t, op, inst, addr)
  PROVE  RowsInv'
<1> DEFINE a == MemAccess(op, inst, addr, t, timestamp')
<1>1. UNCHANGED <<phase, threadExisted>>
  BY DEF RecordMem
<1>2. CASE UNCHANGED maTable
  BY <1>1, <1>2 DEF RowsInv
<1>3. CASE maTable' = [maTable EXCEPT ![t] = Append(@, a)]
  <2>1. maTable \in [Tid -> Seq(MemRow)] /\ a \in MemRow /\ a.tid = t
    <3>1. op \in {"R", "W"} /\ timestamp' \in Nat
      BY TracerAssumption DEF RecordMem, TypeOK, Tick
    <3> QED BY <3>1, TracerAssumption DEF MemAccess, MemRow, TypeOK
  <2> HIDE DEF a
  <2>2. \A u \in Tid : \A j \in DOMAIN maTable'[u] :
          \/ j \in DOMAIN maTable[u] /\ maTable'[u][j] = maTable[u][j]
          \/ u = t /\ maTable'[u][j] = a
    <3> TAKE u \in Tid
    <3>1. CASE u # t
      BY <1>3, <2>1, <3>1
    <3>2. CASE u = t
      <4>1. maTable'[u] = Append(maTable[u], a) /\ maTable[u] \in Seq(MemRow)
        BY <1>3, <2>1, <3>2
      <4> QED BY <2>1, <3>2, <4>1, AppendProperties, LenProperties
    <3> QED BY <3>1, <3>2
  <2>3. \A u \in Tid : u # t => maTable'[u] = maTable[u]
    BY <1>3, <2>1
  <2> QED BY <1>1, <2>1, <2>2, <2>3 DEF RowsInv
<1> QED BY <1>2, <1>3 DEF RecordMem

\* Fini keeps every row, and the thread in each of its accesses.
LEMMA RowsFini ==
  ASSUME TypeOK, TypeOK', RowsInv, Fini
  PROVE  RowsInv'
<1>1. UNCHANGED <<phase, threadExisted>>
  BY DEF Fini
<1>2. maTable \in [Tid -> Seq(MemRow)] /\ csTable' \in Seq(SectionRow)
  BY DEF TypeOK
<1>3. \A t \in Tid : \/ maTable'[t] = maTable[t]
                     \/ maTable'[t] = [j \in DOMAIN maTable[t] |->
                                         Annotate(maTable[t][j], csTable')]
  BY DEF Fini
<1>4. \A t \in Tid : \A j \in DOMAIN maTable'[t] : maTable'[t][j].tid = t
  <2> TAKE t \in Tid
  <2>1. \A j \in DOMAIN maTable[t] :
          Annotate(maTable[t][j], csTable').tid = maTable[t][j].tid
    BY <1>2, AnnotateType, ElementOfSeq
  <2>2. CASE maTable'[t] = maTable[t]
    BY <2>2 DEF RowsInv
  <2>3. CASE maTable'[t] = [j \in DOMAIN maTable[t] |->
                              Annotate(maTable[t][j], csTable')]
    BY <2>1, <2>3 DEF RowsInv
  <2> QED BY <1>3, <2>2, <2>3
<1>5. \A t \in Tid : maTable[t] = <<>> => maTable'[t] = <<>>
  <2> SUFFICES ASSUME NEW t \in Tid, maTable[t] = <<>> PROVE maTable'[t] = <<>>
    OBVIOUS
  <2>1. maTable'[t] \in Seq(MemRow)
    BY DEF TypeOK
  <2>2. DOMAIN maTable[t] = {}
    OBVIOUS
  <2>3. DOMAIN maTable'[t] = {}
    BY <1>3, <2>2
  <2> DEFINE row == maTable'[t]
  <2> HIDE DEF row
  <2>4. Len(row) = 0
    <3>1. Len(row) \in Nat /\ DOMAIN row = 1 .. Len(row)
      BY <2>1, LenProperties DEF row
    <3>2. 1 \notin DOMAIN row
      BY <2>3 DEF row
    <3> QED BY <3>1, <3>2
  <2> QED BY <2>1, <2>4, EmptySeq DEF row
<1> QED BY <1>1, <1>4, <1>5 DEF RowsInv

\* Every step keeps the rows in order.
LEMMA RowsStep == TypeOK /\ TypeOK' /\ RowsInv /\ [Next]_vars => RowsInv'
<1> SUFFICES ASSUME TypeOK, TypeOK', RowsInv, [Next]_vars PROVE RowsInv'
  OBVIOUS
<1>1. CASE UNCHANGED <<maTable, threadExisted, phase>>
  BY <1>1 DEF RowsInv
<1>2. ASSUME NEW t \in Tid, TargetStep(t)
      PROVE  UNCHANGED <<maTable, threadExisted, phase>>
  BY <1>2 DEF TargetStep, CreateThread, ExecMemAccess, AcquireMutex,
              ReleaseMutex, TrylockMutex, CondWait, CondWake, tool
<1>3. ASSUME NEW t \in Tid, ThreadStart(t) PROVE RowsInv'
  <2>1. /\ threadExisted \in Nat /\ threadExisted' = threadExisted + 1
        /\ t = threadExisted /\ maTable' = maTable
        /\ phase \in [Tid -> {"unborn", "running", "done"}]
        /\ phase' = [phase EXCEPT ![t] = "running"]
    BY <1>3 DEF ThreadStart, TypeOK
  <2>2. \A u \in Tid : u < threadExisted => u < threadExisted'
    BY <2>1 DEF Tid
  <2>3. \A u \in Tid : phase'[u] = phase[u] \/ (u = t /\ phase'[u] = "running")
    BY <2>1
  <2>4. \A u \in Tid : phase'[u] # "unborn" => u < threadExisted'
    <3>1. t < threadExisted'
      BY <2>1
    <3>2. \A u \in Tid : phase[u] # "unborn" => u < threadExisted
      BY DEF RowsInv
    <3> QED BY <2>2, <2>3, <3>1, <3>2
  <2>5. \A u \in Tid : maTable'[u] # <<>> => phase'[u] # "unborn"
    <3>1. \A u \in Tid : maTable[u] # <<>> => phase[u] # "unborn"
      BY DEF RowsInv
    <3> QED BY <2>1, <2>3, <3>1
  <2>6. \A u \in Tid : \A j \in DOMAIN maTable'[u] : maTable'[u][j].tid = u
    BY <2>1 DEF RowsInv
  <2> QED BY <2>4, <2>5, <2>6 DEF RowsInv
<1>4. ASSUME NEW t \in Tid, ThreadFini(t) PROVE RowsInv'
  <2>1. phase[t] = "running" /\ phase \in [Tid -> {"unborn", "running", "done"}]
    BY <1>4 DEF ThreadFini, Ready, Running, TypeOK
  <2> QED BY <1>4, <2>1 DEF ThreadFini, RowsInv
<1>5. ASSUME NEW t \in Tid, NEW inst \in Inst, NEW addr \in Addr,
             RecordMemRead(t, inst, addr) \/ RecordMemWrite(t, inst, addr)
      PROVE  RowsInv'
  <2>1. phase[t] = "running"
    BY <1>5 DEF RecordMemRead, RecordMemWrite, Ready, Doing, Running
  <2> QED BY <1>5, <2>1, RowsRecordMem DEF RecordMemRead, RecordMemWrite
<1>6. ASSUME NEW t \in Tid,
             \/ afterThreadCreate(t)
             \/ \E site \in Site, m \in Mutex : beforeThreadLock(t, site, m)
             \/ \E site \in Site, m \in Mutex : beforeThreadUnLock(t, site, m)
             \/ UnLockAborts(t)
             \/ \E type \in PauseTypes \cup WaitTypes : afterThreadSynch(t, type)
      PROVE  UNCHANGED <<maTable, threadExisted, phase>>
  BY <1>6 DEF afterThreadCreate, beforeThreadLock, beforeThreadUnLock,
              UnLockAborts, afterThreadSynch
<1>7. ASSUME NEW t \in Tid, Callback(t) PROVE RowsInv'
  BY <1>1, <1>3, <1>4, <1>5, <1>6, <1>7 DEF Callback
<1>8. CASE UNCHANGED vars
  BY <1>1, <1>8 DEF vars, tool, target
<1>9. CASE Fini
  BY <1>9, RowsFini
<1> QED BY <1>1, <1>2, <1>7, <1>8, <1>9 DEF Next

\* Whatever is recorded lies in a row that the loops of Fini and of the
\* analysis visit, and in the row of the thread that did it.
THEOREM RowsCorrect == Spec => [](RowsAreScanned /\ RowsInv)
<1>1. RowsInv => RowsAreScanned
  BY DEF RowsInv, RowsAreScanned
<1> QED BY <1>1, TypeInit, TypeStep, RowsInit, RowsStep, PTL DEF Spec

-----------------------------------------------------------------------------
(* Logging. *)

\* Until a thread finishes both counters agree, and once two threads exist,
\* or one more has been created that has not shown up yet, logging is on or
\* the call of pthread_create that turns it on has not returned.
LoggingInv ==
  status = "running" /\ (\A t \in Tid : phase[t] # "done") =>
    /\ threadNum = threadExisted
    /\ threadExisted + nascent >= 2 => logging_start \/ Creating

\* One thread exists at first, and has not shown up.
LEMMA LoggingInit == Init => LoggingInv
BY DEF Init, LoggingInv

\* Only pthread_create makes a second thread, and only its return ends it.
LEMMA LoggingStep == TypeOK /\ RowsInv /\ LoggingInv /\ [Next]_vars => LoggingInv'
<1> SUFFICES ASSUME TypeOK, RowsInv, LoggingInv, [Next]_vars PROVE LoggingInv'
  OBVIOUS
<1>1. /\ threadExisted \in Nat /\ nascent \in Nat
      /\ phase \in [Tid -> {"unborn", "running", "done"}] /\ pend \in [Tid -> OpRow]
  BY DEF TypeOK
\* What changes no counter and completes no creation keeps the invariant.
<1>2. ASSUME UNCHANGED <<threadNum, threadExisted, nascent, phase, logging_start>>,
             status' = status,
             \A u \in Tid : pend[u].kind = "create" => pend'[u].kind = "create"
      PROVE  LoggingInv'
  <2>1. Creating => Creating'
    BY <1>2 DEF Creating, Doing, Running
  <2> QED BY <1>2, <2>1 DEF LoggingInv
<1>3. ASSUME NEW t \in Tid, CreateThread(t) PROVE LoggingInv'
  <2>1. /\ status' = "running" /\ phase'[t] = "running"
        /\ pend' = [pend EXCEPT ![t] = Op("create", None, None, timestamp)]
        /\ UNCHANGED <<threadNum, threadExisted, phase>> /\ status = status'
    BY <1>3 DEF CreateThread, Ready, Running, tool
  <2>2. pend'[t].kind = "create"
    BY <1>1, <2>1 DEF Op
  <2>3. Creating'
    BY <2>1, <2>2 DEF Creating, Doing, Running
  <2> QED BY <2>1, <2>3 DEF LoggingInv
<1>4. ASSUME NEW t \in Tid,
             \/ ExecMemAccess(t) \/ AcquireMutex(t) \/ ReleaseMutex(t) \/ CondWake(t)
             \/ \E m \in Mutex : TrylockMutex(t, m) \/ CondWait(t, m)
      PROVE  LoggingInv'
  <2>1. /\ UNCHANGED <<threadNum, threadExisted, nascent, phase, logging_start>>
        /\ status' = status
    BY <1>4 DEF ExecMemAccess, AcquireMutex, ReleaseMutex, CondWake, TrylockMutex,
                CondWait, tool
  <2>2. pend[t].kind # "create"
    BY <1>4 DEF ExecMemAccess, AcquireMutex, ReleaseMutex, CondWake, TrylockMutex,
                CondWait, Ready, Doing, Idle, Op
  <2>3. \A u \in Tid : u # t => pend'[u] = pend[u]
    BY <1>1, <1>4 DEF ExecMemAccess, AcquireMutex, ReleaseMutex, CondWake,
                      TrylockMutex, CondWait, Complete
  <2> QED BY <1>2, <2>1, <2>2, <2>3
<1>5. ASSUME NEW t \in Tid, ThreadStart(t) PROVE LoggingInv'
  <2>1. /\ threadExisted' = threadExisted + 1 /\ threadNum' = threadNum + 1
        /\ nascent' = nascent - 1 /\ nascent > 0 /\ t = threadExisted
        /\ phase' = [phase EXCEPT ![t] = "running"]
        /\ UNCHANGED <<logging_start, pend, status>>
    BY <1>5 DEF ThreadStart
  <2>2. phase[t] = "unborn"
    BY <1>1, <2>1 DEF RowsInv
  <2>3. (\A u \in Tid : phase'[u] # "done") => \A u \in Tid : phase[u] # "done"
    BY <1>1, <2>1, <2>2
  <2>4. Creating => Creating'
    <3>1. \A u \in Tid : phase[u] = "running" => phase'[u] = "running"
      BY <1>1, <2>1
    <3> QED BY <2>1, <3>1 DEF Creating, Doing, Running
  <2>5. threadExisted' + nascent' = threadExisted + nascent
    BY <1>1, <2>1
  <2>6. SUFFICES ASSUME status = "running", \A u \in Tid : phase[u] # "done"
                 PROVE  /\ threadNum' = threadExisted'
                        /\ threadExisted' + nascent' >= 2 => logging_start \/ Creating'
    BY <2>1, <2>3 DEF LoggingInv
  <2>7. /\ threadNum = threadExisted
        /\ threadExisted + nascent >= 2 => logging_start \/ Creating
    BY <2>6 DEF LoggingInv
  <2> QED BY <2>1, <2>4, <2>5, <2>7
<1>6. ASSUME NEW t \in Tid, ThreadFini(t) PROVE LoggingInv'
  <2>1. phase'[t] = "done"
    BY <1>1, <1>6 DEF ThreadFini
  <2> QED BY <2>1 DEF LoggingInv
<1>7. ASSUME NEW t \in Tid, afterThreadCreate(t) PROVE LoggingInv'
  <2>1. /\ UNCHANGED <<threadNum, threadExisted, phase, status, nascent>>
        /\ logging_start' = TRUE
    BY <1>7 DEF afterThreadCreate
  <2> QED BY <2>1 DEF LoggingInv
<1>8. ASSUME NEW t \in Tid,
             \/ \E inst \in Inst, addr \in Addr :
                  RecordMemRead(t, inst, addr) \/ RecordMemWrite(t, inst, addr)
             \/ \E site \in Site, m \in Mutex :
                  beforeThreadLock(t, site, m) \/ beforeThreadUnLock(t, site, m)
             \/ \E type \in PauseTypes \cup WaitTypes : afterThreadSynch(t, type)
      PROVE  LoggingInv'
  <2>1. /\ UNCHANGED <<threadNum, threadExisted, nascent, phase, logging_start>>
        /\ status' = status
    BY <1>8 DEF RecordMemRead, RecordMemWrite, RecordMem, beforeThreadLock,
                beforeThreadUnLock, afterThreadSynch
  <2>2. pend[t].kind # "create"
    BY <1>8 DEF RecordMemRead, RecordMemWrite, beforeThreadLock,
                beforeThreadUnLock, afterThreadSynch, CanUnlock, Ready, Doing, Idle, Op
  <2>3. \A u \in Tid : u # t => pend'[u] = pend[u]
    BY <1>1, <1>8 DEF RecordMemRead, RecordMemWrite, RecordMem, beforeThreadLock,
                      beforeThreadUnLock, afterThreadSynch, Complete, Begin
  <2> QED BY <1>2, <2>1, <2>2, <2>3
<1>9. ASSUME NEW t \in Tid, UnLockAborts(t) PROVE LoggingInv'
  BY <1>9 DEF UnLockAborts, LoggingInv
<1>10. CASE Fini
  BY <1>10 DEF Fini, LoggingInv
<1>11. CASE UNCHANGED vars
  BY <1>2, <1>11 DEF vars, tool, target
<1>12. ASSUME NEW t \in Tid, TargetStep(t) PROVE LoggingInv'
  BY <1>3, <1>4, <1>12 DEF TargetStep
<1>13. ASSUME NEW t \in Tid, Callback(t) PROVE LoggingInv'
  BY <1>5, <1>6, <1>7, <1>8, <1>9, <1>13 DEF Callback
<1> QED BY <1>10, <1>11, <1>12, <1>13 DEF Next

\* As long as no thread has finished, two threads are never both running and
\* unlogged, but while pthread_create has not returned.
THEOREM LoggingCorrect == Spec => []LoggedUntilFini
<1>1. TypeOK /\ LoggingInv => LoggedUntilFini
  <2> SUFFICES ASSUME TypeOK, LoggingInv, status = "running", threadNum >= 2,
                      ~Creating, \A t \in Tid : phase[t] # "done"
               PROVE  logging_start
    BY DEF LoggedUntilFini
  <2>1. threadNum = threadExisted /\ threadExisted + nascent >= 2
    BY DEF LoggingInv, TypeOK
  <2> QED BY <2>1 DEF LoggingInv
<1> QED BY <1>1, TypeInit, TypeStep, RowsInit, RowsStep, LoggingInit, LoggingStep,
           PTL DEF Spec
=============================================================================
