--------------------------- MODULE MonitorProofs ---------------------------
(***************************************************************************)
(* The monitor tool and the tracing tool: read as tables, the files of the *)
(* monitor are at every moment what the tables of the tracing tool would   *)
(* be.                                                                     *)
(***************************************************************************)
EXTENDS Monitor, SequenceTheorems, FiniteSetTheorems, WellFoundedInduction,
        TLAPS

\* What is proved of the tracing tool, of the tables read from the files.
P == INSTANCE SectionProofs

-----------------------------------------------------------------------------
(* Reading a file line by line. *)

\* The two ways of reading, as one.
Empty(file) ==
  IF file = "mem_access" THEN [t \in 0 .. NumThreads - 1 |-> <<>>] ELSE <<>>
Take(file, table, l) ==
  IF file = "mem_access" THEN Row(table, l) ELSE Match(table, l)

\* f[k] is the table after k lines.
Reads(file, f, lines, n) ==
  f = [k \in 0 .. n |-> IF k = 0 THEN Empty(file)
                        ELSE Take(file, f[k - 1], lines[k])]

\* A file of any length can be read.
LEMMA ReadingExists ==
  ASSUME NEW file, NEW lines, NEW n \in Nat
  PROVE  \E f : Reads(file, f, lines, n)
<1> DEFINE Stuck == {m \in Nat : ~ \E f : Reads(file, f, lines, m)}
<1>1. SUFFICES ASSUME Stuck # {} PROVE FALSE
  OBVIOUS
<1>2. PICK m \in Stuck : \A o \in Stuck : ~ (<<o, m>> \in OpToRel(<, Nat))
  <2>1. Stuck \subseteq Nat
    OBVIOUS
  <2> HIDE DEF Stuck
  <2> QED BY <1>1, <2>1, NatLessThanWellFounded, WFMin
<1>3. m \in Nat /\ ~ \E f : Reads(file, f, lines, m)
  OBVIOUS
<1>4. CASE m = 0
  <2> DEFINE f == [k \in 0 .. 0 |-> Empty(file)]
  <2>1. f = [k \in 0 .. 0 |-> IF k = 0 THEN Empty(file)
                              ELSE Take(file, f[k - 1], lines[k])]
    <3>1. \A k \in 0 .. 0 : k = 0
      OBVIOUS
    <3> QED BY <3>1
  <2>2. Reads(file, f, lines, m)
    BY <1>4, <2>1 DEF Reads
  <2> QED BY <1>3, <2>2
<1>5. CASE m > 0
  <2>1. m - 1 \in Nat /\ m - 1 < m
    BY <1>3, <1>5
  <2>2. PICK f : Reads(file, f, lines, m - 1)
    <3>1. m - 1 \notin Stuck
      BY <1>2, <1>3, <2>1 DEF OpToRel
    <3> QED BY <2>1, <3>1
  <2> DEFINE g == [k \in 0 .. m |-> IF k < m THEN f[k] ELSE Take(file, f[m - 1], lines[m])]
  <2>3. \A k \in 0 .. m - 1 : f[k] = IF k = 0 THEN Empty(file)
                                     ELSE Take(file, f[k - 1], lines[k])
    BY <2>2 DEF Reads
  <2>4. \A k \in 0 .. m : g[k] = IF k = 0 THEN Empty(file)
                                 ELSE Take(file, g[k - 1], lines[k])
    <3> SUFFICES ASSUME NEW k \in 0 .. m
                 PROVE  g[k] = IF k = 0 THEN Empty(file)
                               ELSE Take(file, g[k - 1], lines[k])
      OBVIOUS
    <3>1. CASE k < m
      <4>1. k \in 0 .. m - 1 /\ (k # 0 => k - 1 \in 0 .. m /\ k - 1 < m)
        BY <1>3, <3>1
      <4>2. g[k] = f[k] /\ (k # 0 => g[k - 1] = f[k - 1])
        BY <3>1, <4>1
      <4> HIDE DEF g
      <4> QED BY <2>3, <4>1, <4>2
    <3>2. CASE k = m
      <4>1. m - 1 \in 0 .. m /\ m - 1 < m /\ ~(m < m) /\ m # 0
        BY <1>3, <1>5
      <4>2. g[m - 1] = f[m - 1] /\ g[m] = Take(file, f[m - 1], lines[m])
        BY <4>1
      <4> HIDE DEF g
      <4> QED BY <3>2, <4>1, <4>2
    <3> QED BY <1>3, <3>1, <3>2
  <2>5. g = [k \in 0 .. m |-> g[k]]
    OBVIOUS
  <2> HIDE DEF g
  <2>6. g = [k \in 0 .. m |-> IF k = 0 THEN Empty(file)
                              ELSE Take(file, g[k - 1], lines[k])]
    BY <2>4, <2>5
  <2>7. Reads(file, g, lines, m)
    BY <2>6 DEF Reads
  <2> QED BY <1>3, <2>7
<1> QED BY <1>3, <1>4, <1>5

Begins(more, lines, n) == \A k \in 1 .. n : more[k] = lines[k]

\* Later lines do not change what the first ones were read as.
LEMMA ReadingAgrees ==
  ASSUME NEW file, NEW lines, NEW more, NEW n \in Nat, NEW o \in Nat, n <= o,
         Begins(more, lines, n), NEW f, Reads(file, f, lines, n), NEW g, Reads(file, g, more, o)
  PROVE  \A k \in 0 .. n : g[k] = f[k]
<1> DEFINE Wrong == {k \in 0 .. n : g[k] # f[k]}
<1>1. SUFFICES ASSUME Wrong # {} PROVE FALSE
  OBVIOUS
<1>2. PICK m \in Wrong : \A k \in Wrong : ~ (<<k, m>> \in OpToRel(<, Nat))
  <2>1. Wrong \subseteq Nat
    OBVIOUS
  <2> HIDE DEF Wrong
  <2> QED BY <1>1, <2>1, NatLessThanWellFounded, WFMin
<1>3. m \in 0 .. n /\ g[m] # f[m]
  OBVIOUS
<1>4. f[m] = IF m = 0 THEN Empty(file) ELSE Take(file, f[m - 1], lines[m])
  BY <1>3 DEF Reads
<1>5. g[m] = IF m = 0 THEN Empty(file) ELSE Take(file, g[m - 1], more[m])
  <2>1. m \in 0 .. o
    BY <1>3
  <2> QED BY <2>1 DEF Reads
<1>6. CASE m = 0
  BY <1>3, <1>4, <1>5, <1>6
<1>7. CASE m # 0
  <2>1. m - 1 \in 0 .. n /\ m - 1 < m /\ m \in 1 .. n /\ m \in Nat /\ m - 1 \in Nat
    BY <1>3, <1>7
  <2>2. m - 1 \notin Wrong
    BY <1>2, <2>1 DEF OpToRel
  <2>3. g[m - 1] = f[m - 1]
    BY <2>1, <2>2
  <2> QED BY <1>3, <1>4, <1>5, <1>7, <2>1, <2>3 DEF Begins
<1> QED BY <1>6, <1>7

\* The table read from a file, whichever of the two it is.
LEMMA WhatIsRead ==
  ASSUME NEW lines, Len(lines) \in Nat
  PROVE  /\ \E f : Reads("mem_access", f, lines, Len(lines))
                     /\ RowsOf(lines) = f[Len(lines)]
         /\ \E f : Reads("lock", f, lines, Len(lines))
                     /\ SectionsOf(lines) = f[Len(lines)]
<1>1. \E f : f = [k \in 0 .. Len(lines) |->
                    IF k = 0 THEN [t \in 0 .. NumThreads - 1 |-> <<>>]
                             ELSE Row(f[k - 1], lines[k])]
  <2>1. PICK f : Reads("mem_access", f, lines, Len(lines))
    BY ReadingExists
  <2> QED BY <2>1 DEF Reads, Empty, Take
<1>2. \E f : f = [k \in 0 .. Len(lines) |->
                    IF k = 0 THEN <<>> ELSE Match(f[k - 1], lines[k])]
  <2>1. PICK f : Reads("lock", f, lines, Len(lines))
    BY ReadingExists
  <2> QED BY <2>1 DEF Reads, Empty, Take
<1> DEFINE u == CHOOSE f : f = [k \in 0 .. Len(lines) |->
                    IF k = 0 THEN [t \in 0 .. NumThreads - 1 |-> <<>>]
                             ELSE Row(f[k - 1], lines[k])]
           v == CHOOSE f : f = [k \in 0 .. Len(lines) |->
                    IF k = 0 THEN <<>> ELSE Match(f[k - 1], lines[k])]
<1>3. RowsOf(lines) = u[Len(lines)] /\ SectionsOf(lines) = v[Len(lines)]
  BY DEF RowsOf, SectionsOf
<1>4. u = [k \in 0 .. Len(lines) |->
             IF k = 0 THEN [t \in 0 .. NumThreads - 1 |-> <<>>]
                      ELSE Row(u[k - 1], lines[k])]
  BY <1>1
<1>5. v = [k \in 0 .. Len(lines) |->
             IF k = 0 THEN <<>> ELSE Match(v[k - 1], lines[k])]
  BY <1>2
<1> HIDE DEF u, v
<1>6. Reads("mem_access", u, lines, Len(lines)) /\ Reads("lock", v, lines, Len(lines))
  BY <1>4, <1>5 DEF Reads, Empty, Take
<1> QED BY <1>3, <1>6

\* Empty files are empty tables.
LEMMA NothingRead ==
  RowsOf(<<>>) = [t \in 0 .. NumThreads - 1 |-> <<>>] /\ SectionsOf(<<>>) = <<>>
<1>1. Len(<<>>) = 0
  OBVIOUS
<1>2. PICK f : Reads("mem_access", f, <<>>, 0) /\ RowsOf(<<>>) = f[0]
  BY <1>1, WhatIsRead
<1>3. PICK g : Reads("lock", g, <<>>, 0) /\ SectionsOf(<<>>) = g[0]
  BY <1>1, WhatIsRead
<1> QED BY <1>2, <1>3 DEF Reads, Empty

\* One more line is one more step of reading.
LEMMA OneMoreLine ==
  ASSUME NEW S, NEW lines \in Seq(S), NEW l \in S
  PROVE  /\ RowsOf(Append(lines, l)) = Row(RowsOf(lines), l)
         /\ SectionsOf(Append(lines, l)) = Match(SectionsOf(lines), l)
<1> DEFINE n == Len(lines)
           more == Append(lines, l)
<1>1. /\ n \in Nat /\ Len(more) = n + 1 /\ more[n + 1] = l
      /\ Begins(more, lines, n)
  BY AppendProperties, LenProperties DEF Begins
<1> HIDE DEF n, more
<1>2. ASSUME NEW file, NEW f, Reads(file, f, lines, n),
             NEW g, Reads(file, g, more, n + 1)
      PROVE  g[n + 1] = Take(file, f[n], l)
  <2>1. \A k \in 0 .. n : g[k] = f[k]
    <3>1. n \in Nat /\ n + 1 \in Nat /\ n <= n + 1
      BY <1>1
    <3> QED BY <1>1, <1>2, <3>1, ReadingAgrees
  <2>2. g[n + 1] = Take(file, g[n], l)
    <3>1. n + 1 \in 0 .. n + 1 /\ n + 1 # 0 /\ (n + 1) - 1 = n
      BY <1>1
    <3> QED BY <1>1, <1>2, <3>1 DEF Reads
  <2> QED BY <1>1, <2>1, <2>2
<1>3. RowsOf(more) = Row(RowsOf(lines), l)
  <2>1. PICK f : Reads("mem_access", f, lines, n) /\ RowsOf(lines) = f[n]
    BY <1>1, WhatIsRead DEF n
  <2>2. PICK g : Reads("mem_access", g, more, n + 1) /\ RowsOf(more) = g[n + 1]
    BY <1>1, WhatIsRead
  <2> QED BY <1>2, <2>1, <2>2 DEF Take
<1>4. SectionsOf(more) = Match(SectionsOf(lines), l)
  <2>1. PICK f : Reads("lock", f, lines, n) /\ SectionsOf(lines) = f[n]
    BY <1>1, WhatIsRead DEF n
  <2>2. PICK g : Reads("lock", g, more, n + 1) /\ SectionsOf(more) = g[n + 1]
    BY <1>1, WhatIsRead
  <2> QED BY <1>2, <2>1, <2>2 DEF Take
<1> QED BY <1>3, <1>4 DEF more

-----------------------------------------------------------------------------
(* The instance of Monitor and the one of this module are the same. *)

\* The steps of the target are the same.
LEMMA SameTarget ==
  ASSUME NEW t, T!TargetStep(t) PROVE P!TargetStep(t)
<1>1. CASE T!CreateThread(t)
  BY <1>1 DEF P!TargetStep, T!CreateThread, P!CreateThread, T!Ready, P!Ready,
     T!Running, P!Running, T!Idle, P!Idle, T!Op, P!Op, T!tool, P!tool,
     T!history, P!history
<1>2. CASE T!ExecMemAccess(t)
  BY <1>2 DEF P!TargetStep, T!ExecMemAccess, P!ExecMemAccess, T!Doing, P!Doing,
     T!Running, P!Running, T!Idle, P!Idle, T!Op, P!Op, T!tool, P!tool,
     T!history, P!history, T!Complete, P!Complete
<1>3. CASE T!AcquireMutex(t)
  BY <1>3 DEF P!TargetStep, T!AcquireMutex, P!AcquireMutex, T!Doing, P!Doing,
     T!Running, P!Running, T!Idle, P!Idle, T!Op, P!Op, T!tool, P!tool,
     T!history, P!history, T!Complete, P!Complete, T!Free, P!Free, T!Owns, P!Owns,
     T!Holds, P!Holds, T!Tid, P!Tid
<1>4. CASE T!ReleaseMutex(t)
  BY <1>4 DEF P!TargetStep, T!ReleaseMutex, P!ReleaseMutex, T!Doing, P!Doing,
     T!Running, P!Running, T!Idle, P!Idle, T!Op, P!Op, T!tool, P!tool,
     T!history, P!history, T!Complete, P!Complete, T!Without, P!Without
<1>5. ASSUME NEW m \in Mutex, T!TrylockMutex(t, m) PROVE P!TargetStep(t)
  BY <1>5 DEF P!TargetStep, T!TrylockMutex, P!TrylockMutex, T!Ready, P!Ready,
     T!Running, P!Running, T!Idle, P!Idle, T!Op, P!Op, T!tool, P!tool,
     T!history, P!history, T!Free, P!Free, T!Owns, P!Owns,
     T!Holds, P!Holds, T!Tid, P!Tid
<1>6. ASSUME NEW m \in Mutex, T!CondWait(t, m) PROVE P!TargetStep(t)
  BY <1>6 DEF P!TargetStep, T!CondWait, P!CondWait, T!Ready, P!Ready,
     T!Running, P!Running, T!Idle, P!Idle, T!Op, P!Op, T!tool, P!tool,
     T!history, P!history, T!Holds, P!Holds
<1>7. CASE T!CondWake(t)
  BY <1>7 DEF P!TargetStep, T!CondWake, P!CondWake, T!Doing, P!Doing,
     T!Running, P!Running, T!Op, P!Op, T!tool, P!tool,
     T!history, P!history, T!Free, P!Free, T!Owns, P!Owns,
     T!Holds, P!Holds, T!Tid, P!Tid
<1> QED BY <1>1, <1>2, <1>3, <1>4, <1>5, <1>6, <1>7 DEF T!TargetStep

\* So are the callbacks.
LEMMA SameCallback ==
  ASSUME NEW t, T!Callback(t) PROVE P!Callback(t)
<1> USE DEF T!Ready, P!Ready, T!Doing, P!Doing, T!Running, P!Running,
            T!Idle, P!Idle, T!Op, P!Op, T!history, P!history, T!Tick, P!Tick,
            T!Complete, P!Complete, T!Begin, P!Begin, T!Holds, P!Holds
<1>1. CASE T!ThreadStart(t)
  BY <1>1 DEF P!Callback, T!ThreadStart, P!ThreadStart
<1>2. CASE T!ThreadFini(t)
  BY <1>2 DEF P!Callback, T!ThreadFini, P!ThreadFini
<1>3. CASE T!afterThreadCreate(t)
  BY <1>3 DEF P!Callback, T!afterThreadCreate, P!afterThreadCreate
<1>4. ASSUME NEW op, NEW inst, NEW addr, T!RecordMem(t, op, inst, addr)
      PROVE  P!RecordMem(t, op, inst, addr)
  BY <1>4 DEF T!RecordMem, P!RecordMem, T!MemAccess, P!MemAccess
<1>5. ASSUME NEW inst \in Inst, NEW addr \in Addr,
             T!RecordMemRead(t, inst, addr) \/ T!RecordMemWrite(t, inst, addr)
      PROVE  P!Callback(t)
  BY <1>4, <1>5 DEF P!Callback, T!RecordMemRead, P!RecordMemRead,
                    T!RecordMemWrite, P!RecordMemWrite
<1>6. ASSUME NEW site \in Site, NEW m \in Mutex, T!beforeThreadLock(t, site, m)
      PROVE  P!Callback(t)
  BY <1>6 DEF P!Callback, T!beforeThreadLock, P!beforeThreadLock,
              T!CriticalSection, P!CriticalSection
<1>7. ASSUME NEW site \in Site, NEW m \in Mutex, T!beforeThreadUnLock(t, site, m)
      PROVE  P!Callback(t)
  <2>1. T!MatchUnlock(t, site, m) => P!MatchUnlock(t, site, m)
    BY DEF T!MatchUnlock, P!MatchUnlock, T!LastOpen, P!LastOpen, T!IsOpen, P!IsOpen,
           T!FinishSection, P!FinishSection
  <2>2. P!beforeThreadUnLock(t, site, m)
    BY <1>7, <2>1 DEF T!beforeThreadUnLock, P!beforeThreadUnLock,
                      T!CanUnlock, P!CanUnlock
  <2> QED BY <2>2 DEF P!Callback
<1>8. CASE T!UnLockAborts(t)
  BY <1>8 DEF P!Callback, T!UnLockAborts, P!UnLockAborts, T!CanUnlock, P!CanUnlock,
              T!IsOpen, P!IsOpen
<1>9. ASSUME NEW type \in PauseTypes \cup WaitTypes, T!afterThreadSynch(t, type)
      PROVE  P!Callback(t)
  BY <1>9 DEF P!Callback, T!afterThreadSynch, P!afterThreadSynch, T!Synch, P!Synch
<1> QED BY <1>1, <1>2, <1>3, <1>5, <1>6, <1>7, <1>8, <1>9 DEF T!Callback

\* So is Fini, and so are all steps.
LEMMA SameStep == [T!Next]_T!vars => [P!Next]_P!vars
<1>1. ASSUME T!Fini PROVE P!Fini
  BY <1>1 DEF T!Fini, P!Fini, T!KeptSections, P!KeptSections, T!is_cs_empty,
     P!is_cs_empty, T!Encloses, P!Encloses, T!EraseSections, P!EraseSections,
     T!Annotate, P!Annotate, T!EnclosingSections, P!EnclosingSections,
     T!AnnotatingSection, P!AnnotatingSection, T!Max, P!Max, T!history, P!history,
     T!Tid, P!Tid, T!Cardinality, P!Cardinality
<1>2. ASSUME UNCHANGED T!vars PROVE UNCHANGED P!vars
  BY <1>2 DEF T!vars, P!vars, T!tool, P!tool, T!target, P!target, T!history, P!history
<1>3. T!Tid = P!Tid
  BY DEF T!Tid, P!Tid
<1>4. T!Next => P!Next
  BY <1>1, <1>3, SameTarget, SameCallback DEF T!Next, P!Next
<1> QED BY <1>2, <1>4

\* So is the beginning.
LEMMA SameInit == T!Init => P!Init
BY DEF T!Init, P!Init, T!Tid, P!Tid, T!Idle, P!Idle, T!Op, P!Op

-----------------------------------------------------------------------------
(* The steps of the monitor are those of the tracing tool. *)

Thread == 0 .. NumThreads - 1

\* Lines name threads, and a file of accesses the kinds the target makes.
FilesOK ==
  /\ file_mem_access \in
       Seq([tid : Thread, op : {"R", "W"}, time : Nat, ip : Inst, addr : Addr])
  /\ file_lock \in
       Seq([tid : Thread, op : {"L", "U"}, time : Nat, callsite_v : Site, entry_v : Mutex])

MonitorInv == FilesOK /\ P!PairingInv

\* A thread that can unlock a mutex is in a section, and searching from the
\* back of the table finds it.
LEMMA SectionFound ==
  ASSUME P!PairingInv, status = "running", NEW t \in Thread, NEW m, T!CanUnlock(t, m),
         NEW E, E = {k \in DOMAIN csTable : IsOpen(csTable[k], t)}
  PROVE  Max(E) \in DOMAIN csTable /\ T!LastOpen(Max(E), t)
<1>1. /\ P!TypeOK /\ P!Ownership /\ t \in P!Tid
      /\ \E F \in [P!Tid -> Seq(Nat)] : P!Nest(F)
  BY DEF P!PairingInv, P!StampsInv, P!SectionInv, Thread, P!Tid
<1>2. PICK F \in [P!Tid -> Seq(Nat)] : P!Nest(F)
  BY <1>1
<1>3. /\ pend[t].kind = "idle"
      /\ Len(held[t]) \in Nat /\ Len(held[t]) >= 1
  <2>1. pend[t] = T!Idle /\ \E i \in DOMAIN held[t] : held[t][i] = m
    BY DEF T!CanUnlock, T!Ready, T!Holds
  <2>2. /\ held \in [P!Tid -> Seq(Mutex)]
    BY <1>1 DEF P!TypeOK
  <2>3. held[t] \in Seq(Mutex) /\ held[t] # <<>>
    BY <1>1, <2>1, <2>2
  <2>4. Len(held[t]) \in Nat /\ Len(held[t]) >= 1
    BY <2>3, EmptySeq, LenProperties
  <2> QED BY <2>1, <2>4 DEF T!Idle, T!Op
<1>4. Len(F[t]) = Len(held[t])
  BY <1>1, <1>2, <1>3 DEF P!Nest, P!NestOpen, P!Depth
<1>5. F[t][Len(F[t])] \in E
  <2>1. Len(F[t]) \in 1 .. Len(F[t])
    BY <1>3, <1>4
  <2>2. P!IsOpen(csTable[F[t][Len(F[t])]], t) /\ F[t][Len(F[t])] \in DOMAIN csTable
    BY <1>1, <1>2, <2>1 DEF P!Nest, P!NestOpen
  <2> QED BY <2>2 DEF P!IsOpen, IsOpen
<1>6. Len(csTable) \in Nat /\ DOMAIN csTable = 1 .. Len(csTable)
  <2>1. \E S : csTable \in Seq(S)
    BY <1>1 DEF P!TypeOK
  <2> QED BY <2>1, LenProperties
<1>7. Max(E) \in E /\ \A k \in E : Max(E) >= k
  <2>1. E \in SUBSET (1 .. Len(csTable)) /\ E # {}
    BY <1>5, <1>6
  <2>2. P!Max(E) \in E /\ \A k \in E : P!Max(E) >= k
    BY <1>6, <2>1, P!MaxIndex, MonitorAssumption
  <2> QED BY <2>2 DEF Max, P!Max
<1>8. \A k \in DOMAIN csTable : k > Max(E) => ~IsOpen(csTable[k], t)
  <2>1. Max(E) \in Int
    BY <1>6, <1>7
  <2> SUFFICES ASSUME NEW k \in DOMAIN csTable, k > Max(E), k \in E PROVE FALSE
    OBVIOUS
  <2>2. Max(E) >= k /\ k \in Int
    BY <1>6, <1>7
  <2> QED BY <2>1, <2>2
<1>9. \A k \in DOMAIN csTable : IsOpen(csTable[k], t) <=> T!IsOpen(csTable[k], t)
  BY DEF IsOpen, T!IsOpen
<1> QED BY <1>7, <1>8, <1>9 DEF T!LastOpen

\* While the target runs, nothing has been erased or annotated.
LEMMA Unfinished ==
  status # "finished" => maTable = MemRows /\ csTable = Sections
BY DEF maTable, csTable

\* No line, no change.
LEMMA SameFiles ==
  ASSUME UNCHANGED <<file_mem_access, file_lock, status>>
  PROVE  maTable' = maTable /\ csTable' = csTable
<1>1. MemRows' = MemRows /\ Sections' = Sections
  BY DEF MemRows, Sections
<1>2. KeptTable' = KeptTable
  BY <1>1 DEF KeptTable
<1>3. AnnotatedRows' = AnnotatedRows
  BY <1>1, <1>2 DEF AnnotatedRows
<1> QED BY <1>1, <1>2, <1>3 DEF maTable, csTable

Listed(S) ==
  \E f \in [1 .. Cardinality(S) -> S] : \A i, j \in DOMAIN f : i < j => f[i] < f[j]

\* The members of a set of table indices can be listed in order.
LEMMA Listing == ASSUME NEW n \in Nat, NEW S \in SUBSET (1 .. n) PROVE Listed(S)
<1> DEFINE Stuck == {m \in Nat : \E R \in SUBSET (1 .. m) : ~Listed(R)}
<1>1. SUFFICES ASSUME Stuck # {} PROVE FALSE
  OBVIOUS
<1>2. PICK m \in Stuck : \A o \in Stuck : ~ (<<o, m>> \in OpToRel(<, Nat))
  <2>1. Stuck \subseteq Nat
    OBVIOUS
  <2> HIDE DEF Stuck
  <2> QED BY <1>1, <2>1, NatLessThanWellFounded, WFMin
<1>3. m \in Nat /\ \E R \in SUBSET (1 .. m) : ~Listed(R)
  OBVIOUS
<1>4. PICK R \in SUBSET (1 .. m) : ~Listed(R)
  BY <1>3
<1>5. ASSUME m # 0 PROVE \A Q \in SUBSET (1 .. m - 1) : Listed(Q)
  <2>1. m - 1 \in Nat /\ m - 1 < m
    BY <1>3, <1>5
  <2>2. m - 1 \notin Stuck
    BY <1>2, <1>3, <2>1 DEF OpToRel
  <2> QED BY <2>1, <2>2
<1> HIDE DEF Stuck
<1>6. CASE m = 0
  <2>1. R = {}
    BY <1>6
  <2>2. Cardinality(R) = 0
    BY <2>1, FS_EmptySet
  <2>3. <<>> \in [1 .. 0 -> {}] /\ \A i, j \in DOMAIN <<>> : i < j => FALSE
    OBVIOUS
  <2> QED BY <1>4, <2>1, <2>2, <2>3 DEF Listed
<1>7. CASE m # 0 /\ m \notin R
  <2>1. R \in SUBSET (1 .. m - 1)
    BY <1>3, <1>7
  <2> QED BY <1>4, <1>5, <1>7, <2>1
<1>8. CASE m # 0 /\ m \in R
  <2> DEFINE Q == R \ {m}
             c == Cardinality(R)
  <2>1. Q \in SUBSET (1 .. m - 1)
    BY <1>3, <1>8
  <2>2. IsFiniteSet(R)
    <3>1. IsFiniteSet(1 .. m)
      BY <1>3, FS_Interval
    <3> QED BY <1>4, <3>1, FS_Subset
  <2>3. c \in Nat /\ Cardinality(Q) = c - 1 /\ Cardinality(Q) \in Nat
    <3>1. Cardinality(Q) = c - 1 /\ IsFiniteSet(Q)
      BY <1>8, <2>2, FS_RemoveElement
    <3> QED BY <2>2, <3>1, FS_CardinalityType
  <2>4. PICK g \in [1 .. c - 1 -> Q] : \A i, j \in DOMAIN g : i < j => g[i] < g[j]
    BY <1>5, <1>8, <2>1, <2>3 DEF Listed
  <2> HIDE DEF c
  <2> DEFINE f == [i \in 1 .. c |-> IF i < c THEN g[i] ELSE m]
  <2>5. \A i \in 1 .. c - 1 : g[i] \in R /\ g[i] \in Nat /\ g[i] < m
    <3> SUFFICES ASSUME NEW i \in 1 .. c - 1
                 PROVE  g[i] \in R /\ g[i] \in Nat /\ g[i] < m
      OBVIOUS
    <3>1. g[i] \in Q
      BY <2>4
    <3>2. g[i] \in R /\ g[i] \in 1 .. m - 1
      BY <2>1, <3>1
    <3> QED BY <1>3, <3>2
  <2>6. f \in [1 .. c -> R]
    <3>1. \A i \in 1 .. c : i < c => i \in 1 .. c - 1
      BY <2>3
    <3> QED BY <1>8, <2>5, <3>1
  <2>7. \A i, j \in 1 .. c : i < j => f[i] < f[j]
    <3> SUFFICES ASSUME NEW i \in 1 .. c, NEW j \in 1 .. c, i < j
                 PROVE  f[i] < f[j]
      OBVIOUS
    <3>1. i \in 1 .. c - 1 /\ f[i] = g[i]
      BY <2>3
    <3>2. CASE j < c
      <4>1. j \in 1 .. c - 1 /\ f[j] = g[j]
        BY <2>3, <3>2
      <4> HIDE DEF f
      <4> QED BY <2>4, <3>1, <4>1
    <3>3. CASE ~(j < c)
      <4>1. f[j] = m
        BY <3>3
      <4> HIDE DEF f
      <4> QED BY <2>5, <3>1, <4>1
    <3> QED BY <3>2, <3>3
  <2> HIDE DEF f
  <2>8. Listed(R)
    BY <2>6, <2>7 DEF Listed, c
  <2> QED BY <1>4, <2>8
<1> QED BY <1>6, <1>7, <1>8

\* The step that ends the run is Fini of the tracing tool.
LEMMA FiniIsFini == ASSUME MonitorInv, Fini PROVE T!Fini
<1>1. /\ status = "running" /\ phase[0] = "done" /\ status' = "finished"
      /\ UNCHANGED <<file_mem_access, file_lock, file_sync, threadNum, threadExisted,
                     logging_start, timestamp, nascent, phase, held, pend, guards,
                     jumbled>>
  BY DEF Fini, globals
<1>2. maTable = MemRows /\ csTable = Sections
  BY <1>1, Unfinished
<1>3. maTable' = AnnotatedRows /\ csTable' = KeptTable
  <2>1. MemRows' = MemRows /\ Sections' = Sections
    BY <1>1 DEF MemRows, Sections
  <2>2. KeptTable' = KeptTable
    BY <2>1 DEF KeptTable
  <2>3. AnnotatedRows' = AnnotatedRows
    BY <2>1, <2>2 DEF AnnotatedRows
  <2> QED BY <1>1, <2>2, <2>3 DEF maTable, csTable
<1>4. P!TypeOK /\ P!RowsInv
  BY DEF MonitorInv, P!PairingInv, P!StampsInv
<1>5. T!KeptSections(csTable, maTable) = KeptSections(Sections, MemRows)
  BY <1>2 DEF T!KeptSections, KeptSections, T!is_cs_empty, is_cs_empty, T!Encloses,
              Encloses
<1> DEFINE kept == KeptSections(Sections, MemRows)
           list == CHOOSE f \in [1 .. Cardinality(kept) -> kept] :
                     \A i, j \in DOMAIN f : i < j => f[i] < f[j]
<1>6. list \in [1 .. Cardinality(kept) -> kept]
      /\ \A i, j \in DOMAIN list : i < j => list[i] < list[j]
  <2>1. \E S : csTable \in Seq(S)
    BY <1>4 DEF P!TypeOK
  <2>2. kept \in SUBSET (1 .. Len(Sections)) /\ Len(Sections) \in Nat
    BY <1>2, <2>1, LenProperties DEF KeptSections
  <2>3. Listed(kept)
    <3> HIDE DEF kept
    <3> QED BY <2>2, Listing
  <2> HIDE DEF kept
  <2> QED BY <2>3 DEF Listed
<1>7. csTable' = [i \in DOMAIN list |-> csTable[list[i]]]
  BY <1>2, <1>3 DEF KeptTable
<1>8. T!Cardinality(kept) = Cardinality(kept)
  BY DEF T!Cardinality, Cardinality
<1> HIDE DEF kept, list
<1>9. \E f \in [1 .. T!Cardinality(kept) -> kept] : T!EraseSections(f)
  BY <1>6, <1>7, <1>8 DEF T!EraseSections
<1>10. ASSUME NEW a PROVE Annotate(a, KeptTable) = T!Annotate(a, KeptTable)
  BY DEF T!Annotate, Annotate, T!EnclosingSections, EnclosingSections,
     T!AnnotatingSection, AnnotatingSection, T!Max, Max, T!Encloses, Encloses
<1>11. maTable' = [t \in T!Tid |->
                     IF t < threadExisted
                       THEN [j \in DOMAIN maTable[t] |->
                               T!Annotate(maTable[t][j], csTable')]
                       ELSE maTable[t]]
  <2>1. DOMAIN maTable = T!Tid /\ T!Tid = P!Tid
    BY <1>4 DEF P!TypeOK, T!Tid, P!Tid
  <2>2. \A t \in T!Tid : ~(t < threadExisted) => maTable[t] = <<>>
    BY <1>4, <2>1 DEF P!RowsInv
  <2>3. ASSUME NEW t \in T!Tid, ~(t < threadExisted)
        PROVE  [j \in DOMAIN maTable[t] |-> T!Annotate(maTable[t][j], csTable')]
                 = maTable[t]
    <3>1. maTable[t] = <<>>
      BY <2>2, <2>3
    <3> QED BY <3>1
  <2>4. maTable' = [t \in T!Tid |-> [j \in DOMAIN maTable[t] |->
                                       T!Annotate(maTable[t][j], csTable')]]
    BY <1>2, <1>3, <1>10, <2>1 DEF AnnotatedRows
  <2> QED BY <2>3, <2>4
<1> QED BY <1>1, <1>5, <1>9, <1>11 DEF T!Fini, T!history, synchTable, kept

\* The types that hold until the end.
LEMMA Types ==
  ASSUME MonitorInv, NEW t \in Thread
  PROVE  /\ t \in T!Tid /\ T!Tid = Thread
         /\ MemRows \in [Thread -> Seq(P!MemRow)] \/ status = "finished"
         /\ maTable = MemRows \/ status = "finished"
         /\ csTable = Sections \/ status = "finished"
<1>1. P!TypeOK
  BY DEF MonitorInv, P!PairingInv, P!StampsInv
<1> QED BY <1>1, Unfinished DEF P!TypeOK, T!Tid, P!Tid, Thread

\* A step of the target writes no line.
LEMMA TargetIsTarget ==
  ASSUME MonitorInv, NEW t \in Thread, TargetStep(t)
  PROVE  T!Next /\ FilesOK'
<1>1. T!TargetStep(t) /\ UNCHANGED files
  BY DEF TargetStep
<1>2. T!Next
  BY <1>1, Types DEF T!Next
<1> QED BY <1>1, <1>2 DEF MonitorInv, FilesOK, files

\* Nor do these callbacks.
LEMMA QuietCallback ==
  ASSUME MonitorInv, NEW t \in Thread,
         ThreadStart(t) \/ ThreadFini(t) \/ afterThreadCreate(t)
  PROVE  T!Callback(t) /\ FilesOK'
<1>1. UNCHANGED <<files, status>>
  BY DEF ThreadStart, ThreadFini, afterThreadCreate, target
<1>2. UNCHANGED <<maTable, csTable, synchTable>>
  BY <1>1, SameFiles DEF files, synchTable
<1>3. FilesOK'
  BY <1>1 DEF MonitorInv, FilesOK, files
<1>4. CASE ThreadStart(t)
  BY <1>2, <1>3, <1>4 DEF ThreadStart, T!ThreadStart, T!Callback, T!history
<1>5. CASE ThreadFini(t)
  BY <1>2, <1>3, <1>5 DEF ThreadFini, T!ThreadFini, T!Callback, T!history
<1>6. CASE afterThreadCreate(t)
  BY <1>2, <1>3, <1>6 DEF afterThreadCreate, T!afterThreadCreate, T!Callback,
                          T!history, target
<1> QED BY <1>4, <1>5, <1>6

\* The line of an access goes where RecordMem puts the access.
LEMMA AccessIsAccess ==
  ASSUME MonitorInv, status = "running", NEW t \in Thread, NEW op \in {"R", "W"},
         NEW inst \in Inst, NEW addr \in Addr, RecordMem(t, op, inst, addr)
  PROVE  T!RecordMem(t, op, inst, addr) /\ FilesOK'
<1> DEFINE l == [tid |-> t, op |-> op, time |-> timestamp', ip |-> inst, addr |-> addr]
<1>1. /\ op \in Ops /\ timestamp < MaxTime /\ timestamp' = timestamp + 1
      /\ T!Begin(t, op, None, addr)
      /\ UNCHANGED <<file_lock, file_sync, on_disk, threadNum, threadExisted,
                     logging_start, nascent, phase, held, status, jumbled>>
      /\ IF logging_start
           THEN /\ file_mem_access' = Append(file_mem_access, l)
                /\ guards' = [guards EXCEPT ![t] =
                                Append(@, {m \in Mutex : T!Holds(t, m)})]
           ELSE UNCHANGED <<file_mem_access, guards>>
  BY DEF RecordMem, Tick, target
<1>2. timestamp' \in Nat
  <2>1. timestamp \in Nat
    BY DEF MonitorInv, P!PairingInv, P!StampsInv, P!TypeOK
  <2> QED BY <1>1, <2>1
<1>3. maTable = MemRows /\ csTable = Sections /\ csTable' = Sections'
      /\ maTable' = MemRows' /\ Sections' = Sections
  BY <1>1 DEF maTable, csTable, Sections
<1> DEFINE Ls == [tid : Thread, op : {"R", "W"}, time : Nat, ip : Inst, addr : Addr]
<1>4. l \in Ls /\ file_mem_access \in Seq(Ls)
  BY <1>2 DEF MonitorInv, FilesOK
<1>5. FilesOK'
  <2>1. file_mem_access' \in Seq(Ls)
    <3> HIDE DEF l, Ls
    <3> QED BY <1>1, <1>4, AppendProperties
  <2>2. file_lock' = file_lock
    BY <1>1
  <2> QED BY <2>1, <2>2 DEF MonitorInv, FilesOK
<1>6. CASE logging_start
  <2>1. MemRows' = Row(MemRows, l)
    <3>1. file_mem_access' = Append(file_mem_access, l)
      BY <1>1, <1>6
    <3>2. RowsOf(file_mem_access') = Row(RowsOf(file_mem_access), l)
      <4> HIDE DEF l, Ls
      <4> QED BY <1>4, <3>1, OneMoreLine
    <3> HIDE DEF l
    <3> QED BY <3>2 DEF MemRows
  <2>2. DOMAIN MemRows = Thread
    BY <1>1, Types
  <2>3. MemRows' = [MemRows EXCEPT ![t] =
                      Append(@, T!MemAccess(op, inst, addr, t, timestamp'))]
    BY <2>1, <2>2 DEF Row, MemAccess, T!MemAccess
  <2>4. MemRows \in [Thread -> Seq(P!MemRow)]
    BY Types
  <2> QED BY <1>1, <1>3, <1>5, <1>6, <2>3 DEF T!RecordMem, T!Tick, synchTable
<1>7. CASE ~logging_start
  <2>1. MemRows' = MemRows
    BY <1>1, <1>7 DEF MemRows
  <2> QED BY <1>1, <1>3, <1>5, <1>7, <2>1 DEF T!RecordMem, T!Tick, synchTable
<1> QED BY <1>6, <1>7

\* What the line of a lock or an unlock changes.
LEMMA LineOfLock ==
  ASSUME MonitorInv, status = "running", status' = "running",
         NEW t \in Thread, NEW op \in {"L", "U"},
         NEW site \in Site, NEW m \in Mutex, LockLine(t, op, site, m),
         timestamp' = timestamp + 1, file_mem_access' = file_mem_access
  PROVE  /\ FilesOK' /\ maTable' = maTable
         /\ csTable' = Match(csTable, [tid |-> t, op |-> op, time |-> timestamp',
                                       callsite_v |-> site, entry_v |-> m])
<1> DEFINE l == [tid |-> t, op |-> op, time |-> timestamp', callsite_v |-> site,
                 entry_v |-> m]
           Ls == [tid : Thread, op : {"L", "U"}, time : Nat, callsite_v : Site,
                  entry_v : Mutex]
<1>1. timestamp' \in Nat
  <2>1. timestamp \in Nat
    BY DEF MonitorInv, P!PairingInv, P!StampsInv, P!TypeOK
  <2> QED BY <2>1
<1>2. l \in Ls /\ file_lock \in Seq(Ls)
  BY <1>1 DEF MonitorInv, FilesOK
<1>3. file_lock' = Append(file_lock, l)
  BY DEF LockLine
<1>4. maTable = MemRows /\ csTable = Sections /\ csTable' = Sections'
      /\ maTable' = MemRows' /\ MemRows' = MemRows
  BY DEF maTable, csTable, MemRows
<1>5. FilesOK'
  <2>1. file_lock' \in Seq(Ls)
    <3> HIDE DEF l, Ls
    <3> QED BY <1>2, <1>3, AppendProperties
  <2> QED BY <2>1 DEF MonitorInv, FilesOK
<1> HIDE DEF l, Ls
<1>6. SectionsOf(file_lock') = Match(SectionsOf(file_lock), l)
  BY <1>2, <1>3, OneMoreLine
<1> QED BY <1>4, <1>5, <1>6 DEF Sections, l

\* A lock is a new section.
LEMMA LockIsLock ==
  ASSUME MonitorInv, NEW t \in Thread, NEW site \in Site, NEW m \in Mutex,
         beforeThreadLock(t, site, m)
  PROVE  T!beforeThreadLock(t, site, m) /\ FilesOK'
<1>1. /\ T!Ready(t) /\ ~T!Holds(t, m) /\ LockLine(t, "L", site, m)
      /\ timestamp < MaxTime /\ timestamp' = timestamp + 1
      /\ T!Begin(t, "lock", m, None)
      /\ UNCHANGED <<file_mem_access, file_sync, threadNum, threadExisted,
                     logging_start, nascent, phase, held, status, guards, jumbled>>
  BY DEF beforeThreadLock, Tick, target
<1>2. status = "running" /\ status' = "running"
  BY <1>1 DEF T!Ready, T!Running
<1>3. /\ FilesOK' /\ maTable' = maTable
      /\ csTable' = Match(csTable, [tid |-> t, op |-> "L", time |-> timestamp',
                                    callsite_v |-> site, entry_v |-> m])
  BY <1>1, <1>2, LineOfLock
<1>4. csTable' = Append(csTable, T!CriticalSection(t, site, m, timestamp'))
  BY <1>3 DEF Match, CriticalSection, T!CriticalSection
<1> QED BY <1>1, <1>3, <1>4 DEF T!beforeThreadLock, T!Tick, T!history, synchTable

\* An unlock finishes the section that the search in csTable finds.
LEMMA UnlockIsUnlock ==
  ASSUME MonitorInv, NEW t \in Thread, NEW site \in Site, NEW m \in Mutex,
         beforeThreadUnLock(t, site, m)
  PROVE  T!beforeThreadUnLock(t, site, m) /\ FilesOK'
<1>1. /\ T!CanUnlock(t, m) /\ LockLine(t, "U", site, m)
      /\ timestamp < MaxTime /\ timestamp' = timestamp + 1
      /\ T!Begin(t, "unlock", m, None)
      /\ jumbled' = IF m = held[t][Len(held[t])] THEN jumbled ELSE jumbled \cup {t}
      /\ UNCHANGED <<file_mem_access, file_sync, threadNum, threadExisted,
                     logging_start, nascent, phase, held, status, guards>>
  BY DEF beforeThreadUnLock, Tick, target
<1>2. status = "running" /\ status' = "running"
  BY <1>1 DEF T!CanUnlock, T!Ready, T!Running
<1>3. /\ FilesOK' /\ maTable' = maTable
      /\ csTable' = Match(csTable, [tid |-> t, op |-> "U", time |-> timestamp',
                                    callsite_v |-> site, entry_v |-> m])
  BY <1>1, <1>2, LineOfLock
<1>4. T!MatchUnlock(t, site, m)
  <2>1. PICK E : E = {k \in DOMAIN csTable : IsOpen(csTable[k], t)}
    OBVIOUS
  <2>2. Max(E) \in DOMAIN csTable /\ T!LastOpen(Max(E), t)
    BY <1>1, <1>2, <2>1, SectionFound DEF MonitorInv
  <2>3. csTable' = [csTable EXCEPT ![Max(E)].ft = timestamp',
                                   ![Max(E)].unlock_callsite_v = site,
                                   ![Max(E)].unlock_entry_v = m]
    BY <1>3, <2>1 DEF Match
  <2> QED BY <2>2, <2>3 DEF T!MatchUnlock, T!FinishSection
<1> QED BY <1>1, <1>3, <1>4 DEF T!beforeThreadUnLock, T!Tick, synchTable

\* The line of a barrier or a condition wait carries the time.
LEMMA SynchIsSynch ==
  ASSUME MonitorInv, "condtimewait" \notin WaitTypes, "sleep" \notin PauseTypes,
         NEW t \in Thread, NEW type \in PauseTypes \cup WaitTypes,
         afterThreadSynch(t, type)
  PROVE  T!afterThreadSynch(t, type) /\ FilesOK'
<1>1. /\ \/ type \in PauseTypes /\ T!Ready(t)
         \/ type \in WaitTypes /\ T!Doing(t, "woken")
      /\ timestamp < MaxTime /\ timestamp' = timestamp + 1
      /\ file_sync' = Append(file_sync, Synch(type, t, WrittenTime(t, type)))
      /\ T!Complete(t)
      /\ UNCHANGED <<file_mem_access, file_lock, threadNum, threadExisted,
                     logging_start, nascent, phase, held, status, guards, jumbled>>
  BY DEF afterThreadSynch, Tick, target
<1>2. WrittenTime(t, type) = timestamp'
  <2>1. type \notin {"condtimewait", "sleep"}
    BY MonitorAssumption
  <2> QED BY <2>1 DEF WrittenTime
<1>3. maTable' = maTable /\ csTable' = csTable
  BY <1>1, SameFiles
<1>4. synchTable' = Append(synchTable, T!Synch(type, t, timestamp'))
  BY <1>1, <1>2 DEF synchTable, Synch, T!Synch
<1>5. FilesOK'
  BY <1>1 DEF MonitorInv, FilesOK
<1> QED BY <1>1, <1>3, <1>4, <1>5 DEF T!afterThreadSynch, T!Tick, T!history

-----------------------------------------------------------------------------
(* The refinement. *)

\* Empty files are the tables the tracing tool begins with.
LEMMA MonitorInit == Init => T!Init /\ MonitorInv
<1> SUFFICES ASSUME Init PROVE T!Init /\ MonitorInv
  OBVIOUS
<1>1. T!Init /\ file_mem_access = <<>> /\ file_lock = <<>>
  BY DEF Init
<1>2. P!PairingInv
  BY <1>1, SameInit, P!PairingInit, MonitorAssumption
<1> QED BY <1>1, <1>2 DEF MonitorInv, FilesOK

\* Every step of the monitor is one of the tracing tool.
LEMMA MonitorStep ==
  ASSUME ~UsesTrylock, "condtimewait" \notin WaitTypes, "sleep" \notin PauseTypes
  PROVE  MonitorInv /\ [Next]_vars => MonitorInv' /\ [T!Next]_T!vars
<1> SUFFICES ASSUME MonitorInv, [Next]_vars PROVE MonitorInv' /\ [T!Next]_T!vars
  OBVIOUS
<1>1. SUFFICES FilesOK' /\ [T!Next]_T!vars
  BY SameStep, P!PairingStep, MonitorAssumption DEF MonitorInv
<1>2. CASE UNCHANGED vars
  <2>1. UNCHANGED <<files, globals, target, pend, guards, jumbled>>
    BY <1>2 DEF vars
  <2>2. UNCHANGED <<maTable, csTable, synchTable>>
    BY <2>1, SameFiles DEF files, target, synchTable
  <2> QED BY <2>1, <2>2 DEF MonitorInv, FilesOK, files, globals, target, T!vars,
                           T!tool, T!target, T!history
<1>3. CASE Fini
  <2>1. FilesOK'
    BY <1>3 DEF Fini, MonitorInv, FilesOK
  <2> QED BY <1>3, <2>1, FiniIsFini DEF T!Next
<1>4. ASSUME NEW t \in Thread, TargetStep(t) PROVE FilesOK' /\ [T!Next]_T!vars
  BY <1>4, TargetIsTarget
<1>5. ASSUME NEW t \in Thread, Callback(t) PROVE FilesOK' /\ [T!Next]_T!vars
  <2>1. SUFFICES FilesOK' /\ T!Callback(t)
    BY Types DEF T!Next
  <2>2. CASE ThreadStart(t) \/ ThreadFini(t) \/ afterThreadCreate(t)
    BY <2>2, QuietCallback
  <2>3. ASSUME NEW inst \in Inst, NEW addr \in Addr, RecordMemRead(t, inst, addr)
        PROVE  FilesOK' /\ T!Callback(t)
    <3>1. T!Ready(t) /\ RecordMem(t, "R", inst, addr) /\ status = "running"
      BY <2>3 DEF RecordMemRead, T!Ready, T!Running
    <3>2. T!RecordMem(t, "R", inst, addr) /\ FilesOK'
      BY <3>1, AccessIsAccess
    <3> QED BY <3>1, <3>2 DEF T!Callback, T!RecordMemRead
  <2>4. ASSUME NEW inst \in Inst, NEW addr \in Addr, RecordMemWrite(t, inst, addr)
        PROVE  FilesOK' /\ T!Callback(t)
    <3>1. /\ T!Ready(t) \/ (T!Doing(t, "R") /\ pend[t].addr = addr)
          /\ RecordMem(t, "W", inst, addr)
      BY <2>4 DEF RecordMemWrite
    <3>2. status = "running"
      BY <3>1 DEF T!Ready, T!Doing, T!Running
    <3>3. T!RecordMem(t, "W", inst, addr) /\ FilesOK'
      BY <3>1, <3>2, AccessIsAccess
    <3> QED BY <3>1, <3>3 DEF T!Callback, T!RecordMemWrite
  <2>5. ASSUME NEW site \in Site, NEW m \in Mutex, beforeThreadLock(t, site, m)
        PROVE  FilesOK' /\ T!Callback(t)
    BY <2>5, LockIsLock DEF T!Callback
  <2>6. ASSUME NEW site \in Site, NEW m \in Mutex, beforeThreadUnLock(t, site, m)
        PROVE  FilesOK' /\ T!Callback(t)
    BY <2>6, UnlockIsUnlock DEF T!Callback
  <2>7. ASSUME NEW type \in PauseTypes \cup WaitTypes, afterThreadSynch(t, type)
        PROVE  FilesOK' /\ T!Callback(t)
    BY <2>7, SynchIsSynch DEF T!Callback
  <2> QED BY <1>5, <2>2, <2>3, <2>4, <2>5, <2>6, <2>7 DEF Callback
<1> QED BY <1>2, <1>3, <1>4, <1>5 DEF Next, T!Tid, Thread

\* The files of the monitor lose nothing that the tables of the tracing tool
\* hold, if the target makes no call that the two tools treat differently:
\* pthread_mutex_trylock, after which the tracing tool may stop at the unlock;
\* sleep and timed waits, for which monitor.cpp writes the thread as the time.
THEOREM LogsCorrect ==
  ASSUME ~UsesTrylock, "condtimewait" \notin WaitTypes, "sleep" \notin PauseTypes
  PROVE  Spec => LogsHoldTables
BY MonitorInit, MonitorStep, PTL DEF Spec, LogsHoldTables, T!Spec
=============================================================================
