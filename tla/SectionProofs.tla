-------------------------- MODULE SectionProofs --------------------------
(***************************************************************************)
(* The inductive invariant behind what Tracer promises about critical      *)
(* sections.  A nest lists, for every thread, the rows of csTable that are *)
(* the sections it is in, outermost first.  It mirrors the mutexes of the  *)
(* thread: one row each, one more while the thread waits for a mutex, one  *)
(* less while it gives one back.                                           *)
(***************************************************************************)
EXTENDS TracerProofs

\* How many sections t is in, and the mutex it went through into the n-th.
Depth(t) ==
  IF pend[t].kind = "lock" THEN Len(held[t]) + 1
  ELSE IF pend[t].kind = "unlock" THEN Len(held[t]) - 1
  ELSE Len(held[t])

Entered(t, n) == IF n <= Len(held[t]) THEN held[t][n] ELSE pend[t].mutex

\* A thread locks a mutex it does not hold and unlocks one it does hold.
Ownership ==
  \A t \in Tid :
    /\ \A i, j \in DOMAIN held[t] : held[t][i] = held[t][j] => i = j
    /\ pend[t].kind = "lock" => ~Holds(t, pend[t].mutex)
    /\ pend[t].kind = "unlock" =>
         /\ Holds(t, pend[t].mutex)
         /\ t \notin jumbled => pend[t].mutex = held[t][Len(held[t])]

\* Both marks of an open section are there, or none is.
Marked ==
  \A k \in DOMAIN csTable :
    csTable[k].ft = 0 <=> csTable[k].unlock_callsite_v = None

GuardRows == \A t \in Tid : DOMAIN guards[t] = DOMAIN maTable[t]

\* Section k began before access a and has not finished before it.
Around(k, a) ==
  /\ csTable[k].st < a.time
  /\ csTable[k].ft = 0 \/ a.time < csTable[k].ft

\* An access made under mutexes lies in a section of its thread.
Guarded ==
  \A t \in Tid : \A j \in DOMAIN maTable[t] :
    guards[t][j] # {} =>
      \E k \in DOMAIN csTable :
        csTable[k].tid = t /\ Around(k, maTable[t][j])

Unannotated ==
  \A t \in Tid : \A j \in DOMAIN maTable[t] :
    maTable[t][j].lock_ev = None /\ maTable[t][j].lock_cv = None

Recording == Marked /\ GuardRows /\ Guarded /\ Unannotated

-----------------------------------------------------------------------------
(* A nest F. *)

\* The open sections of a thread are those of its nest; an unlock that missed
\* leaves one more, which is older.
NestOpen(F) ==
  \A t \in Tid :
    /\ Len(F[t]) = Depth(t)
    /\ \A n \in 1 .. Len(F[t]) :
         F[t][n] \in DOMAIN csTable /\ IsOpen(csTable[F[t][n]], t)
    /\ \A n, o \in 1 .. Len(F[t]) : n < o => F[t][n] < F[t][o]
    /\ \A k \in DOMAIN csTable : IsOpen(csTable[k], t) =>
         \/ \E n \in 1 .. Len(F[t]) : F[t][n] = k
         \/ "miss" \in StrayIndex /\ \A n \in 1 .. Len(F[t]) : k < F[t][n]

NestNamed(F) ==
  \A t \in Tid \ jumbled : \A n \in 1 .. Len(F[t]) :
    csTable[F[t][n]].lock_entry_v = Entered(t, n)

\* A thread makes no access while it waits for a mutex.
NestWaits(F) ==
  \A t \in Tid : pend[t].kind = "lock" =>
    \A j \in DOMAIN maTable[t] :
      maTable[t][j].time < csTable[F[t][Len(F[t])]].st

\* What a thread has accessed since it began a section it is in, it has
\* accessed under the mutex of that section.
NestGuards(F) ==
  \A t \in Tid \ jumbled :
    \A n \in 1 .. Len(F[t]) : \A j \in DOMAIN maTable[t] :
      csTable[F[t][n]].st < maTable[t][j].time
        => csTable[F[t][n]].lock_entry_v \in guards[t][j]

\* The sections of one thread and one mutex do not overlap.
NestApart(F) ==
  \A k, l \in DOMAIN csTable :
    /\ k < l /\ csTable[k].tid = csTable[l].tid
    /\ csTable[k].tid \notin jumbled
    /\ csTable[k].lock_entry_v = csTable[l].lock_entry_v
    => /\ \A n \in 1 .. Len(F[csTable[k].tid]) : F[csTable[k].tid][n] # k
       /\ csTable[k].ft # 0 => csTable[k].ft < csTable[l].st

Nest(F) ==
  /\ NestOpen(F) /\ NestNamed(F) /\ NestWaits(F)
  /\ NestGuards(F) /\ NestApart(F)

\* Until Fini rewrites the tables there is a nest.
SectionInv ==
  status # "finished" => Recording /\ \E F \in [Tid -> Seq(Nat)] : Nest(F)

-----------------------------------------------------------------------------
(* What a thread holds. *)

\* Taking one member out of a sequence moves the later ones down.
LEMMA WithoutMembers ==
  ASSUME NEW S, NEW s \in Seq(S), NEW i \in 1 .. Len(s)
  PROVE  /\ Without(s, i) \in Seq(S)
         /\ Len(Without(s, i)) = Len(s) - 1
         /\ \A n \in 1 .. Len(s) - 1 :
              Without(s, i)[n] = IF n < i THEN s[n] ELSE s[n + 1]
<1> DEFINE a == SubSeq(s, 1, i - 1)
           b == SubSeq(s, i + 1, Len(s))
<1>1. /\ Len(s) \in Nat /\ i \in Nat
      /\ \A j \in 1 .. Len(s) : s[j] \in S
  BY ElementOfSeq, LenProperties
<1>2. a \in Seq(S) /\ Len(a) = i - 1 /\ \A n \in 1 .. i - 1 : a[n] = s[n]
  <2>1. \A j \in 1 .. i - 1 : s[j] \in S
    BY <1>1
  <2> QED BY <1>1, <2>1, SubSeqProperties
<1>3. /\ b \in Seq(S) /\ Len(b) = Len(s) - i
      /\ \A n \in 1 .. Len(s) - i : b[n] = s[n + i]
  <2>1. \A j \in i + 1 .. Len(s) : s[j] \in S
    BY <1>1
  <2> QED BY <1>1, <2>1, SubSeqProperties
<1> HIDE DEF a, b
<1>4. /\ a \o b \in Seq(S) /\ Len(a \o b) = Len(s) - 1
      /\ \A n \in 1 .. Len(s) - 1 :
           (a \o b)[n] = IF n < i THEN s[n] ELSE s[n + 1]
  <2>1. /\ a \o b \in Seq(S) /\ Len(a \o b) = Len(a) + Len(b)
        /\ \A n \in 1 .. Len(a) + Len(b) :
             (a \o b)[n] = IF n <= Len(a) THEN a[n] ELSE b[n - Len(a)]
    BY <1>2, <1>3, ConcatProperties
  <2>2. ASSUME NEW n \in 1 .. Len(s) - 1
        PROVE  (a \o b)[n] = IF n < i THEN s[n] ELSE s[n + 1]
    <3>1. CASE n < i
      BY <1>1, <1>2, <1>3, <2>1, <3>1
    <3>2. CASE ~(n < i)
      <4>1. n - (i - 1) \in 1 .. Len(s) - i /\ n - (i - 1) + i = n + 1
        BY <1>1, <3>2
      <4>2. b[n - (i - 1)] = s[n + 1]
        BY <1>3, <4>1
      <4> QED BY <1>1, <1>2, <1>3, <2>1, <3>2, <4>2
    <3> QED BY <3>1, <3>2
  <2> QED BY <1>1, <1>2, <1>3, <2>1, <2>2
<1> QED BY <1>4 DEF Without, a, b

-----------------------------------------------------------------------------
(* The steps, by what they do to sections. *)

\* The steps of t that touch no mutex, section or access.
Quiet(t) ==
  \/ CreateThread(t) \/ ExecMemAccess(t) \/ CondWake(t)
  \/ \E m \in Mutex : CondWait(t, m)
  \/ ThreadStart(t) \/ ThreadFini(t) \/ UnLockAborts(t) \/ afterThreadCreate(t)
  \/ \E type \in PauseTypes \cup WaitTypes : afterThreadSynch(t, type)

Accessing(t) ==
  \E op \in {"R", "W"}, inst \in Inst, addr \in Addr :
    /\ Running(t) /\ pend[t].kind \in {"idle", "R"}
    /\ RecordMem(t, op, inst, addr)

\* Access a of t is put on record, with the mutexes G.
Logged(t, a, G) ==
  /\ maTable' = [maTable EXCEPT ![t] = Append(@, a)]
  /\ guards' = [guards EXCEPT ![t] = Append(@, G)]

\* There are no other steps.
LEMMA StepKinds ==
  ASSUME Next
  PROVE  \/ Fini
         \/ \E t \in Tid :
              \/ Quiet(t) \/ Accessing(t) \/ AcquireMutex(t) \/ ReleaseMutex(t)
              \/ \E m \in Mutex : TrylockMutex(t, m)
              \/ \E site \in Site, m \in Mutex : beforeThreadLock(t, site, m)
              \/ \E site \in Site, m \in Mutex : beforeThreadUnLock(t, site, m)
<1>1. ASSUME NEW t \in Tid, NEW inst \in Inst, NEW addr \in Addr,
             RecordMemRead(t, inst, addr) \/ RecordMemWrite(t, inst, addr)
      PROVE  Accessing(t)
  BY <1>1 DEF Accessing, RecordMemRead, RecordMemWrite, Ready, Doing, Running,
              Idle, Op
<1>2. ASSUME NEW t \in Tid, TargetStep(t)
      PROVE  \/ Quiet(t) \/ AcquireMutex(t) \/ ReleaseMutex(t)
             \/ \E m \in Mutex : TrylockMutex(t, m)
  BY <1>2 DEF TargetStep, Quiet
<1>3. ASSUME NEW t \in Tid, Callback(t)
      PROVE  \/ Quiet(t) \/ Accessing(t)
             \/ \E site \in Site, m \in Mutex : beforeThreadLock(t, site, m)
             \/ \E site \in Site, m \in Mutex : beforeThreadUnLock(t, site, m)
  BY <1>1, <1>3 DEF Callback, Quiet
<1> QED BY <1>2, <1>3 DEF Next

\* An operation on a mutex that is announced stays announced, and none is
\* announced by a quiet step or an access.
LEMMA QuietStep ==
  ASSUME TypeOK, NEW t \in Tid, Quiet(t)
  PROVE  /\ UNCHANGED <<held, jumbled, csTable, maTable, guards>>
         /\ \A u \in Tid : \/ pend'[u] = pend[u]
                           \/ /\ pend'[u].kind \notin {"lock", "unlock"}
                              /\ pend[u].kind \notin {"lock", "unlock"}
<1>1. pend \in [Tid -> OpRow]
  BY DEF TypeOK
<1>2. ASSUME NEW op, pend' = [pend EXCEPT ![t] = op],
             op.kind \notin {"lock", "unlock"},
             pend[t].kind \notin {"lock", "unlock"}
      PROVE  \A u \in Tid : \/ pend'[u] = pend[u]
                            \/ /\ pend'[u].kind \notin {"lock", "unlock"}
                               /\ pend[u].kind \notin {"lock", "unlock"}
  BY <1>1, <1>2
<1>3. CASE CreateThread(t)
  <2> DEFINE op == Op("create", None, None, timestamp)
  <2>1. op.kind = "create"
    BY DEF Op
  <2>2. pend' = [pend EXCEPT ![t] = op] /\ pend[t].kind = "idle"
    BY <1>3 DEF CreateThread, Ready, Idle, Op
  <2> HIDE DEF op
  <2> QED BY <1>2, <1>3, <2>1, <2>2 DEF CreateThread, tool, history
<1>4. CASE \E m \in Mutex : CondWait(t, m)
  <2>1. PICK m \in Mutex : CondWait(t, m)
    BY <1>4
  <2> DEFINE op == Op("wait", m, None, timestamp)
  <2>2. op.kind = "wait"
    BY DEF Op
  <2>3. pend' = [pend EXCEPT ![t] = op] /\ pend[t].kind = "idle"
    BY <2>1 DEF CondWait, Ready, Idle, Op
  <2> HIDE DEF op
  <2> QED BY <1>2, <2>1, <2>2, <2>3 DEF CondWait, tool, history
<1>5. CASE CondWake(t)
  <2> DEFINE op == Op("woken", None, None, timestamp)
  <2>1. op.kind = "woken"
    BY DEF Op
  <2>2. pend' = [pend EXCEPT ![t] = op] /\ pend[t].kind = "wait"
    BY <1>5 DEF CondWake, Doing
  <2> HIDE DEF op
  <2> QED BY <1>2, <1>5, <2>1, <2>2 DEF CondWake, tool, history
<1>6. CASE ThreadStart(t) \/ ThreadFini(t) \/ UnLockAborts(t)
  BY <1>6 DEF ThreadStart, ThreadFini, UnLockAborts, history
<1>7. CASE \/ ExecMemAccess(t) \/ afterThreadCreate(t)
           \/ \E type \in PauseTypes \cup WaitTypes : afterThreadSynch(t, type)
  <2>1. Idle.kind = "idle"
    BY DEF Idle, Op
  <2>2. pend' = [pend EXCEPT ![t] = Idle] /\ pend[t].kind \notin {"lock", "unlock"}
    BY <1>7, <2>1 DEF ExecMemAccess, afterThreadCreate, afterThreadSynch, Complete,
                      Ready, Doing
  <2>3. UNCHANGED <<held, jumbled, csTable, maTable, guards>>
    BY <1>7 DEF ExecMemAccess, afterThreadCreate, afterThreadSynch, tool, history
  <2> QED BY <1>2, <2>1, <2>2, <2>3
<1> QED BY <1>3, <1>4, <1>5, <1>6, <1>7 DEF Quiet

\* The same of an access, which is recorded with the mutexes held, if at all.
LEMMA AccessStep ==
  ASSUME TypeOK, NEW t \in Tid, Accessing(t)
  PROVE  /\ UNCHANGED <<held, jumbled, csTable>>
         /\ pend[t].kind \notin {"lock", "unlock"}
         /\ \A u \in Tid : \/ pend'[u] = pend[u]
                           \/ /\ pend'[u].kind \notin {"lock", "unlock"}
                              /\ pend[u].kind \notin {"lock", "unlock"}
         /\ \/ UNCHANGED <<maTable, guards>>
            \/ \E a \in MemRow :
                 /\ a.time = timestamp + 1 /\ a.tid = t
                 /\ a.lock_ev = None /\ a.lock_cv = None
                 /\ Logged(t, a, {m \in Mutex : Holds(t, m)})
<1>1. pend \in [Tid -> OpRow] /\ timestamp \in Nat
  BY DEF TypeOK
<1>2. PICK o \in {"R", "W"}, inst \in Inst, addr \in Addr :
        /\ pend[t].kind \in {"idle", "R"}
        /\ RecordMem(t, o, inst, addr)
  BY DEF Accessing
<1> DEFINE op == Op(o, None, addr, timestamp')
           a == MemAccess(o, inst, addr, t, timestamp')
<1>3. op.kind \in {"R", "W"} /\ pend' = [pend EXCEPT ![t] = op]
  BY <1>2 DEF Op, RecordMem, Begin
<1>4. /\ a \in MemRow
      /\ a.time = timestamp + 1 /\ a.tid = t
      /\ a.lock_ev = None /\ a.lock_cv = None
  BY <1>1, <1>2 DEF MemAccess, MemRow, RecordMem, Tick
<1>5. UNCHANGED <<held, jumbled, csTable>>
  BY <1>2 DEF RecordMem
<1>6. UNCHANGED <<maTable, guards>> \/ Logged(t, a, {m \in Mutex : Holds(t, m)})
  BY <1>2 DEF RecordMem, Logged
<1> HIDE DEF op, a
<1>7. \A u \in Tid : \/ pend'[u] = pend[u]
                     \/ /\ pend'[u].kind \notin {"lock", "unlock"}
                        /\ pend[u].kind \notin {"lock", "unlock"}
  BY <1>1, <1>2, <1>3
<1> QED BY <1>2, <1>4, <1>5, <1>6, <1>7

\* No mutex is held at first.
LEMMA OwnershipInit == Init => Ownership
BY DEF Init, Ownership, Idle, Op

\* A thread that locks a mutex does not hold it yet, and one that unlocks a
\* mutex holds it; so no mutex is held twice by a thread.
LEMMA OwnershipStep == TypeOK /\ Ownership /\ [Next]_vars => Ownership'
<1> SUFFICES ASSUME TypeOK, Ownership, [Next]_vars PROVE Ownership'
  OBVIOUS
<1>1. /\ held \in [Tid -> Seq(Mutex)] /\ pend \in [Tid -> OpRow]
      /\ \A t \in Tid : Len(held[t]) \in Nat /\ DOMAIN held[t] = 1 .. Len(held[t])
  BY LenProperties DEF TypeOK
<1>2. ASSUME NEW t \in Tid, Quiet(t) \/ Accessing(t) PROVE Ownership'
  <2>1. /\ UNCHANGED <<held, jumbled>>
        /\ \A u \in Tid : \/ pend'[u] = pend[u]
                          \/ pend'[u].kind \notin {"lock", "unlock"}
    BY <1>2, QuietStep, AccessStep
  <2> QED BY <2>1 DEF Ownership, Holds
<1>3. ASSUME NEW t \in Tid, AcquireMutex(t) PROVE Ownership'
  <2> DEFINE m == pend[t].mutex
  <2>1. /\ m \in Mutex /\ ~Holds(t, m)
        /\ held' = [held EXCEPT ![t] = Append(@, m)]
        /\ pend' = [pend EXCEPT ![t] = Idle]
        /\ jumbled' = jumbled
    BY <1>1, <1>3, MutexOfOp DEF AcquireMutex, Doing, Ownership, Complete, history
  <2>2. /\ Len(Append(held[t], m)) = Len(held[t]) + 1
        /\ DOMAIN Append(held[t], m) = 1 .. Len(held[t]) + 1
        /\ \A i \in 1 .. Len(held[t]) : Append(held[t], m)[i] = held[t][i]
        /\ Append(held[t], m)[Len(held[t]) + 1] = m
    BY <1>1, <2>1, AppendProperties, LenProperties
  <2>3. \A i, j \in DOMAIN held'[t] : held'[t][i] = held'[t][j] => i = j
    <3>1. held'[t] = Append(held[t], m)
      BY <1>1, <2>1
    <3>2. \A i \in 1 .. Len(held[t]) : held[t][i] # m
      BY <1>1, <2>1 DEF Holds
    <3> QED BY <1>1, <2>2, <3>1, <3>2 DEF Ownership
  <2>4. \A u \in Tid : u # t => held'[u] = held[u] /\ pend'[u] = pend[u]
    BY <1>1, <2>1
  <2>5. pend'[t].kind = "idle"
    BY <1>1, <2>1 DEF Idle, Op
  <2> QED BY <2>1, <2>3, <2>4, <2>5 DEF Ownership, Holds
<1>4. ASSUME NEW t \in Tid, ReleaseMutex(t) PROVE Ownership'
  <2>1. PICK i \in DOMAIN held[t] : held' = [held EXCEPT ![t] = Without(@, i)]
    BY <1>4 DEF ReleaseMutex
  <2>2. pend' = [pend EXCEPT ![t] = Idle] /\ jumbled' = jumbled
    BY <1>4 DEF ReleaseMutex, Complete, history
  <2>3. \A j, k \in DOMAIN held'[t] : held'[t][j] = held'[t][k] => j = k
    <3>1. held'[t] = Without(held[t], i)
      BY <1>1, <2>1
    <3>2. /\ Without(held[t], i) \in Seq(Mutex)
          /\ Len(Without(held[t], i)) = Len(held[t]) - 1
          /\ \A n \in 1 .. Len(held[t]) - 1 :
               Without(held[t], i)[n] = IF n < i THEN held[t][n] ELSE held[t][n + 1]
      <4>1. held[t] \in Seq(Mutex) /\ i \in 1 .. Len(held[t])
        BY <1>1
      <4> QED BY <4>1, WithoutMembers
    <3>3. DOMAIN held'[t] = 1 .. Len(held[t]) - 1
      BY <3>1, <3>2, LenProperties
    <3> TAKE j, k \in DOMAIN held'[t]
    <3> DEFINE from(n) == IF n < i THEN n ELSE n + 1
    <3>4. /\ from(j) \in DOMAIN held[t] /\ from(k) \in DOMAIN held[t]
          /\ held'[t][j] = held[t][from(j)] /\ held'[t][k] = held[t][from(k)]
          /\ from(j) = from(k) => j = k
      BY <1>1, <3>1, <3>2, <3>3
    <3> QED BY <3>4 DEF Ownership
  <2>4. \A u \in Tid : u # t => held'[u] = held[u] /\ pend'[u] = pend[u]
    BY <1>1, <2>1, <2>2
  <2>5. pend'[t].kind = "idle"
    BY <1>1, <2>2 DEF Idle, Op
  <2> QED BY <2>2, <2>3, <2>4, <2>5 DEF Ownership, Holds
<1>5. ASSUME NEW t \in Tid, NEW m \in Mutex, TrylockMutex(t, m) PROVE Ownership'
  <2>1. /\ ~Holds(t, m) /\ held' = [held EXCEPT ![t] = Append(@, m)]
        /\ pend' = pend /\ jumbled' = jumbled /\ pend[t].kind = "idle"
    BY <1>5 DEF TrylockMutex, Ready, Idle, Op, history
  <2>2. /\ Len(Append(held[t], m)) = Len(held[t]) + 1
        /\ DOMAIN Append(held[t], m) = 1 .. Len(held[t]) + 1
        /\ \A i \in 1 .. Len(held[t]) : Append(held[t], m)[i] = held[t][i]
        /\ Append(held[t], m)[Len(held[t]) + 1] = m
    BY <1>1, AppendProperties, LenProperties
  <2>3. \A i, j \in DOMAIN held'[t] : held'[t][i] = held'[t][j] => i = j
    <3>1. held'[t] = Append(held[t], m)
      BY <1>1, <2>1
    <3>2. \A i \in 1 .. Len(held[t]) : held[t][i] # m
      BY <1>1, <2>1 DEF Holds
    <3> QED BY <1>1, <2>2, <3>1, <3>2 DEF Ownership
  <2>4. \A u \in Tid : u # t => held'[u] = held[u]
    BY <1>1, <2>1
  <2> QED BY <2>1, <2>3, <2>4 DEF Ownership, Holds
<1>6. ASSUME NEW t \in Tid, NEW site \in Site, NEW m \in Mutex,
             beforeThreadLock(t, site, m)
      PROVE  Ownership'
  <2>1. /\ ~Holds(t, m) /\ held' = held /\ jumbled' = jumbled
        /\ pend' = [pend EXCEPT ![t] = Op("lock", m, None, timestamp')]
    BY <1>6 DEF beforeThreadLock, Begin, history
  <2>2. \A u \in Tid : u # t => pend'[u] = pend[u]
    BY <1>1, <2>1
  <2>3. pend'[t].kind = "lock" /\ pend'[t].mutex = m
    BY <1>1, <2>1 DEF Op
  <2> QED BY <2>1, <2>2, <2>3 DEF Ownership, Holds
<1>7. ASSUME NEW t \in Tid, NEW site \in Site, NEW m \in Mutex,
             beforeThreadUnLock(t, site, m)
      PROVE  Ownership'
  <2>1. /\ Holds(t, m) /\ held' = held
        /\ jumbled' = IF m = held[t][Len(held[t])] THEN jumbled ELSE jumbled \cup {t}
        /\ pend' = [pend EXCEPT ![t] = Op("unlock", m, None, timestamp')]
    BY <1>7 DEF beforeThreadUnLock, CanUnlock, Begin
  <2>2. \A u \in Tid : u # t => pend'[u] = pend[u]
    BY <1>1, <2>1
  <2>3. pend'[t].kind = "unlock" /\ pend'[t].mutex = m
    BY <1>1, <2>1 DEF Op
  <2> QED BY <2>1, <2>2, <2>3 DEF Ownership, Holds
<1>8. CASE Fini \/ UNCHANGED vars
  <2>1. UNCHANGED <<held, jumbled, pend>>
    BY <1>8 DEF Fini, vars, target, history
  <2> QED BY <2>1 DEF Ownership, Holds
<1> QED BY <1>2, <1>3, <1>4, <1>5, <1>6, <1>7, <1>8, StepKinds

-----------------------------------------------------------------------------
(* A nest is kept up by every step. *)

\* What the types say of the entries of the tables.
LEMMA Tables ==
  ASSUME TypeOK
  PROVE  /\ csTable \in Seq(SectionRow) /\ Len(csTable) \in Nat
         /\ DOMAIN csTable = 1 .. Len(csTable)
         /\ \A k \in DOMAIN csTable :
              /\ csTable[k] \in SectionRow /\ csTable[k].tid \in Tid
              /\ csTable[k].lock_entry_v \in Mutex
              /\ csTable[k].st \in Nat /\ csTable[k].ft \in Nat
         /\ \A t \in Tid :
              /\ Len(held[t]) \in Nat /\ DOMAIN held[t] = 1 .. Len(held[t])
              /\ \A n \in DOMAIN held[t] : held[t][n] \in Mutex
              /\ DOMAIN maTable[t] = 1 .. Len(maTable[t])
              /\ \A j \in DOMAIN maTable[t] :
                   maTable[t][j] \in MemRow /\ maTable[t][j].time \in Nat
<1>1. /\ csTable \in Seq(SectionRow) /\ Len(csTable) \in Nat
      /\ DOMAIN csTable = 1 .. Len(csTable)
      /\ \A k \in DOMAIN csTable : csTable[k] \in SectionRow
  BY LenProperties, ElementOfSeq DEF TypeOK
<1>2. \A t \in Tid :
        /\ Len(held[t]) \in Nat /\ DOMAIN held[t] = 1 .. Len(held[t])
        /\ \A n \in DOMAIN held[t] : held[t][n] \in Mutex
  BY LenProperties, ElementOfSeq DEF TypeOK
<1>3. \A t \in Tid :
        /\ DOMAIN maTable[t] = 1 .. Len(maTable[t])
        /\ \A j \in DOMAIN maTable[t] : maTable[t][j] \in MemRow
  BY LenProperties, ElementOfSeq DEF TypeOK
<1> QED BY <1>1, <1>2, <1>3 DEF SectionRow, MemRow

\* A thread that unlocks a mutex holds one.
LEMMA DepthNat ==
  ASSUME TypeOK, Ownership, NEW t \in Tid
  PROVE  /\ Depth(t) \in Nat
         /\ pend[t].kind = "lock" => Depth(t) = Len(held[t]) + 1
         /\ pend[t].kind = "unlock" =>
              Depth(t) = Len(held[t]) - 1 /\ Len(held[t]) >= 1
         /\ pend[t].kind \notin {"lock", "unlock"} => Depth(t) = Len(held[t])
<1>1. Len(held[t]) \in Nat /\ DOMAIN held[t] = 1 .. Len(held[t])
  BY Tables
<1>2. pend[t].kind = "unlock" => Len(held[t]) >= 1
  BY <1>1 DEF Ownership, Holds
<1> QED BY <1>1, <1>2 DEF Depth

\* No thread is in a section at first.
LEMMA NestInit ==
  ASSUME Init
  PROVE  [t \in Tid |-> <<>>] \in [Tid -> Seq(Nat)] /\ Nest([t \in Tid |-> <<>>])
<1> DEFINE F == [t \in Tid |-> <<>>]
<1>1. /\ F \in [Tid -> Seq(Nat)]
      /\ \A t \in Tid : F[t] = <<>> /\ Len(F[t]) = 0
  BY EmptySeq
<1>2. /\ csTable = <<>> /\ \A t \in Tid : maTable[t] = <<>>
      /\ \A t \in Tid : held[t] = <<>> /\ pend[t].kind = "idle"
  BY DEF Init, Idle, Op
<1>3. \A t \in Tid : Depth(t) = 0
  BY <1>2, EmptySeq DEF Depth
<1> HIDE DEF F
<1>4. NestOpen(F) /\ NestNamed(F) /\ NestGuards(F)
  BY <1>1, <1>2, <1>3 DEF NestOpen, NestNamed, NestGuards
<1>5. NestWaits(F) /\ NestApart(F)
  BY <1>2 DEF NestWaits, NestApart
<1> QED BY <1>1, <1>4, <1>5 DEF Nest, F

\* A step that changes no table, and for no thread the number and the mutexes
\* of the sections it is in, keeps the nest.
LEMMA NestSame ==
  ASSUME TypeOK, NEW F \in [Tid -> Seq(Nat)], Nest(F),
         UNCHANGED <<csTable, maTable, guards, jumbled>>,
         \A t \in Tid :
           /\ Depth(t)' = Depth(t)
           /\ pend'[t].kind = "lock" => pend[t].kind = "lock"
           /\ t \notin jumbled =>
                \A n \in 1 .. Depth(t) : Entered(t, n)' = Entered(t, n)
  PROVE  Nest(F)'
<1>1. NestOpen(F)'
  BY DEF Nest, NestOpen
<1>2. NestNamed(F)'
  <2>1. \A t \in Tid \ jumbled : \A n \in 1 .. Len(F[t]) :
          Entered(t, n)' = Entered(t, n)
    BY DEF Nest, NestOpen
  <2> QED BY <2>1 DEF Nest, NestNamed
<1>3. NestWaits(F)'
  BY DEF Nest, NestWaits
<1>4. NestGuards(F)'
  BY DEF Nest, NestGuards
<1>5. NestApart(F)'
  BY DEF Nest, NestApart
<1> QED BY <1>1, <1>2, <1>3, <1>4, <1>5 DEF Nest

\* Such are the quiet steps.
LEMMA NestQuiet ==
  ASSUME TypeOK, NEW F \in [Tid -> Seq(Nat)], Nest(F), NEW t \in Tid, Quiet(t)
  PROVE  Nest(F)'
<1>1. /\ UNCHANGED <<held, jumbled, csTable, maTable, guards>>
      /\ \A u \in Tid : \/ pend'[u] = pend[u]
                        \/ /\ pend'[u].kind \notin {"lock", "unlock"}
                           /\ pend[u].kind \notin {"lock", "unlock"}
  BY QuietStep
<1>2. \A u \in Tid : Len(held[u]) \in Nat
  BY Tables
<1>3. \A u \in Tid : /\ Depth(u)' = Depth(u)
                     /\ pend'[u].kind = "lock" => pend[u].kind = "lock"
                     /\ \A n \in 1 .. Depth(u) : Entered(u, n)' = Entered(u, n)
  BY <1>1, <1>2 DEF Depth, Entered
<1> QED BY <1>1, <1>3, NestSame

\* When the mutex is acquired, the section that was begun for it is there.
LEMMA NestAcquire ==
  ASSUME TypeOK, Ownership, NEW F \in [Tid -> Seq(Nat)], Nest(F),
         NEW t \in Tid, AcquireMutex(t)
  PROVE  Nest(F)'
<1> DEFINE m == pend[t].mutex
<1>1. /\ pend[t].kind = "lock" /\ m \in Mutex
      /\ held' = [held EXCEPT ![t] = Append(@, m)]
      /\ pend' = [pend EXCEPT ![t] = Idle]
      /\ UNCHANGED <<csTable, maTable, guards, jumbled>>
  BY MutexOfOp DEF AcquireMutex, Doing, Complete, tool, history, TypeOK
<1>2. held \in [Tid -> Seq(Mutex)] /\ pend \in [Tid -> OpRow]
  BY DEF TypeOK
<1>3. \A u \in Tid : u # t => held'[u] = held[u] /\ pend'[u] = pend[u]
  BY <1>1, <1>2
<1>4. held'[t] = Append(held[t], m) /\ pend'[t].kind = "idle"
  BY <1>1, <1>2 DEF Idle, Op
<1>5. /\ Len(held[t]) \in Nat /\ Len(held'[t]) = Len(held[t]) + 1
      /\ \A n \in 1 .. Len(held[t]) : held'[t][n] = held[t][n]
      /\ held'[t][Len(held[t]) + 1] = m
  BY <1>1, <1>2, <1>4, AppendProperties, LenProperties
<1>6. ASSUME NEW u \in Tid
      PROVE  /\ Depth(u)' = Depth(u)
             /\ pend'[u].kind = "lock" => pend[u].kind = "lock"
             /\ \A n \in 1 .. Depth(u) : Entered(u, n)' = Entered(u, n)
  <2>1. CASE u # t
    BY <1>3, <2>1 DEF Depth, Entered
  <2>2. CASE u = t
    <3>1. Depth(t) = Len(held[t]) + 1 /\ Depth(t)' = Len(held[t]) + 1
      BY <1>1, <1>4, <1>5 DEF Depth
    <3> QED BY <1>4, <1>5, <2>2, <3>1 DEF Entered
  <2> QED BY <2>1, <2>2
<1> QED BY <1>1, <1>6, NestSame

\* When the mutex is released, its section has been left already.
LEMMA NestRelease ==
  ASSUME TypeOK, Ownership, NEW F \in [Tid -> Seq(Nat)], Nest(F),
         NEW t \in Tid, ReleaseMutex(t)
  PROVE  Nest(F)'
<1>1. /\ pend[t].kind = "unlock"
      /\ pend' = [pend EXCEPT ![t] = Idle]
      /\ UNCHANGED <<csTable, maTable, guards, jumbled>>
  BY DEF ReleaseMutex, Doing, Complete, tool, history
<1>2. PICK i \in DOMAIN held[t] :
        held[t][i] = pend[t].mutex /\ held' = [held EXCEPT ![t] = Without(@, i)]
  BY DEF ReleaseMutex
<1>3. held \in [Tid -> Seq(Mutex)] /\ pend \in [Tid -> OpRow]
  BY DEF TypeOK
<1>4. \A u \in Tid : u # t => held'[u] = held[u] /\ pend'[u] = pend[u]
  BY <1>1, <1>2, <1>3
<1>5. held'[t] = Without(held[t], i) /\ pend'[t].kind = "idle"
  BY <1>1, <1>2, <1>3 DEF Idle, Op
<1>6. Len(held[t]) \in Nat /\ i \in 1 .. Len(held[t])
  BY Tables
<1>7. /\ Len(held'[t]) = Len(held[t]) - 1
      /\ \A n \in 1 .. Len(held[t]) - 1 :
           held'[t][n] = IF n < i THEN held[t][n] ELSE held[t][n + 1]
  BY <1>3, <1>5, <1>6, WithoutMembers
<1>8. t \notin jumbled => i = Len(held[t])
  <2>1. t \notin jumbled => held[t][i] = held[t][Len(held[t])]
    BY <1>1, <1>2 DEF Ownership
  <2>2. DOMAIN held[t] = 1 .. Len(held[t])
    BY Tables
  <2>3. Len(held[t]) \in DOMAIN held[t]
    BY <1>6, <2>2
  <2> QED BY <2>1, <2>3 DEF Ownership
<1>9. ASSUME NEW u \in Tid
      PROVE  /\ Depth(u)' = Depth(u)
             /\ pend'[u].kind = "lock" => pend[u].kind = "lock"
             /\ u \notin jumbled =>
                  \A n \in 1 .. Depth(u) : Entered(u, n)' = Entered(u, n)
  <2>1. CASE u # t
    BY <1>4, <2>1 DEF Depth, Entered
  <2>2. CASE u = t
    <3>1. Depth(t) = Len(held[t]) - 1 /\ Depth(t)' = Len(held[t]) - 1
      BY <1>1, <1>5, <1>7 DEF Depth
    <3>2. t \notin jumbled =>
            \A n \in 1 .. Len(held[t]) - 1 : held'[t][n] = held[t][n]
      <4>1. ASSUME t \notin jumbled, NEW n \in 1 .. Len(held[t]) - 1
            PROVE  held'[t][n] = held[t][n]
        <5>1. n < i
          BY <1>6, <1>8, <4>1
        <5> QED BY <1>7, <5>1
      <4> QED BY <4>1
    <3> QED BY <1>5, <1>6, <1>7, <2>2, <3>1, <3>2 DEF Entered
  <2> QED BY <2>1, <2>2
<1> QED BY <1>1, <1>9, NestSame


\* A recorded access is the last of its row, and what was held at it is the
\* last of the row of guards.
LEMMA AppendAccess ==
  ASSUME TypeOK, GuardRows, NEW t \in Tid, NEW a \in MemRow, NEW G \in SUBSET Mutex,
         Logged(t, a, G)
  PROVE  /\ GuardRows'
         /\ \A u \in Tid : DOMAIN maTable[u] \subseteq DOMAIN maTable'[u]
         /\ \A u \in Tid : \A j \in DOMAIN maTable'[u] :
              \/ /\ j \in DOMAIN maTable[u]
                 /\ maTable'[u][j] = maTable[u][j]
                 /\ guards'[u][j] = guards[u][j]
              \/ u = t /\ maTable'[u][j] = a /\ guards'[u][j] = G
<1>1. maTable \in [Tid -> Seq(MemRow)] /\ guards \in [Tid -> Seq(SUBSET Mutex)]
  BY DEF TypeOK
<1>2. \A u \in Tid : u # t => maTable'[u] = maTable[u] /\ guards'[u] = guards[u]
  BY <1>1 DEF Logged
<1>3. maTable'[t] = Append(maTable[t], a) /\ guards'[t] = Append(guards[t], G)
  BY <1>1 DEF Logged
<1> DEFINE n == Len(maTable[t])
<1>4. n \in Nat /\ DOMAIN maTable[t] = 1 .. n /\ DOMAIN guards[t] = 1 .. n
      /\ Len(guards[t]) = n
  BY <1>1, LenProperties DEF GuardRows
<1>5. /\ DOMAIN maTable'[t] = 1 .. n + 1
      /\ \A j \in 1 .. n : maTable'[t][j] = maTable[t][j]
      /\ maTable'[t][n + 1] = a
  BY <1>1, <1>3, <1>4, AppendProperties, LenProperties
<1>6. /\ DOMAIN guards'[t] = 1 .. n + 1
      /\ \A j \in 1 .. n : guards'[t][j] = guards[t][j]
      /\ guards'[t][n + 1] = G
  BY <1>1, <1>3, <1>4, AppendProperties, LenProperties
<1> HIDE DEF n
<1>7. GuardRows'
  BY <1>2, <1>5, <1>6 DEF GuardRows
<1>8. \A u \in Tid : DOMAIN maTable[u] \subseteq DOMAIN maTable'[u]
  BY <1>2, <1>4, <1>5
<1>9. \A j \in DOMAIN maTable'[t] : j \in 1 .. n \/ j = n + 1
  BY <1>4, <1>5
<1> QED BY <1>2, <1>4, <1>5, <1>6, <1>7, <1>8, <1>9 DEF GuardRows

\* An access is made under the mutexes of all sections its thread is in.
LEMMA NestAccess ==
  ASSUME StampsInv, Ownership, GuardRows, NEW F \in [Tid -> Seq(Nat)], Nest(F),
         NEW t \in Tid, Accessing(t)
  PROVE  Nest(F)'
<1>1. TypeOK /\ timestamp \in Nat
  BY DEF StampsInv, TypeOK
<1>2. /\ UNCHANGED <<held, jumbled, csTable>>
      /\ pend[t].kind \notin {"lock", "unlock"}
      /\ \A u \in Tid : \/ pend'[u] = pend[u]
                        \/ /\ pend'[u].kind \notin {"lock", "unlock"}
                           /\ pend[u].kind \notin {"lock", "unlock"}
  BY <1>1, AccessStep
<1>3. \A u \in Tid : Len(held[u]) \in Nat /\ DOMAIN held[u] = 1 .. Len(held[u])
  BY <1>1, Tables
<1>4. \A u \in Tid : /\ Depth(u)' = Depth(u)
                     /\ pend'[u].kind = "lock" => pend[u].kind = "lock"
                     /\ \A n \in 1 .. Depth(u) : Entered(u, n)' = Entered(u, n)
  BY <1>2, <1>3 DEF Depth, Entered
<1>5. CASE UNCHANGED <<maTable, guards>>
  BY <1>1, <1>2, <1>4, <1>5, NestSame
<1>6. ASSUME NEW a \in MemRow,
             a.time = timestamp + 1, Logged(t, a, {m \in Mutex : Holds(t, m)})
      PROVE  Nest(F)'
  <2> DEFINE G == {m \in Mutex : Holds(t, m)}
  <2>0. G \in SUBSET Mutex /\ Logged(t, a, G)
    BY <1>6
  <2>a. \A m \in Mutex : Holds(t, m) => m \in G
    OBVIOUS
  <2> HIDE DEF G
  <2>1. \A u \in Tid : \A j \in DOMAIN maTable'[u] :
              \/ /\ j \in DOMAIN maTable[u]
                 /\ maTable'[u][j] = maTable[u][j]
                 /\ guards'[u][j] = guards[u][j]
              \/ u = t /\ maTable'[u][j] = a /\ guards'[u][j] = G
    BY <1>1, <2>0, AppendAccess
  <2>2. NestOpen(F)'
    BY <1>2, <1>4 DEF Nest, NestOpen
  <2>3. NestNamed(F)'
    <3>1. \A u \in Tid : \A n \in 1 .. Len(F[u]) : Entered(u, n)' = Entered(u, n)
      BY <1>4 DEF Nest, NestOpen
    <3> QED BY <1>2, <3>1 DEF Nest, NestNamed
  <2>4. NestWaits(F)'
    <3> SUFFICES ASSUME NEW u \in Tid, pend'[u].kind = "lock",
                        NEW j \in DOMAIN maTable'[u]
                 PROVE  maTable'[u][j].time < csTable[F[u][Len(F[u])]].st
      BY <1>2 DEF NestWaits
    <3>1. pend[u].kind = "lock" /\ u # t
      BY <1>2, <1>4
    <3>2. j \in DOMAIN maTable[u] /\ maTable'[u][j] = maTable[u][j]
      BY <2>1, <3>1
    <3> QED BY <3>1, <3>2 DEF Nest, NestWaits
  <2>5. NestGuards(F)'
    <3> SUFFICES ASSUME NEW u \in Tid \ jumbled, NEW n \in 1 .. Len(F[u]),
                        NEW j \in DOMAIN maTable'[u],
                        csTable[F[u][n]].st < maTable'[u][j].time
                 PROVE  csTable[F[u][n]].lock_entry_v \in guards'[u][j]
      BY <1>2 DEF NestGuards
    <3>1. CASE /\ j \in DOMAIN maTable[u]
               /\ maTable'[u][j] = maTable[u][j]
               /\ guards'[u][j] = guards[u][j]
      BY <3>1 DEF Nest, NestGuards
    <3>2. CASE u = t /\ guards'[u][j] = G
      <4>1. Len(F[t]) = Depth(t) /\ csTable[F[t][n]].lock_entry_v = Entered(t, n)
        BY <3>2 DEF Nest, NestOpen, NestNamed
      <4>2. Depth(t) = Len(held[t])
        BY <1>2 DEF Depth
      <4>3. n \in DOMAIN held[t] /\ Entered(t, n) = held[t][n]
        BY <1>3, <3>2, <4>1, <4>2 DEF Entered
      <4>4. held[t][n] \in Mutex /\ Holds(t, held[t][n])
        BY <1>1, <4>3, Tables DEF Holds
      <4> QED BY <2>a, <3>2, <4>1, <4>3, <4>4
    <3> QED BY <2>1, <3>1, <3>2
  <2>6. NestApart(F)'
    BY <1>2 DEF Nest, NestApart
  <2> QED BY <2>2, <2>3, <2>4, <2>5, <2>6 DEF Nest
<1> QED BY <1>1, <1>5, <1>6, AccessStep

-----------------------------------------------------------------------------
(* Beginning and leaving a section. *)

Pushed(F, t) == [F EXCEPT ![t] = Append(@, Len(csTable) + 1)]
Popped(F, t) == [F EXCEPT ![t] = SubSeq(@, 1, Len(@) - 1)]

\* A nest with one more section, the one that is appended to csTable next.
LEMMA PushedNest ==
  ASSUME NEW F \in [Tid -> Seq(Nat)], NEW t \in Tid, Len(csTable) \in Nat
  PROVE  /\ Pushed(F, t) \in [Tid -> Seq(Nat)]
         /\ \A u \in Tid : u # t => Pushed(F, t)[u] = F[u]
         /\ Len(F[t]) \in Nat /\ Len(Pushed(F, t)[t]) = Len(F[t]) + 1
         /\ \A n \in 1 .. Len(F[t]) : Pushed(F, t)[t][n] = F[t][n]
         /\ Pushed(F, t)[t][Len(F[t]) + 1] = Len(csTable) + 1
<1> DEFINE s == Append(F[t], Len(csTable) + 1)
<1>1. /\ s \in Seq(Nat) /\ Len(s) = Len(F[t]) + 1 /\ Len(F[t]) \in Nat
      /\ \A n \in 1 .. Len(F[t]) : s[n] = F[t][n]
      /\ s[Len(F[t]) + 1] = Len(csTable) + 1
  BY AppendProperties, LenProperties
<1>2. Pushed(F, t) = [F EXCEPT ![t] = s]
  BY DEF Pushed
<1> HIDE DEF s
<1> QED BY <1>1, <1>2

\* A nest without the innermost section of a thread.
LEMMA PoppedNest ==
  ASSUME NEW F \in [Tid -> Seq(Nat)], NEW t \in Tid, Len(F[t]) >= 1
  PROVE  /\ Popped(F, t) \in [Tid -> Seq(Nat)]
         /\ \A u \in Tid : u # t => Popped(F, t)[u] = F[u]
         /\ Len(F[t]) \in Nat /\ Len(Popped(F, t)[t]) = Len(F[t]) - 1
         /\ \A n \in 1 .. Len(F[t]) - 1 : Popped(F, t)[t][n] = F[t][n]
<1> DEFINE s == SubSeq(F[t], 1, Len(F[t]) - 1)
<1>1. Len(F[t]) \in Nat /\ \A n \in 1 .. Len(F[t]) : F[t][n] \in Nat
  BY ElementOfSeq, LenProperties
<1>2. /\ s \in Seq(Nat) /\ Len(s) = Len(F[t]) - 1
      /\ \A n \in 1 .. Len(F[t]) - 1 : s[n] = F[t][n]
  <2> DEFINE L == Len(F[t]) - 1
             q == F[t]
  <2>1. L \in Nat /\ \A n \in 1 .. L : q[n] \in Nat
    BY <1>1
  <2>2. s = SubSeq(q, 1, L)
    OBVIOUS
  <2> HIDE DEF L, q, s
  <2>3. /\ SubSeq(q, 1, L) \in Seq(Nat)
        /\ Len(SubSeq(q, 1, L)) = IF 1 <= L THEN L - 1 + 1 ELSE 0
        /\ \A n \in 1 .. L - 1 + 1 : SubSeq(q, 1, L)[n] = q[1 + n - 1]
    BY <2>1, SubSeqProperties
  <2>4. \A n \in 1 .. L : SubSeq(q, 1, L)[n] = q[n]
    BY <2>1, <2>3
  <2>5. Len(SubSeq(q, 1, L)) = L
    BY <2>1, <2>3
  <2> QED BY ONLY <2>2, <2>3, <2>4, <2>5, Zenon DEF L, q
<1>3. Popped(F, t) = [F EXCEPT ![t] = s]
  BY DEF Popped
<1> HIDE DEF s
<1> QED BY <1>1, <1>2, <1>3

\* The row that beforeThreadLock appends.
LEMMA LockRow ==
  ASSUME TypeOK, NEW t \in Tid, NEW site \in Site, NEW m \in Mutex,
         beforeThreadLock(t, site, m)
  PROVE  /\ UNCHANGED <<held, jumbled, maTable, guards>> /\ ~Holds(t, m)
         /\ pend[t].kind = "idle"
         /\ pend' = [pend EXCEPT ![t] = Op("lock", m, None, timestamp')]
         /\ timestamp' = timestamp + 1
         /\ DOMAIN csTable' = 1 .. Len(csTable) + 1
         /\ \A k \in DOMAIN csTable : csTable'[k] = csTable[k]
         /\ csTable'[Len(csTable) + 1] = CriticalSection(t, site, m, timestamp + 1)
<1>1. /\ UNCHANGED <<held, jumbled, maTable, guards>> /\ ~Holds(t, m)
      /\ pend[t].kind = "idle"
      /\ pend' = [pend EXCEPT ![t] = Op("lock", m, None, timestamp')]
      /\ timestamp' = timestamp + 1
      /\ csTable' = Append(csTable, CriticalSection(t, site, m, timestamp'))
  BY DEF beforeThreadLock, Ready, Idle, Op, Begin, Tick, history
<1>2. csTable \in Seq(SectionRow) /\ timestamp \in Nat /\ None \notin Mutex
  BY TracerAssumption DEF TypeOK
<1> DEFINE cs == CriticalSection(t, site, m, timestamp + 1)
<1>3. cs \in SectionRow
  BY <1>2 DEF CriticalSection, SectionRow
<1>4. csTable' = Append(csTable, cs)
  BY <1>1
<1> HIDE DEF cs
<1>5. /\ DOMAIN csTable' = 1 .. Len(csTable) + 1
      /\ \A k \in DOMAIN csTable : csTable'[k] = csTable[k]
      /\ csTable'[Len(csTable) + 1] = cs
  BY <1>2, <1>3, <1>4, AppendProperties, LenProperties
<1> QED BY <1>1, <1>5 DEF cs

\* A section is begun: it is the innermost of its thread, and it is the only
\* one of its mutex, which the thread does not hold.
LEMMA NestLock ==
  ASSUME StampsInv, Ownership, NEW F \in [Tid -> Seq(Nat)], Nest(F), NEW t \in Tid,
         NEW site \in Site, NEW m \in Mutex, beforeThreadLock(t, site, m),
         NEW G, G = Pushed(F, t)
  PROVE  G \in [Tid -> Seq(Nat)] /\ Nest(G)'
<1> DEFINE new == Len(csTable) + 1
<1>1. /\ TypeOK /\ timestamp \in Nat /\ Len(csTable) \in Nat
      /\ DOMAIN csTable = 1 .. Len(csTable) /\ pend \in [Tid -> OpRow]
  BY Tables DEF StampsInv, TypeOK
<1>2. /\ UNCHANGED <<held, jumbled, maTable, guards>> /\ ~Holds(t, m)
      /\ pend[t].kind = "idle"
      /\ pend' = [pend EXCEPT ![t] = Op("lock", m, None, timestamp')]
      /\ timestamp' = timestamp + 1
      /\ DOMAIN csTable' = 1 .. new
      /\ \A k \in DOMAIN csTable : csTable'[k] = csTable[k]
      /\ csTable'[new] = CriticalSection(t, site, m, timestamp + 1)
  BY <1>1, LockRow
<1>3. \A u \in Tid : u # t => pend'[u] = pend[u]
  BY <1>1, <1>2
<1>4. pend'[t].kind = "lock" /\ pend'[t].mutex = m
  BY <1>1, <1>2 DEF Op
<1>5. /\ csTable'[new].tid = t /\ csTable'[new].unlock_callsite_v = None
      /\ csTable'[new].lock_entry_v = m
      /\ csTable'[new].st = timestamp + 1 /\ csTable'[new].ft = 0
  BY <1>2 DEF CriticalSection
<1>6. /\ G \in [Tid -> Seq(Nat)]
      /\ \A u \in Tid : u # t => G[u] = F[u]
      /\ Len(F[t]) \in Nat /\ Len(G[t]) = Len(F[t]) + 1
      /\ \A n \in 1 .. Len(F[t]) : G[t][n] = F[t][n]
      /\ G[t][Len(F[t]) + 1] = new
  BY <1>1, PushedNest
<1>7. \A u \in Tid : \A n \in 1 .. Len(F[u]) :
        /\ F[u][n] \in DOMAIN csTable /\ IsOpen(csTable[F[u][n]], u)
        /\ csTable'[F[u][n]] = csTable[F[u][n]]
        /\ F[u][n] < new /\ F[u][n] # new
  BY <1>1, <1>2 DEF Nest, NestOpen
<1>8. \A u \in Tid : Len(F[u]) \in Nat
  BY LenProperties
<1> HIDE DEF new
\* Every member of the nest is an old one or the new one.
<1>9. \A u \in Tid : \A n \in 1 .. Len(G[u]) :
        \/ n \in 1 .. Len(F[u]) /\ G[u][n] = F[u][n]
        \/ u = t /\ n = Len(F[t]) + 1 /\ G[u][n] = new
  <2> TAKE u \in Tid
  <2>1. CASE u # t
    BY <1>6, <2>1
  <2>2. CASE u = t
    BY <1>6, <2>2
  <2> QED BY <2>1, <2>2
<1>10. \A k \in DOMAIN csTable' : k \in DOMAIN csTable \/ k = new
  BY <1>1, <1>2 DEF new
<1>11. /\ Len(F[t]) = Len(held[t]) /\ Depth(t)' = Len(held[t]) + 1
       /\ Len(held[t]) \in Nat
       /\ \A u \in Tid : u # t => Depth(u)' = Depth(u)
       /\ \A u \in Tid : Len(F[u]) = Depth(u)
  BY <1>1, <1>2, <1>3, <1>4, Tables DEF Depth, Nest, NestOpen
<1>12. NestOpen(G)'
  <2> SUFFICES ASSUME NEW u \in Tid
               PROVE  /\ Len(G[u]) = Depth(u)'
                      /\ \A n \in 1 .. Len(G[u]) :
                           /\ G[u][n] \in DOMAIN csTable'
                           /\ IsOpen(csTable'[G[u][n]], u)
                      /\ \A n, o \in 1 .. Len(G[u]) : n < o => G[u][n] < G[u][o]
                      /\ \A k \in DOMAIN csTable' : IsOpen(csTable'[k], u) =>
                           \/ \E n \in 1 .. Len(G[u]) : G[u][n] = k
                           \/ /\ "miss" \in StrayIndex
                              /\ \A n \in 1 .. Len(G[u]) : k < G[u][n]
    BY DEF NestOpen
  <2>1. Len(G[u]) = Depth(u)'
    BY <1>6, <1>11
  <2>2. DOMAIN csTable \subseteq DOMAIN csTable' /\ new \in DOMAIN csTable'
    BY <1>1, <1>2 DEF new
  <2>3. IsOpen(csTable'[new], t)
    BY <1>5 DEF IsOpen
  <2>4. \A n \in 1 .. Len(G[u]) :
          G[u][n] \in DOMAIN csTable' /\ IsOpen(csTable'[G[u][n]], u)
    <3> SUFFICES ASSUME NEW n \in 1 .. Len(G[u])
                 PROVE  G[u][n] \in DOMAIN csTable' /\ IsOpen(csTable'[G[u][n]], u)
      OBVIOUS
    <3>1. CASE n \in 1 .. Len(F[u]) /\ G[u][n] = F[u][n]
      BY <1>7, <2>2, <3>1
    <3>2. CASE u = t /\ G[u][n] = new
      BY <2>2, <2>3, <3>2
    <3> QED BY <1>9, <3>1, <3>2
  <2>5. \A n, o \in 1 .. Len(G[u]) : n < o => G[u][n] < G[u][o]
    <3> TAKE n, o \in 1 .. Len(G[u])
    <3>1. CASE o \in 1 .. Len(F[u]) /\ n < o
      <4>1. n \in 1 .. Len(F[u])
        BY <1>8, <3>1
      <4>2. G[u][n] = F[u][n] /\ G[u][o] = F[u][o]
        BY <1>6, <3>1, <4>1
      <4> QED BY <3>1, <4>1, <4>2 DEF Nest, NestOpen
    <3>2. CASE u = t /\ o = Len(F[t]) + 1 /\ n < o
      <4>1. n \in 1 .. Len(F[t])
        BY <1>8, <3>2
      <4> QED BY <1>6, <1>7, <3>2, <4>1
    <3> QED BY <1>9, <3>1, <3>2
  <2>6. ASSUME NEW k \in DOMAIN csTable', IsOpen(csTable'[k], u)
        PROVE  \/ \E n \in 1 .. Len(G[u]) : G[u][n] = k
               \/ /\ "miss" \in StrayIndex
                  /\ \A n \in 1 .. Len(G[u]) : k < G[u][n]
    <3>1. CASE k = new
      <4>1. u = t
        BY <1>5, <2>6, <3>1 DEF IsOpen
      <4>2. Len(F[t]) + 1 \in 1 .. Len(G[t])
        BY <1>6
      <4> QED BY <1>6, <3>1, <4>1, <4>2
    <3>2. CASE k \in DOMAIN csTable
      <4>1. IsOpen(csTable[k], u) /\ k < new
        BY <1>1, <1>2, <2>6, <3>2 DEF new
      <4>2. CASE \E n \in 1 .. Len(F[u]) : F[u][n] = k
        <5>1. PICK n \in 1 .. Len(F[u]) : F[u][n] = k
          BY <4>2
        <5>2. n \in 1 .. Len(G[u]) /\ G[u][n] = F[u][n]
          <6>1. CASE u = t
            BY <1>6, <6>1
          <6>2. CASE u # t
            BY <1>6, <6>2
          <6> QED BY <6>1, <6>2
        <5> QED BY <5>1, <5>2
      <4>3. CASE "miss" \in StrayIndex /\ \A n \in 1 .. Len(F[u]) : k < F[u][n]
        BY <1>9, <4>1, <4>3
      <4> QED BY <3>2, <4>1, <4>2, <4>3 DEF Nest, NestOpen
    <3> QED BY <1>10, <3>1, <3>2
  <2> QED BY <2>1, <2>4, <2>5, <2>6
<1>13. NestNamed(G)'
  <2> SUFFICES ASSUME NEW u \in Tid \ jumbled, NEW n \in 1 .. Len(G[u])
               PROVE  csTable'[G[u][n]].lock_entry_v = Entered(u, n)'
    BY <1>2 DEF NestNamed
  <2>1. CASE u = t /\ n = Len(F[t]) + 1 /\ G[u][n] = new
    BY <1>2, <1>4, <1>5, <1>11, <2>1 DEF Entered
  <2>2. CASE n \in 1 .. Len(F[u]) /\ G[u][n] = F[u][n]
    <3>1. csTable'[G[u][n]].lock_entry_v = Entered(u, n)
      BY <1>7, <2>2 DEF Nest, NestNamed
    <3>2. Entered(u, n)' = Entered(u, n)
      BY <1>2, <1>3, <1>11, <2>2 DEF Entered
    <3> QED BY <3>1, <3>2
  <2> QED BY <1>9, <2>1, <2>2
<1>14. NestWaits(G)'
  <2> SUFFICES ASSUME NEW u \in Tid, pend'[u].kind = "lock", NEW j \in DOMAIN maTable[u]
               PROVE  maTable[u][j].time < csTable'[G[u][Len(G[u])]].st
    BY <1>2 DEF NestWaits
  <2>1. CASE u = t
    BY <1>1, <1>5, <1>6, <2>1 DEF StampsInv, StampsInPast
  <2>2. CASE u # t
    <3>1. pend[u].kind = "lock" /\ G[u] = F[u]
      BY <1>3, <1>6, <2>2
    <3>2. Len(F[u]) \in 1 .. Len(F[u])
      BY <1>1, <1>11, <3>1, Tables DEF Depth
    <3> QED BY <1>7, <3>1, <3>2 DEF Nest, NestWaits
  <2> QED BY <2>1, <2>2
<1>15. NestGuards(G)'
  <2> SUFFICES ASSUME NEW u \in Tid \ jumbled, NEW n \in 1 .. Len(G[u]),
                      NEW j \in DOMAIN maTable[u],
                      csTable'[G[u][n]].st < maTable[u][j].time
               PROVE  csTable'[G[u][n]].lock_entry_v \in guards[u][j]
    BY <1>2 DEF NestGuards
  <2>1. G[u][n] # new
    BY <1>1, <1>5 DEF StampsInv, StampsInPast
  <2>2. n \in 1 .. Len(F[u]) /\ G[u][n] = F[u][n]
    BY <1>9, <2>1
  <2>3. /\ csTable'[G[u][n]] = csTable[F[u][n]]
        /\ csTable[F[u][n]].st < maTable[u][j].time
    BY <1>7, <2>2
  <2> QED BY <2>2, <2>3 DEF Nest, NestGuards
<1>16. NestApart(G)'
  <2> SUFFICES ASSUME NEW k \in DOMAIN csTable', NEW l \in DOMAIN csTable',
                      k < l, csTable'[k].tid = csTable'[l].tid,
                      csTable'[k].tid \notin jumbled,
                      csTable'[k].lock_entry_v = csTable'[l].lock_entry_v
               PROVE  /\ \A n \in 1 .. Len(G[csTable'[k].tid]) :
                           G[csTable'[k].tid][n] # k
                      /\ csTable'[k].ft # 0 => csTable'[k].ft < csTable'[l].st
    BY <1>2 DEF NestApart
  <2>1. k \in DOMAIN csTable /\ k # new /\ csTable'[k] = csTable[k]
    BY <1>1, <1>2 DEF new
  <2>2. csTable[k].tid \in Tid
    BY <1>1, <2>1, Tables
  <2>3. SUFFICES /\ \A n \in 1 .. Len(F[csTable[k].tid]) : F[csTable[k].tid][n] # k
                 /\ csTable[k].ft # 0 => csTable[k].ft < csTable'[l].st
    <3>1. ASSUME NEW u \in Tid, \A n \in 1 .. Len(F[u]) : F[u][n] # k
          PROVE  \A n \in 1 .. Len(G[u]) : G[u][n] # k
      BY <1>9, <2>1, <3>1
    <3> QED BY <2>1, <2>2, <3>1
  <2>4. CASE l \in DOMAIN csTable
    BY <1>2, <2>1, <2>4 DEF Nest, NestApart
  <2>5. CASE l = new
    <3>1. csTable[k].tid = t /\ csTable[k].lock_entry_v = m /\ t \notin jumbled
      BY <1>5, <2>1, <2>5
    <3>2. csTable[k].ft # 0 => csTable[k].ft < csTable'[l].st
      BY <1>1, <1>5, <2>1, <2>5 DEF StampsInv, StampsInPast
    <3>3. ASSUME NEW n \in 1 .. Len(F[t]), F[t][n] = k PROVE FALSE
      <4>1. Entered(t, n) = m
        BY <3>1, <3>3 DEF Nest, NestNamed
      <4>2. n \in DOMAIN held[t] /\ held[t][n] = m
        BY <1>1, <1>11, <4>1, Tables DEF Entered
      <4> QED BY <1>2, <4>2 DEF Holds
    <3> QED BY <3>1, <3>2, <3>3
  <2> QED BY <1>10, <2>4, <2>5
<1> QED BY <1>6, <1>12, <1>13, <1>14, <1>15, <1>16 DEF Nest

\* Section i is finished by an unlock of m at site.
Finished(i, site, m) ==
  /\ csTable'[i].tid = csTable[i].tid
  /\ csTable'[i].lock_callsite_v = csTable[i].lock_callsite_v
  /\ csTable'[i].lock_entry_v = csTable[i].lock_entry_v
  /\ csTable'[i].st = csTable[i].st
  /\ csTable'[i].ft = timestamp + 1
  /\ csTable'[i].unlock_callsite_v = site
  /\ csTable'[i].unlock_entry_v = m

\* An unlock misses the one section of the table.
Missed == "miss" \in StrayIndex /\ Len(csTable) = 1 /\ csTable' = csTable

\* In a nest, the section that beforeThreadUnLock finds from the back of the
\* table is the innermost of its thread.
LEMMA UnlockRow ==
  ASSUME TypeOK, Ownership, NEW F \in [Tid -> Seq(Nat)], Nest(F), NEW t \in Tid,
         NEW site \in Site, NEW m \in Mutex, beforeThreadUnLock(t, site, m)
  PROVE  /\ UNCHANGED <<held, maTable, guards>> /\ Holds(t, m)
         /\ pend[t].kind = "idle"
         /\ pend' = [pend EXCEPT ![t] = Op("unlock", m, None, timestamp')]
         /\ timestamp' = timestamp + 1
         /\ jumbled' = IF m = held[t][Len(held[t])] THEN jumbled
                                                    ELSE jumbled \cup {t}
         /\ Len(F[t]) \in Nat /\ Len(F[t]) = Len(held[t]) /\ Len(F[t]) >= 1
         /\ F[t][Len(F[t])] \in DOMAIN csTable
         /\ DOMAIN csTable' = DOMAIN csTable
         /\ \A k \in DOMAIN csTable : k # F[t][Len(F[t])] => csTable'[k] = csTable[k]
         /\ Finished(F[t][Len(F[t])], site, m) \/ Missed
<1> DEFINE L == Len(F[t])
           i == F[t][L]
<1>1. /\ UNCHANGED <<held, maTable, guards>> /\ Holds(t, m)
      /\ pend[t].kind = "idle"
      /\ pend' = [pend EXCEPT ![t] = Op("unlock", m, None, timestamp')]
      /\ timestamp' = timestamp + 1
      /\ jumbled' = IF m = held[t][Len(held[t])] THEN jumbled ELSE jumbled \cup {t}
      /\ MatchUnlock(t, site, m)
  BY DEF beforeThreadUnLock, CanUnlock, Ready, Idle, Op, Begin, Tick
<1>2. /\ L \in Nat /\ L = Len(held[t]) /\ Len(held[t]) >= 1
  BY <1>1, Tables DEF Nest, NestOpen, Depth, Holds
<1>3. /\ i \in DOMAIN csTable /\ IsOpen(csTable[i], t)
      /\ \A n \in 1 .. L : F[t][n] \in Nat /\ F[t][n] <= i
  <2>1. L \in 1 .. L
    BY <1>2
  <2>2. \A n \in 1 .. L : F[t][n] \in Nat
    BY ElementOfSeq
  <2>3. \A n \in 1 .. L : n < L => F[t][n] < i
    BY <2>1 DEF Nest, NestOpen
  <2>4. \A n \in 1 .. L : F[t][n] <= i
    <3> TAKE n \in 1 .. L
    <3>1. CASE n < L
      BY <1>2, <2>1, <2>2, <2>3, <3>1
    <3>2. CASE n = L
      BY <2>1, <2>2, <3>2
    <3> QED BY <1>2, <3>1, <3>2
  <2> QED BY <2>1, <2>2, <2>4 DEF Nest, NestOpen
<1>4. /\ csTable \in Seq(SectionRow) /\ DOMAIN csTable = 1 .. Len(csTable)
      /\ Len(csTable) \in Nat
  BY Tables
<1> HIDE DEF L, i
<1>5. ASSUME NEW k \in DOMAIN csTable, LastOpen(k, t), FinishSection(k, site, m)
      PROVE  /\ DOMAIN csTable' = DOMAIN csTable
             /\ \A l \in DOMAIN csTable : l # i => csTable'[l] = csTable[l]
             /\ Finished(i, site, m)
  <2>1. k = i
    <3>1. ~(i > k)
      BY <1>3, <1>5 DEF LastOpen
    <3>2. ~(k > i)
      <4>1. IsOpen(csTable[k], t)
        BY <1>5 DEF LastOpen
      <4>2. CASE \E n \in 1 .. L : F[t][n] = k
        BY <1>3, <1>4, <4>2
      <4>3. CASE \A n \in 1 .. L : k < F[t][n]
        BY <1>2, <1>3, <1>4, <4>3 DEF i
      <4> QED BY <4>1, <4>2, <4>3 DEF Nest, NestOpen, L
    <3> QED BY <1>3, <1>4, <3>1, <3>2
  <2> DEFINE row == [csTable[k] EXCEPT !.ft = timestamp',
                                       !.unlock_callsite_v = site,
                                       !.unlock_entry_v = m]
  <2>2. csTable' = [csTable EXCEPT ![k] = row]
    BY <1>5 DEF FinishSection
  <2>3. /\ row.tid = csTable[k].tid
        /\ row.lock_callsite_v = csTable[k].lock_callsite_v
        /\ row.lock_entry_v = csTable[k].lock_entry_v
        /\ row.st = csTable[k].st /\ row.ft = timestamp + 1
        /\ row.unlock_callsite_v = site /\ row.unlock_entry_v = m
    <3>1. csTable[k] \in SectionRow
      BY Tables
    <3> QED BY <1>1, <3>1 DEF SectionRow
  <2> HIDE DEF row
  <2>4. csTable'[k] = row
    BY <2>2
  <2> QED BY <2>1, <2>2, <2>3, <2>4 DEF Finished
<1>6. ASSUME Len(csTable) = 1, IsOpen(csTable[1], t) => "miss" \in StrayIndex,
             UNCHANGED csTable
      PROVE  Missed
  BY <1>3, <1>4, <1>6 DEF Missed
<1>7. CASE \E k \in DOMAIN csTable : LastOpen(k, t) /\ FinishSection(k, site, m)
  BY <1>1, <1>2, <1>3, <1>5, <1>7 DEF L, i
<1>8. CASE Missed
  BY <1>1, <1>2, <1>3, <1>8 DEF Missed, L, i
<1> QED BY <1>1, <1>6, <1>7, <1>8 DEF MatchUnlock

\* A section is left: the others of its thread are still there.
LEMMA NestUnlock ==
  ASSUME StampsInv, Ownership, NEW F \in [Tid -> Seq(Nat)], Nest(F), NEW t \in Tid,
         NEW site \in Site, NEW m \in Mutex, beforeThreadUnLock(t, site, m),
         NEW G, G = Popped(F, t)
  PROVE  G \in [Tid -> Seq(Nat)] /\ Nest(G)'
<1> DEFINE i == F[t][Len(F[t])]
<1>1. /\ TypeOK /\ timestamp \in Nat /\ pend \in [Tid -> OpRow]
      /\ Len(csTable) \in Nat /\ DOMAIN csTable = 1 .. Len(csTable)
  BY Tables DEF StampsInv, TypeOK
<1>2. /\ UNCHANGED <<held, maTable, guards>>
      /\ pend[t].kind = "idle"
      /\ pend' = [pend EXCEPT ![t] = Op("unlock", m, None, timestamp')]
      /\ jumbled \subseteq jumbled'
      /\ Len(F[t]) \in Nat /\ Len(F[t]) = Len(held[t]) /\ Len(F[t]) >= 1
      /\ i \in DOMAIN csTable /\ DOMAIN csTable' = DOMAIN csTable
      /\ \A k \in DOMAIN csTable : k # i => csTable'[k] = csTable[k]
      /\ Finished(i, site, m) \/ Missed
  BY <1>1, UnlockRow
<1>3. \A u \in Tid : u # t => pend'[u] = pend[u]
  BY <1>1, <1>2
<1>4. pend'[t].kind = "unlock"
  BY <1>1, <1>2 DEF Op
<1>5. /\ G \in [Tid -> Seq(Nat)]
      /\ \A u \in Tid : u # t => G[u] = F[u]
      /\ Len(G[t]) = Len(F[t]) - 1
      /\ \A n \in 1 .. Len(F[t]) - 1 : G[t][n] = F[t][n]
  BY <1>2, PoppedNest
<1>6. \A u \in Tid : Len(F[u]) \in Nat
  BY LenProperties
<1>7. \A k \in DOMAIN csTable :
        /\ csTable'[k].tid = csTable[k].tid /\ csTable'[k].st = csTable[k].st
        /\ csTable'[k].lock_entry_v = csTable[k].lock_entry_v
        /\ k # i => csTable'[k].ft = csTable[k].ft
  BY <1>2 DEF Finished, Missed
\* Every member of the nest is an old one other than the innermost of t.
<1>8. \A u \in Tid : \A n \in 1 .. Len(G[u]) :
        /\ n \in 1 .. Len(F[u]) /\ G[u][n] = F[u][n]
        /\ F[u][n] \in DOMAIN csTable /\ F[u][n] # i
        /\ csTable'[F[u][n]] = csTable[F[u][n]] /\ IsOpen(csTable[F[u][n]], u)
  <2> TAKE u \in Tid
  <2> TAKE n \in 1 .. Len(G[u])
  <2>1. n \in 1 .. Len(F[u]) /\ G[u][n] = F[u][n] /\ (u = t => n < Len(F[t]))
    <3>1. CASE u # t
      BY <1>5, <3>1
    <3>2. CASE u = t
      <4>1. n \in 1 .. Len(F[t]) - 1
        BY <1>5, <3>2
      <4>2. n \in 1 .. Len(F[t]) /\ n < Len(F[t])
        BY <1>2, <4>1
      <4> QED BY <1>5, <3>2, <4>1, <4>2
    <3> QED BY <3>1, <3>2
  <2>2. F[u][n] \in DOMAIN csTable /\ IsOpen(csTable[F[u][n]], u)
    BY <2>1 DEF Nest, NestOpen
  <2>3. F[u][n] # i
    <3>1. Len(F[t]) \in 1 .. Len(F[t])
      BY <1>2
    <3>2. CASE u # t
      <4>1. IsOpen(csTable[i], t)
        BY <3>1 DEF Nest, NestOpen
      <4> QED BY <2>2, <3>2, <4>1 DEF IsOpen
    <3>3. CASE u = t
      <4>1. F[u][n] < i
        BY <2>1, <3>1, <3>3 DEF Nest, NestOpen
      <4> QED BY <1>1, <1>2, <2>2, <4>1
    <3> QED BY <3>2, <3>3
  <2> QED BY <1>2, <2>1, <2>2, <2>3
<1>9. /\ Depth(t)' = Len(F[t]) - 1
      /\ \A u \in Tid : u # t => Depth(u)' = Depth(u)
      /\ \A u \in Tid : Len(F[u]) = Depth(u)
  BY <1>2, <1>3, <1>4 DEF Depth, Nest, NestOpen
<1>10. NestOpen(G)'
  <2> SUFFICES ASSUME NEW u \in Tid
               PROVE  /\ Len(G[u]) = Depth(u)'
                      /\ \A n \in 1 .. Len(G[u]) :
                           /\ G[u][n] \in DOMAIN csTable'
                           /\ IsOpen(csTable'[G[u][n]], u)
                      /\ \A n, o \in 1 .. Len(G[u]) : n < o => G[u][n] < G[u][o]
                      /\ \A k \in DOMAIN csTable' : IsOpen(csTable'[k], u) =>
                           \/ \E n \in 1 .. Len(G[u]) : G[u][n] = k
                           \/ /\ "miss" \in StrayIndex
                              /\ \A n \in 1 .. Len(G[u]) : k < G[u][n]
    BY DEF NestOpen
  <2>1. Len(G[u]) = Depth(u)'
    BY <1>5, <1>9
  <2>2. \A n \in 1 .. Len(G[u]) :
          G[u][n] \in DOMAIN csTable' /\ IsOpen(csTable'[G[u][n]], u)
    BY <1>2, <1>8
  <2>3. \A n, o \in 1 .. Len(G[u]) : n < o => G[u][n] < G[u][o]
    <3> TAKE n, o \in 1 .. Len(G[u])
    <3>1. /\ n \in 1 .. Len(F[u]) /\ o \in 1 .. Len(F[u])
          /\ G[u][n] = F[u][n] /\ G[u][o] = F[u][o]
      BY <1>8
    <3> QED BY <3>1 DEF Nest, NestOpen
  <2>4. ASSUME NEW k \in DOMAIN csTable', IsOpen(csTable'[k], u), k # i
        PROVE  \/ \E n \in 1 .. Len(G[u]) : G[u][n] = k
               \/ /\ "miss" \in StrayIndex
                  /\ \A n \in 1 .. Len(G[u]) : k < G[u][n]
    <3>1. k \in DOMAIN csTable /\ IsOpen(csTable[k], u)
      BY <1>2, <2>4
    <3>2. CASE \E n \in 1 .. Len(F[u]) : F[u][n] = k
      <4>1. PICK n \in 1 .. Len(F[u]) : F[u][n] = k
        BY <3>2
      <4>2. n \in 1 .. Len(G[u]) /\ G[u][n] = F[u][n]
        <5>1. CASE u # t
          BY <1>5, <5>1
        <5>2. CASE u = t
          <6>1. n # Len(F[t])
            BY <2>4, <4>1, <5>2
          <6>2. n \in 1 .. Len(F[t]) - 1
            BY <1>2, <5>2, <6>1
          <6> QED BY <1>5, <5>2, <6>2
        <5> QED BY <5>1, <5>2
      <4> QED BY <4>1, <4>2
    <3>3. CASE "miss" \in StrayIndex /\ \A n \in 1 .. Len(F[u]) : k < F[u][n]
      BY <1>8, <3>3
    <3> QED BY <3>1, <3>2, <3>3 DEF Nest, NestOpen
  <2>5. ASSUME IsOpen(csTable'[i], u)
        PROVE  \/ \E n \in 1 .. Len(G[u]) : G[u][n] = i
               \/ /\ "miss" \in StrayIndex
                  /\ \A n \in 1 .. Len(G[u]) : i < G[u][n]
    <3>1. Missed
      BY <1>1, <1>2, <2>5 DEF IsOpen, Finished
    <3>2. \A n \in 1 .. Len(G[u]) : FALSE
      <4> TAKE n \in 1 .. Len(G[u])
      <4>1. F[u][n] = 1 /\ i = 1
        BY <1>1, <1>2, <1>8, <3>1 DEF Missed
      <4> QED BY <1>8, <4>1
    <3> QED BY <3>1, <3>2 DEF Missed
  <2>6. \A k \in DOMAIN csTable' : IsOpen(csTable'[k], u) =>
          \/ \E n \in 1 .. Len(G[u]) : G[u][n] = k
          \/ "miss" \in StrayIndex /\ \A n \in 1 .. Len(G[u]) : k < G[u][n]
    BY <2>4, <2>5
  <2> QED BY <2>1, <2>2, <2>3, <2>6
<1>11. NestNamed(G)'
  <2> SUFFICES ASSUME NEW u \in Tid \ jumbled, NEW n \in 1 .. Len(G[u])
               PROVE  csTable'[G[u][n]].lock_entry_v = Entered(u, n)'
    BY <1>2 DEF NestNamed
  <2>1. csTable'[G[u][n]].lock_entry_v = Entered(u, n)
    BY <1>8 DEF Nest, NestNamed
  <2>2. Entered(u, n)' = Entered(u, n)
    <3>1. CASE u # t
      BY <1>2, <1>3, <3>1 DEF Entered
    <3>2. CASE u = t
      BY <1>2, <1>5, <3>2 DEF Entered
    <3> QED BY <3>1, <3>2
  <2> QED BY <2>1, <2>2
<1>12. NestWaits(G)'
  <2> SUFFICES ASSUME NEW u \in Tid, pend'[u].kind = "lock", NEW j \in DOMAIN maTable[u]
               PROVE  maTable[u][j].time < csTable'[G[u][Len(G[u])]].st
    BY <1>2 DEF NestWaits
  <2>1. u # t /\ pend[u].kind = "lock" /\ G[u] = F[u]
    BY <1>3, <1>4, <1>5
  <2>2. Len(G[u]) \in 1 .. Len(G[u])
    <3>1. Len(held[u]) \in Nat
      BY <1>1, Tables
    <3>2. Depth(u) = Len(held[u]) + 1
      BY <2>1 DEF Depth
    <3>3. Len(G[u]) = Len(held[u]) + 1
      BY <1>9, <2>1, <3>2
    <3> QED BY <3>1, <3>3
  <2> QED BY <1>8, <2>1, <2>2 DEF Nest, NestWaits
<1>13. NestGuards(G)'
  <2> SUFFICES ASSUME NEW u \in Tid \ jumbled, NEW n \in 1 .. Len(G[u]),
                      NEW j \in DOMAIN maTable[u],
                      csTable'[G[u][n]].st < maTable[u][j].time
               PROVE  csTable'[G[u][n]].lock_entry_v \in guards[u][j]
    BY <1>2 DEF NestGuards
  <2>1. /\ n \in 1 .. Len(F[u])
        /\ csTable'[G[u][n]] = csTable[F[u][n]]
        /\ csTable[F[u][n]].st < maTable[u][j].time
    BY <1>8
  <2> QED BY <2>1 DEF Nest, NestGuards
<1>14. NestApart(G)'
  <2> SUFFICES ASSUME NEW k \in DOMAIN csTable, NEW l \in DOMAIN csTable,
                      k < l, csTable'[k].tid = csTable'[l].tid,
                      csTable'[k].tid \notin jumbled,
                      csTable'[k].lock_entry_v = csTable'[l].lock_entry_v
               PROVE  /\ \A n \in 1 .. Len(G[csTable'[k].tid]) :
                           G[csTable'[k].tid][n] # k
                      /\ csTable'[k].ft # 0 => csTable'[k].ft < csTable'[l].st
    BY <1>2 DEF NestApart
  <2>1. /\ \A n \in 1 .. Len(F[csTable[k].tid]) : F[csTable[k].tid][n] # k
        /\ csTable[k].ft # 0 => csTable[k].ft < csTable[l].st
    BY <1>7 DEF Nest, NestApart
  <2>2. csTable[k].tid \in Tid
    BY <1>1, Tables
  <2>3. k # i
    <3>1. Len(F[t]) \in 1 .. Len(F[t])
      BY <1>2
    <3>2. IsOpen(csTable[i], t)
      BY <3>1 DEF Nest, NestOpen
    <3>3. csTable[i].tid = t
      BY <3>2 DEF IsOpen
    <3> QED BY <2>1, <3>1, <3>3
  <2>4. \A n \in 1 .. Len(G[csTable[k].tid]) : G[csTable[k].tid][n] # k
    <3>1. ASSUME NEW u \in Tid, \A n \in 1 .. Len(F[u]) : F[u][n] # k
          PROVE  \A n \in 1 .. Len(G[u]) : G[u][n] # k
      BY <1>8, <3>1
    <3> QED BY <2>1, <2>2, <3>1
  <2> QED BY <1>7, <2>1, <2>3, <2>4
<1> QED BY <1>5, <1>10, <1>11, <1>12, <1>13, <1>14 DEF Nest

-----------------------------------------------------------------------------
(* What the tables promise is kept by every step before Fini. *)

Promises ==
  /\ SectionsArePaired /\ SpanSound /\ SpanComplete /\ AnnotationSound

\* Nothing happens after the process has ended.
LEMMA Alive == Next => status = "running"
BY DEF Next, TargetStep, Callback, CreateThread, ExecMemAccess, AcquireMutex,
       ReleaseMutex, TrylockMutex, CondWait, CondWake, ThreadStart, ThreadFini,
       afterThreadCreate, RecordMemRead, RecordMemWrite, beforeThreadLock,
       beforeThreadUnLock, UnLockAborts, afterThreadSynch, Fini, CanUnlock, Ready,
       Doing, Running

\* No step but Fini finishes the run.
LEMMA OnlyFiniFinishes == Next /\ ~Fini => status' # "finished"
<1> SUFFICES ASSUME Next, ~Fini PROVE status' # "finished"
  OBVIOUS
<1>1. PICK t \in Tid : TargetStep(t) \/ Callback(t)
  BY DEF Next
<1>2. CASE TargetStep(t)
  BY <1>2 DEF TargetStep, CreateThread, ExecMemAccess, AcquireMutex, ReleaseMutex,
     TrylockMutex, CondWait, CondWake, Ready, Doing, Running
<1>3. CASE Callback(t)
  BY <1>3 DEF Callback, ThreadStart, ThreadFini, afterThreadCreate, RecordMemRead,
     RecordMemWrite, RecordMem, beforeThreadLock, beforeThreadUnLock, UnLockAborts,
     afterThreadSynch, CanUnlock, Ready, Doing, Running
<1> QED BY <1>1, <1>2, <1>3

\* The tables are empty at first.
LEMMA PromisesInit == Init => Recording /\ Promises
BY DEF Init, Recording, Marked, GuardRows, Guarded, Unannotated, Promises,
       SectionsArePaired, SpanSound, SpanComplete, AnnotationSound

\* Nothing is lost if no table changes.
LEMMA PromisesSame ==
  ASSUME Recording, Promises, status = "running",
         UNCHANGED <<csTable, maTable, guards, jumbled>>
  PROVE  Recording' /\ Promises'
<1>1. Recording'
  BY DEF Recording, Marked, GuardRows, Guarded, Unannotated, Around
<1>2. SectionsArePaired' /\ SpanSound' /\ AnnotationSound'
  BY DEF Promises, SectionsArePaired, SpanSound, AnnotationSound
<1>3. SpanComplete'
  BY DEF Promises, SpanComplete
<1> QED BY <1>1, <1>2, <1>3 DEF Promises

\* An access is made in the sections of the nest, and in no finished one.
LEMMA PromisesAccess ==
  ASSUME StampsInv, Ownership, NEW F \in [Tid -> Seq(Nat)], Nest(F),
         Recording, Promises, status = "running",
         NEW t \in Tid, Accessing(t)
  PROVE  Recording' /\ Promises'
<1>1. TypeOK /\ timestamp \in Nat
  BY DEF StampsInv, TypeOK
<1>2. UNCHANGED <<held, jumbled, csTable>> /\ pend[t].kind \notin {"lock", "unlock"}
  BY <1>1, AccessStep
<1>3. CASE UNCHANGED <<maTable, guards>>
  BY <1>2, <1>3, PromisesSame
<1>4. ASSUME NEW a \in MemRow, a.time = timestamp + 1,
             a.lock_ev = None, a.lock_cv = None,
             Logged(t, a, {m \in Mutex : Holds(t, m)})
      PROVE  Recording' /\ Promises'
  <2> DEFINE G == {m \in Mutex : Holds(t, m)}
  <2>1. G \in SUBSET Mutex /\ Logged(t, a, G)
    BY <1>4
  \* Every mutex held has a section that is open.
  <2>2. ASSUME NEW m \in G
        PROVE  \E k \in DOMAIN csTable :
                 /\ csTable[k].tid = t /\ csTable[k].ft = 0
                 /\ csTable[k].st < a.time
                 /\ t \notin jumbled => csTable[k].lock_entry_v = m
    <3>1. PICK n \in DOMAIN held[t] : held[t][n] = m
      BY DEF Holds
    <3>2. n \in 1 .. Len(F[t]) /\ Entered(t, n) = m
      BY <1>1, <1>2, <3>1, Tables DEF Nest, NestOpen, Depth, Entered
    <3>3. F[t][n] \in DOMAIN csTable /\ IsOpen(csTable[F[t][n]], t)
      BY <3>2 DEF Nest, NestOpen
    <3>4. csTable[F[t][n]].st < a.time
      BY <1>1, <1>4, <3>3 DEF StampsInv, StampsInPast
    <3>5. t \notin jumbled => csTable[F[t][n]].lock_entry_v = m
      BY <3>2 DEF Nest, NestNamed
    <3> QED BY <3>3, <3>4, <3>5 DEF IsOpen
  <2> HIDE DEF G
  <2>3. /\ GuardRows'
        /\ \A u \in Tid : \A j \in DOMAIN maTable'[u] :
              \/ /\ j \in DOMAIN maTable[u]
                 /\ maTable'[u][j] = maTable[u][j]
                 /\ guards'[u][j] = guards[u][j]
              \/ u = t /\ maTable'[u][j] = a /\ guards'[u][j] = G
    BY <1>1, <2>1, AppendAccess DEF Recording
  <2>4. Recording'
    <3>1. Marked' /\ Unannotated'
      <4>1. Marked'
        BY <1>2 DEF Recording, Marked
      <4>2. Unannotated'
        BY <1>4, <2>3 DEF Recording, Unannotated
      <4> QED BY <4>1, <4>2
    <3>2. Guarded'
      <4> SUFFICES ASSUME NEW u \in Tid, NEW j \in DOMAIN maTable'[u],
                          guards'[u][j] # {}
                   PROVE  \E k \in DOMAIN csTable :
                            /\ csTable[k].tid = u
                            /\ csTable[k].st < maTable'[u][j].time
                            /\ \/ csTable[k].ft = 0
                               \/ maTable'[u][j].time < csTable[k].ft
        BY <1>2 DEF Guarded, Around
      <4>1. CASE /\ j \in DOMAIN maTable[u]
                 /\ maTable'[u][j] = maTable[u][j]
                 /\ guards'[u][j] = guards[u][j]
        BY <4>1 DEF Recording, Guarded, Around
      <4>2. CASE u = t /\ maTable'[u][j] = a /\ guards'[u][j] = G
        BY <2>2, <4>2
      <4> QED BY <2>3, <4>1, <4>2
    <3> QED BY <2>3, <3>1, <3>2 DEF Recording
  <2>5. SectionsArePaired'
    BY <1>2 DEF Promises, SectionsArePaired
  <2>6. SpanSound'
    <3> SUFFICES ASSUME NEW k \in DOMAIN csTable, csTable[k].tid \notin jumbled,
                        NEW j \in DOMAIN maTable'[csTable[k].tid],
                        Encloses(csTable[k], maTable'[csTable[k].tid][j])
                 PROVE  csTable[k].lock_entry_v \in guards'[csTable[k].tid][j]
      BY <1>2 DEF SpanSound
    <3>1. csTable[k].tid \in Tid
      BY <1>1, Tables
    <3>2. maTable'[csTable[k].tid][j] # a
      <4>1. csTable[k].ft \in 0 .. timestamp
        BY DEF StampsInv, StampsInPast
      <4> QED BY <1>1, <1>4, <4>1 DEF Encloses
    <3>3. /\ j \in DOMAIN maTable[csTable[k].tid]
          /\ maTable'[csTable[k].tid][j] = maTable[csTable[k].tid][j]
          /\ guards'[csTable[k].tid][j] = guards[csTable[k].tid][j]
      BY <2>3, <3>1, <3>2
    <3> QED BY <3>3 DEF Promises, SpanSound
  <2>7. SpanComplete'
    <3> SUFFICES ASSUME NEW u \in Tid \ jumbled, NEW j \in DOMAIN maTable'[u],
                        NEW m \in guards'[u][j]
                 PROVE  \E k \in DOMAIN csTable :
                          /\ csTable[k].tid = u /\ csTable[k].lock_entry_v = m
                          /\ csTable[k].st < maTable'[u][j].time
                          /\ \/ csTable[k].ft = 0
                             \/ maTable'[u][j].time < csTable[k].ft
      BY <1>2 DEF SpanComplete
    <3>1. CASE /\ j \in DOMAIN maTable[u]
               /\ maTable'[u][j] = maTable[u][j]
               /\ guards'[u][j] = guards[u][j]
      BY <3>1 DEF Promises, SpanComplete
    <3>2. CASE u = t /\ maTable'[u][j] = a /\ guards'[u][j] = G
      BY <2>2, <3>2
    <3> QED BY <2>3, <3>1, <3>2
  <2>8. AnnotationSound'
    BY <2>4 DEF Recording, Unannotated, AnnotationSound
  <2> QED BY <2>4, <2>5, <2>6, <2>7, <2>8 DEF Promises
<1> QED BY <1>1, <1>3, <1>4, AccessStep

\* A section that is begun encloses nothing yet.
LEMMA PromisesLock ==
  ASSUME StampsInv, Recording, Promises, status = "running",
         NEW t \in Tid, NEW site \in Site, NEW m \in Mutex,
         beforeThreadLock(t, site, m)
  PROVE  Recording' /\ Promises'
<1> DEFINE new == Len(csTable) + 1
<1>1. /\ TypeOK /\ timestamp \in Nat /\ Len(csTable) \in Nat
      /\ DOMAIN csTable = 1 .. Len(csTable)
  BY Tables DEF StampsInv, TypeOK
<1>2. /\ UNCHANGED <<jumbled, maTable, guards>>
      /\ DOMAIN csTable' = 1 .. new
      /\ \A k \in DOMAIN csTable : csTable'[k] = csTable[k]
      /\ csTable'[new] = CriticalSection(t, site, m, timestamp + 1)
  BY <1>1, LockRow
<1>3. csTable'[new].ft = 0 /\ csTable'[new].unlock_callsite_v = None
  BY <1>2 DEF CriticalSection
<1>4. /\ \A k \in DOMAIN csTable' : k \in DOMAIN csTable \/ k = new
      /\ \A k \in DOMAIN csTable : k \in DOMAIN csTable'
  BY <1>1, <1>2
<1> HIDE DEF new
<1>5. Recording'
  <2>1. Marked'
    BY <1>2, <1>3, <1>4 DEF Recording, Marked
  <2>2. GuardRows' /\ Unannotated'
    BY <1>2 DEF Recording, GuardRows, Unannotated
  <2>3. Guarded'
    BY <1>2, <1>4 DEF Recording, Guarded, Around
  <2> QED BY <2>1, <2>2, <2>3 DEF Recording
<1>6. SectionsArePaired'
  BY <1>2, <1>3, <1>4 DEF Promises, SectionsArePaired
<1>7. SpanSound'
  <2> SUFFICES ASSUME NEW k \in DOMAIN csTable', csTable'[k].tid \notin jumbled,
                      NEW j \in DOMAIN maTable[csTable'[k].tid],
                      Encloses(csTable'[k], maTable[csTable'[k].tid][j])
               PROVE  csTable'[k].lock_entry_v \in guards[csTable'[k].tid][j]
    BY <1>2 DEF SpanSound
  <2>1. k # new
    <3> SUFFICES ASSUME k = new PROVE FALSE
      OBVIOUS
    <3>1. csTable'[k].tid = t
      BY <1>2 DEF CriticalSection
    <3>2. maTable[t][j].time \in Nat
      BY <1>1, <3>1, Tables
    <3> QED BY <1>3, <3>1, <3>2 DEF Encloses
  <2>2. k \in DOMAIN csTable /\ csTable'[k] = csTable[k]
    BY <1>2, <1>4, <2>1
  <2> QED BY <2>2 DEF Promises, SpanSound
<1>8. SpanComplete'
  BY <1>2, <1>4 DEF Promises, SpanComplete
<1>9. AnnotationSound'
  BY <1>2 DEF Promises, AnnotationSound
<1> QED BY <1>5, <1>6, <1>7, <1>8, <1>9 DEF Promises

\* A section that is finished encloses what its thread has accessed since it
\* began, and is marked with the mutex it began with.
LEMMA PromisesUnlock ==
  ASSUME StampsInv, Ownership, NEW F \in [Tid -> Seq(Nat)], Nest(F),
         Recording, Promises, status = "running",
         NEW t \in Tid, NEW site \in Site, NEW m \in Mutex,
         beforeThreadUnLock(t, site, m)
  PROVE  Recording' /\ Promises'
<1> DEFINE i == F[t][Len(F[t])]
<1>1. TypeOK /\ timestamp \in Nat
  BY DEF StampsInv, TypeOK
<1>2. /\ UNCHANGED <<held, maTable, guards>>
      /\ pend[t].kind = "idle"
      /\ jumbled' = IF m = held[t][Len(held[t])] THEN jumbled ELSE jumbled \cup {t}
      /\ Len(F[t]) \in Nat /\ Len(F[t]) = Len(held[t]) /\ Len(F[t]) >= 1
      /\ i \in DOMAIN csTable /\ DOMAIN csTable' = DOMAIN csTable
      /\ \A k \in DOMAIN csTable : k # i => csTable'[k] = csTable[k]
      /\ Finished(i, site, m) \/ Missed
  BY <1>1, UnlockRow
<1>3. jumbled \subseteq jumbled'
  BY <1>2
<1>4. Len(F[t]) \in 1 .. Len(F[t])
  BY <1>2
<1>5. IsOpen(csTable[i], t)
  BY <1>4 DEF Nest, NestOpen
<1>6. t \notin jumbled => /\ csTable[i].lock_entry_v = held[t][Len(held[t])]
                          /\ \A j \in DOMAIN maTable[t] :
                               csTable[i].st < maTable[t][j].time
                                 => csTable[i].lock_entry_v \in guards[t][j]
  BY <1>2, <1>4 DEF Nest, NestNamed, NestGuards, Entered
<1>7. \A k \in DOMAIN csTable : /\ csTable[k].st \in 1 .. timestamp
                                /\ csTable[k].ft \in 0 .. timestamp
  BY DEF StampsInv, StampsInPast
<1>8. \A u \in Tid : \A j \in DOMAIN maTable[u] : maTable[u][j].time \in 1 .. timestamp
  BY DEF StampsInv, StampsInPast
<1>9. None \notin Site
  BY TracerAssumption
<1> HIDE DEF i
<1>10. CASE Missed
  <2>1. UNCHANGED <<csTable, maTable, guards>>
    BY <1>2, <1>10 DEF Missed
  <2>2. Recording'
    BY <2>1 DEF Recording, Marked, GuardRows, Guarded, Unannotated, Around
  <2>3. SectionsArePaired' /\ SpanSound' /\ AnnotationSound'
    BY <1>3, <2>1 DEF Promises, SectionsArePaired, SpanSound, AnnotationSound
  <2>4. SpanComplete'
    BY <1>3, <2>1 DEF Promises, SpanComplete
  <2> QED BY <2>2, <2>3, <2>4 DEF Promises
<1>11. CASE Finished(i, site, m)
  <2>1. /\ csTable'[i].tid = t /\ csTable'[i].st = csTable[i].st
        /\ csTable'[i].lock_entry_v = csTable[i].lock_entry_v
        /\ csTable'[i].unlock_entry_v = m
        /\ csTable'[i].ft = timestamp + 1 /\ csTable'[i].unlock_callsite_v = site
    BY <1>5, <1>11 DEF Finished, IsOpen
  \* What a section is around stays in it.
  <2>2. \A k \in DOMAIN csTable : \A u \in Tid : \A j \in DOMAIN maTable[u] :
          /\ csTable[k].st < maTable[u][j].time
          /\ csTable[k].ft = 0 \/ maTable[u][j].time < csTable[k].ft
          => /\ csTable'[k].st < maTable[u][j].time
             /\ csTable'[k].ft = 0 \/ maTable[u][j].time < csTable'[k].ft
    <3> SUFFICES ASSUME NEW k \in DOMAIN csTable, NEW u \in Tid,
                        NEW j \in DOMAIN maTable[u],
                        csTable[k].st < maTable[u][j].time,
                        csTable[k].ft = 0 \/ maTable[u][j].time < csTable[k].ft
                 PROVE  /\ csTable'[k].st < maTable[u][j].time
                        /\ csTable'[k].ft = 0 \/ maTable[u][j].time < csTable'[k].ft
      OBVIOUS
    <3>1. CASE k # i
      BY <1>2, <3>1
    <3>2. CASE k = i
      BY <1>1, <1>8, <2>1, <3>2
    <3> QED BY <3>1, <3>2
  <2>3. \A k \in DOMAIN csTable : /\ csTable'[k].tid = csTable[k].tid
                                  /\ csTable'[k].lock_entry_v = csTable[k].lock_entry_v
    BY <1>2, <1>11 DEF Finished
  <2>4. Recording'
    <3>1. Marked'
      BY <1>1, <1>2, <1>9, <2>1 DEF Recording, Marked
    <3>2. GuardRows' /\ Unannotated'
      BY <1>2 DEF Recording, GuardRows, Unannotated
    <3>3. Guarded'
      <4> SUFFICES ASSUME NEW u \in Tid, NEW j \in DOMAIN maTable[u],
                          guards[u][j] # {}
                   PROVE  \E k \in DOMAIN csTable :
                            /\ csTable'[k].tid = u
                            /\ csTable'[k].st < maTable[u][j].time
                            /\ \/ csTable'[k].ft = 0
                               \/ maTable[u][j].time < csTable'[k].ft
        BY <1>2 DEF Guarded, Around
      <4>1. PICK k \in DOMAIN csTable :
              /\ csTable[k].tid = u
              /\ csTable[k].st < maTable[u][j].time
              /\ csTable[k].ft = 0 \/ maTable[u][j].time < csTable[k].ft
        BY DEF Recording, Guarded, Around
      <4> QED BY <2>2, <2>3, <4>1
    <3> QED BY <3>1, <3>2, <3>3 DEF Recording
  <2>5. SectionsArePaired'
    <3> SUFFICES ASSUME NEW k \in DOMAIN csTable, csTable'[k].ft # 0,
                        csTable'[k].tid \notin jumbled'
                 PROVE  /\ csTable'[k].lock_entry_v = csTable'[k].unlock_entry_v
                        /\ csTable'[k].st < csTable'[k].ft
      BY <1>2 DEF SectionsArePaired
    <3>1. CASE k # i
      BY <1>2, <1>3, <3>1 DEF Promises, SectionsArePaired
    <3>2. CASE k = i
      <4>1. t \notin jumbled /\ m = held[t][Len(held[t])]
        BY <1>2, <2>1, <3>2
      <4> QED BY <1>1, <1>6, <1>7, <2>1, <3>2, <4>1
    <3> QED BY <3>1, <3>2
  <2>6. SpanSound'
    <3> SUFFICES ASSUME NEW k \in DOMAIN csTable, csTable'[k].tid \notin jumbled',
                        NEW j \in DOMAIN maTable[csTable'[k].tid],
                        Encloses(csTable'[k], maTable[csTable'[k].tid][j])
                 PROVE  csTable'[k].lock_entry_v \in guards[csTable'[k].tid][j]
      BY <1>2 DEF SpanSound
    <3>1. CASE k # i
      BY <1>2, <1>3, <3>1 DEF Promises, SpanSound
    <3>2. CASE k = i
      BY <1>3, <1>6, <2>1, <3>2 DEF Encloses
    <3> QED BY <3>1, <3>2
  <2>7. SpanComplete'
    <3> SUFFICES ASSUME NEW u \in Tid \ jumbled', NEW j \in DOMAIN maTable[u],
                        NEW n \in guards[u][j]
                 PROVE  \E k \in DOMAIN csTable :
                          /\ csTable'[k].tid = u /\ csTable'[k].lock_entry_v = n
                          /\ csTable'[k].st < maTable[u][j].time
                          /\ \/ csTable'[k].ft = 0
                             \/ maTable[u][j].time < csTable'[k].ft
      BY <1>2 DEF SpanComplete
    <3>1. PICK k \in DOMAIN csTable :
            /\ csTable[k].tid = u /\ csTable[k].lock_entry_v = n
            /\ csTable[k].st < maTable[u][j].time
            /\ csTable[k].ft = 0 \/ maTable[u][j].time < csTable[k].ft
      BY <1>3 DEF Promises, SpanComplete
    <3> QED BY <2>2, <2>3, <3>1
  <2>8. AnnotationSound'
    BY <1>2, <1>3 DEF Promises, AnnotationSound
  <2> QED BY <2>4, <2>5, <2>6, <2>7, <2>8 DEF Promises
<1> QED BY <1>2, <1>10, <1>11

-----------------------------------------------------------------------------
(* Fini. *)

\* As many indices in ascending order as there are members list them all.
LEMMA ListsAll ==
  ASSUME NEW n \in Nat, NEW S \in SUBSET (1 .. n),
         NEW f \in [1 .. Cardinality(S) -> S],
         \A i, j \in DOMAIN f : i < j => f[i] < f[j]
  PROVE  \A k \in S : \E i \in DOMAIN f : f[i] = k
<1>1. IsFiniteSet(S) /\ Cardinality(S) \in Nat
  <2>1. IsFiniteSet(1 .. n)
    BY FS_Interval
  <2>2. IsFiniteSet(S)
    BY <2>1, FS_Subset
  <2> QED BY <2>2, FS_CardinalityType
<1> DEFINE c == Cardinality(S)
<1>2. /\ IsFiniteSet(1 .. c) /\ Cardinality(1 .. c) = c
  <2>1. c \in Nat
    BY <1>1
  <2> HIDE DEF c
  <2> QED BY <2>1, FS_Interval
<1>3. \A i, j \in 1 .. c : f[i] = f[j] => i = j
  <2> TAKE i, j \in 1 .. c
  <2>1. f[i] \in Nat /\ f[j] \in Nat /\ DOMAIN f = 1 .. c
    <3>1. f[i] \in S /\ f[j] \in S /\ DOMAIN f = 1 .. c
      OBVIOUS
    <3>2. \A x \in S : x \in Nat
      OBVIOUS
    <3> QED BY <3>1, <3>2
  <2>2. i \in Int /\ j \in Int
    OBVIOUS
  <2> HIDE DEF c
  <2> QED BY <2>1, <2>2
<1>4. f \in Injection(1 .. c, S)
  BY <1>3 DEF Injection, IsInjective
<1>5. f \in Surjection(1 .. c, S)
  BY <1>1, <1>2, <1>4, FS_Injection
<1> QED BY <1>5 DEF Surjection

\* Fini keeps the sections that enclose an access of their thread, and copies
\* the marks of one of them into every access that is enclosed.
LEMMA FiniTables ==
  ASSUME StampsInv, RowsInv, Fini
  PROVE  /\ UNCHANGED <<guards, jumbled, held>>
         /\ \A k \in DOMAIN csTable' :
              \E l \in DOMAIN csTable : csTable'[k] = csTable[l]
         /\ \A t \in Tid : \A j \in DOMAIN maTable[t] : \A l \in DOMAIN csTable :
              csTable[l].tid = t /\ Encloses(csTable[l], maTable[t][j])
                => \E k \in DOMAIN csTable' : csTable'[k] = csTable[l]
         /\ \A t \in Tid :
              /\ DOMAIN maTable'[t] = DOMAIN maTable[t]
              /\ \A j \in DOMAIN maTable[t] :
                   /\ maTable'[t][j].time = maTable[t][j].time
                   /\ \/ /\ maTable'[t][j] = maTable[t][j]
                         /\ \A k \in DOMAIN csTable' :
                              ~ /\ csTable'[k].tid = t
                                /\ Encloses(csTable'[k], maTable[t][j])
                      \/ \E k \in DOMAIN csTable' :
                           /\ csTable'[k].tid = t
                           /\ Encloses(csTable'[k], maTable[t][j])
                           /\ maTable'[t][j].lock_ev = csTable'[k].lock_entry_v
                           /\ maTable'[t][j].lock_cv = csTable'[k].lock_callsite_v
                           /\ maTable'[t][j].unlock_cv = csTable'[k].unlock_callsite_v
<1> DEFINE kept == KeptSections(csTable, maTable)
<1>1. TypeOK /\ TypeOK'
  BY TypeStep DEF StampsInv, Next
<1>2. UNCHANGED <<guards, jumbled, held>>
  BY DEF Fini, history
<1>3. PICK f \in [1 .. Cardinality(kept) -> kept] : EraseSections(f)
  BY DEF Fini
<1>4. kept \in SUBSET (1 .. Len(csTable)) /\ Len(csTable) \in Nat
  BY <1>1, Tables DEF KeptSections
<1>5. /\ csTable' = [i \in DOMAIN f |-> csTable[f[i]]]
      /\ \A i, j \in DOMAIN f : i < j => f[i] < f[j]
  BY <1>3 DEF EraseSections
<1>6. \A l \in kept : \E k \in DOMAIN f : f[k] = l
  <2>1. f \in [1 .. Cardinality(kept) -> kept]
    OBVIOUS
  <2> HIDE DEF kept
  <2> QED BY <1>4, <1>5, <2>1, ListsAll
<1>7. \A k \in DOMAIN csTable' : \E l \in DOMAIN csTable : csTable'[k] = csTable[l]
  <2> TAKE k \in DOMAIN csTable'
  <2>1. k \in DOMAIN f /\ f[k] \in kept
    BY <1>5
  <2>2. f[k] \in DOMAIN csTable /\ csTable'[k] = csTable[f[k]]
    BY <1>1, <1>4, <1>5, <2>1, Tables
  <2> QED BY <2>2
<1>8. ASSUME NEW t \in Tid, NEW j \in DOMAIN maTable[t], NEW l \in DOMAIN csTable,
             csTable[l].tid = t, Encloses(csTable[l], maTable[t][j])
      PROVE  \E k \in DOMAIN csTable' : csTable'[k] = csTable[l]
  <2>1. csTable[l].st + 1 # csTable[l].ft
    <3>1. /\ csTable[l].st \in Nat /\ csTable[l].ft \in Nat
          /\ maTable[t][j].time \in Nat
      BY <1>1, Tables
    <3> QED BY <1>8, <3>1 DEF Encloses
  <2>2. l \in kept
    BY <1>8, <2>1 DEF KeptSections, is_cs_empty
  <2>3. PICK k \in DOMAIN f : f[k] = l
    BY <1>6, <2>2
  <2> QED BY <1>5, <2>3
<1>9. ASSUME NEW t \in Tid, NEW j \in DOMAIN maTable[t]
      PROVE  /\ DOMAIN maTable'[t] = DOMAIN maTable[t]
             /\ maTable'[t][j] = Annotate(maTable[t][j], csTable')
  <2>1. t < threadExisted
    <3>1. maTable[t] # <<>>
      <4>1. DOMAIN maTable[t] # {}
        BY <1>9
      <4> QED BY <4>1
    <3> QED BY <3>1 DEF RowsInv
  <2>2. maTable'[t] = [i \in DOMAIN maTable[t] |-> Annotate(maTable[t][i], csTable')]
    BY <2>1 DEF Fini
  <2> QED BY <2>2
<1>10. ASSUME NEW t \in Tid PROVE DOMAIN maTable'[t] = DOMAIN maTable[t]
  BY DEF Fini
<1>11. ASSUME NEW t \in Tid, NEW j \in DOMAIN maTable[t]
       PROVE  /\ maTable'[t][j].time = maTable[t][j].time
              /\ \/ /\ maTable'[t][j] = maTable[t][j]
                    /\ \A k \in DOMAIN csTable' :
                         ~ /\ csTable'[k].tid = t
                           /\ Encloses(csTable'[k], maTable[t][j])
                 \/ \E k \in DOMAIN csTable' :
                      /\ csTable'[k].tid = t
                      /\ Encloses(csTable'[k], maTable[t][j])
                      /\ maTable'[t][j].lock_ev = csTable'[k].lock_entry_v
                      /\ maTable'[t][j].lock_cv = csTable'[k].lock_callsite_v
                      /\ maTable'[t][j].unlock_cv = csTable'[k].unlock_callsite_v
  <2> DEFINE a == maTable[t][j]
             E == EnclosingSections(a, csTable')
             k == AnnotatingSection(E)
  <2>1. a \in MemRow /\ a.tid = t /\ maTable'[t][j] = Annotate(a, csTable')
    BY <1>1, <1>9, Tables DEF RowsInv
  <2>2. csTable' \in Seq(SectionRow)
    BY <1>1 DEF TypeOK
  <2>3. Len(csTable') \in Nat /\ DOMAIN csTable' = 1 .. Len(csTable')
    BY <2>2, LenProperties
  <2>4. maTable'[t][j].time = a.time
    BY <2>1, <2>2, AnnotateType
  <2>5. CASE E = {}
    <3>1. maTable'[t][j] = a
      BY <2>1, <2>5 DEF Annotate
    <3>2. \A l \in DOMAIN csTable' :
            ~(csTable'[l].tid = t /\ Encloses(csTable'[l], a))
      BY <2>1, <2>5 DEF EnclosingSections
    <3> QED BY <2>4, <3>1, <3>2
  <2>6. CASE E # {}
    <3>1. E \in SUBSET (1 .. Len(csTable'))
      BY <2>3 DEF EnclosingSections
    <3>2. k \in E
      BY <2>3, <2>6, <3>1, MaxIndex DEF AnnotatingSection
    <3>3. /\ k \in DOMAIN csTable' /\ csTable'[k].tid = t
          /\ Encloses(csTable'[k], a)
      BY <2>1, <3>2 DEF EnclosingSections
    <3>4. maTable'[t][j] = [a EXCEPT !.lock_ev = csTable'[k].lock_entry_v,
                                     !.lock_cv = csTable'[k].lock_callsite_v,
                                     !.unlock_cv = csTable'[k].unlock_callsite_v]
      BY <2>1, <2>6 DEF Annotate
    <3> HIDE DEF k
    <3>5. /\ maTable'[t][j].lock_ev = csTable'[k].lock_entry_v
          /\ maTable'[t][j].lock_cv = csTable'[k].lock_callsite_v
          /\ maTable'[t][j].unlock_cv = csTable'[k].unlock_callsite_v
      BY <2>1, <3>4 DEF MemRow
    <3> QED BY <2>4, <3>3, <3>5
  <2> QED BY <2>5, <2>6
<1> QED BY <1>2, <1>7, <1>8, <1>10, <1>11

\* Fini keeps the promises, and the marks it writes are those of a section
\* around the access.
LEMMA PromisesFini ==
  ASSUME StampsInv, RowsInv, Recording, Promises, Fini
  PROVE  Promises'
<1>1. status' = "finished"
  BY DEF Fini
<1>2. UNCHANGED <<guards, jumbled>>
  BY FiniTables
<1>3. \A k \in DOMAIN csTable' : \E l \in DOMAIN csTable : csTable'[k] = csTable[l]
  BY FiniTables
<1>4. \A t \in Tid :
        /\ DOMAIN maTable'[t] = DOMAIN maTable[t]
        /\ \A j \in DOMAIN maTable[t] :
             /\ maTable'[t][j].time = maTable[t][j].time
             /\ \/ maTable'[t][j] = maTable[t][j]
                \/ \E k \in DOMAIN csTable' :
                     /\ csTable'[k].tid = t
                     /\ Encloses(csTable'[k], maTable[t][j])
                     /\ maTable'[t][j].lock_ev = csTable'[k].lock_entry_v
  BY FiniTables
<1>5. SectionsArePaired'
  BY <1>2, <1>3 DEF Promises, SectionsArePaired
<1>6. SpanSound'
  <2> SUFFICES ASSUME NEW k \in DOMAIN csTable', csTable'[k].tid \notin jumbled,
                      NEW j \in DOMAIN maTable'[csTable'[k].tid],
                      Encloses(csTable'[k], maTable'[csTable'[k].tid][j])
               PROVE  csTable'[k].lock_entry_v \in guards[csTable'[k].tid][j]
    BY <1>2 DEF SpanSound
  <2>1. PICK l \in DOMAIN csTable : csTable'[k] = csTable[l]
    BY <1>3
  <2>2. csTable[l].tid \in Tid
    BY Tables DEF StampsInv
  <2>3. /\ j \in DOMAIN maTable[csTable[l].tid]
        /\ Encloses(csTable[l], maTable[csTable[l].tid][j])
    BY <1>4, <2>1, <2>2 DEF Encloses
  <2> QED BY <2>1, <2>3 DEF Promises, SpanSound
<1>7. SpanComplete'
  BY <1>1 DEF SpanComplete
<1>8. AnnotationSound'
  <2> SUFFICES ASSUME NEW t \in Tid \ jumbled, NEW j \in DOMAIN maTable[t],
                      maTable'[t][j].lock_ev # None
               PROVE  maTable'[t][j].lock_ev \in guards[t][j]
    BY <1>2, <1>4 DEF AnnotationSound
  <2>1. maTable'[t][j] # maTable[t][j]
    BY DEF Recording, Unannotated
  <2>2. PICK k \in DOMAIN csTable' :
          /\ csTable'[k].tid = t
          /\ Encloses(csTable'[k], maTable[t][j])
          /\ maTable'[t][j].lock_ev = csTable'[k].lock_entry_v
    BY <1>4, <2>1
  <2>3. PICK l \in DOMAIN csTable : csTable'[k] = csTable[l]
    BY <1>3
  <2> QED BY <2>2, <2>3 DEF Promises, SpanSound
<1> QED BY <1>5, <1>6, <1>7, <1>8 DEF Promises

\* When a thread holds nothing, no section of it is around its accesses but
\* finished ones, unless an unlock missed; these are kept, as the accesses
\* are in them.
LEMMA CompleteFini ==
  ASSUME StampsInv, RowsInv, Ownership, Recording,
         NEW F \in [Tid -> Seq(Nat)], Nest(F), "miss" \notin StrayIndex, Fini
  PROVE  AnnotationComplete'
<1>1. TypeOK
  BY DEF StampsInv
<1> SUFFICES ASSUME NEW t \in Tid, held[t] = <<>>, NEW j \in DOMAIN maTable[t],
                    guards[t][j] # {}
             PROVE  maTable'[t][j].lock_ev # None
  BY FiniTables DEF AnnotationComplete
<1>2. PICK k \in DOMAIN csTable : csTable[k].tid = t /\ Around(k, maTable[t][j])
  BY DEF Recording, Guarded
<1>3. Len(held[t]) = 0
  BY EmptySeq
<1>4. csTable[k].ft # 0
  <2> SUFFICES ASSUME csTable[k].ft = 0 PROVE FALSE
    OBVIOUS
  <2>1. IsOpen(csTable[k], t)
    BY <1>2 DEF Recording, Marked, IsOpen
  <2>2. PICK n \in 1 .. Len(F[t]) : F[t][n] = k
    BY <2>1 DEF Nest, NestOpen
  <2>3. Len(F[t]) = Depth(t) /\ Len(F[t]) \in Nat
    BY LenProperties DEF Nest, NestOpen
  <2>4. pend[t].kind = "lock" /\ Len(F[t]) = 1
    BY <1>1, <1>3, <2>3, DepthNat
  <2>5. maTable[t][j].time < csTable[k].st
    <3>1. n = Len(F[t])
      BY <2>4
    <3> QED BY <2>2, <2>4, <3>1 DEF Nest, NestWaits
  <2> QED BY <1>1, <1>2, <2>5, Tables DEF Around
<1>5. Encloses(csTable[k], maTable[t][j])
  BY <1>2, <1>4 DEF Around, Encloses
<1>6. \E l \in DOMAIN csTable' : csTable'[l] = csTable[k]
  BY <1>2, <1>5, FiniTables
<1>7. \E l \in DOMAIN csTable' :
        /\ csTable'[l].tid = t
        /\ maTable'[t][j].lock_ev = csTable'[l].lock_entry_v
  BY <1>2, <1>5, <1>6, FiniTables
<1>8. \A l \in DOMAIN csTable' : csTable'[l].lock_entry_v # None
  <2>1. \A l \in DOMAIN csTable' : \E o \in DOMAIN csTable : csTable'[l] = csTable[o]
    BY FiniTables
  <2>2. \A o \in DOMAIN csTable : csTable[o].lock_entry_v # None
    BY <1>1, Tables, TracerAssumption
  <2> QED BY <2>1, <2>2
<1> QED BY <1>7, <1>8

-----------------------------------------------------------------------------
(* The invariant. *)

PairingInv == StampsInv /\ RowsInv /\ Ownership /\ SectionInv /\ Promises

\* It holds at first.
LEMMA PairingInit == Init => PairingInv /\ AnnotationComplete
<1> SUFFICES ASSUME Init PROVE PairingInv /\ AnnotationComplete
  OBVIOUS
<1>1. StampsInv /\ RowsInv /\ Ownership
  BY TypeInit, StampsInit, RowsInit, OwnershipInit DEF StampsInv
<1>2. SectionInv /\ Promises
  BY NestInit, PromisesInit DEF SectionInv
<1>3. AnnotationComplete
  BY DEF Init, AnnotationComplete
<1> QED BY <1>1, <1>2, <1>3 DEF PairingInv

\* Every step before Fini has a nest to go on with.
LEMMA NestStep ==
  ASSUME ~UsesTrylock, PairingInv, Next, ~Fini
  PROVE  SectionInv' /\ Promises'
<1>1. /\ StampsInv /\ TypeOK /\ Ownership /\ Recording /\ Promises
      /\ status = "running"
  BY Alive DEF PairingInv, StampsInv, SectionInv
<1>2. PICK F \in [Tid -> Seq(Nat)] : Nest(F)
  BY <1>1 DEF PairingInv, SectionInv
<1>3. SUFFICES Recording' /\ Promises' /\ \E G \in [Tid -> Seq(Nat)] : Nest(G)'
  BY DEF SectionInv
<1>4. ASSUME NEW t \in Tid, Quiet(t) \/ AcquireMutex(t) \/ ReleaseMutex(t)
      PROVE  Recording' /\ Promises' /\ Nest(F)'
  <2>1. UNCHANGED <<csTable, maTable, guards, jumbled>>
    BY <1>1, <1>4, QuietStep DEF AcquireMutex, ReleaseMutex, tool, history
  <2>2. Nest(F)'
    BY <1>1, <1>2, <1>4, NestQuiet, NestAcquire, NestRelease
  <2> QED BY <1>1, <2>1, <2>2, PromisesSame
<1>5. ASSUME NEW t \in Tid, Accessing(t)
      PROVE  Recording' /\ Promises' /\ Nest(F)'
  <2>1. GuardRows
    BY <1>1 DEF Recording
  <2> QED BY <1>1, <1>2, <1>5, <2>1, NestAccess, PromisesAccess
<1>6. ASSUME NEW t \in Tid, NEW site \in Site, NEW m \in Mutex,
             beforeThreadLock(t, site, m)
      PROVE  Recording' /\ Promises' /\ \E G \in [Tid -> Seq(Nat)] : Nest(G)'
  <2>1. Recording' /\ Promises'
    BY <1>1, <1>6, PromisesLock
  <2>2. \E G : G = Pushed(F, t)
    OBVIOUS
  <2>3. PICK G : G = Pushed(F, t)
    BY <2>2
  <2>4. G \in [Tid -> Seq(Nat)] /\ Nest(G)'
    BY <1>1, <1>2, <1>6, <2>3, NestLock
  <2> QED BY <2>1, <2>4
<1>7. ASSUME NEW t \in Tid, NEW site \in Site, NEW m \in Mutex,
             beforeThreadUnLock(t, site, m)
      PROVE  Recording' /\ Promises' /\ \E G \in [Tid -> Seq(Nat)] : Nest(G)'
  <2>1. Recording' /\ Promises'
    BY <1>1, <1>2, <1>7, PromisesUnlock
  <2>2. \E G : G = Popped(F, t)
    OBVIOUS
  <2>3. PICK G : G = Popped(F, t)
    BY <2>2
  <2>4. G \in [Tid -> Seq(Nat)] /\ Nest(G)'
    BY <1>1, <1>2, <1>7, <2>3, NestUnlock
  <2> QED BY <2>1, <2>4
<1>8. ~ \E t \in Tid, m \in Mutex : TrylockMutex(t, m)
  BY DEF TrylockMutex
<1> QED BY <1>4, <1>5, <1>6, <1>7, <1>8, StepKinds

\* Every step keeps the invariant, if no mutex is taken behind the tool's back.
LEMMA PairingStep ==
  ASSUME ~UsesTrylock
  PROVE  PairingInv /\ [Next]_vars => PairingInv'
<1> SUFFICES ASSUME PairingInv, [Next]_vars PROVE PairingInv'
  OBVIOUS
<1>1. StampsInv' /\ RowsInv' /\ Ownership'
  BY StampsStep, RowsStep, OwnershipStep DEF PairingInv, StampsInv
<1>2. CASE Next /\ ~Fini
  BY <1>1, <1>2, NestStep DEF PairingInv
<1>3. CASE Fini
  <2>1. status = "running" /\ status' = "finished"
    BY <1>3 DEF Fini
  <2>2. Promises'
    BY <1>3, <2>1, PromisesFini DEF PairingInv, SectionInv
  <2> QED BY <1>1, <2>1, <2>2 DEF PairingInv, SectionInv
<1>4. CASE UNCHANGED vars
  <2>1. UNCHANGED <<csTable, maTable, guards, jumbled, held, pend, status>>
    BY <1>4 DEF vars, tool, target, history
  <2>2. Promises'
    BY <2>1 DEF PairingInv, Promises, SectionsArePaired, SpanSound, SpanComplete,
                AnnotationSound
  <2>3. Recording => Recording'
    BY <2>1 DEF Recording, Marked, GuardRows, Guarded, Unannotated, Around
  <2>4. ASSUME NEW F \in [Tid -> Seq(Nat)], Nest(F) PROVE Nest(F)'
    <3>1. \A t \in Tid : /\ Depth(t)' = Depth(t)
                         /\ \A n \in 1 .. Depth(t) : Entered(t, n)' = Entered(t, n)
      BY <2>1 DEF Depth, Entered
    <3> QED BY <2>1, <2>4, <3>1, NestSame DEF PairingInv, StampsInv
  <2>5. SectionInv'
    BY <2>1, <2>3, <2>4 DEF PairingInv, SectionInv
  <2> QED BY <1>1, <2>2, <2>5 DEF PairingInv
<1> QED BY <1>2, <1>3, <1>4

\* No section is lost to Fini, if moreover no unlock misses its section.
LEMMA CompleteStep ==
  ASSUME ~UsesTrylock, "miss" \notin StrayIndex
  PROVE  PairingInv /\ AnnotationComplete /\ [Next]_vars => AnnotationComplete'
<1> SUFFICES ASSUME PairingInv, AnnotationComplete, [Next]_vars
             PROVE  AnnotationComplete'
  OBVIOUS
<1>1. CASE Fini
  <2>1. status = "running"
    BY <1>1 DEF Fini
  <2>2. /\ StampsInv /\ RowsInv /\ Ownership /\ Recording
        /\ \E F \in [Tid -> Seq(Nat)] : Nest(F)
    BY <2>1 DEF PairingInv, SectionInv
  <2> QED BY <1>1, <2>2, CompleteFini
<1>2. CASE UNCHANGED vars
  BY <1>2 DEF vars, tool, target, history, AnnotationComplete
<1>3. CASE Next /\ ~Fini
  <2>1. status' # "finished"
    BY <1>3, Alive DEF Next, TargetStep, Callback, CreateThread, ExecMemAccess,
       AcquireMutex, ReleaseMutex, TrylockMutex, CondWait, CondWake, ThreadStart,
       ThreadFini, afterThreadCreate, RecordMemRead, RecordMemWrite, RecordMem,
       beforeThreadLock, beforeThreadUnLock, UnLockAborts, afterThreadSynch
  <2> QED BY <2>1 DEF AnnotationComplete
<1> QED BY <1>1, <1>2, <1>3

\* The invariant holds in every run of a target without pthread_mutex_trylock,
\* for which Routine() has no callback.
LEMMA PairingHolds == ASSUME ~UsesTrylock PROVE Spec => []PairingInv
BY PairingInit, PairingStep, PTL DEF Spec

\* In such a run, during it and after Fini, a finished section was locked and
\* unlocked through one mutex: matching unlocks by position alone is right.
THEOREM PairedCorrect == ASSUME ~UsesTrylock PROVE Spec => []SectionsArePaired
<1>1. PairingInv => SectionsArePaired
  BY DEF PairingInv, Promises
<1> QED BY <1>1, PairingHolds, PTL

\* In such a run a finished section holds only accesses that its thread made
\* under the mutex of the section, although it is stamped before that mutex
\* is acquired.
THEOREM SpanSoundCorrect == ASSUME ~UsesTrylock PROVE Spec => []SpanSound
<1>1. PairingInv => SpanSound
  BY DEF PairingInv, Promises
<1> QED BY <1>1, PairingHolds, PTL

\* In such a run, as long as it lasts, every mutex held at an access has a
\* section around the access.
THEOREM SpanCompleteCorrect == ASSUME ~UsesTrylock PROVE Spec => []SpanComplete
<1>1. PairingInv => SpanComplete
  BY DEF PairingInv, Promises
<1> QED BY <1>1, PairingHolds, PTL

\* In such a run Fini writes into an access only a mutex its thread held.
THEOREM AnnotationSoundCorrect == ASSUME ~UsesTrylock PROVE Spec => []AnnotationSound
<1>1. PairingInv => AnnotationSound
  BY DEF PairingInv, Promises
<1> QED BY <1>1, PairingHolds, PTL

\* If the index that beforeThreadUnLock leaves uninitialised does no harm but
\* to crash, every access made under a mutex carries a lock after Fini, when
\* its thread had released everything.
THEOREM AnnotationCompleteCorrect ==
  ASSUME ~UsesTrylock, "miss" \notin StrayIndex
  PROVE  Spec => []AnnotationComplete
<1>1. Init => PairingInv /\ AnnotationComplete
  BY PairingInit
<1>2. PairingInv /\ AnnotationComplete /\ [Next]_vars
        => (PairingInv /\ AnnotationComplete)'
  BY PairingStep, CompleteStep
<1> QED BY <1>1, <1>2, PTL DEF Spec
=============================================================================
