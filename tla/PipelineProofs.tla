--------------------------- MODULE PipelineProofs ---------------------------
(***************************************************************************)
(* The two runs of Pipeline: the traced one is a run of Tracer; the types  *)
(* of the replayed one, and the order in which the parts of a pattern of   *)
(* the locked type take place.                                             *)
(***************************************************************************)
EXTENDS Pipeline, SequenceTheorems, FiniteSetTheorems, TLAPS

RolesHaveScripts == replay.script \in [Role -> Seq(Commands(Role) \cup {<<"routine">>})]

\* Replay counts as this module does.
LEMMA SameCardinality ==
  ASSUME NEW S PROVE Rep!Cardinality(S) = Cardinality(S)
BY DEF Rep!Cardinality, Cardinality

\* There are three roles.
LEMMA ThreeRoles == Cardinality(Role) = 3 /\ IsFiniteSet(Role)
<1>1. /\ IsFiniteSet(0 .. 2)
      /\ Cardinality(0 .. 2) = IF 0 > 2 THEN 0 ELSE 2 - 0 + 1
  <2>1. 0 \in Int /\ 2 \in Int
    OBVIOUS
  <2> QED BY ONLY <2>1, FS_Interval
<1> QED BY <1>1 DEF Role

\* A role that has not started leaves a number for itself.
LEMMA NumberLeft ==
  ASSUME NEW r \in Role, r \notin Rep!Started
  PROVE  Cardinality(Rep!Started) \in 0 .. 2
<1>1. Rep!Started \subseteq Role \ {r}
  BY DEF Rep!Started
<1>2. IsFiniteSet(Role \ {r}) /\ Cardinality(Role \ {r}) = 2
  BY ThreeRoles, FS_RemoveElement
<1>3. /\ IsFiniteSet(Rep!Started)
      /\ Cardinality(Rep!Started) <= 2
  BY <1>1, <1>2, FS_Subset
<1>4. Cardinality(Rep!Started) \in Nat
  BY <1>3, FS_CardinalityType
<1> QED BY <1>3, <1>4


\* A branch says how far it goes, and a lock or unlock names site and mutex.
LEMMA CommandKinds ==
  ASSUME NEW c \in Commands(Role) \cup {<<"routine">>}
  PROVE  /\ c[1] = "branch" => c[2] \in Nat
         /\ c[1] = "lock" => <<c[2], c[3]>> \in Site \X Mutex
<1>1. CASE c \in {"create", "join", "branch"} \X Nat
  BY <1>1
<1>2. CASE c \in {"R", "W", "RW", "+W"} \X Inst \X Addr
  BY <1>2
<1>3. CASE c \in {"lock", "unlock"} \X Site \X Mutex
  BY <1>3
<1>4. CASE c = <<"sleep">> \/ c = <<"routine">>
  BY <1>4
<1> QED BY <1>1, <1>2, <1>3, <1>4 DEF Commands

\* The command a role is at is one of its script.
LEMMA CommandOfScript ==
  ASSUME ReplayTypeOK, RolesHaveScripts, NEW r \in Role, Rep!Alive(r)
  PROVE  /\ Rep!Command(r) \in Commands(Role) \cup {<<"routine">>}
         /\ tid[r] \in 0 .. 2
<1>1. /\ rpc[r] \in Nat \ {0} /\ rpc[r] <= Len(replay.script[r])
      /\ replay.script[r] \in Seq(Commands(Role) \cup {<<"routine">>})
      /\ tid[r] \in 0 .. Cardinality(Role) - 1 \cup {None} /\ tid[r] # None
  BY SameCardinality DEF ReplayTypeOK, Rep!TypeOK, RolesHaveScripts, Rep!Alive, Rep!Script
<1>2. rpc[r] \in 1 .. Len(replay.script[r])
  BY <1>1, LenProperties
<1>3. replay.script[r][rpc[r]] \in Commands(Role) \cup {<<"routine">>}
  BY <1>1, <1>2, ElementOfSeq
<1> QED BY <1>1, <1>3, ThreeRoles DEF Rep!Command, Rep!Script

-----------------------------------------------------------------------------
(* Types. *)

\* What a command does to the place of its role.
LEMMA PlaceStep ==
  ASSUME ReplayTypeOK, NEW r \in Role
  PROVE  /\ \A where \in {"next", "inter", "second", "run"} : Rep!Go(r, where) =>
              /\ tid' = tid /\ rpc' = rpc /\ sections' = sections
              /\ at' \in [Role -> {"next", "inter", "second", "run"}]
         /\ \A n \in Nat : Rep!AdvanceBy(r, n) =>
              /\ rpc' \in [Role -> Nat \ {0}]
              /\ at' \in [Role -> {"next", "inter", "second", "run"}]
         /\ Rep!Advance(r) =>
              /\ rpc' \in [Role -> Nat \ {0}]
              /\ at' \in [Role -> {"next", "inter", "second", "run"}]
<1>1. /\ rpc \in [Role -> Nat \ {0}]
      /\ at \in [Role -> {"next", "inter", "second", "run"}]
  BY DEF ReplayTypeOK, Rep!TypeOK
<1>2. ASSUME NEW n \in Nat, Rep!AdvanceBy(r, n)
      PROVE  /\ rpc' \in [Role -> Nat \ {0}]
             /\ at' \in [Role -> {"next", "inter", "second", "run"}]
  <2>1. rpc[r] + n \in Nat \ {0}
    BY <1>1
  <2> QED BY <1>1, <1>2, <2>1 DEF Rep!AdvanceBy
<1> QED BY <1>1, <1>2 DEF Rep!Go, Rep!Advance

\* Raising a flag leaves the flags booleans.
LEMMA RaiseType ==
  ASSUME ReplayTypeOK, NEW P, Rep!Raise(P)
  PROVE  Rep!flags' \in BOOLEAN \X BOOLEAN \X BOOLEAN
<1>1. /\ first_ready' \in BOOLEAN /\ inter_ready' \in BOOLEAN
      /\ second_ready' \in BOOLEAN
  BY DEF Rep!Raise
<1> QED BY <1>1 DEF Rep!flags


\* Every step of a role keeps the types.
LEMMA ReplayTypeStep ==
  ASSUME ReplayTypeOK, RolesHaveScripts, NEW r \in Role, Rep!Step(r)
  PROVE  ReplayTypeOK'
<1> DEFINE Where == {"next", "inter", "second", "run"}
<1>1. /\ Rep!flags \in BOOLEAN \X BOOLEAN \X BOOLEAN
      /\ pin_lock \in 0 .. 3
      /\ tid \in [Role -> 0 .. 2 \cup {None}]
      /\ rpc \in [Role -> Nat \ {0}]
      /\ at \in [Role -> Where]
      /\ ran \subseteq Rep!Part
  BY SameCardinality, ThreeRoles DEF ReplayTypeOK, Rep!TypeOK
\* What is left to show of a step that has not touched the rest.
<1>2. ASSUME Rep!flags' \in BOOLEAN \X BOOLEAN \X BOOLEAN,
             pin_lock' \in 0 .. 3,
             tid' \in [Role -> 0 .. 2 \cup {None}],
             rpc' \in [Role -> Nat \ {0}],
             at' \in [Role -> Where],
             ran' \subseteq Rep!Part
      PROVE  ReplayTypeOK'
  <2>1. pin_lock' \in 0 .. Rep!Cardinality(Role)
    BY <1>2, SameCardinality, ThreeRoles
  <2>2. tid' \in [Role -> 0 .. Rep!Cardinality(Role) - 1 \cup {None}]
    BY <1>2, SameCardinality, ThreeRoles
  <2> QED BY <1>2, <2>1, <2>2 DEF ReplayTypeOK, Rep!TypeOK
<1>3. UNCHANGED Rep!flags => Rep!flags' \in BOOLEAN \X BOOLEAN \X BOOLEAN
  BY <1>1
<1>4. \A P : Rep!Happens(P) /\ P \subseteq Rep!Part => ran' \subseteq Rep!Part
  BY <1>1 DEF Rep!Happens
<1> HIDE DEF Where
<1>5. CASE Rep!ThreadStart(r)
  <2>1. Rep!Cardinality(Rep!Started) \in 0 .. 2
    BY <1>5, NumberLeft, SameCardinality DEF Rep!ThreadStart
  <2> QED BY <1>1, <1>2, <1>3, <1>5, <2>1 DEF Rep!ThreadStart
<1>6. CASE Rep!Create(r) \/ Rep!Join(r) \/ Rep!NextCallback(r) \/ Rep!Routine(r)
  BY <1>1, <1>2, <1>3, <1>6, PlaceStep
  DEF Where, Rep!Create, Rep!Join, Rep!NextCallback, Rep!Routine
<1>7. CASE Rep!Unseen(r)
  <2>1. CASE Rep!Calls(r, "sleep")
    BY <1>1, <1>2, <1>3, <1>7, <2>1, PlaceStep DEF Where, Rep!Unseen, Rep!Calls
  <2>2. CASE ~Rep!Calls(r, "sleep")
    <3>1. Rep!Alive(r) /\ Rep!Command(r)[1] = "branch"
      BY <1>7, <2>2 DEF Rep!Unseen, Rep!Calls
    <3>2. Rep!Command(r)[2] \in Nat
      BY <3>1, CommandKinds, CommandOfScript
    <3>3. PICK n \in Nat : Rep!AdvanceBy(r, n)
      <4>1. PICK n \in {0, Rep!Command(r)[2]} : Rep!AdvanceBy(r, 1 + n)
        BY <1>7, <2>2 DEF Rep!Unseen
      <4>2. 1 + n \in Nat
        BY <3>2
      <4> QED BY <4>1, <4>2
    <3> QED BY <1>1, <1>2, <1>3, <1>7, <3>3, PlaceStep DEF Where, Rep!Unseen
  <2> QED BY <2>1, <2>2
<1>8. CASE Rep!ExecMemAccess(r)
  <2>1. ran' \subseteq Rep!Part
    BY <1>4, <1>8 DEF Rep!ExecMemAccess, Rep!PartsAt
  <2> QED BY <1>1, <1>2, <1>3, <1>8, <2>1, PlaceStep DEF Where, Rep!ExecMemAccess
<1>9. CASE Rep!AcquireMutex(r)
  BY <1>1, <1>2, <1>3, <1>9, PlaceStep DEF Where, Rep!AcquireMutex
<1>10. CASE Rep!ReleaseMutex(r)
  <2>1. ran' \subseteq Rep!Part
    BY <1>4, <1>10 DEF Rep!ReleaseMutex, Rep!PartsAt
  <2> QED BY <1>1, <1>2, <1>3, <1>10, <2>1, PlaceStep DEF Where, Rep!ReleaseMutex
<1>11. CASE Rep!BeforeMemAccess(r)
  <2>1. /\ \/ Rep!Raise({}) \/ Rep!Raise({"first"}) \/ Rep!Raise({"inter"})
           \/ Rep!Raise({"second"})
        /\ Rep!Go(r, "run") \/ Rep!Go(r, "inter") \/ Rep!Go(r, "second")
    BY <1>11 DEF Rep!BeforeMemAccess
  <2> QED BY <1>1, <1>2, <1>11, <2>1, RaiseType, PlaceStep DEF Where, Rep!BeforeMemAccess
<1>12. CASE Rep!EndDelay(r)
  BY <1>1, <1>2, <1>12, RaiseType, PlaceStep DEF Where, Rep!EndDelay
<1>13. CASE Rep!beforeThreadLock_replay(r)
  BY <1>1, <1>2, <1>3, <1>13, PlaceStep DEF Where, Rep!beforeThreadLock_replay
<1>14. CASE Rep!beforeThreadUnLock_replay(r)
  <2>1. Rep!Alive(r) /\ Rep!Go(r, "run")
    BY <1>14 DEF Rep!beforeThreadUnLock_replay, Rep!Calls
  <2>2. tid[r] + 1 \in 0 .. 3
    BY <2>1, CommandOfScript
  <2>3. pin_lock' \in 0 .. 3
    BY <1>1, <1>14, <2>2 DEF Rep!beforeThreadUnLock_replay
  <2>4. Rep!flags' \in BOOLEAN \X BOOLEAN \X BOOLEAN
    BY <1>3, <1>14, RaiseType DEF Rep!beforeThreadUnLock_replay
  <2> QED BY <1>1, <1>2, <1>14, <2>1, <2>3, <2>4, PlaceStep
          DEF Where, Rep!beforeThreadUnLock_replay
<1> QED BY <1>5, <1>6, <1>7, <1>8, <1>9, <1>10, <1>11, <1>12, <1>13, <1>14
        DEF Rep!Step


\* Scripts are given once, when the replay starts.
LEMMA ReplayKept ==
  ASSUME NEW r \in Role, Rep!Step(r) PROVE replay' = replay
BY DEF Rep!Step, Rep!ThreadStart, Rep!Create, Rep!Join, Rep!Unseen,
       Rep!NextCallback, Rep!ExecMemAccess, Rep!AcquireMutex, Rep!ReleaseMutex,
       Rep!BeforeMemAccess, Rep!EndDelay, Rep!Routine,
       Rep!beforeThreadLock_replay, Rep!beforeThreadUnLock_replay

\* The replayed program is the traced one.
LEMMA LateRoutineType ==
  ASSUME NEW script \in [Role -> Seq(Commands(Role))]
  PROVE  LateRoutine(script) \in [Role -> Seq(Commands(Role) \cup {<<"routine">>})]
<1> DEFINE C == Commands(Role) \cup {<<"routine">>}
<1>1. \A r \in Role : script[r] \in Seq(C)
  <2>1. ASSUME NEW s \in Seq(Commands(Role)) PROVE s \in Seq(C)
    BY ElementOfSeq, LenProperties, SeqDef
  <2> QED BY <2>1
<1>2. <<<<"routine">>>> \in Seq(C)
  OBVIOUS
<1>3. script[0] \o <<<<"routine">>>> \in Seq(C)
  <2>1. 0 \in Role
    BY DEF Role
  <2> QED BY <1>1, <1>2, <2>1, ConcatProperties
<1> QED BY <1>1, <1>3 DEF LateRoutine

TypeInv ==
  /\ ReplayTypeOK /\ RolesHaveScripts
  /\ program \in Programs

\* TypeInv holds when the traced run begins.
LEMMA TypeInit == PipelineInit => TypeInv
<1> SUFFICES ASSUME PipelineInit PROVE TypeInv
  OBVIOUS
<1>1. program \in Programs /\ replay = NothingToReplay /\ Rep!Init
  BY DEF PipelineInit, ScriptInit
<1>2. replay.script \in [Role -> Seq(Commands(Role) \cup {<<"routine">>})]
  BY <1>1 DEF NothingToReplay
<1>4. ReplayTypeOK
  <2>1. Rep!flags \in BOOLEAN \X BOOLEAN \X BOOLEAN
    <3>1. first_ready \in BOOLEAN /\ inter_ready \in BOOLEAN /\ second_ready \in BOOLEAN
      BY <1>1, Zenon DEF Rep!Init
    <3> QED BY <3>1 DEF Rep!flags
  <2>4. /\ rpc \in [Role -> Nat \ {0}]
        /\ at \in [Role -> {"next", "inter", "second", "run"}]
        /\ ran \subseteq Rep!Part
    BY <1>1 DEF Rep!Init
  <2>2. pin_lock \in 0 .. 3 /\ tid \in [Role -> 0 .. 2 \cup {None}]
    BY <1>1 DEF Rep!Init
  <2>3. Rep!Cardinality(Role) = 3
    BY SameCardinality, ThreeRoles
  <2> QED BY <2>1, <2>2, <2>3, <2>4 DEF ReplayTypeOK, Rep!TypeOK
<1> QED BY <1>1, <1>2, <1>4 DEF TypeInv, RolesHaveScripts

\* Every step of the traced and of the replayed run keeps TypeInv.
LEMMA TypeStep == TypeInv /\ [PipelineNext]_pipelineVars => TypeInv'
<1> SUFFICES ASSUME TypeInv, [PipelineNext]_pipelineVars PROVE TypeInv'
  OBVIOUS
<1>1. ASSUME UNCHANGED <<replayVars, program>> PROVE TypeInv'
  BY <1>1 DEF TypeInv, ReplayTypeOK, Rep!TypeOK, Rep!flags, Rep!Part, replayVars,
              RolesHaveScripts
<1>2. CASE \E t \in Tid : TraceStep(t)
  BY <1>1, <1>2 DEF TraceStep, RunScript, Start, Finish, Background
<1>3. CASE TraceExit
  BY <1>1, <1>3 DEF TraceExit, Exit
<1>4. CASE TraceEnded \/ UNCHANGED pipelineVars
  BY <1>1, <1>4 DEF TraceEnded, pipelineVars, scriptVars
<1>5. CASE StartReplay
  <2>1. replay'.script = LateRoutine(Script) /\ UNCHANGED program
    BY <1>5 DEF StartReplay, Gone
  <2>2. program.script \in [Role -> Seq(Commands(Role))]
    BY PipelineAssumption DEF TypeInv
  <2>3. RolesHaveScripts'
    BY <2>1, <2>2, LateRoutineType DEF RolesHaveScripts, Script
  <2>4. ReplayTypeOK'
    BY <1>5 DEF StartReplay, TypeInv, ReplayTypeOK, Rep!TypeOK, Rep!flags, Rep!Part
  <2> QED BY <2>1, <2>3, <2>4 DEF TypeInv
<1>6. CASE \E r \in Role : ReplayStep(r)
  <2>1. PICK r \in Role : Rep!Step(r) /\ UNCHANGED program
    BY <1>6 DEF ReplayStep, scriptVars
  <2> QED BY <2>1, ReplayTypeStep, ReplayKept DEF TypeInv, RolesHaveScripts
<1>7. CASE ReplayIdle
  <2>1. UNCHANGED Rep!vars /\ UNCHANGED program
    BY <1>7 DEF ReplayIdle, Rep!Terminated, Rep!Delay, scriptVars
  <2> QED BY <1>1, <2>1 DEF Rep!vars, Rep!flags, Rep!target, replayVars
<1> QED BY <1>2, <1>3, <1>4, <1>5, <1>6, <1>7 DEF PipelineNext

\* In every run of every program under the tracer and the replay tool, the
\* globals of the replay tool and what it knows of threads stay in their range.
THEOREM ReplayTypeCorrect == PipelineSpec => []ReplayTypeOK
<1>1. TypeInv => ReplayTypeOK
  BY DEF TypeInv
<1> QED BY <1>1, TypeInit, TypeStep, PTL DEF PipelineSpec


-----------------------------------------------------------------------------
(* The order of the parts. *)

Exclusive ==
  \A r, u \in Role : Rep!Mutexes(r) \cap Rep!Mutexes(u) # {} => r = u

\* The callback of the unlock of part p has returned, the mutex is not released.
Ends(r, p) ==
  /\ Rep!Alive(r) /\ at[r] = "run" /\ Rep!Command(r)[1] = "unlock"
  /\ Rep!UnlockOf(r, p)

\* A part that has been announced has taken place, or is about to.
Passed(p) == p \in ran \/ Rep!Exited \/ \E r \in Role : Ends(r, p)

PatternIsTyped ==
  \A p \in Rep!Part : \E t, a, b : Rep!pattern[p] = Rep!Point(t, a, b)

Announced ==
  /\ inter_ready => first_ready
  /\ second_ready => inter_ready
  /\ first_ready => Passed("first")
  /\ inter_ready => Passed("inter")

OrderInv ==
  /\ TypeInv
  /\ sections \in [Role -> Seq(Site \X Mutex)]
  /\ Exclusive
  /\ stage = "trace" => Rep!Init
  /\ Replaying /\ Rep!Locked => PatternIsTyped /\ Announced /\ Rep!ReplaysInOrder

\* Mutexes stay exclusive while nobody enters or leaves a section.
LEMMA ExclusiveKept == Exclusive /\ sections' = sections => Exclusive'
<1> SUFFICES ASSUME Exclusive, sections' = sections PROVE Exclusive'
  OBVIOUS
<1>1. \A u \in Role : Rep!Mutexes(u)' = Rep!Mutexes(u)
  BY DEF Rep!Mutexes
<1> QED BY <1>1 DEF Exclusive

\* Sections are entered through free mutexes only.
LEMMA ExclusiveStep ==
  ASSUME TypeInv, sections \in [Role -> Seq(Site \X Mutex)], Exclusive,
         NEW r \in Role, Rep!Step(r)
  PROVE  sections' \in [Role -> Seq(Site \X Mutex)] /\ Exclusive'
<1>1. ASSUME sections' = sections
      PROVE  sections' \in [Role -> Seq(Site \X Mutex)] /\ Exclusive'
  BY <1>1, ExclusiveKept
<1>2. \A u \in Role : DOMAIN sections[u] = 1 .. Len(sections[u]) /\ Len(sections[u]) \in Nat
  BY LenProperties
<1>3. CASE Rep!AcquireMutex(r)
  <2> DEFINE c == Rep!Command(r)
             s == <<c[2], c[3]>>
  <2>1. /\ Rep!Alive(r) /\ c[1] = "lock"
        /\ \A u \in Role : c[3] \notin Rep!Mutexes(u)
        /\ sections' = [sections EXCEPT ![r] = Append(@, s)]
    BY <1>3 DEF Rep!AcquireMutex, Rep!Carries
  <2>2. s \in Site \X Mutex
    BY <2>1, CommandKinds, CommandOfScript DEF TypeInv
  <2>3. s[2] = c[3]
    OBVIOUS
  <2> HIDE DEF c, s
  <2>4. /\ Append(sections[r], s) \in Seq(Site \X Mutex)
        /\ Len(Append(sections[r], s)) = Len(sections[r]) + 1
        /\ \A n \in 1 .. Len(sections[r]) : Append(sections[r], s)[n] = sections[r][n]
        /\ Append(sections[r], s)[Len(sections[r]) + 1] = s
    BY <2>2, AppendProperties
  <2>5. sections' \in [Role -> Seq(Site \X Mutex)]
    BY <2>1, <2>4
  <2>6. \A u \in Role : Rep!Mutexes(u)' \subseteq
          IF u = r THEN Rep!Mutexes(u) \cup {c[3]} ELSE Rep!Mutexes(u)
    <3>1. \A u \in Role : u # r => sections'[u] = sections[u]
      BY <2>1
    <3>2. \A n \in DOMAIN sections'[r] :
            \/ n \in DOMAIN sections[r] /\ sections'[r][n] = sections[r][n]
            \/ sections'[r][n] = s
      <4>1. sections'[r] = Append(sections[r], s)
        BY <2>1
      <4>2. DOMAIN sections'[r] = 1 .. Len(sections[r]) + 1
        BY <2>4, <4>1, LenProperties
      <4> QED BY <1>2, <2>4, <4>1, <4>2
    <3> QED BY <2>3, <3>1, <3>2 DEF Rep!Mutexes
  <2>7. ASSUME NEW u \in Role, NEW v \in Role, NEW m,
               m \in Rep!Mutexes(u)', m \in Rep!Mutexes(v)'
        PROVE  u = v
    <3>1. /\ m \in Rep!Mutexes(u) \/ (u = r /\ m = c[3])
          /\ m \in Rep!Mutexes(v) \/ (v = r /\ m = c[3])
      BY <2>6, <2>7
    <3> QED BY <2>1, <3>1 DEF Exclusive
  <2> QED BY <2>5, <2>7 DEF Exclusive
<1>4. CASE Rep!ReleaseMutex(r)
  <2> DEFINE n == Len(sections[r])
  <2>1. sections' = [sections EXCEPT ![r] = SubSeq(@, 1, n - 1)]
    BY <1>4 DEF Rep!ReleaseMutex
  <2>2. /\ SubSeq(sections[r], 1, n - 1) \in Seq(Site \X Mutex)
        /\ \A i \in DOMAIN SubSeq(sections[r], 1, n - 1) :
             /\ i \in DOMAIN sections[r]
             /\ SubSeq(sections[r], 1, n - 1)[i] = sections[r][i]
    <3>1. \A i \in 1 .. n - 1 : sections[r][i] \in Site \X Mutex
      BY <1>2, ElementOfSeq
    <3>2. /\ SubSeq(sections[r], 1, n - 1) \in Seq(Site \X Mutex)
          /\ Len(SubSeq(sections[r], 1, n - 1)) = IF 1 <= n - 1 THEN n - 1 ELSE 0
          /\ \A i \in 1 .. n - 1 : SubSeq(sections[r], 1, n - 1)[i] = sections[r][1 + i - 1]
      BY <1>2, <3>1, SubSeqProperties
    <3> QED BY <1>2, <3>2, LenProperties
  <2> HIDE DEF n
  <2>3. \A u \in Role : Rep!Mutexes(u)' \subseteq Rep!Mutexes(u)
    BY <2>1, <2>2 DEF Rep!Mutexes
  <2> QED BY <2>1, <2>2, <2>3 DEF Exclusive
<1>5. CASE ~Rep!AcquireMutex(r) /\ ~Rep!ReleaseMutex(r)
  BY <1>1, <1>5 DEF Rep!Step, Rep!ThreadStart, Rep!Create, Rep!Join, Rep!Unseen,
     Rep!NextCallback, Rep!ExecMemAccess, Rep!BeforeMemAccess, Rep!EndDelay,
     Rep!Routine, Rep!beforeThreadLock_replay, Rep!beforeThreadUnLock_replay, Rep!Go
<1> QED BY <1>1, <1>3, <1>4, <1>5


\* A step of one role leaves the place of every other alone.
LEMMA OthersStay ==
  ASSUME TypeInv, NEW r \in Role, Rep!Step(r)
  PROVE  \A u \in Role : u # r =>
           tid'[u] = tid[u] /\ rpc'[u] = rpc[u] /\ at'[u] = at[u]
<1>1. /\ tid \in [Role -> 0 .. Rep!Cardinality(Role) - 1 \cup {None}]
      /\ rpc \in [Role -> Nat \ {0}]
      /\ at \in [Role -> {"next", "inter", "second", "run"}]
  BY DEF TypeInv, ReplayTypeOK, Rep!TypeOK
<1>2. \A n : Rep!AdvanceBy(r, n) =>
        \A u \in Role : u # r => rpc'[u] = rpc[u] /\ at'[u] = at[u]
  BY <1>1 DEF Rep!AdvanceBy
<1>3. \A where : Rep!Go(r, where) =>
        \A u \in Role : u # r => tid'[u] = tid[u] /\ rpc'[u] = rpc[u] /\ at'[u] = at[u]
  BY <1>1 DEF Rep!Go
<1>4. CASE Rep!ThreadStart(r)
  BY <1>1, <1>4 DEF Rep!ThreadStart
<1>5. CASE \/ Rep!Create(r) \/ Rep!Join(r) \/ Rep!NextCallback(r) \/ Rep!Routine(r)
           \/ Rep!ExecMemAccess(r) \/ Rep!AcquireMutex(r) \/ Rep!ReleaseMutex(r)
           \/ Rep!Unseen(r)
  BY <1>2, <1>5 DEF Rep!Create, Rep!Join, Rep!NextCallback, Rep!Routine,
     Rep!ExecMemAccess, Rep!AcquireMutex, Rep!ReleaseMutex, Rep!Unseen, Rep!Advance
<1>6. CASE \/ Rep!BeforeMemAccess(r) \/ Rep!EndDelay(r)
           \/ Rep!beforeThreadLock_replay(r) \/ Rep!beforeThreadUnLock_replay(r)
  BY <1>3, <1>6 DEF Rep!BeforeMemAccess, Rep!EndDelay, Rep!beforeThreadLock_replay,
     Rep!beforeThreadUnLock_replay
<1> QED BY <1>4, <1>5, <1>6 DEF Rep!Step

\* What has taken place or is about to remains so through a step of a role
\* that is not about to end the part itself.
LEMMA PassedKept ==
  ASSUME TypeInv, NEW r \in Role, Rep!Step(r), ~Rep!Exited, ran \subseteq ran',
         NEW p, ~Ends(r, p), Passed(p)
  PROVE  Passed(p)'
<1>1. CASE p \in ran
  BY <1>1 DEF Passed
<1>2. CASE \E u \in Role : Ends(u, p)
  <2>1. PICK u \in Role : Ends(u, p) /\ u # r
    BY <1>2
  <2>2. tid'[u] = tid[u] /\ rpc'[u] = rpc[u] /\ at'[u] = at[u] /\ replay' = replay
    BY <2>1, OthersStay, ReplayKept
  <2>3. ~Rep!Exited' => Ends(u, p)'
    BY <2>1, <2>2 DEF Ends, Rep!Alive, Rep!Command, Rep!UnlockOf, Rep!Script,
                      Rep!Locked, Rep!pattern, Rep!ReplayLog
  <2> QED BY <2>3 DEF Passed
<1> QED BY <1>1, <1>2 DEF Passed

\* Who is about to end a part does that next.
LEMMA EndsNext ==
  ASSUME NEW r \in Role, Rep!Step(r), NEW p, Ends(r, p)
  PROVE  Rep!ReleaseMutex(r)
BY DEF Ends, Rep!Step, Rep!ThreadStart, Rep!Started, Rep!Alive, Rep!Create, Rep!Join,
       Rep!Unseen, Rep!NextCallback, Rep!ExecMemAccess, Rep!AcquireMutex,
       Rep!BeforeMemAccess, Rep!EndDelay, Rep!Routine, Rep!beforeThreadLock_replay,
       Rep!beforeThreadUnLock_replay, Rep!Calls, Rep!Carries

\* Of a pattern of the locked type the other steps take no notice.
LEMMA NothingSeen ==
  ASSUME TypeInv, NEW r \in Role, Rep!Step(r), Rep!Locked,
         ~Rep!ReleaseMutex(r), ~Rep!beforeThreadUnLock_replay(r)
  PROVE  /\ UNCHANGED <<first_ready, inter_ready, second_ready>>
         /\ ran' = ran
<1>1. /\ first_ready \in BOOLEAN /\ inter_ready \in BOOLEAN
      /\ second_ready \in BOOLEAN
  BY DEF TypeInv, ReplayTypeOK, Rep!TypeOK, Rep!flags
<1>2. Rep!Raise({}) => UNCHANGED <<first_ready, inter_ready, second_ready>>
  BY <1>1 DEF Rep!Raise
<1>3. CASE Rep!BeforeMemAccess(r)
  BY <1>2, <1>3 DEF Rep!BeforeMemAccess
<1>4. CASE Rep!EndDelay(r)
  BY <1>2, <1>4 DEF Rep!EndDelay
<1>5. CASE Rep!ExecMemAccess(r)
  BY <1>5 DEF Rep!ExecMemAccess, Rep!Happens, Rep!flags
<1> QED BY <1>3, <1>4, <1>5
        DEF Rep!Step, Rep!ThreadStart, Rep!Create, Rep!Join, Rep!Unseen,
            Rep!NextCallback, Rep!AcquireMutex, Rep!Routine,
            Rep!beforeThreadLock_replay, Rep!flags


\* Two roles are never both about to end parts: the sections are of one mutex.
LEMMA EndsAlone ==
  ASSUME sections \in [Role -> Seq(Site \X Mutex)], Exclusive, Rep!SitesNameParts,
         NEW r \in Role, NEW u \in Role, NEW p \in Rep!Part, NEW q \in Rep!Part,
         Ends(r, p), Ends(u, q)
  PROVE  r = u
<1>1. Rep!AtUnlockOf(r, p) /\ Rep!AtUnlockOf(u, q)
  BY DEF Ends, Rep!AtUnlockOf
<1>2. /\ sections[r] # <<>> /\ sections[u] # <<>>
      /\ Rep!Innermost(r)[2] = Rep!Innermost(u)[2]
  BY <1>1 DEF Rep!SitesNameParts
<1>3. \A v \in Role : sections[v] # <<>> => Rep!Innermost(v)[2] \in Rep!Mutexes(v)
  <2>1. ASSUME NEW v \in Role, sections[v] # <<>>
        PROVE  Len(sections[v]) \in DOMAIN sections[v]
    BY <2>1, EmptySeq, LenProperties
  <2> QED BY <2>1 DEF Rep!Innermost, Rep!Mutexes
<1> QED BY <1>2, <1>3 DEF Exclusive

\* What takes place at a release is what the role was about to end.
LEMMA EndsHappen ==
  ASSUME PatternIsTyped, Rep!Locked, Rep!SitesNameParts,
         NEW r \in Role, Rep!ReleaseMutex(r)
  PROVE  /\ ran \subseteq ran'
         /\ \A p \in Rep!Part : p \in ran' <=> p \in ran \/ (Ends(r, p) /\ Rep!Ready(p))
<1> DEFINE a == sections[r][Len(sections[r])][1]
           b == Rep!Command(r)[2]
<1>1. /\ Rep!Alive(r) /\ at[r] = "run" /\ Rep!Command(r)[1] = "unlock"
      /\ ran' = ran \cup {p \in Rep!PartsAt(tid[r], a, b) : Rep!Ready(p)}
  BY DEF Rep!ReleaseMutex, Rep!Carries, Rep!Happens
<1>2. ASSUME NEW p \in Rep!Part
      PROVE  p \in Rep!PartsAt(tid[r], a, b) <=> Ends(r, p)
  <2>1. PICK t, c, d : Rep!pattern[p] = Rep!Point(t, c, d)
    BY DEF PatternIsTyped
  <2>2. Rep!pattern[p].tid = t /\ Rep!pattern[p].a = c /\ Rep!pattern[p].b = d
    BY <2>1 DEF Rep!Point
  <2>3. ASSUME Ends(r, p) PROVE p \in Rep!PartsAt(tid[r], a, b)
    <3>1. t = tid[r] /\ d = b
      BY <2>2, <2>3 DEF Ends, Rep!UnlockOf
    <3>2. c = a
      BY <1>1, <2>2, <2>3 DEF Ends, Rep!AtUnlockOf, Rep!SitesNameParts, Rep!Innermost
    <3> QED BY <2>1, <3>1, <3>2 DEF Rep!PartsAt
  <2>4. ASSUME p \in Rep!PartsAt(tid[r], a, b) PROVE Ends(r, p)
    <3>1. Rep!pattern[p].tid = tid[r] /\ Rep!pattern[p].b = b
      BY <2>4 DEF Rep!PartsAt, Rep!Point
    <3> QED BY <1>1, <3>1 DEF Ends, Rep!UnlockOf
  <2> QED BY <2>3, <2>4
<1> QED BY <1>1, <1>2 DEF Rep!PartsAt

\* First and second are of another thread than inter.
LEMMA TwoThreads ==
  ASSUME Rep!SitesNameParts, NEW r \in Role, Ends(r, "inter")
  PROVE  ~Ends(r, "first") /\ ~Ends(r, "second")
BY DEF Rep!SitesNameParts, Ends, Rep!UnlockOf

\* When the mutex of a part is released, the parts before it have passed: the
\* role that would be about to end one would hold the same mutex.
LEMMA ReleaseOrder ==
  ASSUME OrderInv, Replaying, Rep!Locked, Rep!SitesNameParts,
         NEW r \in Role, Rep!Step(r), Rep!ReleaseMutex(r)
  PROVE  Announced' /\ Rep!ReplaysInOrder'
<1>1. /\ TypeInv /\ sections \in [Role -> Seq(Site \X Mutex)] /\ Exclusive
      /\ PatternIsTyped /\ Announced /\ Rep!ReplaysInOrder
  BY DEF OrderInv
<1>2. /\ UNCHANGED <<first_ready, inter_ready, second_ready>>
      /\ ~Rep!Exited
  BY DEF Rep!ReleaseMutex, Rep!flags, Rep!Carries, Rep!Alive
<1>3. /\ "first" \in Rep!Part /\ "inter" \in Rep!Part /\ "second" \in Rep!Part
      /\ (Rep!Ready("first") <=> first_ready) /\ (Rep!Ready("inter") <=> inter_ready)
      /\ (Rep!Ready("second") <=> second_ready)
  BY DEF Rep!Part, Rep!Ready
<1>4. /\ ran \subseteq ran'
      /\ \A p \in Rep!Part : p \in ran' <=> p \in ran \/ (Ends(r, p) /\ Rep!Ready(p))
  BY <1>1, EndsHappen
<1>5. ASSUME NEW p \in Rep!Part, Rep!Ready(p), Passed(p) PROVE Passed(p)'
  <2>1. CASE Ends(r, p)
    BY <1>4, <1>5, <2>1 DEF Passed
  <2>2. CASE ~Ends(r, p)
    BY <1>1, <1>2, <1>4, <1>5, <2>2, PassedKept
  <2> QED BY <2>1, <2>2
<1>6. Announced'
  BY <1>1, <1>2, <1>3, <1>5 DEF Announced
\* Another role that is about to end a part holds the mutex as r does.
<1>7. ASSUME NEW p \in Rep!Part, NEW q \in Rep!Part, Ends(r, p), Passed(q), ~Ends(r, q)
      PROVE  q \in ran
  BY <1>1, <1>2, <1>7, EndsAlone DEF Passed
<1>8. "inter" \in ran' => "first" \in ran'
  BY <1>1, <1>3, <1>4, <1>7, TwoThreads DEF Announced, Rep!ReplaysInOrder
<1>9. "second" \in ran' => "inter" \in ran'
  BY <1>1, <1>3, <1>4, <1>7, TwoThreads DEF Announced, Rep!ReplaysInOrder
<1> QED BY <1>6, <1>8, <1>9 DEF Rep!ReplaysInOrder

\* The callback of an unlock announces a part that is about to end.
LEMMA UnlockOrder ==
  ASSUME OrderInv, Replaying, Rep!Locked,
         NEW r \in Role, Rep!Step(r), Rep!beforeThreadUnLock_replay(r)
  PROVE  Announced' /\ Rep!ReplaysInOrder'
<1>1. TypeInv /\ Announced /\ Rep!ReplaysInOrder
  BY DEF OrderInv
<1>2. /\ Rep!Alive(r) /\ at[r] = "next" /\ Rep!Command(r)[1] = "unlock"
      /\ UNCHANGED <<tid, rpc, replay, ran>> /\ at' = [at EXCEPT ![r] = "run"]
      /\ ~Rep!Exited
  BY DEF Rep!beforeThreadUnLock_replay, Rep!Calls, Rep!Go, Rep!Alive
<1>3. ASSUME NEW p, Rep!UnlockOf(r, p) PROVE Passed(p)'
  <2>1. at'[r] = "run"
    BY <1>1, <1>2 DEF TypeInv, ReplayTypeOK, Rep!TypeOK
  <2>2. Ends(r, p)'
    BY <1>2, <1>3, <2>1 DEF Ends, Rep!Alive, Rep!Exited, Rep!Command, Rep!UnlockOf,
                            Rep!Script, Rep!Locked, Rep!pattern, Rep!ReplayLog
  <2> QED BY <2>2 DEF Passed
<1>4. ASSUME NEW p, Passed(p) PROVE Passed(p)'
  <2>1. ~Ends(r, p)
    BY <1>2 DEF Ends
  <2> QED BY <1>1, <1>2, <1>4, <2>1, PassedKept
<1>5. \A P : Rep!Raise(P) =>
        /\ first_ready' <=> first_ready \/ "first" \in P
        /\ inter_ready' <=> inter_ready \/ "inter" \in P
        /\ second_ready' <=> second_ready \/ "second" \in P
  BY DEF Rep!Raise
<1>6. ASSUME Rep!NoneReady /\ Rep!UnlockOf(r, "first") /\ Rep!Raise({"first"})
      PROVE  Announced'
  <2>1. first_ready' /\ ~inter_ready' /\ ~second_ready'
    BY <1>5, <1>6 DEF Rep!NoneReady
  <2> QED BY <1>3, <1>6, <2>1 DEF Announced
<1>7. ASSUME Rep!FirstReady /\ Rep!UnlockOf(r, "inter") /\ Rep!Raise({"inter"})
      PROVE  Announced'
  <2>1. first_ready /\ first_ready' /\ inter_ready' /\ ~second_ready'
    BY <1>5, <1>7 DEF Rep!FirstReady
  <2> QED BY <1>1, <1>3, <1>4, <1>7, <2>1 DEF Announced
<1>8. ASSUME Rep!InterReady /\ Rep!Raise({"second"})
      PROVE  Announced'
  <2>1. first_ready /\ inter_ready /\ first_ready' /\ inter_ready'
    BY <1>5, <1>8 DEF Rep!InterReady
  <2> QED BY <1>1, <1>4, <2>1 DEF Announced
<1>9. ASSUME UNCHANGED Rep!flags
      PROVE  Announced'
  <2>1. UNCHANGED <<first_ready, inter_ready, second_ready>>
    BY <1>9 DEF Rep!flags
  <2> QED BY <1>1, <1>4, <2>1 DEF Announced
<1>10. Announced'
  BY <1>6, <1>7, <1>8, <1>9 DEF Rep!beforeThreadUnLock_replay
<1> QED BY <1>1, <1>2, <1>10 DEF Rep!ReplaysInOrder


\* The first line of the log, if it is of the locked type, consists of sites.
LEMMA LogLine ==
  ASSUME StartReplay PROVE Rep!Locked' => PatternIsTyped'
<1>1. \A p \in Rep!Part : \A x, y, z :
        /\ \E t, a, b : Pattern(1, Locks(x), Locks(y), Locks(z))[p] = Rep!Point(t, a, b)
        /\ \E t, a, b : Pattern(0, Access(x), Access(y), Access(z))[p] = Rep!Point(t, a, b)
  <2>1. \A t, a, b : Point(t, a, b) = Rep!Point(t, a, b)
    BY DEF Point, Rep!Point
  <2>2. \A n, f, s, i : Pattern(n, f, s, i)["first"] = f /\ Pattern(n, f, s, i)["second"] = s
                       /\ Pattern(n, f, s, i)["inter"] = i
    BY DEF Pattern
  <2>3. \A x : /\ \E t, a, b : Locks(x) = Rep!Point(t, a, b)
               /\ \E t, a, b : Access(x) = Rep!Point(t, a, b)
    BY <2>1 DEF Locks, Access
  <2> QED BY <2>2, <2>3 DEF Rep!Part
<1>2. \A p \in Rep!Part : \A x, y, z : \E t, a, b :
        record_pattern(x, y, z)[p] = Rep!Point(t, a, b)
  BY <1>1 DEF record_pattern
<1>3. CASE 1 \in DOMAIN replay_log
  <2>1. replay'.log = <<replay_log[1]>>
    BY <1>3 DEF StartReplay
  <2>2. Rep!pattern' = replay_log[1]
    BY <2>1 DEF Rep!pattern, Rep!ReplayLog
  <2>3. \E x, y, z : replay_log[1] = record_pattern(x, y, z)
    BY <1>3 DEF replay_log, start_anlysis
  <2> QED BY <1>2, <2>2, <2>3 DEF PatternIsTyped
<1>4. CASE 1 \notin DOMAIN replay_log
  <2>1. replay'.log = <<>>
    BY <1>4 DEF StartReplay
  <2>2. Rep!pattern' = Rep!NoPattern
    BY <2>1 DEF Rep!pattern, Rep!ReplayLog
  <2>3. Rep!NoPattern.locked = 0
    BY DEF Rep!NoPattern
  <2> QED BY <2>2, <2>3 DEF Rep!Locked
<1> QED BY <1>3, <1>4

\* OrderInv holds when the traced run begins.
LEMMA OrderInit == PipelineInit => OrderInv
<1> SUFFICES ASSUME PipelineInit PROVE OrderInv
  OBVIOUS
<1>1. stage = "trace" /\ Rep!Init
  BY DEF PipelineInit
<1>2. sections \in [Role -> Seq(Site \X Mutex)] /\ \A r \in Role : Rep!Mutexes(r) = {}
  BY <1>1 DEF Rep!Init, Rep!Mutexes
<1> QED BY <1>1, <1>2, TypeInit DEF OrderInv, Exclusive, Replaying

\* Every step of the traced and of the replayed run keeps OrderInv.
LEMMA OrderStep ==
  OrderInv /\ PatternNamesSections /\ [PipelineNext]_pipelineVars => OrderInv'
<1> SUFFICES ASSUME OrderInv, PatternNamesSections, [PipelineNext]_pipelineVars
             PROVE  OrderInv'
  OBVIOUS
<1>1. TypeInv'
  BY TypeStep DEF OrderInv
<1>2. ASSUME UNCHANGED <<replayVars, stage>> PROVE OrderInv'
  <2>1. Exclusive'
    BY <1>2, ExclusiveKept DEF OrderInv, replayVars
  <2>2. stage' = "trace" => Rep!Init'
    BY <1>2 DEF OrderInv, Rep!Init, replayVars
  <2>3. \A p : Passed(p) => Passed(p)'
    BY <1>2 DEF Passed, Ends, Rep!Alive, Rep!Exited, Rep!Command, Rep!UnlockOf, Rep!Script,
                Rep!Locked, Rep!pattern, Rep!ReplayLog, replayVars
  <2>4. Replaying' /\ Rep!Locked' => PatternIsTyped' /\ Announced' /\ Rep!ReplaysInOrder'
    BY <1>2, <2>3 DEF OrderInv, Replaying, Rep!Locked, Rep!pattern, Rep!ReplayLog, Announced,
                      PatternIsTyped, Rep!ReplaysInOrder, replayVars
  <2> QED BY <1>1, <1>2, <2>1, <2>2, <2>4 DEF OrderInv, replayVars
<1>3. CASE (\E t \in Tid : TraceStep(t)) \/ TraceExit
  BY <1>2, <1>3 DEF TraceStep, TraceExit
<1>4. CASE TraceEnded \/ UNCHANGED pipelineVars
  BY <1>2, <1>4 DEF TraceEnded, pipelineVars
<1>5. CASE StartReplay
  <2>1. /\ stage = "trace" /\ stage' = "replay"
        /\ UNCHANGED <<first_ready, inter_ready, second_ready, sections, ran>>
    BY <1>5 DEF StartReplay
  <2>2. /\ ~first_ready' /\ ~inter_ready' /\ ~second_ready' /\ ran' = {}
    BY <2>1 DEF OrderInv, Rep!Init
  <2>3. Announced' /\ Rep!ReplaysInOrder'
    BY <2>2 DEF Announced, Rep!ReplaysInOrder
  <2>4. Exclusive'
    BY <2>1, ExclusiveKept DEF OrderInv
  <2> QED BY <1>1, <1>5, <2>1, <2>3, <2>4, LogLine DEF OrderInv
<1>6. CASE \E r \in Role : ReplayStep(r)
  <2>1. PICK r \in Role : Rep!Step(r) /\ stage = "replay" /\ stage' = stage
    BY <1>6 DEF ReplayStep
  <2>2. /\ TypeInv /\ sections \in [Role -> Seq(Site \X Mutex)] /\ Exclusive
        /\ Replaying
    BY <2>1 DEF OrderInv, Replaying
  <2>3. sections' \in [Role -> Seq(Site \X Mutex)] /\ Exclusive'
    BY <2>1, <2>2, ExclusiveStep
  <2>4. (Rep!Locked' <=> Rep!Locked) /\ (PatternIsTyped' <=> PatternIsTyped)
    BY <2>1, ReplayKept DEF Rep!Locked, Rep!pattern, Rep!ReplayLog, PatternIsTyped
  <2>5. ASSUME Rep!Locked PROVE Announced' /\ Rep!ReplaysInOrder'
    <3>1. Rep!SitesNameParts
      BY <2>2, <2>5 DEF PatternNamesSections
    <3>2. CASE Rep!ReleaseMutex(r)
      BY <2>1, <2>2, <2>5, <3>1, <3>2, ReleaseOrder
    <3>3. CASE Rep!beforeThreadUnLock_replay(r)
      BY <2>1, <2>2, <2>5, <3>3, UnlockOrder
    <3>4. CASE ~Rep!ReleaseMutex(r) /\ ~Rep!beforeThreadUnLock_replay(r)
      <4>1. UNCHANGED <<first_ready, inter_ready, second_ready>> /\ ran' = ran
        BY <2>1, <2>2, <2>5, <3>4, NothingSeen
      <4>2. ~Rep!Exited
        BY <2>1 DEF Rep!Step, Rep!ThreadStart, Rep!Create, Rep!Join, Rep!Unseen,
           Rep!NextCallback, Rep!ExecMemAccess, Rep!AcquireMutex, Rep!ReleaseMutex,
           Rep!BeforeMemAccess, Rep!EndDelay, Rep!Routine, Rep!beforeThreadLock_replay,
           Rep!beforeThreadUnLock_replay, Rep!Calls, Rep!Carries, Rep!Alive
      <4>3. ASSUME NEW p, Passed(p) PROVE Passed(p)'
        BY <2>1, <2>2, <3>4, <4>1, <4>2, <4>3, EndsNext, PassedKept
      <4> QED BY <2>2, <2>5, <4>1, <4>3 DEF OrderInv, Announced, Rep!ReplaysInOrder
    <3> QED BY <3>2, <3>3, <3>4
  <2> QED BY <1>1, <2>1, <2>2, <2>3, <2>4, <2>5 DEF OrderInv
<1>7. CASE ReplayIdle
  <2>1. UNCHANGED Rep!vars /\ UNCHANGED stage
    BY <1>7 DEF ReplayIdle, Rep!Terminated, Rep!Delay
  <2> QED BY <1>2, <2>1 DEF Rep!vars, Rep!flags, Rep!target, replayVars
<1> QED BY <1>3, <1>4, <1>5, <1>6, <1>7 DEF PipelineNext

\* Whenever the call sites of a pattern of the locked type single out its
\* sections, as structs.h:90 says they do, its parts take place in the order in
\* which replay.cpp is to bring them about: first, inter, second.
THEOREM LockedOrderCorrect ==
  PipelineSpec /\ []PatternNamesSections => []LockedInOrder
<1>1. OrderInv => LockedInOrder
  BY DEF OrderInv, LockedInOrder
<1> QED BY <1>1, OrderInit, OrderStep, PTL DEF PipelineSpec


-----------------------------------------------------------------------------
(* The traced run. *)

\* A thread that has started has a role; thread 0 is main, and it does not
\* leave its script.
ScriptInv ==
  /\ program \in Programs
  /\ phase \in [Tid -> {"unborn", "running", "done"}]
  /\ role \in [Tid -> Role \cup {NoRole}]
  /\ pc \in [Tid -> Nat \ {0}]
  /\ \A t \in Tid : phase[t] = "unborn" => pc[t] = 1
  /\ \A t \in Tid : phase[t] # "unborn" =>
       role[t] \in Role /\ pc[t] <= Len(Script[role[t]]) + 1
  /\ phase[0] # "unborn" => role[0] = 0
  /\ threadExisted \in Nat
  /\ \A t \in Tid : phase[t] = "unborn" <=> t >= threadExisted

\* The script of a role is a sequence of commands.
LEMMA ScriptOfRole ==
  ASSUME program \in Programs, NEW r \in Role
  PROVE  /\ Script[r] \in Seq(Commands(Role))
         /\ Len(Script[r]) \in Nat /\ DOMAIN Script[r] = 1 .. Len(Script[r])
         /\ \A n \in 1 .. Len(Script[r]) :
              /\ Script[r][n] \in Commands(Role)
              /\ Script[r][n][1] = "branch" => n + Script[r][n][2] <= Len(Script[r])
<1>1. Script[r] \in Seq(Commands(Role))
  BY PipelineAssumption DEF Script
<1>2. Len(Script[r]) \in Nat /\ DOMAIN Script[r] = 1 .. Len(Script[r])
  BY <1>1, LenProperties
<1>3. \A n \in 1 .. Len(Script[r]) : Script[r][n] \in Commands(Role)
  BY <1>1, ElementOfSeq
<1> QED BY <1>1, <1>2, <1>3, PipelineAssumption DEF Script

\* What the parts of a command can be.
LEMMA CommandParts ==
  ASSUME NEW c \in Commands(Role)
  PROVE  /\ c[1] \in {"create", "join"} => c[2] \in Role
         /\ c[1] = "branch" => c[2] \in Nat
         /\ c[1] \in {"R", "W", "RW", "+W"} => c[2] \in Inst /\ c[3] \in Addr
         /\ c[1] \in {"lock", "unlock"} => c[2] \in Site /\ c[3] \in Mutex
<1>1. CASE c \in {"create", "join"} \X Role
  BY <1>1
<1>2. CASE c \in {"branch"} \X Nat
  BY <1>2
<1>3. CASE c \in {"R", "W", "RW", "+W"} \X Inst \X Addr
  BY <1>3
<1>4. CASE c \in {"lock", "unlock"} \X Site \X Mutex
  BY <1>4
<1>5. CASE c = <<"sleep">>
  BY <1>5
<1> QED BY <1>1, <1>2, <1>3, <1>4, <1>5 DEF Commands

\* There is a main thread, and a role for it.
LEMMA MainIsThere == 0 \in Tid /\ 0 \in Role
BY TracerAssumption DEF Tid, Role

\* A command is carried out by a step of Tracer.
LEMMA CommandStep ==
  ASSUME NEW t \in Tid, NEW c \in Commands(Role), Do(t, c)
  PROVE  [Next]_vars
<1>1. CASE c[1] = "create" /\ CreateThread(t)
  BY <1>1 DEF Next, TargetStep
<1>2. CASE UNCHANGED vars
  BY <1>2
<1>3. CASE c[1] \in {"R", "RW"} /\ RecordMemRead(t, c[2], c[3])
  BY <1>3, CommandParts DEF Next, Callback
<1>4. CASE c[1] \in {"W", "+W"} /\ RecordMemWrite(t, c[2], c[3])
  BY <1>4, CommandParts DEF Next, Callback
<1>5. CASE c[1] = "lock" /\ beforeThreadLock(t, c[2], c[3])
  BY <1>5, CommandParts DEF Next, Callback
<1>6. CASE c[1] = "unlock" /\ beforeThreadUnLock(t, c[2], c[3])
  BY <1>6, CommandParts DEF Next, Callback
<1>7. CASE c[1] = "unlock" /\ UnLockAborts(t)
  BY <1>7 DEF Next, Callback
<1>8. CASE afterThreadSynch(t, "sleep")
  <2>1. "sleep" \in PauseTypes \cup WaitTypes
    BY <1>8 DEF afterThreadSynch
  <2> QED BY <1>8, <2>1 DEF Next, Callback
<1> QED BY <1>1, <1>2, <1>3, <1>4, <1>5, <1>6, <1>7, <1>8 DEF Do

\* A thread starts in a role that main has created.
LEMMA CreatedRoles ==
  ASSUME ScriptInv
  PROVE  /\ Created \subseteq Role
         /\ phase[0] = "unborn" => Created = {0}
<1>1. pc[0] \in Nat \ {0} /\ 0 \in Role /\ 0 \in Tid
  BY MainIsThere DEF ScriptInv
<1>2. CASE phase[0] = "unborn"
  <2>1. pc[0] = 1
    BY <1>1, <1>2 DEF ScriptInv
  <2>2. 1 .. pc[0] - 1 = {}
    BY <2>1
  <2> QED BY <1>1, <2>2 DEF Created
<1>3. CASE phase[0] # "unborn"
  <2>1. pc[0] <= Len(Script[0]) + 1 /\ Len(Script[0]) \in Nat
    BY <1>1, <1>3, ScriptOfRole DEF ScriptInv
  <2>2. ASSUME NEW n \in 1 .. pc[0] - 1, Script[0][n][1] = "create"
        PROVE  Script[0][n][2] \in Role
    <3>1. n \in 1 .. Len(Script[0])
      BY <1>1, <2>1
    <3>2. Script[0][n] \in Commands(Role)
      BY <1>1, <3>1, ScriptOfRole DEF ScriptInv
    <3> QED BY <2>2, <3>2, CommandParts
  <2> QED BY <1>1, <1>3, <2>2 DEF Created
<1> QED BY <1>2, <1>3

\* Only starting and finishing change the phase of a thread.
LEMMA PhaseKept ==
  ASSUME NEW t \in Tid,
         \/ \E c : Do(t, c)
         \/ ExecMemAccess(t) \/ AcquireMutex(t) \/ ReleaseMutex(t) \/ afterThreadCreate(t)
         \/ Fini
  PROVE  phase' = phase /\ threadExisted' = threadExisted
BY DEF Do, CreateThread, RecordMemRead, RecordMemWrite, RecordMem, beforeThreadLock,
       beforeThreadUnLock, UnLockAborts, afterThreadSynch, ExecMemAccess, AcquireMutex,
       ReleaseMutex, afterThreadCreate, Fini, vars, target, tool


\* ScriptInv holds when the target starts.
LEMMA ScriptInvInit == ScriptInit => ScriptInv
<1> SUFFICES ASSUME ScriptInit PROVE ScriptInv
  OBVIOUS
<1>1. /\ phase = [t \in Tid |-> "unborn"] /\ threadExisted = 0
      /\ program \in Programs
      /\ pc = [t \in Tid |-> 1] /\ role = [t \in Tid |-> NoRole]
  BY DEF ScriptInit, Init
<1>2. \A t \in Tid : t >= 0
  BY DEF Tid
<1> QED BY <1>1, <1>2, MainIsThere DEF ScriptInv

\* A step of the scripted target keeps ScriptInv and is a step of Tracer.
LEMMA ScriptStep ==
  ScriptInv /\ [ScriptNext]_scriptVars => ScriptInv' /\ [Next]_vars
<1> SUFFICES ASSUME ScriptInv, [ScriptNext]_scriptVars PROVE ScriptInv' /\ [Next]_vars
  OBVIOUS
<1>1. ASSUME UNCHANGED <<phase, threadExisted, program, pc, role>> PROVE ScriptInv'
  BY <1>1 DEF ScriptInv, Script, NoRole
<1>2. CASE UNCHANGED scriptVars \/ Terminated
  <2>1. UNCHANGED vars /\ UNCHANGED <<program, pc, role>>
    BY <1>2 DEF scriptVars, Terminated
  <2>2. UNCHANGED <<phase, threadExisted>>
    BY <2>1 DEF vars, tool, target
  <2> QED BY <1>1, <2>1, <2>2
<1>3. CASE Exit
  BY <1>1, <1>3, PhaseKept, MainIsThere DEF Exit, Next
<1>4. ASSUME NEW t \in Tid, RunScript(t) PROVE ScriptInv' /\ [Next]_vars
  <2> DEFINE c == Command(t)
  <2>1. /\ phase[t] = "running" /\ ~AtEnd(t) /\ Do(t, c) /\ UNCHANGED <<program, role>>
        /\ \E n \in Skips(c) : pc' = [pc EXCEPT ![t] = @ + 1 + n]
    BY <1>4 DEF RunScript
  <2>2. /\ role[t] \in Role /\ pc[t] \in Nat \ {0} /\ pc[t] <= Len(Script[role[t]])
        /\ Len(Script[role[t]]) \in Nat
    BY <2>1, ScriptOfRole DEF ScriptInv, AtEnd
  <2>3. pc[t] \in 1 .. Len(Script[role[t]])
    BY <2>2
  <2>4. /\ c \in Commands(Role)
        /\ c[1] = "branch" => pc[t] + c[2] <= Len(Script[role[t]])
    BY <2>2, <2>3, ScriptOfRole DEF ScriptInv, Command
  <2> HIDE DEF c
  <2>5. PICK n \in Nat : /\ pc' = [pc EXCEPT ![t] = @ + 1 + n]
                         /\ pc[t] + 1 + n <= Len(Script[role[t]]) + 1
    <3>1. PICK n \in Skips(c) : pc' = [pc EXCEPT ![t] = @ + 1 + n]
      BY <2>1
    <3>2. n = 0 \/ (c[1] = "branch" /\ n = c[2] /\ n \in Nat)
      BY <2>4, <3>1, CommandParts DEF Skips
    <3>3. n \in Nat
      BY <3>2
    <3>4. pc[t] + 1 + n <= Len(Script[role[t]]) + 1
      <4>1. CASE n = 0
        BY <2>2, <4>1
      <4>2. CASE c[1] = "branch" /\ n = c[2] /\ n \in Nat
        <5>1. pc[t] + n <= Len(Script[role[t]])
          BY <2>4, <4>2
        <5> QED BY <2>2, <3>3, <5>1
      <4> QED BY <3>2, <4>1, <4>2
    <3> QED BY <3>1, <3>3, <3>4
  <2>6. phase' = phase /\ threadExisted' = threadExisted
    BY <2>1, PhaseKept
  <2>7. pc' \in [Tid -> Nat \ {0}]
    BY <2>2, <2>5 DEF ScriptInv
  <2>8. \A u \in Tid : pc'[u] = IF u = t THEN pc[t] + 1 + n ELSE pc[u]
    BY <2>5 DEF ScriptInv
  <2>9. ScriptInv'
    BY <2>1, <2>5, <2>6, <2>7, <2>8 DEF ScriptInv, Script, NoRole
  <2> QED BY <2>1, <2>4, <2>9, CommandStep
<1>5. ASSUME NEW t \in Tid, Start(t) PROVE ScriptInv' /\ [Next]_vars
  <2>1. /\ ThreadStart(t) /\ UNCHANGED <<program, pc>>
        /\ t = threadExisted /\ threadExisted' = threadExisted + 1
        /\ phase' = [phase EXCEPT ![t] = "running"]
    BY <1>5 DEF Start, ThreadStart
  <2>2. PICK r \in Created : role' = [role EXCEPT ![t] = r]
    BY <1>5 DEF Start
  <2>3. r \in Role /\ (phase[0] = "unborn" => r = 0)
    BY CreatedRoles
  <2>4. phase[t] = "unborn" /\ pc[t] = 1
    BY <2>1 DEF ScriptInv, Tid
  <2>5. \A u \in Tid : /\ role'[u] = IF u = t THEN r ELSE role[u]
                       /\ phase'[u] = IF u = t THEN "running" ELSE phase[u]
    BY <2>1, <2>2 DEF ScriptInv
  <2>6. Len(Script[r]) \in Nat
    BY <2>3, ScriptOfRole DEF ScriptInv
  <2>7. /\ program' \in Programs
        /\ phase' \in [Tid -> {"unborn", "running", "done"}]
        /\ role' \in [Tid -> Role \cup {NoRole'}]
        /\ pc' \in [Tid -> Nat \ {0}]
        /\ threadExisted' \in Nat
    BY <2>1, <2>2, <2>3 DEF ScriptInv, NoRole, Script
  <2>8. \A u \in Tid : phase'[u] = "unborn" => pc'[u] = 1
    BY <2>1, <2>5 DEF ScriptInv
  <2>9. \A u \in Tid : phase'[u] # "unborn" =>
          role'[u] \in Role /\ pc'[u] <= Len(Script'[role'[u]]) + 1
    BY <2>1, <2>3, <2>4, <2>5, <2>6 DEF ScriptInv, Script
  <2>10. phase'[0] # "unborn" => role'[0] = 0
    BY <2>3, <2>4, <2>5, MainIsThere DEF ScriptInv
  <2>11. \A u \in Tid : phase'[u] = "unborn" <=> u >= threadExisted'
    BY <2>1, <2>5 DEF ScriptInv, Tid
  <2>12. ScriptInv'
    BY <2>7, <2>8, <2>9, <2>10, <2>11 DEF ScriptInv
  <2> QED BY <2>1, <2>12 DEF Next, Callback
<1>6. ASSUME NEW t \in Tid, Finish(t) PROVE ScriptInv' /\ [Next]_vars
  <2>1. /\ ThreadFini(t) /\ phase[t] = "running" /\ UNCHANGED <<program, pc, role>>
        /\ phase' = [phase EXCEPT ![t] = "done"] /\ threadExisted' = threadExisted
    BY <1>6 DEF Finish, ThreadFini
  <2>2. \A u \in Tid : phase'[u] = IF u = t THEN "done" ELSE phase[u]
    BY <2>1 DEF ScriptInv
  <2>3. phase' \in [Tid -> {"unborn", "running", "done"}]
    BY <2>1 DEF ScriptInv
  <2>4. ScriptInv'
    BY <2>1, <2>2, <2>3, MainIsThere DEF ScriptInv, Script, NoRole
  <2> QED BY <2>1, <2>4 DEF Next, Callback
<1>7. ASSUME NEW t \in Tid, Background(t) PROVE ScriptInv' /\ [Next]_vars
  <2>1. \/ ExecMemAccess(t) \/ AcquireMutex(t) \/ ReleaseMutex(t) \/ afterThreadCreate(t)
    BY <1>7 DEF Background
  <2>2. UNCHANGED <<phase, threadExisted, program, pc, role>>
    BY <1>7, <2>1, PhaseKept DEF Background
  <2>3. Next
    BY <2>1 DEF Next, TargetStep, Callback
  <2> QED BY <1>1, <2>2, <2>3
<1> QED BY <1>2, <1>3, <1>4, <1>5, <1>6, <1>7 DEF ScriptNext

\* A test program under the tracing tool is one of the targets of Tracer, so
\* that what is proved of Tracer and Detector holds of every test program.
THEOREM ScriptsAreTraced == ScriptSpec => Spec
<1>1. ScriptInit => Init
  BY DEF ScriptInit
<1> QED BY <1>1, ScriptInvInit, ScriptStep, PTL DEF ScriptSpec, Spec
=============================================================================
