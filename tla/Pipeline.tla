------------------------------ MODULE Pipeline ------------------------------
(***************************************************************************)
(* The three phases together: a test program is traced, the analysis       *)
(* writes its log, and the same program is run again under the replay tool *)
(* with that log.                                                          *)
(***************************************************************************)
EXTENDS TracedPrograms

VARIABLES
  stage,   \* "trace" or "replay"
  \* The replay run, named as in Replay; rpc is its pc.
  replay, first_ready, inter_ready, second_ready, pin_lock,
  tid, rpc, at, sections, ran

replayVars == <<replay, first_ready, inter_ready, second_ready, pin_lock,
                tid, rpc, at, sections, ran>>
pipelineVars == <<stage, scriptVars, replayVars>>

Role == 0 .. 2

ASSUME PipelineAssumption ==
  /\ None \notin Nat
  /\ \A p \in Programs :
       /\ p.script \in [Role -> Seq(Commands(Role))]
       /\ \A r \in Role : \A n \in DOMAIN p.script[r] :
            p.script[r][n][1] = "branch" => n + p.script[r][n][2] <= Len(p.script[r])

Rep == INSTANCE Replay WITH pc <- rpc

-----------------------------------------------------------------------------
\* The role of every thread of the traced run.
Numbers == [r \in Role |-> CHOOSE t \in Tid : role[t] = r]

\* History: was an access of this line, of the unlocked type, made under a
\* mutex?
Mixed(line) ==
  /\ line.locked = 0
  /\ \E c \in Recorded(maTable, threadExisted, synchTable) :
       LET v == Triple(c)
       IN  /\ Line(v) = line
           /\ Guards(v[1]) \cup Guards(v[2]) \cup Guards(v[3]) # {}

\* A target with a routine that Pin meets late: it is instrumented during or
\* after the replay.
LateRoutine(script) == [script EXCEPT ![0] = @ \o <<<<"routine">>>>]

\* The traced process is gone, and what it leaves is the log.  Only the first
\* line of it is kept here, as replay.cpp reads no other.
Gone ==
  /\ threadNum' = 0 /\ threadExisted' = 0
  /\ logging_start' = FALSE
  /\ timestamp' = 1
  /\ maTable' = [t \in Tid |-> <<>>]
  /\ csTable' = <<>> /\ synchTable' = <<>>
  /\ nascent' = 0
  /\ phase' = [t \in Tid |-> "done"]
  /\ pend' = [t \in Tid |-> Idle]
  /\ held' = [t \in Tid |-> <<>>]
  /\ guards' = [t \in Tid |-> <<>>]
  /\ jumbled' = {}
  /\ pc' = [t \in Tid |-> 1]
  /\ role' = [t \in Tid |-> NoRole]
  /\ UNCHANGED <<status, program>>

StartReplay ==
  /\ stage = "trace" /\ status = "finished"
  /\ stage' = "replay"
  /\ LET log == IF 1 \in DOMAIN replay_log THEN <<replay_log[1]>> ELSE <<>>
     IN  replay' = [script  |-> LateRoutine(Script),
                    log     |-> log,
                    numbers |-> Numbers,
                    mixed   |-> log # <<>> /\ Mixed(log[1])]
  /\ Gone
  /\ UNCHANGED <<first_ready, inter_ready, second_ready, pin_lock,
                 tid, rpc, at, sections, ran>>

TraceStep(t) ==
  /\ stage = "trace"
  /\ RunScript(t) \/ Start(t) \/ Finish(t) \/ Background(t)
  /\ UNCHANGED <<stage, replayVars>>
TraceExit  == stage = "trace" /\ Exit /\ UNCHANGED <<stage, replayVars>>
TraceEnded == status = "aborted" /\ UNCHANGED pipelineVars

ReplayStep(r) ==
  stage = "replay" /\ Rep!Step(r) /\ UNCHANGED <<stage, scriptVars>>
ReplayIdle ==
  /\ stage = "replay"
  /\ Rep!Terminated \/ \E r \in Role : Rep!Delay(r)
  /\ UNCHANGED <<stage, scriptVars>>

NothingToReplay ==
  [script |-> [r \in Role |-> <<>>], log |-> <<>>,
   numbers |-> [r \in Role |-> None], mixed |-> FALSE]

PipelineInit ==
  /\ ScriptInit
  /\ stage = "trace"
  /\ replay = NothingToReplay
  /\ Rep!Init

PipelineNext ==
  \/ \E t \in Tid : TraceStep(t)
  \/ TraceExit
  \/ TraceEnded
  \/ StartReplay
  \/ \E r \in Role : ReplayStep(r)
  \/ ReplayIdle

\* Some thread of the traced process, and of the replayed one, goes on as long
\* as one of them can: a callback is part of the thread it runs in, and a thread
\* that polls a flag can go on once the flag is up.  That every thread gets its
\* turn need not be assumed, because no thread can go on for ever.  Nobody is
\* obliged to start a replay.
PipelineSpec ==
  /\ PipelineInit /\ [][PipelineNext]_pipelineVars
  /\ WF_pipelineVars(TraceExit \/ \E t \in Tid : TraceStep(t))
  /\ WF_pipelineVars(\E r \in Role : ReplayStep(r))

-----------------------------------------------------------------------------
(* Properties of the replay. *)

Replaying == stage = "replay"
Straight  == \A r \in Role : \A n \in DOMAIN Script[r] : Script[r][n][1] # "branch"
OfMain    == \E p \in Rep!Part : Rep!pattern[p].tid = 0

\* What the replay tool is given: a log without a pattern, or a pattern of
\* threads that run side by side, on paths they cannot leave, and numbered as
\* in the traced run.
Plain ==
  /\ Replaying
  /\ \/ replay.log = <<>>
     \/ Straight /\ ~OfMain /\ Rep!NumberedAsTraced

ReplayTypeOK == Rep!TypeOK

\* structs.h:90, call sites determine a critical section: those of a
\* pattern of the locked type, which the analysis took from the traced run,
\* single out sections of one mutex in the replayed run too.
PatternNamesSections == Replaying /\ Rep!Locked => Rep!SitesNameParts

\* Delaying whole sections, as for a pattern of the locked type, makes its
\* parts take place in their order.
LockedInOrder == Replaying /\ Rep!Locked => Rep!ReplaysInOrder

\* A hung target has its pattern replayed: what it hangs in is the PIN lock
\* that beforeThreadUnLock_replay keeps, not a delay.
HangsAfterReplay == Plain /\ ~replay.mixed /\ Rep!Hung => second_ready

\* A pattern reported although its accesses lie under different mutexes may
\* hang the target before it is complete.  Then a delayed thread holds the
\* mutex for which another one waits.
MixedHangsOnMutex ==
  Plain /\ replay.mixed /\ Rep!Hung =>
    \E r, u \in Role :
      /\ Rep!Alive(r) /\ at[r] \in {"inter", "second"}
      /\ Rep!Carries(u, {"lock"}) /\ Rep!Command(u)[3] \in Rep!Mutexes(r)

\* The whole pattern that the analysis reports is brought about.
ReplaySucceeds ==
  Replaying ~> ran = Rep!Part \/ replay.log = <<>> \/ replay.mixed \/ ~Plain

\* A pattern of the unlocked type never keeps the target from its end, nor
\* does a log without a pattern, as this revision's tracer leaves it.
UnlockedFinishes ==
  Replaying /\ ~Rep!Locked /\ ~replay.mixed ~> Rep!Exited \/ ~Plain

\* replay.cpp:38 "delay Inter to after First" and replay.cpp:41 "delay Second
\* to after Inter", for a pattern of the unlocked type.
UnlockedInOrder == Replaying /\ ~Rep!Locked => Rep!ReplaysInOrder
=============================================================================
