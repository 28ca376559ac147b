------------------------------ MODULE Scripted ------------------------------
(***************************************************************************)
(* The tracing run of one of several given targets: every thread of the    *)
(* target follows a script, and the schedule is free.  A step of the       *)
(* script is a step of Tracer, so every behaviour here is one of Tracer's. *)
(*                                                                         *)
(* The threads of the target are numbered by role, role 0 being main; Pin  *)
(* numbers them in the order in which they happen to start.  A command is  *)
(* <<"create", r>>, <<"join", r>>, <<"R", inst, addr>>, <<"W", inst,       *)
(* addr>>, <<"lock", site, mutex>>, <<"unlock", site, mutex>>, <<"sleep">>,*)
(* <<"branch", n>>, which may skip n commands, or one half of an           *)
(* instruction that reads and writes: <<"RW", inst, addr>>, <<"+W", inst,  *)
(* addr>>.                                                                 *)
(***************************************************************************)
EXTENDS Detector

CONSTANT
  Programs   \* records of a script, script[r] being the commands of role r,
             \* a known bug, a set of <<first, inter, second>>, three
             \* access instructions, and the roles whose pair it is

Commands(roles) ==
  ({"create", "join"} \X roles) \cup ({"branch"} \X Nat)
    \cup ({"R", "W", "RW", "+W"} \X Inst \X Addr)
    \cup ({"lock", "unlock"} \X Site \X Mutex)
    \cup {<<"sleep">>}

VARIABLES program, pc, role

scriptVars == <<vars, program, pc, role>>

Script == program.script
NoRole == Cardinality(DOMAIN Script)
Command(t) == Script[role[t]][pc[t]]
AtEnd(t) == pc[t] > Len(Script[role[t]])

\* The roles main has created, and main itself.
Created == {0} \cup {Script[0][n][2] : n \in
             {n \in 1 .. pc[0] - 1 : Script[0][n][1] = "create"}}

Do(t, c) ==
  \/ c[1] = "create" /\ CreateThread(t) /\ nascent' = nascent + 1
  \/ /\ c[1] = "join"
     /\ Ready(t)
     /\ \E u \in Tid : role[u] = c[2] /\ phase[u] = "done"
     /\ UNCHANGED vars
  \/ c[1] \in {"R", "RW"} /\ RecordMemRead(t, c[2], c[3])
  \/ c[1] = "W"  /\ Ready(t)      /\ RecordMemWrite(t, c[2], c[3])
  \/ c[1] = "+W" /\ Doing(t, "R") /\ RecordMemWrite(t, c[2], c[3])
  \/ c[1] = "branch" /\ Ready(t) /\ UNCHANGED vars
  \/ c[1] = "lock" /\ beforeThreadLock(t, c[2], c[3])
  \/ c[1] = "unlock" /\ beforeThreadUnLock(t, c[2], c[3])
  \/ c[1] = "unlock" /\ UnLockAborts(t)
  \/ c[1] = "sleep" /\ afterThreadSynch(t, "sleep")

\* Which way a branch goes depends on data that the script leaves out.
Skips(c) == IF c[1] = "branch" THEN {0, c[2]} ELSE {0}

RunScript(t) ==
  /\ phase[t] = "running"
  /\ ~AtEnd(t)
  /\ Do(t, Command(t))
  /\ \E n \in Skips(Command(t)) : pc' = [pc EXCEPT ![t] = @ + 1 + n]
  /\ UNCHANGED <<program, role>>

Start(t) ==
  /\ ThreadStart(t)
  /\ \E r \in Created \ {role[u] : u \in Tid} : role' = [role EXCEPT ![t] = r]
  /\ UNCHANGED <<program, pc>>

Finish(t) ==
  /\ phase[t] = "running" /\ AtEnd(t)
  /\ ThreadFini(t)
  /\ UNCHANGED <<program, pc, role>>

\* An instruction that reads and writes is executed after both callbacks.
Halfway(t) == ~AtEnd(t) /\ Command(t)[1] = "+W"

Background(t) ==
  /\ \/ ExecMemAccess(t) /\ ~Halfway(t)
     \/ AcquireMutex(t)
     \/ ReleaseMutex(t)
     \/ afterThreadCreate(t)
  /\ UNCHANGED <<program, pc, role>>

Exit == Fini /\ UNCHANGED <<program, pc, role>>

\* The process is gone.
Terminated == status # "running" /\ UNCHANGED scriptVars

ScriptInit ==
  /\ Init
  /\ program \in Programs
  /\ pc = [t \in Tid |-> 1]
  /\ role = [t \in Tid |-> NoRole]

ScriptNext ==
  \/ Exit
  \/ Terminated
  \/ \E t \in Tid : RunScript(t) \/ Start(t) \/ Finish(t) \/ Background(t)

\* The threads of the target run on their own processors or are scheduled
\* fairly, and callbacks are part of the thread they run in.
ScriptFairness ==
  /\ WF_scriptVars(Exit)
  /\ \A t \in Tid : WF_scriptVars(RunScript(t) \/ Start(t) \/ Finish(t)
                                    \/ Background(t))

ScriptSpec == ScriptInit /\ [][ScriptNext]_scriptVars /\ ScriptFairness

-----------------------------------------------------------------------------
\* The occurrences of the known bug among the recorded accesses.
Occurrences ==
  {v \in Violations :
     /\ <<Ma(v[1]).inst, Ma(v[3]).inst, Ma(v[2]).inst>> \in program.bug
     /\ role[v[1][1]] \in program.local}

\* Whenever the accesses that make up the known bug were all recorded, in
\* whatever order they ran, the replay log tells of the bug.
BugPredicted ==
  status = "finished" /\ Occurrences # {} =>
    \E v \in Occurrences, n \in DOMAIN replay_log : replay_log[n] = Line(v)

\* A run of the target under the tool ends as it does without it, unless the
\* uninitialised index of beforeThreadUnLock, used for a table of one
\* section, faults.
TargetFinishes ==
  <>(status = "finished" \/ (status = "aborted" /\ Len(csTable) = 1))
=============================================================================
