------------------------------- MODULE Replay -------------------------------
(***************************************************************************)
(* The replay tool (replay.cpp): it reads one pattern (first, inter,       *)
(* second) from the replay log and delays threads of the target so that    *)
(* the three happen in that order.  The callbacks share three flags and    *)
(* take no lock.                                                           *)
(*                                                                         *)
(* A callback's test of the flags is one step all the same: first and      *)
(* second are of one thread and inter is of another, each thread knows the *)
(* flags it sets itself, so at most one flag that it tests can change      *)
(* under it, and a flag never falls back.  Between the callback, each      *)
(* round of a delay loop and the operation the callback announces, every   *)
(* other thread may run.                                                   *)
(*                                                                         *)
(* The target is given by the script of each role, role 0 being main; the  *)
(* commands are those of Scripted and <<"routine">>, the first call of a   *)
(* routine that Pin has not instrumented yet.                              *)
(***************************************************************************)
EXTENDS Naturals, Sequences, FiniteSets

CONSTANTS
  None,
  Role         \* the roles of the target's threads, 0 .. n

VARIABLES
  replay,     \* what is run: a script, script[r] being the commands of role
              \* r, a log, the lines of pattern_for_replay.log before its
              \* "#eof", and numbers, the Pin numbers in the traced run
  first_ready, inter_ready, second_ready,
  pin_lock,   \* 0, or the Pin number + 1 of the thread in PIN_GetLock
  tid,        \* the Pin number of a role, None before it starts
  pc,         \* the command a role is at
  at,         \* where in it: "next", "inter" or "second" (in a delay loop),
              \* "run" (the callback has returned)
  sections,   \* the <<call site, mutex>> of the sections a role is in
  ran         \* history: the parts of the pattern that took place after
              \* they were announced by their flag

flags  == <<first_ready, inter_ready, second_ready>>
target == <<tid, pc, at, sections>>
vars   == <<replay, flags, pin_lock, target, ran>>

Script    == replay.script
ReplayLog == replay.log

-----------------------------------------------------------------------------
(* The pattern. *)

Part == {"first", "second", "inter"}
Point(t, a, b) == [tid |-> t, a |-> a, b |-> b]

\* The globals of replay.cpp are 0, and stay so when the log has no pattern.
NoPattern == LET none == Point(0, None, None)
             IN  [locked |-> 0, first |-> none, second |-> none, inter |-> none]

\* main reads the first line of the log only.
pattern == IF ReplayLog = <<>> THEN NoPattern ELSE ReplayLog[1]

\* The parts of the pattern that are at this point.
PartsAt(t, a, b) == {p \in Part : pattern[p] = Point(t, a, b)}

Locked == pattern.locked = 1

\* The three tests every callback makes.
NoneReady  == ~first_ready /\ ~inter_ready /\ ~second_ready
FirstReady == first_ready /\ ~inter_ready /\ ~second_ready
InterReady == first_ready /\ inter_ready /\ ~second_ready

Raise(P) ==
  /\ first_ready'  = (first_ready  \/ "first"  \in P)
  /\ inter_ready'  = (inter_ready  \/ "inter"  \in P)
  /\ second_ready' = (second_ready \/ "second" \in P)

Ready(p) == CASE p = "first"  -> first_ready
              [] p = "inter"  -> inter_ready
              [] p = "second" -> second_ready

-----------------------------------------------------------------------------
(* The target. *)

Exited  == pc[0] > Len(Script[0])
Alive(r) == tid[r] # None /\ pc[r] <= Len(Script[r]) /\ ~Exited
Command(r) == Script[r][pc[r]]
Calls(r, kind) == Alive(r) /\ at[r] = "next" /\ Command(r)[1] = kind
Carries(r, kinds) == Alive(r) /\ at[r] = "run" /\ Command(r)[1] \in kinds

Go(r, where) == at' = [at EXCEPT ![r] = where] /\ UNCHANGED <<tid, pc, sections>>

AdvanceBy(r, n) ==
  /\ pc' = [pc EXCEPT ![r] = @ + n]
  /\ at' = [at EXCEPT ![r] = "next"]
Advance(r) == AdvanceBy(r, 1)

\* What took place counts for the pattern if it was announced.
Happens(P) == ran' = ran \cup {p \in P : Ready(p)}

Started == {r \in Role : tid[r] # None}

\* Mutant: the number of main is counted twice.
ThreadStartFromTwo(r) ==
  /\ r \notin Started /\ ~Exited
  /\ \E n \in 1 .. pc[0] - 1 : Script[0][n] = <<"create", r>>
  /\ tid' = [tid EXCEPT ![r] = Cardinality(Started) + 1]
  /\ UNCHANGED <<replay, flags, pin_lock, pc, at, sections, ran>>

\* Pin numbers the threads in the order in which they start.
ThreadStart(r) ==
  /\ r \notin Started /\ ~Exited
  /\ \E n \in 1 .. pc[0] - 1 : Script[0][n] = <<"create", r>>
  /\ tid' = [tid EXCEPT ![r] = Cardinality(Started)]
  /\ UNCHANGED <<replay, flags, pin_lock, pc, at, sections, ran>>

Create(r) ==
  /\ Calls(r, "create")
  /\ Advance(r)
  /\ UNCHANGED <<replay, flags, pin_lock, tid, sections, ran>>

Join(r) ==
  /\ Calls(r, "join")
  /\ LET u == Command(r)[2] IN u \in Started /\ ~Alive(u)
  /\ Advance(r)
  /\ UNCHANGED <<replay, flags, pin_lock, tid, sections, ran>>

\* Neither a sleep nor the way a branch goes is noticed.
Unseen(r) ==
  /\ \/ Calls(r, "sleep") /\ Advance(r)
     \/ Calls(r, "branch") /\ \E n \in {0, Command(r)[2]} : AdvanceBy(r, 1 + n)
  /\ UNCHANGED <<replay, flags, pin_lock, tid, sections, ran>>

\* An instruction that reads and writes has a callback for each, and is
\* executed after both.
NextCallback(r) ==
  /\ Carries(r, {"RW"})
  /\ Advance(r)
  /\ UNCHANGED <<replay, flags, pin_lock, tid, sections, ran>>

ExecMemAccess(r) ==
  /\ Carries(r, {"R", "W", "+W"})
  /\ Happens(IF Locked THEN {} ELSE PartsAt(tid[r], Command(r)[2], Command(r)[3]))
  /\ Advance(r)
  /\ UNCHANGED <<replay, flags, pin_lock, tid, sections>>

Mutexes(r) == {sections[r][n][2] : n \in DOMAIN sections[r]}

AcquireMutex(r) ==
  /\ Carries(r, {"lock"})
  /\ \A u \in Role : Command(r)[3] \notin Mutexes(u)
  /\ sections' = [sections EXCEPT ![r] = Append(@, <<Command(r)[2], Command(r)[3]>>)]
  /\ Advance(r)
  /\ UNCHANGED <<replay, flags, pin_lock, tid, ran>>

\* The end of a section, the innermost one.
ReleaseMutex(r) ==
  /\ Carries(r, {"unlock"})
  /\ LET n == Len(sections[r])
     IN  /\ Happens(IF Locked
                      THEN PartsAt(tid[r], sections[r][n][1], Command(r)[2])
                      ELSE {})
         /\ sections' = [sections EXCEPT ![r] = SubSeq(@, 1, n - 1)]
  /\ Advance(r)
  /\ UNCHANGED <<replay, flags, pin_lock, tid>>

-----------------------------------------------------------------------------
(* The callbacks. *)

\* Accesses matter for a pattern of the unlocked type only.  Inter waits for
\* first to be ready and second for inter; the flag goes up before the access
\* it announces.
BeforeMemAccess(r) ==
  /\ \E kind \in {"R", "W", "RW", "+W"} : Calls(r, kind)
  /\ LET here == IF Locked THEN {}
                 ELSE PartsAt(tid[r], Command(r)[2], Command(r)[3])
     IN  IF NoneReady /\ "first" \in here       THEN Raise({"first"})  /\ Go(r, "run")
         ELSE IF NoneReady /\ "inter" \in here  THEN Raise({})         /\ Go(r, "inter")
         ELSE IF FirstReady /\ "inter" \in here THEN Raise({"inter"})  /\ Go(r, "run")
         ELSE IF FirstReady /\ "second" \in here THEN Raise({})        /\ Go(r, "second")
         ELSE IF InterReady /\ "second" \in here THEN Raise({"second"}) /\ Go(r, "run")
         ELSE Raise({}) /\ Go(r, "run")
  /\ UNCHANGED <<replay, pin_lock, ran>>

\* For a pattern of the locked type, a section is known by the call site of
\* its lock when it is entered, and by that of its unlock when it is left.
LockOf(r, p)   == Locked /\ pattern[p].tid = tid[r] /\ pattern[p].a = Command(r)[2]
UnlockOf(r, p) == Locked /\ pattern[p].tid = tid[r] /\ pattern[p].b = Command(r)[2]

\* Mutants: the flag of first goes up when its section is entered; second is
\* not delayed.
LockRaisesFirst(r) ==
  /\ Calls(r, "lock")
  /\ Raise(IF NoneReady /\ LockOf(r, "first") THEN {"first"} ELSE {})
  /\ IF NoneReady /\ LockOf(r, "inter")        THEN Go(r, "inter")
     ELSE IF FirstReady /\ LockOf(r, "second") THEN Go(r, "second")
     ELSE Go(r, "run")
  /\ UNCHANGED <<replay, pin_lock, ran>>
LockNoSecond(r) ==
  /\ Calls(r, "lock")
  /\ IF NoneReady /\ LockOf(r, "inter") THEN Go(r, "inter") ELSE Go(r, "run")
  /\ UNCHANGED <<replay, flags, pin_lock, ran>>

beforeThreadLock_replay(r) ==
  /\ Calls(r, "lock")
  /\ IF NoneReady /\ LockOf(r, "inter")        THEN Go(r, "inter")
     ELSE IF FirstReady /\ LockOf(r, "second") THEN Go(r, "second")
     ELSE Go(r, "run")
  /\ UNCHANGED <<replay, flags, pin_lock, ran>>

\* The PIN lock is taken when the replay is complete, and never released.
beforeThreadUnLock_replay(r) ==
  /\ Calls(r, "unlock")
  /\ \/ /\ NoneReady /\ UnlockOf(r, "first")
        /\ Raise({"first"}) /\ UNCHANGED pin_lock
     \/ /\ FirstReady /\ UnlockOf(r, "inter")
        /\ Raise({"inter"}) /\ UNCHANGED pin_lock
     \/ /\ InterReady /\ UnlockOf(r, "second")
        /\ Raise({"second"})
        /\ pin_lock = 0 /\ pin_lock' = tid[r] + 1
     \/ /\ ~(NoneReady /\ UnlockOf(r, "first"))
        /\ ~(FirstReady /\ UnlockOf(r, "inter"))
        /\ ~(InterReady /\ UnlockOf(r, "second"))
        /\ UNCHANGED <<flags, pin_lock>>
  /\ Go(r, "run")
  /\ UNCHANGED <<replay, ran>>

\* Mutant: inter polls its own flag.
EndDelayOwnFlag(r) ==
  /\ Alive(r)
  /\ at[r] \in {"inter", "second"} /\ inter_ready
  /\ Raise(IF Locked THEN {} ELSE {at[r]})
  /\ Go(r, "run")
  /\ UNCHANGED <<replay, pin_lock, ran>>

\* One round of a delay loop: sleep and poll the flag again.
Delay(r) ==
  /\ Alive(r)
  /\ at[r] \in {"inter", "second"}
  /\ UNCHANGED vars

\* A delay loop ends when the flag it polls is up.  There is no time limit.
EndDelay(r) ==
  /\ Alive(r)
  /\ \/ at[r] = "inter" /\ first_ready
     \/ at[r] = "second" /\ inter_ready
  /\ Raise(IF Locked THEN {} ELSE {at[r]})
  /\ Go(r, "run")
  /\ UNCHANGED <<replay, pin_lock, ran>>

\* Routine holds the PIN lock while it instruments.
Routine(r) ==
  /\ Calls(r, "routine")
  /\ pin_lock = 0
  /\ Advance(r)
  /\ UNCHANGED <<replay, flags, pin_lock, tid, sections, ran>>

-----------------------------------------------------------------------------
Init ==
  /\ first_ready = FALSE /\ inter_ready = FALSE /\ second_ready = FALSE
  /\ pin_lock = 0
  /\ tid = [r \in Role |-> IF r = 0 THEN 0 ELSE None]
  /\ pc = [r \in Role |-> 1]
  /\ at = [r \in Role |-> "next"]
  /\ sections = [r \in Role |-> <<>>]
  /\ ran = {}

Step(r) ==
  \/ ThreadStart(r) \/ Create(r) \/ Join(r) \/ Unseen(r)
  \/ NextCallback(r) \/ ExecMemAccess(r) \/ AcquireMutex(r) \/ ReleaseMutex(r)
  \/ BeforeMemAccess(r) \/ EndDelay(r) \/ Routine(r)
  \/ beforeThreadLock_replay(r) \/ beforeThreadUnLock_replay(r)

Terminated == Exited /\ UNCHANGED vars

Next == Terminated \/ \E r \in Role : Step(r) \/ Delay(r)

-----------------------------------------------------------------------------
(* Properties. *)

TypeOK ==
  /\ flags \in BOOLEAN \X BOOLEAN \X BOOLEAN
  /\ pin_lock \in 0 .. Cardinality(Role)
  /\ tid \in [Role -> 0 .. Cardinality(Role) - 1 \cup {None}]
  /\ pc \in [Role -> Nat \ {0}]
  /\ at \in [Role -> {"next", "inter", "second", "run"}]
  /\ ran \subseteq Part

AtUnlockOf(r, p) == Alive(r) /\ Command(r)[1] = "unlock" /\ UnlockOf(r, p)

Innermost(r) == sections[r][Len(sections[r])]

\* What comparing call sites takes for granted: inter is of another thread than
\* first and second, and whoever comes to the unlock of a part of the pattern
\* leaves a section of that part, under the one mutex of the pattern.
SitesNameParts ==
  /\ pattern["first"].tid = pattern["second"].tid
  /\ pattern["first"].tid # pattern["inter"].tid
  /\ \A r \in Role, p \in Part : AtUnlockOf(r, p) =>
       /\ sections[r] # <<>>
       /\ Innermost(r)[1] = pattern[p].a
       /\ \A u \in Role, q \in Part :
            AtUnlockOf(u, q) => Innermost(u)[2] = Innermost(r)[2]

\* The parts of the pattern take place in its order.
\* For the unlocked type this is what replay.cpp:38 and 41 say, "delay Inter
\* to after First" and "delay Second to after Inter".
ReplaysInOrder ==
  /\ "inter"  \in ran => "first" \in ran
  /\ "second" \in ran => "inter" \in ran

\* Pin numbers the threads as in the traced run.
NumberedAsTraced == \A r \in Started : tid[r] = replay.numbers[r]

\* No thread can ever move again and the target has not exited.
Hung == ~Exited /\ \A r \in Role : ~ENABLED Step(r)
=============================================================================
