---------------------------- MODULE SectionStack ----------------------------
(***************************************************************************)
(* What the tracing tool promises about critical sections: "critical       *)
(* sections can be embedded, should be processed like a stack".  Every     *)
(* thread has a stack of the sections it is in; to lock is to push, to     *)
(* unlock is to pop, whatever the other threads do in between.  A stack is *)
(* a set here, its top is the section begun last.                          *)
(***************************************************************************)
EXTENDS Naturals

VARIABLES
  open,       \* the sections their threads are in
  closed,     \* the sections that have been left
  unlocking,  \* the threads that are in an unlock
  ended       \* the tables are final

vars == <<open, closed, unlocking, ended>>

Innermost(s) == \A r \in open : r.tid = s.tid => r.st <= s.st

\* Nothing recorded so far is as late as time.
Later(time) == \A r \in open \cup closed : r.st < time /\ r.ft < time

Init == open = {} /\ closed = {} /\ unlocking = {} /\ ended = FALSE

Enter ==
  /\ \E s \in open' :
       /\ s.ft = 0 /\ Later(s.st)
       /\ open' = open \cup {s}
  /\ UNCHANGED <<closed, unlocking, ended>>

\* The section that t leaves is the innermost one t is in.
Leave(t) ==
  /\ t \notin unlocking /\ unlocking' = unlocking \cup {t}
  /\ \E s \in open, f \in closed' :
       /\ s.tid = t /\ Innermost(s)
       /\ f.tid = t /\ f.st = s.st /\ Later(f.ft)
       /\ f.lock_entry_v = s.lock_entry_v
       /\ f.lock_callsite_v = s.lock_callsite_v
       /\ open' = open \ {s}
       /\ closed' = closed \cup {f}
  /\ UNCHANGED ended

\* The one section of a table may be missed.
Miss(t) ==
  /\ t \notin unlocking /\ unlocking' = unlocking \cup {t}
  /\ \E s \in open \cup closed : open \cup closed = {s}
  /\ UNCHANGED <<open, closed, ended>>

Unlocked(t) ==
  /\ t \in unlocking /\ unlocking' = unlocking \ {t}
  /\ UNCHANGED <<open, closed, ended>>

\* A section that was never left is dropped, and so may others be.
End ==
  /\ ~ended /\ ended' = TRUE
  /\ open' = {} /\ closed' \subseteq closed
  /\ UNCHANGED unlocking

Next ==
  \/ Enter
  \/ \E t \in unlocking \cup unlocking' : Leave(t) \/ Miss(t) \/ Unlocked(t)
  \/ End

Spec == Init /\ [][Next]_vars
=============================================================================
