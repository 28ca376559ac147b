------------------------------ MODULE Structs -------------------------------
(***************************************************************************)
(* The records of the three trace tables (mypintool/structs.h), and the    *)
(* two relations every later phase asks of them: is a critical section     *)
(* still open, and does it enclose a memory access.                        *)
(*                                                                         *)
(* None stands for the 0 that the code stores in an address-valued field   *)
(* not known yet.  Time stamps are numbers and keep their 0.  The routine  *)
(* name of a memory access is only ever printed and is left out.           *)
(***************************************************************************)
EXTENDS Naturals, Sequences

CONSTANT None

\* A memory access as RecordMemRead / RecordMemWrite create it: the lock
\* fields are 0 until Fini fills them in.
MemAccess(op, inst, addr, tid, time) ==
  [op |-> op, inst |-> inst, addr |-> addr, tid |-> tid, time |-> time,
   lock_ev |-> None, lock_cv |-> None, unlock_cv |-> None]

\* A critical section as beforeThreadLock creates it, "0 by default when a
\* critical section is not finished".
CriticalSection(tid, callsite, mutex, st) ==
  [tid |-> tid, lock_callsite_v |-> callsite, unlock_callsite_v |-> None,
   lock_entry_v |-> mutex, unlock_entry_v |-> None, st |-> st, ft |-> 0]

Synch(type, tid, time) == [type |-> type, tid |-> tid, time |-> time]

\* The test of beforeThreadUnLock: an unfinished section of thread t.
IsOpen(cs, t) ==
  /\ cs.tid = t
  /\ cs.unlock_callsite_v = None
  /\ cs.ft = 0

\* The test of is_cs_empty and of Fini.  An open section (ft = 0) encloses
\* nothing.
Encloses(cs, ma) == cs.st < ma.time /\ ma.time < cs.ft
=============================================================================
