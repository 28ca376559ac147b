------------------------------ MODULE Analysis ------------------------------
(***************************************************************************)
(* The analysis of the trace tables (callbacks.h, start_anlysis down to    *)
(* record_pattern): it looks for a local pair (first, second), two         *)
(* accesses of one thread to one address, and a remote access (inter) that *)
(* would make the pair non-atomic if it fell between the two.  It only     *)
(* reads the tables, so every function of the code is an operator here.    *)
(***************************************************************************)
EXTENDS LockAnnotation

\* Mutant: the remote access must be a write whatever the local pair is.
AlwaysWrite(first, second) == "W"

\* start_anlysis calls find_interleave_read for a pair of writes only.
InterleaveOp(first, second) ==
  IF first.op = "W" /\ second.op = "W" THEN "R" ELSE "W"

\* Mutant: the remote lock is not compared.
SameSectionOnly(first, second, inter) ==
  /\ first.lock_cv = second.lock_cv /\ first.unlock_cv = second.unlock_cv
  /\ first.lock_cv # None
  /\ inter.lock_ev # None

\* When a candidate is skipped: "first and second are protected by the same
\* critical section, and the remote access also by a same lock".  A critical
\* section is identified by the call sites of its lock and unlock calls.
ProtectedBySameLock(first, second, inter) ==
  /\ first.lock_cv = second.lock_cv /\ first.unlock_cv = second.unlock_cv
  /\ first.lock_cv # None
  /\ inter.lock_ev = first.lock_ev
  /\ inter.lock_ev # None

\* find_interleave_write and find_interleave_read are the same loop.
find_interleave(op, first, second, inter) ==
  /\ inter.op = op
  /\ inter.addr = first.addr
  /\ inter.tid # first.tid
  /\ ~ProtectedBySameLock(first, second, inter)

\* Mutant: a synchronization of any thread counts.
SynchBetweenOfAny(t, lo, hi, sy) ==
  \E k \in DOMAIN sy : lo < sy[k].time /\ sy[k].time < hi

SynchBetween(t, lo, hi, sy) ==
  \E k \in DOMAIN sy : sy[k].tid = t /\ lo < sy[k].time /\ sy[k].time < hi

\* Mutant: remote accesses after the pair are forgotten.
examine_but_after(first, second, inter, sy) ==
  \/ first.time < inter.time /\ inter.time < second.time
  \/ /\ inter.time < first.time
     /\ ~SynchBetween(inter.tid, inter.time, first.time, sy)

\* TRUE when the candidate goes on to record_pattern.  A remote access that
\* came before or after the pair counts only if its own thread recorded no
\* synchronization in between.  Equal stamps fall through all three tests.
examine_interleaving(first, second, inter, sy) ==
  \/ first.time < inter.time /\ inter.time < second.time
  \/ /\ inter.time < first.time
     /\ ~SynchBetween(inter.tid, inter.time, first.time, sy)
  \/ /\ inter.time > second.time
     /\ ~SynchBetween(inter.tid, second.time, inter.time, sy)

Point(tid, a, b) == [tid |-> tid, a |-> a, b |-> b]
Locks(a)  == Point(a.tid, a.lock_cv, a.unlock_cv)
Access(a) == Point(a.tid, a.inst, a.addr)

Pattern(locked, first, second, inter) ==
  [locked |-> locked, first |-> first, second |-> second, inter |-> inter]

\* Mutant: the second access is not compared with the remote one.
record_first_only(first, second, inter) ==
  IF inter.lock_ev # None /\ first.lock_ev = inter.lock_ev
    THEN Pattern(1, Locks(first), Locks(second), Locks(inter))
    ELSE Pattern(0, Access(first), Access(second), Access(inter))

\* One line of the replay log.
record_pattern(first, second, inter) ==
  IF /\ inter.lock_ev # None
     /\ first.lock_ev = inter.lock_ev /\ second.lock_ev = inter.lock_ev
    THEN Pattern(1, Locks(first), Locks(second), Locks(inter))
    ELSE Pattern(0, Access(first), Access(second), Access(inter))

-----------------------------------------------------------------------------
\* The local pairs of row i.
Pairs(ma, i) ==
  {p \in (DOMAIN ma[i]) \X (DOMAIN ma[i]) :
     p[1] < p[2] /\ ma[i][p[1]].addr = ma[i][p[2]].addr}

\* The test a remote access has to pass for the pair (first, second).
Interleaves(first, second, inter, sy) ==
  /\ find_interleave(InterleaveOp(first, second), first, second, inter)
  /\ examine_interleaving(first, second, inter, sy)

\* The triples that are recorded, as <<i, j, k, r, q>>: first is entry j of
\* row i of maTable, second entry k of row i, inter entry q of row r.
Recorded(ma, existed, sy) ==
  UNION {
    UNION {
      {<<i, p[1], p[2], r, q>> : q \in
         {q \in DOMAIN ma[r] :
            Interleaves(ma[i][p[1]], ma[i][p[2]], ma[r][q], sy)}} :
      p \in Pairs(ma, i)} :
    i, r \in 0 .. existed - 1}

\* The loops are nested in the order i, j, k, r, q.
LoopOrder(c, d) ==
  \E n \in 1 .. 5 : c[n] < d[n] /\ \A m \in 1 .. n - 1 : c[m] = d[m]

\* The n-th member of T that the loops reach.
Nth(T, n) == CHOOSE c \in T : Cardinality({d \in T : LoopOrder(d, c)}) = n - 1

\* What start_anlysis appends to the replay log.
start_anlysis(ma, existed, sy) ==
  LET T == Recorded(ma, existed, sy)
  IN  [n \in 1 .. Cardinality(T) |->
         LET c == Nth(T, n)
         IN  record_pattern(ma[c[1]][c[2]], ma[c[1]][c[3]], ma[c[4]][c[5]])]
=============================================================================
