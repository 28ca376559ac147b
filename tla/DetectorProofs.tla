--------------------------- MODULE DetectorProofs ---------------------------
(***************************************************************************)
(* The analysis, which compares access kinds and time stamps only, finds   *)
(* exactly the unserializable interleavings: for every target, the triples *)
(* it records are the conceivable violations that neither a lock nor a     *)
(* synchronization lets it drop.  What it drops because of a lock, and     *)
(* what it records as a pattern of locks, is then justified by what        *)
(* SectionProofs says of the annotation.                                   *)
(***************************************************************************)
EXTENDS Detector, SectionProofs

-----------------------------------------------------------------------------
(* InterleaveOp against the reference.                                     *)

\* The first two operations may change places when both are reads.
LEMMA ReadsCommute ==
  ASSUME NEW f, NEW i, NEW s, f.op = "R", i.op = "R"
  PROVE  Outcome(f, i, s) = Outcome(i, f, s)
BY DEF Outcome, After, Saw

\* The last two operations may change places when both are reads.
LEMMA LastReadsCommute ==
  ASSUME NEW f, NEW i, NEW s, s.op = "R", i.op = "R"
  PROVE  Outcome(f, i, s) = Outcome(f, s, i)
BY DEF Outcome, After, Saw

\* start_anlysis looks for the one kind of remote access that makes the pair
\* unserializable, whatever the kinds of the pair.
LEMMA InterleaveExact ==
  ASSUME NEW first, NEW second, NEW inter,
         first.op \in {"R", "W"}, second.op \in {"R", "W"}, inter.op \in {"R", "W"}
  PROVE  Unserializable(first, inter, second)
           <=> inter.op = InterleaveOp(first, second)
<1> DEFINE f == Oper("first", first.op)
           s == Oper("second", second.op)
           i == Oper("inter", inter.op)
<1>1. /\ f.op = first.op /\ s.op = second.op /\ i.op = inter.op
      /\ f.name = "first" /\ s.name = "second" /\ i.name = "inter"
  BY DEF Oper
<1>2. Unserializable(first, inter, second)
        <=> Outcome(f, i, s) # Outcome(i, f, s) /\ Outcome(f, i, s) # Outcome(f, s, i)
  BY DEF Unserializable
<1> HIDE DEF f, s, i
<1>3. CASE inter.op = "R" /\ first.op = "R"
  BY <1>1, <1>2, <1>3, ReadsCommute DEF InterleaveOp
<1>4. CASE inter.op = "R" /\ second.op = "R"
  BY <1>1, <1>2, <1>4, LastReadsCommute DEF InterleaveOp
<1>5. CASE inter.op = "R" /\ first.op = "W" /\ second.op = "W"
  <2>1. <<"inter", "first">> \in Outcome(f, i, s).saw
    BY <1>1, <1>5 DEF Outcome, After, Saw
  <2>2. <<"inter", "first">> \notin Outcome(i, f, s).saw
    BY <1>1, <1>5 DEF Outcome, After, Saw
  <2>3. <<"inter", "first">> \notin Outcome(f, s, i).saw
    BY <1>1, <1>5 DEF Outcome, After, Saw
  <2> QED BY <1>2, <1>5, <2>1, <2>2, <2>3 DEF InterleaveOp
<1>6. CASE inter.op = "W" /\ first.op = "W" /\ second.op = "W"
  <2>1. Outcome(f, i, s) = Outcome(i, f, s)
    BY <1>1, <1>6 DEF Outcome, After, Saw
  <2> QED BY <1>2, <1>6, <2>1 DEF InterleaveOp
<1>7. CASE inter.op = "W" /\ first.op = "R"
  <2>1. <<"first", "old">> \in Outcome(f, i, s).saw
    BY <1>1, <1>7 DEF Outcome, After, Saw
  <2>2. <<"first", "old">> \notin Outcome(i, f, s).saw
    BY <1>1, <1>7 DEF Outcome, After, Saw
  <2>3. CASE second.op = "R"
    <3>1. <<"second", "inter">> \in Outcome(f, i, s).saw
      BY <1>1, <1>7, <2>3 DEF Outcome, After, Saw
    <3>2. <<"second", "inter">> \notin Outcome(f, s, i).saw
      BY <1>1, <1>7, <2>3 DEF Outcome, After, Saw
    <3> QED BY <1>2, <1>7, <2>1, <2>2, <2>3, <3>1, <3>2 DEF InterleaveOp
  <2>4. CASE second.op = "W"
    <3>1. Outcome(f, i, s).final = "second" /\ Outcome(f, s, i).final = "inter"
      BY <1>1, <1>7, <2>4 DEF Outcome, After, Saw
    <3> QED BY <1>2, <1>7, <2>1, <2>2, <2>4, <3>1 DEF InterleaveOp
  <2> QED BY <2>3, <2>4
<1>8. CASE inter.op = "W" /\ first.op = "W" /\ second.op = "R"
  <2>1. <<"second", "inter">> \in Outcome(f, i, s).saw
    BY <1>1, <1>8 DEF Outcome, After, Saw
  <2>2. <<"second", "inter">> \notin Outcome(i, f, s).saw
    BY <1>1, <1>8 DEF Outcome, After, Saw
  <2>3. <<"second", "inter">> \notin Outcome(f, s, i).saw
    BY <1>1, <1>8 DEF Outcome, After, Saw
  <2> QED BY <1>2, <1>8, <2>1, <2>2, <2>3 DEF InterleaveOp
<1> QED BY <1>3, <1>4, <1>5, <1>6, <1>7, <1>8

-----------------------------------------------------------------------------
(* What the loops of start_anlysis reach.                                  *)

\* The nested loops reach every triple of indices once its tests are passed.
LEMMA RecordedMember ==
  ASSUME NEW ma, NEW existed, NEW sy, NEW i, NEW j, NEW k, NEW r, NEW q
  PROVE  <<i, j, k, r, q>> \in Recorded(ma, existed, sy) <=>
           /\ i \in 0 .. existed - 1 /\ r \in 0 .. existed - 1
           /\ j \in DOMAIN ma[i] /\ k \in DOMAIN ma[i] /\ q \in DOMAIN ma[r]
           /\ j < k /\ ma[i][j].addr = ma[i][k].addr
           /\ Interleaves(ma[i][j], ma[i][k], ma[r][q], sy)
<1> DEFINE c == <<i, j, k, r, q>>
<1>1. ASSUME c \in Recorded(ma, existed, sy)
      PROVE  \E i1, r1 \in 0 .. existed - 1 : \E p \in Pairs(ma, i1) :
               \E q1 \in DOMAIN ma[r1] :
                 /\ c = <<i1, p[1], p[2], r1, q1>>
                 /\ Interleaves(ma[i1][p[1]], ma[i1][p[2]], ma[r1][q1], sy)
  BY <1>1 DEF Recorded
<1>2. ASSUME NEW i1 \in 0 .. existed - 1, NEW r1 \in 0 .. existed - 1,
             NEW p \in Pairs(ma, i1), NEW q1 \in DOMAIN ma[r1],
             Interleaves(ma[i1][p[1]], ma[i1][p[2]], ma[r1][q1], sy)
      PROVE  <<i1, p[1], p[2], r1, q1>> \in Recorded(ma, existed, sy)
  <2> DEFINE passing(i2, r2, p2) ==
               {<<i2, p2[1], p2[2], r2, q2>> : q2 \in
                  {q2 \in DOMAIN ma[r2] :
                     Interleaves(ma[i2][p2[1]], ma[i2][p2[2]], ma[r2][q2], sy)}}
             rows(i2, r2) == UNION {passing(i2, r2, p2) : p2 \in Pairs(ma, i2)}
  <2>1. <<i1, p[1], p[2], r1, q1>> \in passing(i1, r1, p)
    BY <1>2
  <2>2. Recorded(ma, existed, sy) = UNION {rows(i2, r2) : i2, r2 \in 0 .. existed - 1}
    BY DEF Recorded
  <2> HIDE DEF passing
  <2>3. <<i1, p[1], p[2], r1, q1>> \in rows(i1, r1)
    BY <2>1
  <2> HIDE DEF rows
  <2> QED BY <2>2, <2>3
<1>3. ASSUME c \in Recorded(ma, existed, sy)
      PROVE  /\ i \in 0 .. existed - 1 /\ r \in 0 .. existed - 1
             /\ j \in DOMAIN ma[i] /\ k \in DOMAIN ma[i] /\ q \in DOMAIN ma[r]
             /\ j < k /\ ma[i][j].addr = ma[i][k].addr
             /\ Interleaves(ma[i][j], ma[i][k], ma[r][q], sy)
  <2>1. PICK i1 \in 0 .. existed - 1, r1 \in 0 .. existed - 1 :
          \E p \in Pairs(ma, i1) : \E q1 \in DOMAIN ma[r1] :
            /\ c = <<i1, p[1], p[2], r1, q1>>
            /\ Interleaves(ma[i1][p[1]], ma[i1][p[2]], ma[r1][q1], sy)
    BY <1>1, <1>3
  <2>2. PICK p \in Pairs(ma, i1), q1 \in DOMAIN ma[r1] :
            /\ c = <<i1, p[1], p[2], r1, q1>>
            /\ Interleaves(ma[i1][p[1]], ma[i1][p[2]], ma[r1][q1], sy)
    BY <2>1
  <2>3. i = i1 /\ j = p[1] /\ k = p[2] /\ r = r1 /\ q = q1
    BY <2>2
  <2> QED BY <2>2, <2>3 DEF Pairs
<1>4. ASSUME i \in 0 .. existed - 1, r \in 0 .. existed - 1,
             j \in DOMAIN ma[i], k \in DOMAIN ma[i], q \in DOMAIN ma[r],
             j < k, ma[i][j].addr = ma[i][k].addr,
             Interleaves(ma[i][j], ma[i][k], ma[r][q], sy)
      PROVE  c \in Recorded(ma, existed, sy)
  <2>1. <<j, k>> \in Pairs(ma, i)
    BY <1>4 DEF Pairs
  <2> QED BY <1>2, <1>4, <2>1
<1> QED BY <1>3, <1>4

\* Whatever is recorded is such a tuple.
LEMMA RecordedShape ==
  ASSUME NEW ma, NEW existed, NEW sy, NEW c \in Recorded(ma, existed, sy)
  PROVE  c = <<c[1], c[2], c[3], c[4], c[5]>>
<1>1. \E i, r \in 0 .. existed - 1 : \E p \in Pairs(ma, i) : \E q \in DOMAIN ma[r] :
        c = <<i, p[1], p[2], r, q>>
  BY DEF Recorded
<1> QED BY <1>1

-----------------------------------------------------------------------------
(* The theorem.                                                            *)

DetectorInv == TypeOK /\ StampsOrderEvents /\ RowsAreScanned /\ RowsInv

\* For a local pair and a remote access in two rows of the tables, the tests
\* of the analysis are the reference and the two reasons to skip.
LEMMA TestsExact ==
  ASSUME DetectorInv,
         NEW e \in Entries, NEW f \in Entries, NEW g \in Entries,
         e[1] = f[1], e[1] # g[1], Ma(e).time < Ma(f).time,
         Ma(e).addr = Ma(f).addr
  PROVE  Interleaves(Ma(e), Ma(f), Ma(g), synchTable) <=>
           /\ Unserializable(Ma(e), Ma(g), Ma(f)) /\ Ma(e).addr = Ma(g).addr
           /\ ~SkippedByLock(<<e, f, g>>) /\ ~SkippedBySynch(<<e, f, g>>)
<1>1. /\ e[1] \in Tid /\ e[2] \in DOMAIN maTable[e[1]]
      /\ f[1] \in Tid /\ f[2] \in DOMAIN maTable[f[1]]
      /\ g[1] \in Tid /\ g[2] \in DOMAIN maTable[g[1]]
  BY DEF Entries
<1>2. Ma(e) \in MemRow /\ Ma(f) \in MemRow /\ Ma(g) \in MemRow
  <2>1. maTable \in [Tid -> Seq(MemRow)]
    BY DEF DetectorInv, TypeOK
  <2> QED BY <1>1, <2>1, ElementOfSeq DEF Ma
<1>3. Ma(e).tid = e[1] /\ Ma(g).tid = g[1]
  BY <1>1 DEF DetectorInv, RowsInv, Ma
<1>4. Ma(g).time # Ma(e).time /\ Ma(g).time # Ma(f).time
  BY <1>1 DEF DetectorInv, StampsOrderEvents, Ma
<1>5. Unserializable(Ma(e), Ma(g), Ma(f)) <=> Ma(g).op = InterleaveOp(Ma(e), Ma(f))
  BY <1>2, InterleaveExact DEF MemRow
<1>6. /\ Ma(e).time \in Nat /\ Ma(f).time \in Nat /\ Ma(g).time \in Nat
      /\ \A k \in DOMAIN synchTable : synchTable[k].time \in Nat
  <2>1. synchTable \in Seq(SynchRow)
    BY DEF DetectorInv, TypeOK
  <2>2. \A k \in DOMAIN synchTable : synchTable[k] \in SynchRow
    BY <2>1, ElementOfSeq
  <2>3. \A k \in DOMAIN synchTable : synchTable[k].time \in Nat
    BY <2>2 DEF SynchRow
  <2> QED BY <1>2, <2>3 DEF MemRow
<1>7. examine_interleaving(Ma(e), Ma(f), Ma(g), synchTable)
        <=> ~SkippedBySynch(<<e, f, g>>)
  <2>1. SkippedBySynch(<<e, f, g>>) <=>
          \/ SynchBetween(g[1], Ma(g).time, Ma(e).time, synchTable)
          \/ SynchBetween(g[1], Ma(f).time, Ma(g).time, synchTable)
    BY DEF SkippedBySynch, SynchBetween
  <2>2. CASE Ma(g).time < Ma(e).time
    <3>1. ~SynchBetween(g[1], Ma(f).time, Ma(g).time, synchTable)
      BY <1>6, <2>2 DEF SynchBetween
    <3>2. ~(Ma(e).time < Ma(g).time) /\ ~(Ma(g).time > Ma(f).time)
      BY <1>6, <2>2
    <3> QED BY <1>3, <2>1, <2>2, <3>1, <3>2 DEF examine_interleaving
  <2>3. CASE Ma(g).time > Ma(f).time
    <3>1. ~SynchBetween(g[1], Ma(g).time, Ma(e).time, synchTable)
      BY <1>6, <2>3 DEF SynchBetween
    <3>2. ~(Ma(g).time < Ma(e).time) /\ ~(Ma(g).time < Ma(f).time)
      BY <1>6, <2>3
    <3> QED BY <1>3, <2>1, <2>3, <3>1, <3>2 DEF examine_interleaving
  <2>4. CASE Ma(e).time < Ma(g).time /\ Ma(g).time < Ma(f).time
    <3>1. /\ ~SynchBetween(g[1], Ma(g).time, Ma(e).time, synchTable)
          /\ ~SynchBetween(g[1], Ma(f).time, Ma(g).time, synchTable)
      BY <1>6, <2>4 DEF SynchBetween
    <3> QED BY <2>1, <2>4, <3>1 DEF examine_interleaving
  <2> QED BY <1>4, <1>6, <2>2, <2>3, <2>4
<1> QED
  BY <1>3, <1>5, <1>7 DEF Interleaves, find_interleave, SkippedByLock

\* In one row, table order is time order.
LEMMA RowOrder ==
  ASSUME DetectorInv, NEW t \in Tid, NEW j \in DOMAIN maTable[t],
         NEW k \in DOMAIN maTable[t]
  PROVE  j < k <=> maTable[t][j].time < maTable[t][k].time
<1>1. maTable[t] \in Seq(MemRow)
  BY DEF DetectorInv, TypeOK
<1>2. j \in Nat /\ k \in Nat
  BY <1>1, LenProperties
<1>3. maTable[t][j].time \in Nat /\ maTable[t][k].time \in Nat
  <2>1. maTable[t][j] \in MemRow /\ maTable[t][k] \in MemRow
    BY <1>1, ElementOfSeq
  <2> QED BY <2>1 DEF MemRow
<1>4. j < k => maTable[t][j].time < maTable[t][k].time
  BY DEF DetectorInv, StampsOrderEvents
<1>5. k < j => maTable[t][k].time < maTable[t][j].time
  BY DEF DetectorInv, StampsOrderEvents
<1> QED BY <1>2, <1>3, <1>4, <1>5

\* How a triple of table entries becomes a member of Violations.
LEMMA ViolationTuple ==
  ASSUME NEW e \in Entries, NEW f \in Entries, NEW g \in Entries,
         e[1] = f[1], e[1] # g[1], Ma(e).time < Ma(f).time,
         Ma(e).addr = Ma(f).addr, Ma(e).addr = Ma(g).addr,
         Unserializable(Ma(e), Ma(g), Ma(f))
  PROVE  <<e, f, g>> \in Violations
<1> DEFINE v == <<e, f, g>>
<1>1. v \in Entries \X Entries \X Entries
  OBVIOUS
<1>2. v[1] = e /\ v[2] = f /\ v[3] = g
  OBVIOUS
<1> HIDE DEF v
<1> QED BY <1>1, <1>2 DEF Violations

\* The two halves of ReportsExactly, in every state of a run.
LEMMA ReportsExactlyInv == DetectorInv => ReportsExactly
<1> SUFFICES ASSUME DetectorInv
             PROVE  /\ \A c \in Recorded(maTable, threadExisted, synchTable) :
                         Triple(c) \in Violations
                    /\ \A v \in Violations :
                         Reported(v) <=> ~SkippedByLock(v) /\ ~SkippedBySynch(v)
  BY DEF ReportsExactly
<1>1. threadExisted \in 0 .. NumThreads /\ NumThreads \in Nat
  BY TracerAssumption DEF DetectorInv, TypeOK
<1>2. \A t \in 0 .. threadExisted - 1 : t \in Tid
  BY <1>1 DEF Tid
<1>3. ASSUME NEW c \in Recorded(maTable, threadExisted, synchTable)
      PROVE  Triple(c) \in Violations
  <2> DEFINE e == <<c[1], c[2]>>
             f == <<c[1], c[3]>>
             g == <<c[4], c[5]>>
  <2>1. c = <<c[1], c[2], c[3], c[4], c[5]>>
    BY RecordedShape
  <2>2. /\ c[1] \in 0 .. threadExisted - 1 /\ c[4] \in 0 .. threadExisted - 1
        /\ c[2] \in DOMAIN maTable[c[1]] /\ c[3] \in DOMAIN maTable[c[1]]
        /\ c[5] \in DOMAIN maTable[c[4]]
        /\ c[2] < c[3] /\ maTable[c[1]][c[2]].addr = maTable[c[1]][c[3]].addr
        /\ Interleaves(maTable[c[1]][c[2]], maTable[c[1]][c[3]],
                       maTable[c[4]][c[5]], synchTable)
    BY <2>1, RecordedMember
  <2>3. e \in Entries /\ f \in Entries /\ g \in Entries
    BY <1>2, <2>2 DEF Entries
  <2>4. Ma(e).time < Ma(f).time
    BY <1>2, <2>2, RowOrder DEF Ma
  <2>5. Ma(e).tid = c[1] /\ Ma(g).tid = c[4]
    BY <1>2, <2>2 DEF DetectorInv, RowsInv, Ma
  <2>6. Interleaves(Ma(e), Ma(f), Ma(g), synchTable) /\ Ma(e).addr = Ma(f).addr
    BY <2>2 DEF Ma
  <2>7. e[1] = f[1] /\ e[1] # g[1]
    BY <2>5, <2>6 DEF Interleaves, find_interleave
  <2>8. Triple(c) = <<e, f, g>>
    BY DEF Triple
  <2> HIDE DEF e, f, g
  <2>9. Unserializable(Ma(e), Ma(g), Ma(f)) /\ Ma(e).addr = Ma(g).addr
    BY <2>3, <2>4, <2>6, <2>7, TestsExact
  <2>10. <<e, f, g>> \in Violations
    BY <2>3, <2>4, <2>6, <2>7, <2>9, ViolationTuple
  <2> QED BY <2>8, <2>10
<1>4. ASSUME NEW v \in Violations
      PROVE  Reported(v) <=> ~SkippedByLock(v) /\ ~SkippedBySynch(v)
  <2> DEFINE e == v[1]
             f == v[2]
             g == v[3]
  <2>1. /\ v = <<e, f, g>>
        /\ e \in Entries /\ f \in Entries /\ g \in Entries
        /\ e[1] = f[1] /\ e[1] # g[1]
        /\ Ma(e).time < Ma(f).time
        /\ Ma(e).addr = Ma(f).addr /\ Ma(e).addr = Ma(g).addr
        /\ Unserializable(Ma(e), Ma(g), Ma(f))
    BY DEF Violations
  <2>2. Reported(v) <=>
          <<e[1], e[2], f[2], g[1], g[2]>> \in Recorded(maTable, threadExisted, synchTable)
    BY DEF Reported
  <2> HIDE DEF e, f, g
  <2>3. /\ e[1] \in Tid /\ e[2] \in DOMAIN maTable[e[1]]
        /\ f[2] \in DOMAIN maTable[e[1]]
        /\ g[1] \in Tid /\ g[2] \in DOMAIN maTable[g[1]]
    BY <2>1 DEF Entries
  <2>4. e[1] \in 0 .. threadExisted - 1 /\ g[1] \in 0 .. threadExisted - 1
    <3>1. maTable[e[1]] # <<>> /\ maTable[g[1]] # <<>>
      BY <2>3
    <3> QED BY <1>1, <2>3, <3>1 DEF DetectorInv, RowsAreScanned, Tid
  <2>5. /\ e[2] < f[2]
        /\ maTable[e[1]][e[2]] = Ma(e) /\ maTable[e[1]][f[2]] = Ma(f)
        /\ maTable[g[1]][g[2]] = Ma(g)
    BY <2>1, <2>3, RowOrder DEF Ma
  <2>6. Reported(v) <=> Interleaves(Ma(e), Ma(f), Ma(g), synchTable)
    <3>1. <<e[1], e[2], f[2], g[1], g[2]>> \in Recorded(maTable, threadExisted, synchTable)
            <=> /\ maTable[e[1]][e[2]].addr = maTable[e[1]][f[2]].addr
                /\ Interleaves(maTable[e[1]][e[2]], maTable[e[1]][f[2]],
                               maTable[g[1]][g[2]], synchTable)
      BY <2>3, <2>4, <2>5, RecordedMember
    <3> QED BY <2>1, <2>2, <2>5, <3>1
  <2> QED BY <2>1, <2>6, TestsExact
<1> QED BY <1>3, <1>4

\* At the end of every run of every target, the analysis reports the
\* unserializable triples that no lock and no synchronization makes it skip,
\* and nothing else.
THEOREM ReportsExactlyCorrect == Spec => []ReportsExactly
<1>1. Spec => [](RowsAreScanned /\ RowsInv)
  BY RowsCorrect
<1>2. TypeOK /\ StampsOrderEvents /\ RowsAreScanned /\ RowsInv => ReportsExactly
  BY ReportsExactlyInv DEF DetectorInv
<1> QED BY <1>1, <1>2, TypeCorrect, StampsCorrect, PTL


-----------------------------------------------------------------------------
(* Skipping and replaying by locks.                                        *)

\* The lock fields of an access are those of a section around it.
MarksOfSections ==
  \A t \in Tid : \A j \in DOMAIN maTable[t] :
    maTable[t][j].lock_ev # None \/ maTable[t][j].lock_cv # None =>
    \E k \in DOMAIN csTable :
      /\ csTable[k].tid = t /\ Encloses(csTable[k], maTable[t][j])
      /\ maTable[t][j].lock_ev = csTable[k].lock_entry_v
      /\ maTable[t][j].lock_cv = csTable[k].lock_callsite_v
      /\ maTable[t][j].unlock_cv = csTable[k].unlock_callsite_v

\* Two sections of one thread and one mutex that have been left.
Siblings(c, d) ==
  /\ c # d /\ c.tid = d.tid /\ c.tid \notin jumbled
  /\ c.lock_entry_v = d.lock_entry_v /\ c.ft # 0 /\ d.ft # 0

SectionsApart ==
  \A k, l \in DOMAIN csTable : Siblings(csTable[k], csTable[l]) =>
    csTable[k].ft < csTable[l].st \/ csTable[l].ft < csTable[k].st

MarksInv == PairingInv /\ (status = "finished" => MarksOfSections /\ SectionsApart)

\* In a nest, sections of one thread and one mutex do not overlap.
LEMMA ApartInNest ==
  ASSUME TypeOK, NEW F, NestApart(F)
  PROVE  SectionsApart
<1> SUFFICES ASSUME NEW k \in DOMAIN csTable, NEW l \in DOMAIN csTable,
                    Siblings(csTable[k], csTable[l])
             PROVE  csTable[k].ft < csTable[l].st \/ csTable[l].ft < csTable[k].st
  BY DEF SectionsApart
<1>1. k \in Nat /\ l \in Nat /\ k # l
  BY Tables DEF Siblings
<1>2. CASE k < l
  BY <1>2 DEF NestApart, Siblings
<1>3. CASE l < k
  BY <1>3 DEF NestApart, Siblings
<1> QED BY <1>1, <1>2, <1>3

\* Fini marks an access by a section it keeps, and keeps sections apart.
LEMMA MarksFini ==
  ASSUME PairingInv, Fini
  PROVE  MarksOfSections' /\ SectionsApart'
<1>1. /\ StampsInv /\ RowsInv /\ TypeOK /\ status # "finished" /\ Unannotated
  BY DEF Fini, PairingInv, StampsInv, SectionInv, Recording
<1>2. SectionsApart
  BY <1>1, ApartInNest DEF PairingInv, SectionInv, Nest
<1>3. SectionsApart'
  <2>1. jumbled' = jumbled /\
        \A k \in DOMAIN csTable' : \E l \in DOMAIN csTable : csTable'[k] = csTable[l]
    BY <1>1, FiniTables
  <2>2. \A c, d : Siblings(c, d)' <=> Siblings(c, d)
    BY <2>1 DEF Siblings
  <2> SUFFICES ASSUME NEW k \in DOMAIN csTable', NEW l \in DOMAIN csTable',
                      Siblings(csTable'[k], csTable'[l])
               PROVE  \/ csTable'[k].ft < csTable'[l].st
                      \/ csTable'[l].ft < csTable'[k].st
    BY <2>1 DEF SectionsApart, Siblings
  <2>3. PICK k0 \in DOMAIN csTable : csTable'[k] = csTable[k0]
    BY <2>1
  <2>4. PICK l0 \in DOMAIN csTable : csTable'[l] = csTable[l0]
    BY <2>1
  <2> QED BY <1>2, <2>3, <2>4 DEF SectionsApart
<1>4. MarksOfSections'
  <2> SUFFICES ASSUME NEW t \in Tid, NEW j \in DOMAIN maTable'[t],
                      \/ maTable'[t][j].lock_ev # None
                      \/ maTable'[t][j].lock_cv # None
               PROVE  \E k \in DOMAIN csTable' :
                        /\ csTable'[k].tid = t
                        /\ Encloses(csTable'[k], maTable'[t][j])
                        /\ maTable'[t][j].lock_ev = csTable'[k].lock_entry_v
                        /\ maTable'[t][j].lock_cv = csTable'[k].lock_callsite_v
                        /\ maTable'[t][j].unlock_cv = csTable'[k].unlock_callsite_v
    BY DEF MarksOfSections
  <2>1. j \in DOMAIN maTable[t] /\ maTable'[t][j].time = maTable[t][j].time
    BY <1>1, FiniTables
  <2>2. maTable[t][j].lock_ev = None /\ maTable[t][j].lock_cv = None
    BY <1>1, <2>1 DEF Unannotated
  <2>3. PICK k \in DOMAIN csTable' :
          /\ csTable'[k].tid = t
          /\ Encloses(csTable'[k], maTable[t][j])
          /\ maTable'[t][j].lock_ev = csTable'[k].lock_entry_v
          /\ maTable'[t][j].lock_cv = csTable'[k].lock_callsite_v
          /\ maTable'[t][j].unlock_cv = csTable'[k].unlock_callsite_v
    BY <1>1, <2>1, <2>2, FiniTables
  <2>4. Encloses(csTable'[k], maTable'[t][j])
    BY <2>1, <2>3 DEF Encloses
  <2> QED BY <2>3, <2>4
<1> QED BY <1>3, <1>4

\* Nothing happens after Fini.
LEMMA MarksStep ==
  ASSUME ~UsesTrylock
  PROVE  MarksInv /\ [Next]_vars => MarksInv'
<1> SUFFICES ASSUME MarksInv, [Next]_vars PROVE MarksInv'
  OBVIOUS
<1>1. PairingInv'
  BY PairingStep DEF MarksInv
<1>2. CASE Fini
  BY <1>1, <1>2, MarksFini DEF MarksInv
<1>3. CASE Next /\ ~Fini
  BY <1>1, <1>3, OnlyFiniFinishes DEF MarksInv
<1>4. CASE UNCHANGED vars
  <2>1. UNCHANGED <<maTable, csTable, jumbled, status>>
    BY <1>4 DEF vars, tool, target, history
  <2>2. MarksOfSections' = MarksOfSections
    BY <2>1 DEF MarksOfSections
  <2>3. SectionsApart' = SectionsApart
    BY <2>1 DEF SectionsApart, Siblings
  <2> QED BY <1>1, <2>1, <2>2, <2>3 DEF MarksInv
<1> QED BY <1>2, <1>3, <1>4


\* An access that carries a lock was made under it and lies in a section of it.
LEMMA MarkedAccess ==
  ASSUME MarksInv, status = "finished", NEW e \in Entries, e[1] \notin jumbled,
         Ma(e).lock_ev # None \/ Ma(e).lock_cv # None
  PROVE  /\ Ma(e).lock_ev \in Guards(e)
         /\ \E k \in DOMAIN csTable :
              /\ csTable[k].tid = e[1] /\ Encloses(csTable[k], Ma(e))
              /\ Ma(e).lock_ev = csTable[k].lock_entry_v
              /\ Ma(e).lock_cv = csTable[k].lock_callsite_v
              /\ Ma(e).unlock_cv = csTable[k].unlock_callsite_v
<1>1. e[1] \in Tid /\ e[2] \in DOMAIN maTable[e[1]]
  BY DEF Entries
<1>2. PICK k \in DOMAIN csTable :
        /\ csTable[k].tid = e[1] /\ Encloses(csTable[k], Ma(e))
        /\ Ma(e).lock_ev = csTable[k].lock_entry_v
        /\ Ma(e).lock_cv = csTable[k].lock_callsite_v
        /\ Ma(e).unlock_cv = csTable[k].unlock_callsite_v
  BY <1>1 DEF MarksInv, MarksOfSections, Ma
<1>3. Ma(e).lock_ev # None
  BY <1>2, Tables, TracerAssumption DEF MarksInv, PairingInv, StampsInv
<1>4. Ma(e).lock_ev \in Guards(e)
  BY <1>1, <1>3 DEF MarksInv, PairingInv, Promises, AnnotationSound, Ma, Guards
<1> QED BY <1>2, <1>4

\* Two sections of one thread and one mutex around one access are the same.
LEMMA OneAround ==
  ASSUME MarksInv, status = "finished", NEW e \in Entries, e[1] \notin jumbled,
         NEW k \in DOMAIN csTable, NEW l \in DOMAIN csTable,
         csTable[k].tid = e[1], csTable[l].tid = e[1],
         csTable[k].lock_entry_v = csTable[l].lock_entry_v,
         Encloses(csTable[k], Ma(e)), Encloses(csTable[l], Ma(e))
  PROVE  csTable[k] = csTable[l]
<1>1. /\ csTable[k].st \in Nat /\ csTable[k].ft \in Nat
      /\ csTable[l].st \in Nat /\ csTable[l].ft \in Nat /\ Ma(e).time \in Nat
  BY Tables DEF MarksInv, PairingInv, StampsInv, Entries, Ma
<1>2. csTable[k].ft # 0 /\ csTable[l].ft # 0
  BY <1>1 DEF Encloses
<1>3. ~(csTable[k].ft < csTable[l].st) /\ ~(csTable[l].ft < csTable[k].st)
  BY <1>1 DEF Encloses
<1> QED BY <1>2, <1>3 DEF MarksInv, SectionsApart, Siblings

\* A violation is made of three entries, two of one row.
LEMMA ViolationEntries ==
  ASSUME NEW v \in Violations
  PROVE  /\ v = <<v[1], v[2], v[3]>>
         /\ v[1] \in Entries /\ v[2] \in Entries /\ v[3] \in Entries
         /\ v[1][1] = v[2][1]
         /\ v[1][1] \in Tid /\ v[3][1] \in Tid
BY DEF Violations, Entries

\* Whoever replays a pattern of locks finds two sections to delay between.
LEMMA FeasibleInv ==
  ASSUME MarksInv, DetectorInv, jumbled = {}
  PROVE  LockedPatternsFeasible
<1> SUFFICES ASSUME status = "finished", NEW v \in Violations, Reported(v),
                    Line(v).locked = 1
             PROVE  LET m == Ma(v[3]).lock_ev
                    IN  /\ m \in Guards(v[1]) \cap Guards(v[2]) \cap Guards(v[3])
                        /\ ~InOneSection(v, m)
  BY DEF LockedPatternsFeasible
<1> DEFINE m == Ma(v[3]).lock_ev
<1>1. /\ v[1] \in Entries /\ v[2] \in Entries /\ v[3] \in Entries
      /\ v[1][1] = v[2][1]
  BY ViolationEntries
<1>2. m # None /\ Ma(v[1]).lock_ev = m /\ Ma(v[2]).lock_ev = m
  BY DEF Line, record_pattern, Pattern
<1>3. ~SkippedByLock(v)
  BY ReportsExactlyInv DEF ReportsExactly
<1>4. m \in Guards(v[1]) /\ m \in Guards(v[2]) /\ m \in Guards(v[3])
  BY <1>1, <1>2, MarkedAccess
<1>5. ASSUME InOneSection(v, m) PROVE FALSE
  <2>1. PICK k \in DOMAIN csTable :
          /\ csTable[k].tid = v[1][1] /\ csTable[k].lock_entry_v = m
          /\ Encloses(csTable[k], Ma(v[1])) /\ Encloses(csTable[k], Ma(v[2]))
    BY <1>5 DEF InOneSection
  <2>2. PICK a \in DOMAIN csTable :
          /\ csTable[a].tid = v[1][1] /\ Encloses(csTable[a], Ma(v[1]))
          /\ Ma(v[1]).lock_ev = csTable[a].lock_entry_v
          /\ Ma(v[1]).lock_cv = csTable[a].lock_callsite_v
          /\ Ma(v[1]).unlock_cv = csTable[a].unlock_callsite_v
    BY <1>1, <1>2, MarkedAccess
  <2>3. PICK b \in DOMAIN csTable :
          /\ csTable[b].tid = v[2][1] /\ Encloses(csTable[b], Ma(v[2]))
          /\ Ma(v[2]).lock_ev = csTable[b].lock_entry_v
          /\ Ma(v[2]).lock_cv = csTable[b].lock_callsite_v
          /\ Ma(v[2]).unlock_cv = csTable[b].unlock_callsite_v
    BY <1>1, <1>2, MarkedAccess
  <2>4. csTable[a] = csTable[k]
    BY <1>1, <1>2, <2>1, <2>2, OneAround
  <2>5. csTable[b] = csTable[k]
    BY <1>1, <1>2, <2>1, <2>3, OneAround
  <2>6. Ma(v[1]).lock_cv # None
    BY <2>2, Tables, TracerAssumption DEF MarksInv, PairingInv, StampsInv, SectionRow
  <2> QED
    BY <1>2, <1>3, <2>2, <2>3, <2>4, <2>5, <2>6 DEF SkippedByLock, ProtectedBySameLock
<1> QED BY <1>4, <1>5

\* The two call sites of a section name it among the sections of its thread
\* that have been left: what find_interleave_write takes for granted.
SitesName ==
  \A k, l \in DOMAIN csTable :
    /\ csTable[k].tid = csTable[l].tid /\ csTable[k].ft # 0 /\ csTable[l].ft # 0
    /\ csTable[k].lock_callsite_v = csTable[l].lock_callsite_v
    /\ csTable[k].unlock_callsite_v = csTable[l].unlock_callsite_v
    => k = l

\* A pair with the same call sites then lies in one section.
LEMMA JustifiedInv ==
  ASSUME MarksInv, jumbled = {}, SitesName
  PROVE  SkipJustified
<1> SUFFICES ASSUME status = "finished", NEW v \in Violations, SkippedByLock(v)
             PROVE  \E m \in Guards(v[3]) : InOneSection(v, m)
  BY DEF SkipJustified
<1> DEFINE m == Ma(v[3]).lock_ev
<1>1. /\ v[1] \in Entries /\ v[2] \in Entries /\ v[3] \in Entries
      /\ v[1][1] = v[2][1]
  BY ViolationEntries
<1>2. /\ m # None /\ Ma(v[1]).lock_ev = m /\ Ma(v[1]).lock_cv # None
      /\ Ma(v[1]).lock_cv = Ma(v[2]).lock_cv /\ Ma(v[1]).unlock_cv = Ma(v[2]).unlock_cv
  BY DEF SkippedByLock, ProtectedBySameLock
<1>3. m \in Guards(v[3])
  BY <1>1, <1>2, MarkedAccess
<1>4. PICK a \in DOMAIN csTable :
        /\ csTable[a].tid = v[1][1] /\ Encloses(csTable[a], Ma(v[1]))
        /\ Ma(v[1]).lock_ev = csTable[a].lock_entry_v
        /\ Ma(v[1]).lock_cv = csTable[a].lock_callsite_v
        /\ Ma(v[1]).unlock_cv = csTable[a].unlock_callsite_v
  BY <1>1, <1>2, MarkedAccess
<1>5. PICK b \in DOMAIN csTable :
        /\ csTable[b].tid = v[2][1] /\ Encloses(csTable[b], Ma(v[2]))
        /\ Ma(v[2]).lock_ev = csTable[b].lock_entry_v
        /\ Ma(v[2]).lock_cv = csTable[b].lock_callsite_v
        /\ Ma(v[2]).unlock_cv = csTable[b].unlock_callsite_v
  BY <1>1, <1>2, MarkedAccess
<1>6. csTable[a].ft # 0 /\ csTable[b].ft # 0
  <2>1. /\ csTable[a].st \in Nat /\ csTable[a].ft \in Nat /\ Ma(v[1]).time \in Nat
        /\ csTable[b].st \in Nat /\ csTable[b].ft \in Nat /\ Ma(v[2]).time \in Nat
    <3>1. TypeOK
      BY DEF MarksInv, PairingInv, StampsInv
    <3>2. \A e \in Entries : Ma(e).time \in Nat
      BY <3>1, Tables DEF Entries, Ma
    <3>3. \A k \in DOMAIN csTable : csTable[k].st \in Nat /\ csTable[k].ft \in Nat
      BY <3>1, Tables
    <3> QED BY <1>1, <3>2, <3>3
  <2> QED BY <1>4, <1>5, <2>1 DEF Encloses
<1>7. a = b
  BY <1>1, <1>2, <1>4, <1>5, <1>6 DEF SitesName
<1>8. InOneSection(v, m)
  BY <1>2, <1>4, <1>5, <1>7 DEF InOneSection
<1> QED BY <1>3, <1>8

\* Both invariants hold in every run of a target without trylock.
LEMMA MarksHold == ASSUME ~UsesTrylock PROVE Spec => [](MarksInv /\ DetectorInv)
<1>1. Init => MarksInv
  <2> SUFFICES ASSUME Init PROVE MarksInv
    OBVIOUS
  <2>1. status # "finished"
    BY DEF Init
  <2> QED BY <2>1, PairingInit DEF MarksInv
<1>2. MarksInv => TypeOK /\ StampsOrderEvents /\ RowsInv
  BY DEF MarksInv, PairingInv, StampsInv
<1>3. Spec => [](RowsAreScanned /\ RowsInv)
  BY RowsCorrect
<1>4. TypeOK /\ StampsOrderEvents /\ RowsAreScanned /\ RowsInv => DetectorInv
  BY DEF DetectorInv
<1> QED BY <1>1, <1>2, <1>3, <1>4, MarksStep, PTL DEF Spec

\* In every run of a target that never tries a lock, and as long as no thread
\* has unlocked out of order, a recorded pattern of locks can be replayed by
\* delaying lock calls, as replay.cpp does.
THEOREM PatternsCorrect ==
  ASSUME ~UsesTrylock
  PROVE  Spec => [](jumbled = {} => LockedPatternsFeasible)
<1>1. MarksInv /\ DetectorInv => (jumbled = {} => LockedPatternsFeasible)
  BY FeasibleInv
<1> QED BY <1>1, MarksHold, PTL

\* If moreover call sites name sections, a violation that was dropped because
\* of a lock is impossible.
THEOREM SkipsCorrect ==
  ASSUME ~UsesTrylock
  PROVE  Spec => [](jumbled = {} /\ SitesName => SkipJustified)
<1>1. MarksInv /\ DetectorInv => (jumbled = {} /\ SitesName => SkipJustified)
  BY JustifiedInv
<1> QED BY <1>1, MarksHold, PTL
=============================================================================
