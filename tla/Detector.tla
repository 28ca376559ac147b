------------------------------ MODULE Detector ------------------------------
(***************************************************************************)
(* The tracing run as a whole: Tracer fills the tables, and Fini ends with *)
(* the analysis of what it has annotated.  As the replay log is written in *)
(* Fini only, it is a function of the state Fini leaves.                   *)
(***************************************************************************)
EXTENDS Tracer, Analysis, Serializability

CONSTANT AnalysisEnabled   \* FALSE: as in this revision, Fini's call of
                           \* start_anlysis() is commented out
ASSUME DetectorAssumption == AnalysisEnabled \in BOOLEAN

\* The lines of pattern_for_replay.log before its "#eof".
replay_log ==
  IF status = "finished" /\ AnalysisEnabled
    THEN start_anlysis(maTable, threadExisted, synchTable)
    ELSE <<>>

-----------------------------------------------------------------------------
(* Properties of what the analysis records, at the end of a run.           *)

Entries == UNION {{<<t, j>> : j \in DOMAIN maTable[t]} : t \in Tid}
Ma(e) == maTable[e[1]][e[2]]
Guards(e) == guards[e[1]][e[2]]

\* All conceivable atomicity violations among the recorded accesses.
Violations ==
  {v \in Entries \X Entries \X Entries :
     /\ v[1][1] = v[2][1] /\ v[1][1] # v[3][1]
     /\ Ma(v[1]).time < Ma(v[2]).time
     /\ Ma(v[1]).addr = Ma(v[2]).addr /\ Ma(v[1]).addr = Ma(v[3]).addr
     /\ Unserializable(Ma(v[1]), Ma(v[3]), Ma(v[2]))}

Reported(v) ==
  <<v[1][1], v[1][2], v[2][2], v[3][1], v[3][2]>>
    \in Recorded(maTable, threadExisted, synchTable)

Line(v) == record_pattern(Ma(v[1]), Ma(v[2]), Ma(v[3]))

SkippedByLock(v) == ProtectedBySameLock(Ma(v[1]), Ma(v[2]), Ma(v[3]))

\* The remote thread synchronized between its access and the local pair.
SkippedBySynch(v) ==
  \E k \in DOMAIN synchTable :
    LET time == synchTable[k].time
    IN  /\ synchTable[k].tid = v[3][1]
        /\ \/ Ma(v[3]).time < time /\ time < Ma(v[1]).time
           \/ Ma(v[2]).time < time /\ time < Ma(v[3]).time

\* The accesses an entry of Recorded stands for.
Triple(c) == <<<<c[1], c[2]>>, <<c[1], c[3]>>, <<c[4], c[5]>>>>

\* The analysis reports conceivable violations only, and drops one for no
\* other reason than the two tests of the code: a lock or a synchronization.
ReportsExactly ==
  status = "finished" =>
    /\ \A c \in Recorded(maTable, threadExisted, synchTable) :
         Triple(c) \in Violations
    /\ \A v \in Violations :
         Reported(v) <=> ~SkippedByLock(v) /\ ~SkippedBySynch(v)

\* First and second lie in one section of mutex m.
InOneSection(v, m) ==
  \E k \in DOMAIN csTable :
    /\ csTable[k].tid = v[1][1] /\ csTable[k].lock_entry_v = m
    /\ Encloses(csTable[k], Ma(v[1])) /\ Encloses(csTable[k], Ma(v[2]))

\* A violation skipped because of a lock cannot happen: its local pair lies in
\* one section of a mutex that the remote thread held as well.
SkipJustified ==
  status = "finished" =>
    \A v \in Violations :
      SkippedByLock(v) => \E m \in Guards(v[3]) : InOneSection(v, m)

\* A pattern of the locked type can be replayed by delaying lock calls: the
\* three accesses were made under one mutex, and the local thread releases it
\* between the first and the second.
LockedPatternsFeasible ==
  status = "finished" =>
    \A v \in Violations :
      Reported(v) /\ Line(v).locked = 1 =>
        LET m == Ma(v[3]).lock_ev
        IN  /\ m \in Guards(v[1]) \cap Guards(v[2]) \cap Guards(v[3])
            /\ ~InOneSection(v, m)
=============================================================================
