------------------------------ MODULE Offline -------------------------------
(***************************************************************************)
(* The offline half of the repository: a run of the monitor tool, then the *)
(* predictor on what the run has left on disk.  Its findings are compared  *)
(* with the definition of an atomicity violation and with what the         *)
(* analysis of the tracing tool would report of the same run.              *)
(***************************************************************************)
EXTENDS Monitor, Predictor, Analysis, Serializability

offlineVars == <<vars, predictorVars>>

\* The mutexes are interchangeable.
MutexSymmetry == Permutations(Mutex)

Lines == SubSeq(file_mem_access, 1, on_disk)

Predict == status = "finished" /\ ReadLine(Lines) /\ UNCHANGED vars

OfflineInit == Init /\ PredictorInit
OfflineNext == Predict \/ (Next /\ UNCHANGED predictorVars)
OfflineSpec == OfflineInit /\ [][OfflineNext]_offlineVars

-----------------------------------------------------------------------------
(* Properties. *)

AllRead == status = "finished" /\ lines_read = Len(Lines)

\* Line v[3] makes an atomicity violation of the accesses in v[1] and v[2] if
\* it falls between them.
Violation(lines, v) ==
  /\ lines[v[1]].tid = lines[v[2]].tid /\ lines[v[1]].tid # lines[v[3]].tid
  /\ lines[v[1]].addr = lines[v[2]].addr /\ lines[v[1]].addr = lines[v[3]].addr
  /\ v[1] < v[2]
  /\ Unserializable(lines[v[1]], lines[v[3]], lines[v[2]])

\* The log names every violation that its lines can hold, and nothing else,
\* wherever the lines end: the operation tags by which the predictor drops a
\* pair of threads lose none.
PredictsExactly ==
  AllRead =>
    CI_list(Lines) = {v \in (DOMAIN Lines) \X (DOMAIN Lines) \X (DOMAIN Lines) :
                        Violation(Lines, v)}

\* An entry of CI_list is known by the times of its accesses, as is an entry
\* of the tracing tool's report.
Times(ma, c) == <<ma[c[1]][c[2]].time, ma[c[1]][c[3]].time, ma[c[4]][c[5]].time>>

\* The two tools agree: of a complete log, the predictor names all that the
\* analysis of the tracing tool reports of the same run.
ReportsArePredicted ==
  AllRead /\ on_disk = Len(file_mem_access) =>
    {Times(AnnotatedRows, c) :
       c \in Recorded(AnnotatedRows, threadExisted, file_sync)}
      \subseteq {<<Lines[c[1]].time, Lines[c[2]].time, Lines[c[3]].time>> :
                   c \in CI_list(Lines)}
=============================================================================
