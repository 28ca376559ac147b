--------------------------- MODULE TracedPrograms ---------------------------
(* The test programs under the tracing tool, with their known bugs. *)
EXTENDS Scripted, TestPrograms

Program(script, bug) == [script |-> script, bug |-> bug, local |-> {1, 2}]

BuggyPrograms ==
  {Program(BankLock, BankBug), Program(BankNoLock, BankBug),
   Program(Mozilla, MozillaBug), Program(StringBuffer, StringBufferBug),
   Program(MysqlBinlog, MysqlBinlogBug), Program(WriterSleeps, MysqlBinlogBug),
   Program(TwoLocks, TwoLocksBug), Program(Apache, ApacheBug),
   [Program(CircularList, CircularListBug) EXCEPT !.local = {1}],
   Program(LogProcSweep, LogProcSweepBug), Program(Counter, CounterBug),
   Program(EarlyMain, {}), Program(Nested, {}), Program(Mysql169, {})}

\* What single runs are about.
OnlyWrapped == {Program(BankWrapped, BankBug)}
OnlyBinlog  == {Program(MysqlBinlog, MysqlBinlogBug)}
=============================================================================
