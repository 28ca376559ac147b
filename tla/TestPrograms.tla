---------------------------- MODULE TestPrograms ----------------------------
(***************************************************************************)
(* Scripts of programs in test_cases/: the shared variables in which the   *)
(* known bug lies, the locks around them and the threads.  An instruction  *)
(* or a call site is named after the function it is in; accesses to data   *)
(* no other thread writes are left out, and a variable read several times  *)
(* in a row is read once.  The last ones are further legal targets.        *)
(***************************************************************************)
EXTENDS Sequences, Naturals

Section(site, mutex, body) ==
  <<<<"lock", site, mutex>>>> \o body \o <<<<"unlock", site, mutex>>>>

\* main creates roles 1 and 2 and joins both.
MainCommands == <<<<"create", 1>>, <<"create", 2>>, <<"join", 1>>, <<"join", 2>>>>

Roles(main, t1, t2) == [r \in 0 .. 2 |-> CASE r = 0 -> main
                                           [] r = 1 -> t1
                                           [] r = 2 -> t2]

\* bank_account_lock: deposit and withdraw are the same to the tool.
Deposit ==
  Section("get_balance", "account.lock", <<<<"R", "get", "balance">>>>) \o
  Section("set_balance", "account.lock", <<<<"W", "set", "balance">>>>)
Results == <<<<"R", "print", "balance">>, <<"R", "check", "balance">>>>
BankLock == Roles(MainCommands \o Results, Deposit, Deposit)

\* bank_account_nolock.
DepositNoLock == <<<<"R", "get", "balance">>, <<"W", "set", "balance">>>>
BankNoLock == Roles(MainCommands \o Results, DepositNoLock, DepositNoLock)

BankBug == {<<"get", "set", "set">>}

\* Apache httpd: another writer may store the index between use and update.
ap_buffered_log_writer ==
  <<<<"R", "use", "outcnt">>, <<"R", "update", "outcnt">>, <<"W", "store", "outcnt">>>>
Apache ==
  Roles(MainCommands \o <<<<"R", "compare", "outcnt">>, <<"R", "print", "outcnt">>>>,
        ap_buffered_log_writer, ap_buffered_log_writer)

ApacheBug == {<<"use", "store", "store">>}

\* Mozilla_extract: gCurrentScript is reset between LoadScript's write and
\* the read in OnLoadComplete.
LoadScript ==
  Section("LoadScript", "mutex_lock", <<<<"W", "load", "gCurrentScript">>>>) \o
  Section("OnLoadComplete", "mutex_lock", <<<<"R", "compile", "gCurrentScript">>>>)
sFree == Section("sFree", "mutex_lock", <<<<"W", "free", "gCurrentScript">>>>)
Mozilla == Roles(MainCommands, LoadScript, sFree)

MozillaBug == {<<"load", "free", "compile">>}

\* mysql_4.0.12_extract: sql_insert reads the value between two writes.
new_file == <<<<"W", "close", "log_type">>, <<"W", "open", "log_type">>>>
sql_insert == <<<<"R", "insert", "log_type">>>>
MysqlBinlog == Roles(MainCommands, new_file, sql_insert)

MysqlBinlogBug == {<<"close", "insert", "open">>}

\* string_buffer: sb->append(buffer) holds sb's lock while length() and
\* getChars() take buffer's, one after the other.  sb has been constructed by
\* append(const char *).  That erase reads count again after it has written it,
\* in the same section, is left out.
erase ==
  Section("erase", "buffer.lock",
          <<<<"R", "eraseR", "buffer.count">>, <<"W", "eraseW", "buffer.count">>>>)
append ==
  Section("append_str", "sb.lock", <<<<"W", "new", "sb.count">>>>) \o
  Section("append", "sb.lock",
          Section("length", "buffer.lock", <<<<"R", "length", "buffer.count">>>>) \o
          <<<<"R", "appendR", "sb.count">>>> \o
          Section("getChars", "buffer.lock", <<<<"R", "getChars", "buffer.count">>>>) \o
          <<<<"W", "appendW", "sb.count">>>>)
StringBuffer == Roles(MainCommands, erase, append)

StringBufferBug == {<<"length", "eraseW", "getChars">>}

\* mysql_169_extract: every section is locked in Lock() and unlocked in
\* Unlock(), so all have the same pair of call sites.  Its bug involves two
\* variables and is out of the tool's scope.
Wrapped(body) ==
  <<<<"lock", "Lock", "mutex_">>>> \o body \o <<<<"unlock", "Unlock", "mutex_">>>>
remove_table_entries ==
  Wrapped(<<<<"W", "clear", "table_contents_">>,
            <<"R", "decR", "count">>, <<"W", "decW", "count">>>>)
insert_table_entry ==
  Wrapped(<<<<"W", "put", "table_contents_">>,
            <<"R", "incR", "count">>, <<"W", "incW", "count">>>>)
Mysql169 ==
  Roles(MainCommands \o <<<<"R", "empty", "count">>, <<"R", "validate", "log_contents_">>>>,
        remove_table_entries \o <<<<"W", "logR", "log_contents_">>>>,
        insert_table_entry \o <<<<"W", "logI", "log_contents_">>>>)

\* circular_list: t1 locks the list once to pop and once to push, t2 moves its
\* node in one section.  Allocation is under a mutex of its own.  The list keeps
\* its order, which the bug destroys, at the tail.
new_list_node  == Section("new_list_node", "mem_lock", <<>>)
free_list_node == Section("free_list_node", "mem_lock", <<>>)
list_push_back ==
  new_list_node \o <<<<"R", "push", "tail">>, <<"W", "append", "tail">>>>
list_pop_front == <<<<"R", "last", "tail">>>> \o free_list_node
CircularList ==
  Roles(MainCommands,
        Section("t1_pop", "list.lock", list_pop_front) \o
        Section("t1_push", "list.lock", list_push_back),
        Section("t2_main", "list.lock", list_pop_front \o list_push_back))

CircularListBug == {<<"last", "append", "push">>}

\* log_proc_sweep: t2 resets shared_log between the test of t1 and its use;
\* if the test finds it reset, t1 does nothing.
add_log_entry ==
  Section("new_log_entry", "mem_lock", <<>>) \o
  Section("add_log_entry", "log.lock", <<>>)
LogProcSweep ==
  Roles(MainCommands,
        <<<<"R", "check", "shared_log">>, <<"branch", 5>>,
          <<"R", "use", "shared_log">>>> \o add_log_entry,
        <<<<"W", "reset", "shared_log">>, <<"W", "renew", "shared_log">>>>)

LogProcSweepBug == {<<"check", "reset", "use">>}

-----------------------------------------------------------------------------
\* Two threads count in one variable, each with one instruction.
Update(inst, addr) == <<<<"RW", inst, addr>>, <<"+W", inst, addr>>>>
Counter == Roles(MainCommands, Update("inc", "count"), Update("inc", "count"))
CounterBug == {<<"inc", "inc", "inc">>}

\* main works on a variable before it creates the thread that reads it.
EarlyMain ==
  Roles(<<<<"create", 1>>, <<"W", "init", "x">>, <<"W", "fill", "x">>,
          <<"create", 2>>, <<"join", 1>>, <<"join", 2>>>>,
        <<<<"sleep">>>>, <<<<"R", "read", "x">>>>)

\* The bank account with the Lock() and Unlock() of mysql_169_extract.
DepositWrapped ==
  Wrapped(<<<<"R", "get", "balance">>>>) \o Wrapped(<<<<"W", "set", "balance">>>>)
BankWrapped == Roles(MainCommands, DepositWrapped, DepositWrapped)

\* mysql_4.0.12_extract with a sleep before the log type is written.
WriterSleeps == Roles(MainCommands, <<<<"sleep">>>> \o new_file, sql_insert)

\* A variable protected now by one mutex, now by another.
TwoLocks ==
  Roles(MainCommands,
        Section("s1", "m1", <<<<"R", "r1", "x">>>>) \o
        Section("s2", "m2", <<<<"W", "w1", "x">>, <<"R", "r2", "x">>>>),
        Section("s3", "m1", <<<<"W", "w2", "x">>>>))
TwoLocksBug == {<<"r1", "w2", "w1">>, <<"w1", "w2", "r2">>}

\* A section of m2 nested in one of m1, which protects x everywhere.
Nested ==
  Roles(MainCommands,
        Section("s1", "m1", Section("s2", "m2", <<<<"R", "r1", "x">>>>) \o
                            <<<<"W", "w1", "x">>>>),
        Section("s3", "m1", <<<<"W", "w2", "x">>>>))
=============================================================================
