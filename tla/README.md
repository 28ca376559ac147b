# Specifications of the atomicity-violation detector

The repository holds dynamic-analysis tools for Intel Pin. One run of a target
program is traced (`pintool_main.cpp`), the trace is searched for accesses that
another thread could interleave harmfully (`callbacks.h`), and a second run is
delayed so that such an interleaving happens (`replay.cpp`). An older pair of
tools does the first two offline: `monitor.cpp` logs a run to files,
`predictor.py` searches them. This directory models these phases, the programs
they were tried on, and the JSON reader that lies beside them.

## 1. Inventory

| Part | Source | State | Operations |
|---|---|---|---|
| Tracing tool | `mypintool/structs.h`, `callbacks.h` 266-446, `pintool_main.cpp` | `threadNum`, `threadExisted`, `logging_start`, `timestamp`; `maTable` (accesses, one row per thread), `csTable` (critical sections), `synchTable` | callbacks before or after an instruction or routine of the target, each under the PIN lock; `ThreadStart`, `ThreadFini`, `Fini` |
| Lock annotation | `pintool_main.cpp` 136-203 | rewrites `csTable` and `maTable` once | erase empty sections, copy locks into accesses |
| Analysis | `callbacks.h` 12-261 | reads the tables, appends to `pattern_for_replay.log` | `start_anlysis`, `find_interleave_*`, `examine_interleaving`, `record_pattern` |
| Replay tool | `replay.cpp` | one pattern, `first_ready`, `inter_ready`, `second_ready`, the PIN lock | `BeforeMemAccess`, `beforeThreadLock_replay`, `beforeThreadUnLock_replay`, `Routine` |
| Targets | `test_cases/*/main.cc` | shared variables and mutexes | the bug of each program |
| Monitor | `monitor.cpp` | the tracer's timer and counters, three log files | the tracer's callbacks, to files (the default of `start.sh`) |
| Predictor | `predictor.py` | dictionary built from the monitor's access log | collecting, tagging, conflict search |
| JSON library | `jsoncpp.cpp` (vendored, called by no tool of this revision) | the document, a stack of open values, the errors | `parse`, `readValue`, `readObject`, `readArray`, `recoverFromError`, decoding; `FastWriter::write` |
| Build, scratch | makefiles, `start.sh`, `note`, `test.c`, `test_dir` | none | none |

Interaction. The tool shares the process of the target. Pin runs a callback,
returns, and only then executes the announced operation; callbacks of
different threads exclude each other through the PIN lock, the operations do
not. The phases communicate through tables (tracer to analysis) and text files
(analysis to replay, monitor to predictor). Replay shares three unprotected
flags between threads. The functions of the JSON reader call each other and
share its stack and its place in the text.

Hard behaviours. (a) An event is stamped before it takes place: a section
before its mutex is acquired, an access before it is executed. (b) Start and
end of logging depend on the order of callbacks in creator, created and
finishing threads. (c) Unlocks are matched by position in a table all threads
append to, without comparing mutexes. (d) A section is named by two call
sites and an access keeps one lock of several. (e) Delays are polling loops
without a limit in threads that hold mutexes, over flags raised before the
operation they announce. (f) The monitor does not close its largest file.
(g) After an error the reader skips to the ends of all containers around it,
and its limits (64 bits, surrogates, depth) are tested piece by piece.

What makes each part correct. Tracer: stamps identify and order all events,
the sections of a thread are a stack, the span of a section is time in which
its mutex was held, sections of one mutex do not interleave, concurrent
accesses are logged. Annotation: a lock written into an access was held at it,
and none is forgotten. Analysis: exactly the unserializable triples no lock or
synchronization makes it skip, and these skips are justified. Replay: the
pattern happens in its order, it does happen, and the target is not hung by it.
Monitor: the files hold what the tables would. Predictor: exactly the
unserializable triples of the lines it gets. JSON: what is read is what the
document means, nothing else is read, reading ends, and what is written is
read back.

`PROJECT.json` lists the hazards by line, with the properties that watch them.

## 2. Modules

    Structs            records of structs.h, IsOpen, Encloses
      LockAnnotation   what Fini does to the tables, as operators
        Tracer         the tool's callbacks against an arbitrary target
          (SectionStack  what csTable promises, refined by Tracer)
        Analysis       start_anlysis ... record_pattern, as operators
        Serializability  the reference of a violation
          Detector     Tracer + Analysis + Serializability
            Scripted   Detector, the target following a script
    TestPrograms       scripts of test_cases
      TracedPrograms   Scripted + TestPrograms
        Pipeline       TracedPrograms, then Replay with the log  (runs)
    Replay             the replay tool against a scripted target
    Monitor            the monitor tool, shown to be a Tracer
    Predictor          predictor.py, a step per line of the log
      Offline          Monitor, then Predictor, beside Analysis  (runs)
    JsonText           numbers and strings, read and written, as operators
      JsonReader       OurReader, a step per token
        JsonGrammar    what a sequence of tokens means, from the grammar
          Documents    read, write, read again
            MCDocuments  small documents                         (runs)

    TracerProofs       types, stamps, rows, logging
      SectionProofs    sections and annotation
        NestProofs     Tracer refines SectionStack; sections of one mutex
                       exclude each other
        DetectorProofs the analysis (of Detector)
    PipelineProofs     test programs, traced and replayed (of Pipeline)
    MonitorProofs      Monitor refines Tracer
      OfflineProofs    the predictor and the reports (of Offline)
    JsonProofs         the reader, and numbers (of JsonReader)

`None` is the 0 of an address field "not known yet". The program filter of
`Instruction` and `isLibRtnName`, the stack bound, routine names and printing
are left out: they decide which accesses exist, not what is done with them.

**Tracer.** One action per callback: `ThreadStart`, `ThreadFini`,
`afterThreadCreate`, `RecordMemRead`, `RecordMemWrite`, `beforeThreadLock`,
`beforeThreadUnLock`, `afterThreadSynch` (four callbacks that differ in a
string) and `Fini`. A callback is one step because it holds the PIN lock
throughout. `beforeThreadUnLock` has the three branches of the code; the
uninitialised index of its one-entry branch may be 0, may point at memory
that does not match (`StrayIndex` contains `"miss"`) or at none
(`"crash"`). An unsuccessful search ends in `UnLockAborts`: with several
sections the unsigned loop index never gets below 0, so the assertion that
should report it is not even reached. The target is a step machine beside it: `pend[t]`
is what thread `t` has announced and not yet done, `held[t]` its mutexes. A
target may create, access, lock, unlock in any order, try,
wait and pause in any order; an instruction that reads and writes has both
callbacks before it executes. History, read by no action of the tool: `guards`
is what was held at each logged access, `jumbled` the threads that have once
unlocked in another order than the reverse of locking. To these the code
promises less, and the properties about single locks leave them out.

**SectionStack** is what a comment of `beforeThreadUnLock` promises: each
thread has a stack of sections, an unlock closes its innermost one, whatever
other threads do in between. `Tracer` implements it with the unfinished and the
finished part of `csTable` (`SectionsStack`), for every order of unlocking.

**LockAnnotation.** `KeptSections` is the erasing loop, `AnnotatingSection` the
search from the back together with the extra test of entry 0 that follows it.

**Analysis.** The nested loops are the set `Recorded` of the index tuples they
record, and `start_anlysis` puts it in loop order. `find_interleave` is both
`find_interleave_write` and `find_interleave_read`, which differ in the kind
compared.

**Serializability, Detector.** `Unserializable` is the reference: run the three
operations on one variable, note what every read saw and the final value, and
compare with the two orders in which the pair is adjacent. It shares nothing
with the tables of cases in the code. `replay_log` is what `Fini` leaves in the
file. `AnalysisEnabled = FALSE` is this revision, with the call commented out;
`TRUE` is the tool as its comments describe it.

**Scripted, TestPrograms.** A script gives each role (main, first, second
thread) its accesses to the variables the bug is about, its locks and its
thread operations; `branch` skips the rest of the commands it names, or not,
as data may decide. Which role gets which Pin number depends on who starts
first. Every step is a step of `Tracer`, restricted. `Programs` is a set of
scripts, each with its known bug; one of them is chosen at the start. Beside
the scripts of `test_cases` there are five small ones for single hazards:
`Counter` (read-modify-write instructions), `EarlyMain` (accesses ordered by
`pthread_create`), `TwoLocks` and `Nested` (different mutexes), `WriterSleeps`.

**Replay.** The target is scripted as before. A callback decides in one step:
each thread changes only the flags it also waits to be raised by itself, a flag
never falls, so at most one flag it tests can change meanwhile and either value
leads to the same place. Flag, delay round and operation are separate steps.
A log without a pattern leaves the tool's globals 0 (`NoPattern`).
`ran` is history: the parts of the pattern that took place after their
announcement. For a locked pattern that moment is the release of the section's
mutex.

**Pipeline** runs a program under `Tracer`, then, from its beginning, under
`Replay` with the log of that run (`StartReplay`). Only the log and the script
survive between the two. `PipelineAssumption` says what a script is: a sequence
of `Commands` for each of three roles, no branch of which leaves it.

**Monitor, Predictor, Offline.** The monitor's callbacks append records to
three files. With the files read as tables (`RowsOf`, `SectionsOf`: an unlock
finishes the last open section of its thread), a run of `Monitor` is a run of
`Tracer`: `LogsHoldTables == T!Spec`. The target's steps are those of `Tracer`.
`Fini` leaves a prefix of the access log on disk, as the file is not closed.
`Predictor` then reads what is on disk: `ReadLine` has the three branches of the
loop over the file, and `trace_mem` is its dictionary, by address and thread.
When all is read, `CI_list` is the list that `predictor.py` prints, as a set of
triples of line numbers. `Offline` lets it run after the monitor, and compares
its list with `Unserializable` and with the report of `Analysis`.

**JsonText, JsonReader, JsonGrammar, Documents.** The recursion of `readValue`,
`readObject` and `readArray` is a stack of open containers and a place `at`;
a step reads a token. A document is discovered token by token up to
`MaxTokens`, or given whole. A reader that has finished may be used again, for
any document (`parse`): `Documents` gives it what the writer wrote.
`LargestUIntMax` and `UIntMax` are the largest unsigned integers, and
computations wrap there. The text of a string is a sequence of characters and
escape sequences, a decoded string a sequence of bytes. What `sscanf` and
`printf` do to a double is left to them, but not whether `sscanf` finds one
(`CanDecodeNumber`); of a number that ends in its exponent the libraries
disagree, so that is the constant `ExponentNeedsDigit`. `true` and `false` are
read as `null` is and are left out. The caller may hand over a root that holds a
container already (`CallerRoots`), which decides what `strictRoot` says of a
document without a value.

## 3. Runs

| Run | Question | Bounds |
|---|---|---|
| `Sections` | Do stamps order all events; are sections a stack per thread; are they paired with their locks and is a span the time the mutex is held; does `Fini` write into an access a lock held at it, and some lock whenever one was; is every row in use scanned; is concurrency logged until a thread finishes? | 2 threads, 2 mutexes, writes, 7 stamps |
| `Synchs` | With waits, barriers, sleeps and trylocks among the accesses, does the analysis report exactly what its two tests let through? | 2 threads, 1 mutex, 4 stamps |
| `Pipeline` | For 14 programs: do recorded sections exclude each other, is the known bug predicted from every schedule, is the report exact, are skipped violations impossible, does the target finish? Then, replayed with the log of that run: do the call sites of a locked pattern single out sections of one mutex, do its parts keep their order, does the pattern happen, and what can hang the target? | the whole programs |
| `Monitored` | Do the monitor's files hold what the tracer's tables would; does the predictor find exactly the violations in the lines on disk; among these, what the tracing tool would report? | 2 threads, 2 mutexes, 4 stamps, condition waits and barriers |
| `Documents` | Is exactly JSON read, as what it means; do errors tell of a failure; does reading end; are numbers exact; does what is written read back? | all documents of up to 6 tokens out of 12; one of 21 tokens and all that differ from it in one; 1174 numbers, with integers of 8 and 4 bits; 213 strings; 9 objects with a number for a name; 4 settings; depth 4 |

Except for the liveness properties of `Pipeline` and `Documents`, these are
safety checks of systems that may stop at any time, block each other by the
target's own mutexes, or have ended; deadlock is not checked. In `Pipeline`
the PIN lock that is never given back does hang the target, after the pattern
(`HangsAfterReplay`).

The uninitialised index (`StrayIndex`) takes every outcome in `Synchs` and
`Pipeline`. In `Sections` it may be 0 or fault, but not
miss: after a miss the section stays open, so that `Fini` erases it,
against `AnnotationComplete`. (The other properties survive a miss, as §4
shows: a later unlock finds a later section.) What a miss does is the subject
of `StrayUnlock`. In `Monitored` the files have no index.

Why the bounds are enough. `MaxTime` limits stamped events; `timestamp` begins
at 1, so one stamp less is handed out. Seven suffice for
two nested sections with an access inside (five events) beside a
section of the other thread, and for a thread that starts, finishes and is
followed by accesses of another. A triple has three accesses, so the four
stamps of `Synchs` and `Monitored` leave room for a synchronization at every
place beside it. A triple that is skipped because of a common lock needs seven
(two sections) and does not occur in `Synchs`; such triples are the subject of
`Pipeline`, and of `ReportsExactlyCorrect` for any number of stamps.
Scripted programs run to their end: `MaxTime = 40` is never reached. Thread
numbers are not symmetric (main is 0); mutexes are, and `Monitored`, which has
no liveness property, says so. Six tokens hold every pair of adjacent tokens
in every container and two levels of nesting with a value; what takes more
(repeated names, three levels, the depth limit reached from inside) is in the
long document and its 270 damaged forms. Widths of 8 and 4 bits put the limits
of both integer types, and the last digits around them, among texts of three
digits.

Expected violations (`PROJECT.json`, findings):

| Run | What the source says | What happens |
|---|---|---|
| `StrayUnlock` | an unlock is always matched | missed through the uninitialised index |
| `LoggingOff` | logging while at least two threads exist | off with two threads |
| `CondWaitSection` | same section and same lock means no violation | a wait releases the mutex inside a section |
| `OpenAtExit` | a section is removed if it protects no access | one that is still open at exit is removed, whatever it protects |
| `BankWrapped` | call sites identify a section | wrappers for lock and unlock hide a bug |
| `ReplayUnlockedOrder` | inter is delayed to after first | it may overtake first |
| `Escapes` | surrogates are not to be encoded | the characters above them are replaced, they are not |

Further differences the models show and no run is kept for:

- `Routine` has no callback for `pthread_mutex_trylock`, so the unlock that
  follows one finds no section, or another one.
- Logging goes on with a single thread when `pthread_create` fails or its
  thread is gone before `afterThreadCreate`.
- The call of the analysis is commented out (`pintool_main.cpp:244`) under the
  heading "Start analysis": with `AnalysisEnabled = FALSE` the log is empty and
  `BugPredicted` fails for every program.
- An access keeps its innermost lock only, so a pair of which one access lies
  in a nested section is reported although an outer section protects it
  (`Nested`).
- Three accesses under locks that are not all one lock are recorded as an
  unlocked pattern; replayed, the target may hang (`Mozilla`, `TwoLocks`,
  `Nested`). `MixedHangsOnMutex` says why.
- With unlocks out of order the sections of a thread are stacked, but their
  spans and mutexes do not belong together any more.
- A pattern that `pthread_create` or `pthread_join` makes impossible is
  reported, and its replay waits for ever (`EarlyMain`).
- A replayed target that branches on data may leave the path of its pattern,
  with the same effect (`LogProcSweep`).
- The monitor tool writes the thread number where the time of a sleep or of a
  timed wait belongs (monitor.cpp:174 and 190). No tool uses that field, but with
  sleeps or timed waits `LogsHoldTables` fails.
- A sleep of the remote thread excludes a violation it does not prevent.
- The JSON reader accepts a comma before the brace after a member named `""`;
  comments inside containers even where they are forbidden; `-` as 0 and leading
  zeros; with `failIfExtra` and not `strictRoot`, an erroneous token after the
  value. After a comment behind a member, any token passes for the comma. It
  rejects a comment between a name and its colon, and `[/**/]`. Any escaped unit
  passes for the second half of a surrogate pair.
- The JSON writer reads the first of four UTF-8 bytes with a shift by 24 for one
  by 18 (jsoncpp.cpp:4358), so characters above plane 3 are written as others.
  `RoundTrip` is about the planes 0 to 3, where the shifted bits are 0.

`ReadsOnlyJson` leaves out the settings under which the reader is meant to
accept more, and two kinds of documents it reads wrongly: those with a comma
before a brace and a member named `""`, and those with a comment behind a value
and another token for the comma after it (`Misread`).

`BugPredicted` is stated of runs in which the accesses of the bug were all
logged. Logging may legitimately begin late or end early (`LoggedUntilFini`
says when it does not), and then there is nothing to predict from.

Fairness. `Pipeline` assumes that the traced process, and the replayed one,
goes on as long as one of its threads can: the operating system runs runnable
threads and a callback is part of its thread. That each thread gets its turn
need not be assumed, since no thread can go on for ever: a delay loop that
finds its flag down changes nothing. Nothing obliges anyone to start a replay.
`BankWrapped`, of `Scripted` alone, has weak fairness of every thread. A delay
loop ends because a raised flag stays raised. No strong fairness of mutexes is
needed, as every script is finite. `Documents` assumes that the thread that
called `parse` runs on, and not that anyone calls the writer.
`ReplaySucceeds` assumes in its statement (`Plain`) that Pin numbers the
threads as in the traced run, which nothing enforces, that the program does
not branch and that the pattern is not one of the main thread.

## 4. Proofs

The theorems about tracing hold for every value of the constants satisfying
`TracerAssumption`: `0` is no address, at least one thread, at most
`MAX_THREAD_NUM` threads, constants of the right kind. Those of `PipelineProofs`
also assume `PipelineAssumption` (§2) of the programs, those of `MonitorProofs`
and `OfflineProofs` assume `MonitorAssumption`, which is the same as
`TracerAssumption`. The unbounded timer is the one idealisation: a 32-bit stamp
that wraps is outside them. `JsonProofs` has its own assumptions, below.

- `TypeCorrect`: `Spec => []TypeOK`, one step per action (`TypeStep`). The
  delicate cases are `Fini`, which selects rows and copies fields between
  tables, and `ReleaseMutex`, which takes a mutex out of the middle of a
  sequence (`WithoutType`).
- `StampsCorrect`: `Spec => []StampsOrderEvents`. The property alone is not
  inductive: nothing says a new stamp is new. `StampsInPast` adds that every
  recorded stamp lies between 1 and `timestamp`; then a callback, which
  increments first, records a number above all others. There is one lemma per
  kind of table change (append an access, a section, a synchronization;
  finish a section; erase and annotate).
- `RowsCorrect`: `Spec => [](RowsAreScanned /\ RowsInv)`. `RowsInv` connects
  a nonempty row to the phase of its thread and the phase to `threadExisted`,
  and says that a row holds accesses of its thread only.
- `InterleaveExact`: the kind of remote access `start_anlysis` looks for is the
  unserializable one of `Serializability`, for all eight combinations of kinds.
- `ReportsExactlyCorrect`: `Spec => []ReportsExactly`. It combines the
  invariants above: `RecordedMember` says what the loops reach, `RowOrder`
  (from the stamps) that table order is time order, `TestsExact` that the three
  tests of `examine_interleaving`, one of which applies because stamps differ,
  are the reference and the two reasons to skip. `RowsAreScanned` gives that
  no row is left out.

- `LoggingCorrect`: `Spec => []LoggedUntilFini`. `LoggingInv` adds that until
  a thread finishes `threadNum` equals `threadExisted`, and that a second
  thread, born or not, has been announced by a `pthread_create` which has
  returned (then `logging_start`) or is on its way (then someone is
  `Creating`).
- `StackCorrect`: `Spec => SectionsStack`, without any hypothesis: for every
  order of unlocking, with trylock and with missed sections, a step of `Tracer`
  is a push, a pop, a miss, the end of an unlock, the end of the run or a
  stutter of `SectionStack`. The invariants used are the stamps, the rows and
  `Marked` (a section has both marks of its end or none): the last open entry
  of a thread is the one with the latest start.

About mutexes, one invariant carries the rest. `SectionsArePaired`, `SpanSound`
and `SpanComplete` speak of finished sections or of accesses, and are not
inductive: they do not say which open section an unlock will find. A *nest*
(`Nest(F)`) lists for each thread the rows of `csTable` that are the sections
it is in, outermost first. It mirrors `held` and `pend`: one row per mutex, one
more while the thread waits for a mutex, one less while it gives one back
(`Depth`). Its parts: these rows are the open sections of the thread, save one
older that was missed (`NestOpen`); they carry the mutexes in the order of
acquisition (`NestNamed`); a thread makes no access between announcing a lock
and having it, which is why a section may be stamped early (`NestWaits`);
whatever was accessed since a section began was accessed under its mutex
(`NestGuards`); sections of one thread and mutex do not overlap (`NestApart`).
`NestNamed`, `NestGuards` and `NestApart` leave out the threads in `jumbled`.
`SectionInv` says that there is a nest until `Fini` rewrites the tables;
`Promises` holds what must survive `Fini`.

- `PairedCorrect`, `SpanSoundCorrect`, `SpanCompleteCorrect`,
  `AnnotationSoundCorrect`: the four properties hold of every target that
  never calls `pthread_mutex_trylock` (`~UsesTrylock`). The hypothesis is
  needed, for `Routine` has no callback for that function: the mutex is held
  without a section. A miss does no harm to these four.
- `AnnotationCompleteCorrect` assumes also that the uninitialised index is not
  one that misses, which `StrayUnlock` shows to be needed.
- `AtomicityCorrect`: `SectionsAtomic`, of targets without trylock and condition
  waits; `CondWaitSection` shows that a wait refutes it. `Exclusion` (a mutex
  has one holder) joins the nest, and `NestAtomic`: once an access in a section
  of one thread is followed by one in a section of the same mutex of another,
  the first section makes no more accesses.
- `PatternsCorrect`, `SkipsCorrect`: without trylock and as long as no thread
  has unlocked out of order, a pattern of locks can be replayed by delaying lock
  calls, and, if call sites name sections (`SitesName`, which `BankWrapped`
  refutes), a violation skipped because of a lock is impossible. An access
  carries the lock of a section that encloses it (`MarksInv`, from what `Fini`
  does), two accesses with the same call sites lie in the same section, and
  the mutex of a section was held at its accesses.

About scripted programs, traced and replayed (`PipelineProofs`):

- `ScriptsAreTraced`: `ScriptSpec => Spec`. A step of a script is a step of
  `Tracer`, so every theorem above holds of every program of this kind.
  `ScriptInv` keeps the counter of a thread inside its script, where the
  operands of a command have the types `Tracer` asks for.
- `ReplayTypeCorrect`: `PipelineSpec => []ReplayTypeOK`. Pin's numbers are
  given to the roles one by one: `NumberLeft` counts that one is left.
- `LockedOrderCorrect`: `PipelineSpec /\ []PatternNamesSections =>
  []LockedInOrder`. A flag goes up when the callback of an unlock is entered,
  before the mutex is free. `OrderInv` says what a raised flag means in
  between (`Announced`): its part has taken place, or its thread is about to
  release the mutex (`Passed`). The next part lies in another section of that
  mutex, and two threads cannot both be in one (`Exclusive`), so it cannot end
  first. The hypothesis is the assumption of `structs.h:90` about call sites;
  `Pipeline` checks it for the test programs. It is about the log and the
  program, and nothing in it is about flags or order.

About the monitor tool and the predictor:

- `LogsCorrect`: `Spec => LogsHoldTables`, the refinement. Appending a line is
  one more step of reading (`OneMoreLine`), so each callback of `Monitor`
  changes the tables read from the files as the callback of `Tracer` changes its
  own. The exception is the unlock: `Tracer` has three branches and an index
  that may be anything, the file just a line. That reading finds the section
  `Tracer` would find needs one open section per mutex held, at least; this and
  the rest comes from `SectionProofs`, whose invariant is instantiated with the
  tables read from the files and proved along with the refinement, step by
  step. Hypotheses: no trylock, after which `Tracer` may find no section and
  abort while the monitor writes its line; and no sleeps and timed waits, whose
  lines have the thread number for the time (`WrittenTime`), so that their
  table is not the one of `Tracer`.
- `PredictsExactlyCorrect`: `OfflineSpec => []PredictsExactly`, with no
  hypothesis: for every target, with trylocks and sleeps, any number of threads
  and any prefix of the log on disk. `MemRead` says what the dictionary holds
  after `lines_read` lines: the list of a thread at an address is the
  increasing sequence of its lines there (`Lists`), the tag tells which kinds
  occur among them (`Tags`), `tid_list` has every thread once. From the tags,
  a pair of threads that is dropped has accesses of one kind only, and
  `Unserializable` needs a write. The four cases of the search are those of
  the reference.
- `ReportsCorrect`: `OfflineSpec => []ReportsArePredicted`, with no hypothesis
  either. The access log alone determines the rows of `maTable` (`Placed`: each
  access of a row is one line, and they are in the order of the lines), and
  stamps of lines grow; so what `Recorded` finds in the rows is unserializable
  in the lines, hence named by the previous theorem.
- `MonitorUnderneath`: `OfflineSpec => Spec`, so that `LogsCorrect`, and through
  it what is proved of the tables of `Tracer`, holds while the predictor runs.

About the JSON reader, for every reader and every document of any length:
`JsonReaderAssumption` says what a number looks like and that the depth limit
is not negative, `JsonTextAssumption` that the maxima are odd and `minLargestInt`
has two digits.

- `ReaderTypeCorrect`, `ErrorsTellCorrect`: `ReaderSpec => []TypeOK` and
  `ReaderSpec => []ErrorsTell`. `ReaderInv` lists the places with what is known
  there: no error while reading, one while recovering, and after it a result
  that is lost exactly when the last container is closed. There is one lemma
  per way in which a call ends (`ReturnToStep`, `CloseStep`, `FailStep`, ...).
- `NumbersExactCorrect`: `ReaderSpec => []NumbersExact`. `NumberInv` follows the
  first token into `root`. The rest is arithmetic: `OneDigit` is about the test
  of `decodeNumber` before it multiplies, and `DigitsExact` carries it along the
  digits, to the least one at which the computed number and the exact one would
  part. (The library's induction theorems take an operator and cannot be used;
  that a nonempty set of numbers has a least element can. The recursive functions
  are shown to exist in the same way, `CountExists`.)
- `NumbersComeBack`: an integer within the limits can be decoded from its text, as
  it was, with its type; negative ones and the two ends of the range included.

The specification of `Documents` is that of `JsonReader` with the writer's
documents for the second reading, by definition; that step is not proved, as
`Documents` declares RECURSIVE operators.

The conditions `~UsesTrylock`, `WaitTypes = {}` and `"miss" \notin StrayIndex`
are about constants and satisfiable (`Sections` gives them such values, and
`Monitored` those of `LogsCorrect`). `jumbled = {}` and `SitesName` are
conditions on the state, stated inside the box: a program that unlocks in the
reverse order of locking, no thread of which goes twice through the same pair of
call sites, satisfies them throughout.

Only model-checked: `BugPredicted` and `PatternNamesSections`, which depend on
the given programs and have no general form; the liveness properties
`TargetFinishes`, `ReplaySucceeds`, `UnlockedFinishes` and `Terminates`, and
`HangsAfterReplay` and `MixedHangsOnMutex`, which use ENABLED, as both are out
of the prover's reach; `ReadsJson`, `ReadsOnlyJson` and `RoundTrip`, which
are about what the RECURSIVE `Meanings` and `writeValue` compute.
RECURSIVE operators occur in `JsonGrammar` and `Documents` only, which no proof
module reaches.

## 5. Not modelled

Within the modelled parts: stamps that wrap at 2^32; more than
`MAX_THREAD_NUM` threads; targets that lock a mutex they hold, or end a thread
that holds one; the memory before `csTable` that the endless search of
`beforeThreadUnLock` would run into (it counts as an abort); the happens-before order of create and join in the
analysis, which does not know it either; lines of a log cut in the middle; a
failing `fopen`. Of the test programs, private and read-only data. Of the JSON
library: the older `Reader` (the same functions with fewer settings), the
styled and the stream writers, comments kept with values, `Path`, and the
operations of `Value` beyond building and reading one, none of which a tool of
this repository calls. Build and run scripts have no state.

## 6. Plan

Done: Tracer with its invariants and `SectionStack`; annotation; analysis with
its reference; scripted targets; replay, composed with the rest in `Pipeline`;
monitor and predictor; reader and writer of JSON. Proved: every invariant of
`Tracer`, `Detector`, `Monitor`, `Offline` and `JsonReader`, the refinements of
`SectionStack` by `Tracer` and of `Tracer` by `Monitor`, the types of the replay
and the order of locked patterns.

Left: an abstract `Reenactment` of what replay promises (first, inter, second,
each once, and then the rest of the target) for `Replay` to refine, of which
`LockedInOrder` is the safety part; the mutexes of a target as an abstract
lock service, to state what the PIN lock and they guarantee together.
