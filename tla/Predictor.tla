----------------------------- MODULE Predictor ------------------------------
(***************************************************************************)
(* The offline predictor (mypintool/predictor.py).  It reads the lines of  *)
(* file_mem_access one by one into a dictionary, and then lists for every  *)
(* two threads the local pairs and remote accesses that would make an      *)
(* atomicity violation ("CI").  It reads the other two files without using *)
(* them.  A trace is known by the number of its line.                      *)
(***************************************************************************)
EXTENDS Naturals, Sequences

VARIABLES
  trace_mem,  \* {addr: {"tid_list": tid_list, tid: {"optag", "trace_list"}}};
              \* the dictionaries of the threads are in "tids" here, and
              \* "thread_num" is the length of tid_list
  lines_read

predictorVars == <<trace_mem, lines_read>>

PredictorInit == trace_mem = <<>> /\ lines_read = 0

\* Mutant: a read after a write leaves the tag alone.
WritesStay(optag, op) == IF op = "W" /\ optag = 0 THEN 2 ELSE optag

\* "optag: 0,R; 1,W; 2,R&W".
NextOptag(optag, op) ==
  IF (op = "R" /\ optag = 1) \/ (op = "W" /\ optag = 0) THEN 2 ELSE optag

\* The dictionary of a thread at its first access of an address, and later.
NewTidDict(k, op) ==
  [optag |-> IF op = "R" THEN 0 ELSE 1, trace_list |-> <<k>>]
Appended(tid_dict, k, op) ==
  [optag |-> NextOptag(tid_dict.optag, op),
   trace_list |-> Append(tid_dict.trace_list, k)]

\* The dictionary of an address with the access of line k.
NewAddrDict(tid, k, op) ==
  [tid_list |-> <<tid>>, tids |-> [t \in {tid} |-> NewTidDict(k, op)]]
WithThread(addr_dict, tid, k, op) ==
  [tid_list |-> Append(addr_dict.tid_list, tid),
   tids |-> [t \in DOMAIN addr_dict.tids \cup {tid} |->
               IF t = tid THEN NewTidDict(k, op) ELSE addr_dict.tids[t]]]

ReadLine(lines) ==
  /\ lines_read < Len(lines)
  /\ lines_read' = lines_read + 1
  /\ LET k == lines_read'
         l == lines[k]
     IN  \/ /\ l.addr \in DOMAIN trace_mem
            /\ l.tid \in DOMAIN trace_mem[l.addr].tids
            /\ trace_mem' = [trace_mem EXCEPT ![l.addr].tids[l.tid] =
                               Appended(@, k, l.op)]
         \/ /\ l.addr \in DOMAIN trace_mem
            /\ l.tid \notin DOMAIN trace_mem[l.addr].tids
            /\ trace_mem' = [trace_mem EXCEPT ![l.addr] =
                               WithThread(@, l.tid, k, l.op)]
         \/ /\ l.addr \notin DOMAIN trace_mem
            /\ trace_mem' = [a \in DOMAIN trace_mem \cup {l.addr} |->
                               IF a = l.addr THEN NewAddrDict(l.tid, k, l.op)
                                             ELSE trace_mem[a]]

-----------------------------------------------------------------------------
(* The search, when every line has been read. *)

\* Mutant: only reads can interleave a pair that ends in a write.
RemoteOfSecond(first, second) == IF second = "W" THEN "R" ELSE "W"

\* What find_CI_from_thread_pair looks for on the other side of a pair: the
\* writes (find_write_trace), or the reads (find_read_trace).
RemoteOp(first, second) == IF first = "W" /\ second = "W" THEN "R" ELSE "W"

\* The entries <<first, second, inter>> with the pair in tlist0.
OneWay(lines, tlist0, tlist1) ==
  {<<tlist0[c[1]], tlist0[c[2]], tlist1[c[3]]>> : c \in
     {c \in (DOMAIN tlist0) \X (DOMAIN tlist0) \X (DOMAIN tlist1) :
        /\ c[1] < c[2]
        /\ lines[tlist1[c[3]]].op =
             RemoteOp(lines[tlist0[c[1]]].op, lines[tlist0[c[2]]].op)}}

find_CI_from_thread_pair(lines, tid_dict0, tid_dict1) ==
  LET tags == {tid_dict0.optag, tid_dict1.optag}
  IN  IF tags = {0} \/ tags = {1} THEN {}
      ELSE OneWay(lines, tid_dict0.trace_list, tid_dict1.trace_list)
             \cup OneWay(lines, tid_dict1.trace_list, tid_dict0.trace_list)

\* What is printed after "result".
CI_list(lines) ==
  UNION {LET tid_list == trace_mem[addr].tid_list
             tids     == trace_mem[addr].tids
         IN  UNION {find_CI_from_thread_pair(lines, tids[tid_list[p[1]]],
                                             tids[tid_list[p[2]]]) :
                    p \in {p \in (DOMAIN tid_list) \X (DOMAIN tid_list) :
                                    p[1] < p[2]}} :
         addr \in DOMAIN trace_mem}
=============================================================================
