--------------------------- MODULE OfflineProofs ----------------------------
(***************************************************************************)
(* The offline half: the predictor finds exactly the violations that the   *)
(* lines of the log can hold, and all that the analysis of the tracing     *)
(* tool reports.                                                           *)
(***************************************************************************)
EXTENDS Offline, MonitorProofs

\* What is proved of the analysis.
D == INSTANCE DetectorProofs WITH AnalysisEnabled <- TRUE

-----------------------------------------------------------------------------
(* What the dictionaries hold after n lines. *)

LineSet == [tid : Thread, op : {"R", "W"}, time : Nat, ip : Inst, addr : Addr]

\* Line k is an access of address a by thread t.
Of(lines, k, a, t) == lines[k].addr = a /\ lines[k].tid = t

\* The list of a thread names its lines, each once and in order.
Lists(lines, n, a, t, list) ==
  /\ list \in Seq(1 .. n)
  /\ \A i \in DOMAIN list : Of(lines, list[i], a, t)
  /\ \A k \in 1 .. n : Of(lines, k, a, t) => \E i \in DOMAIN list : list[i] = k
  /\ \A i, j \in DOMAIN list : i < j => list[i] < list[j]

\* Tag 0 and tag 1 are true of every line of the thread.
Tags(lines, n, a, t, optag) ==
  /\ optag \in {0, 1, 2}
  /\ \A k \in 1 .. n : Of(lines, k, a, t) =>
       /\ optag = 0 => lines[k].op = "R"
       /\ optag = 1 => lines[k].op = "W"

ThreadRead(lines, n, a, t, tid_dict) ==
  /\ Lists(lines, n, a, t, tid_dict.trace_list)
  /\ Tags(lines, n, a, t, tid_dict.optag)

\* tid_list names the threads of the address, each once.
Names(tid_list, S) ==
  /\ tid_list \in Seq(S)
  /\ \A t \in S : \E i \in DOMAIN tid_list : tid_list[i] = t
  /\ \A i, j \in DOMAIN tid_list : i # j => tid_list[i] # tid_list[j]

ThreadsOf(lines, n, a) == {lines[k].tid : k \in {k \in 1 .. n : lines[k].addr = a}}

AddrRead(lines, n, a, addr_dict) ==
  LET S == ThreadsOf(lines, n, a)
  IN  /\ addr_dict = [tid_list |-> addr_dict.tid_list, tids |-> addr_dict.tids]
      /\ addr_dict.tids = [t \in S |-> addr_dict.tids[t]]
      /\ Names(addr_dict.tid_list, S)
      /\ \A t \in S : ThreadRead(lines, n, a, t, addr_dict.tids[t])

AddrsOf(lines, n) == {lines[k].addr : k \in 1 .. n}

MemRead(lines, n, mem) ==
  /\ mem = [a \in AddrsOf(lines, n) |-> mem[a]]
  /\ \A a \in AddrsOf(lines, n) : AddrRead(lines, n, a, mem[a])

\* Another line leaves the dictionary of a thread alone that it is not of.
LEMMA ThreadKept ==
  ASSUME NEW lines, NEW n \in Nat, NEW a, NEW t, NEW d, ThreadRead(lines, n, a, t, d),
         ~Of(lines, n + 1, a, t)
  PROVE  ThreadRead(lines, n + 1, a, t, d)
<1>1. Lists(lines, n + 1, a, t, d.trace_list)
  <2>1. Seq(1 .. n) \subseteq Seq(1 .. n + 1) /\ \A k \in 1 .. n + 1 : k \in 1 .. n \/ k = n + 1
    BY SeqMonotonic
  <2> QED BY <2>1 DEF ThreadRead, Lists
<1>2. Tags(lines, n + 1, a, t, d.optag)
  <2>1. \A k \in 1 .. n + 1 : k \in 1 .. n \/ k = n + 1
    OBVIOUS
  <2> QED BY <2>1 DEF ThreadRead, Tags
<1> QED BY <1>1, <1>2 DEF ThreadRead

\* The first line of a thread makes its dictionary.
LEMMA ThreadNew ==
  ASSUME NEW lines, NEW n \in Nat, NEW a, NEW t, Of(lines, n + 1, a, t),
         \A k \in 1 .. n : ~Of(lines, k, a, t), lines[n + 1].op \in {"R", "W"}
  PROVE  ThreadRead(lines, n + 1, a, t, NewTidDict(n + 1, lines[n + 1].op))
<1> DEFINE d == NewTidDict(n + 1, lines[n + 1].op)
<1>1. d.trace_list = <<n + 1>> /\ d.optag = IF lines[n + 1].op = "R" THEN 0 ELSE 1
  BY DEF NewTidDict
<1>2. \A k \in 1 .. n + 1 : k \in 1 .. n \/ k = n + 1
  OBVIOUS
<1> HIDE DEF d
<1>3. Lists(lines, n + 1, a, t, d.trace_list)
  <2>1. /\ d.trace_list \in Seq(1 .. n + 1) /\ DOMAIN d.trace_list = {1}
        /\ d.trace_list[1] = n + 1
    BY <1>1
  <2> QED BY <1>2, <2>1 DEF Lists
<1>4. Tags(lines, n + 1, a, t, d.optag)
  BY <1>1, <1>2 DEF Tags
<1> QED BY <1>3, <1>4 DEF ThreadRead, d

\* Its later lines are appended.
LEMMA ThreadMore ==
  ASSUME NEW lines, NEW n \in Nat, NEW a, NEW t, NEW d, ThreadRead(lines, n, a, t, d),
         Of(lines, n + 1, a, t), lines[n + 1].op \in {"R", "W"}
  PROVE  ThreadRead(lines, n + 1, a, t, Appended(d, n + 1, lines[n + 1].op))
<1> DEFINE e == Appended(d, n + 1, lines[n + 1].op)
           list == d.trace_list
           more == e.trace_list
<1>1. more = Append(list, n + 1) /\ e.optag = NextOptag(d.optag, lines[n + 1].op)
  BY DEF Appended
<1>2. \A k \in 1 .. n + 1 : k \in 1 .. n \/ k = n + 1
  OBVIOUS
<1>3. Tags(lines, n + 1, a, t, e.optag)
  <2>1. Tags(lines, n, a, t, d.optag)
    BY DEF ThreadRead
  <2> HIDE DEF e
  <2> QED BY <1>1, <1>2, <2>1 DEF Tags, NextOptag
<1>4. Lists(lines, n, a, t, list)
  BY DEF ThreadRead
<1> HIDE DEF e, list
<1>5. Lists(lines, n + 1, a, t, more)
  <2>1. list \in Seq(1 .. n + 1) /\ Len(list) \in Nat /\ DOMAIN list = 1 .. Len(list)
        /\ \A i \in DOMAIN list : list[i] \in 1 .. n
    <3>1. Seq(1 .. n) \subseteq Seq(1 .. n + 1)
      BY SeqMonotonic
    <3> QED BY <1>4, <3>1, ElementOfSeq, LenProperties DEF Lists
  <2>2. /\ more \in Seq(1 .. n + 1) /\ DOMAIN more = 1 .. Len(list) + 1
        /\ more[Len(list) + 1] = n + 1
        /\ \A i \in DOMAIN list : more[i] = list[i]
    <3>1. n + 1 \in 1 .. n + 1
      OBVIOUS
    <3> QED BY <1>1, <2>1, <3>1, AppendProperties
  <2>3. \A i \in DOMAIN more : i \in DOMAIN list \/ i = Len(list) + 1
    BY <2>1, <2>2
  <2>4. \A i \in DOMAIN list : i \in DOMAIN more /\ i < Len(list) + 1
    BY <2>1, <2>2
  <2>5. Len(list) + 1 \in DOMAIN more
    BY <2>1, <2>2
  <2>6. \A i \in DOMAIN more : Of(lines, more[i], a, t)
    BY <1>4, <2>2, <2>3 DEF Lists
  <2>7. ASSUME NEW k \in 1 .. n + 1, Of(lines, k, a, t) PROVE \E i \in DOMAIN more : more[i] = k
    BY <1>2, <1>4, <2>2, <2>4, <2>5, <2>7 DEF Lists
  <2>8. ASSUME NEW i \in DOMAIN more, NEW j \in DOMAIN more, i < j PROVE more[i] < more[j]
    <3>1. i \in DOMAIN list
      BY <2>1, <2>2, <2>8
    <3>2. CASE j \in DOMAIN list
      BY <1>4, <2>2, <2>8, <3>1, <3>2 DEF Lists
    <3>3. CASE j = Len(list) + 1
      <4>1. more[i] \in 1 .. n /\ more[j] = n + 1
        BY <2>1, <2>2, <3>1, <3>3
      <4> QED BY <4>1
    <3> QED BY <2>3, <3>2, <3>3
  <2> HIDE DEF more
  <2> QED BY <2>2, <2>6, <2>7, <2>8 DEF Lists
<1> QED BY <1>3, <1>5 DEF ThreadRead, e

\* One more line in the dictionary of its address.
LEMMA AddrMore ==
  ASSUME NEW lines \in Seq(LineSet), NEW n \in Nat, n + 1 \in DOMAIN lines,
         NEW a, NEW d, AddrRead(lines, n, a, d), lines[n + 1].addr = a
  PROVE  LET t == lines[n + 1].tid
             op == lines[n + 1].op
         IN  /\ t \in DOMAIN d.tids =>
                  AddrRead(lines, n + 1, a,
                           [d EXCEPT !.tids[t] = Appended(d.tids[t], n + 1, op)])
             /\ t \notin DOMAIN d.tids => AddrRead(lines, n + 1, a, WithThread(d, t, n + 1, op))
<1> DEFINE t == lines[n + 1].tid
           op == lines[n + 1].op
           Old == ThreadsOf(lines, n, a)
           New == ThreadsOf(lines, n + 1, a)
<1>1. op \in {"R", "W"} /\ Of(lines, n + 1, a, t)
  <2>1. lines[n + 1] \in LineSet
    BY ElementOfSeq
  <2> QED BY <2>1 DEF LineSet, Of
<1>2. New = Old \cup {t}
  <2>1. \A k : k \in 1 .. n + 1 <=> k \in 1 .. n \/ k = n + 1
    OBVIOUS
  <2> QED BY <2>1 DEF ThreadsOf
<1>3. /\ d = [tid_list |-> d.tid_list, tids |-> d.tids]
      /\ d.tids = [u \in Old |-> d.tids[u]]
      /\ Names(d.tid_list, Old)
      /\ \A u \in Old : ThreadRead(lines, n, a, u, d.tids[u])
  BY DEF AddrRead
<1>4. \A u : u # t => ~Of(lines, n + 1, a, u)
  BY DEF Of
<1> HIDE DEF t, op, Old, New
<1>5. ASSUME t \in DOMAIN d.tids
      PROVE  AddrRead(lines, n + 1, a, [d EXCEPT !.tids[t] = Appended(d.tids[t], n + 1, op)])
  <2> DEFINE e == [d EXCEPT !.tids[t] = Appended(d.tids[t], n + 1, op)]
  <2>1. t \in Old /\ New = Old
    BY <1>2, <1>3, <1>5
  <2>2. /\ e = [tid_list |-> d.tid_list, tids |-> e.tids]
        /\ e.tid_list = d.tid_list
        /\ e.tids = [u \in Old |-> IF u = t THEN Appended(d.tids[t], n + 1, op) ELSE d.tids[u]]
    BY <1>3
  <2> HIDE DEF e
  <2>3. ASSUME NEW u \in New PROVE ThreadRead(lines, n + 1, a, u, e.tids[u])
    <3>1. CASE u = t
      <4>1. e.tids[u] = Appended(d.tids[t], n + 1, op)
        BY <2>1, <2>2, <3>1
      <4>2. ThreadRead(lines, n, a, t, d.tids[t])
        BY <1>3, <2>1
      <4> QED BY <1>1, <3>1, <4>1, <4>2, ThreadMore DEF op
    <3>2. CASE u # t
      <4>1. e.tids[u] = d.tids[u] /\ ThreadRead(lines, n, a, u, d.tids[u])
        BY <1>3, <2>1, <2>2, <3>2
      <4> QED BY <1>4, <3>2, <4>1, ThreadKept
    <3> QED BY <3>1, <3>2
  <2>4. e.tids = [u \in New |-> e.tids[u]] /\ Names(e.tid_list, New)
    BY <1>3, <2>1, <2>2
  <2>5. AddrRead(lines, n + 1, a, e)
    BY <2>2, <2>3, <2>4 DEF AddrRead, New
  <2> QED BY <2>5 DEF e
<1>6. ASSUME t \notin DOMAIN d.tids
      PROVE  AddrRead(lines, n + 1, a, WithThread(d, t, n + 1, op))
  <2> DEFINE e == WithThread(d, t, n + 1, op)
  <2>1. DOMAIN d.tids = Old
    BY <1>3
  <2>2. /\ e = [tid_list |-> e.tid_list, tids |-> e.tids]
        /\ e.tid_list = Append(d.tid_list, t)
        /\ e.tids = [u \in New |-> IF u = t THEN NewTidDict(n + 1, op) ELSE d.tids[u]]
    BY <1>2, <2>1 DEF WithThread
  <2> HIDE DEF e
  <2>3. t \notin Old
    BY <1>6, <2>1
  <2>4. \A k \in 1 .. n : ~Of(lines, k, a, t)
    BY <2>3 DEF Old, ThreadsOf, Of
  <2>5. ASSUME NEW u \in New PROVE ThreadRead(lines, n + 1, a, u, e.tids[u])
    <3>1. CASE u = t
      BY <1>1, <2>2, <2>4, <3>1, ThreadNew DEF op
    <3>2. CASE u # t
      <4>1. e.tids[u] = d.tids[u] /\ ThreadRead(lines, n, a, u, d.tids[u])
        BY <1>2, <1>3, <2>2, <3>2
      <4> QED BY <1>4, <3>2, <4>1, ThreadKept
    <3> QED BY <3>1, <3>2
  <2>6. Names(e.tid_list, New)
    <3> DEFINE list == d.tid_list
               more == e.tid_list
    <3>1. Names(list, Old)
      BY <1>3
    <3>2. more = Append(list, t)
      BY <2>2
    <3> HIDE DEF list, more
    <3>3. list \in Seq(New) /\ Len(list) \in Nat /\ DOMAIN list = 1 .. Len(list)
          /\ (\A i \in DOMAIN list : list[i] \in Old)
      <4>1. Seq(Old) \subseteq Seq(New)
        BY <1>2, SeqMonotonic
      <4> QED BY <3>1, <4>1, ElementOfSeq, LenProperties DEF Names
    <3>4. /\ more \in Seq(New) /\ DOMAIN more = 1 .. Len(list) + 1
          /\ more[Len(list) + 1] = t
          /\ \A i \in DOMAIN list : more[i] = list[i]
      <4>1. t \in New
        BY <1>2
      <4> QED BY <3>2, <3>3, <4>1, AppendProperties
    <3>5. \A i \in DOMAIN more : i \in DOMAIN list \/ i = Len(list) + 1
      BY <3>3, <3>4
    <3>6. \A i \in DOMAIN list : i \in DOMAIN more /\ i # Len(list) + 1
      BY <3>3, <3>4
    <3>7. Len(list) + 1 \in DOMAIN more
      BY <3>3, <3>4
    <3>8. \A u \in New : \E i \in DOMAIN more : more[i] = u
      BY <1>2, <3>1, <3>4, <3>6, <3>7 DEF Names
    <3>9. \A i, j \in DOMAIN more : i # j => more[i] # more[j]
      BY <2>3, <3>1, <3>3, <3>4, <3>5 DEF Names
    <3> HIDE DEF more
    <3>10. Names(more, New)
      BY <3>4, <3>8, <3>9 DEF Names
    <3> QED BY <3>10 DEF more
  <2>7. e.tids = [u \in New |-> e.tids[u]]
    BY <2>2
  <2>8. AddrRead(lines, n + 1, a, e)
    BY <2>2, <2>5, <2>6, <2>7 DEF AddrRead, New
  <2> QED BY <2>8 DEF e
<1> QED BY <1>5, <1>6 DEF t, op

\* The first line of an address makes its dictionary.
LEMMA AddrNew ==
  ASSUME NEW lines \in Seq(LineSet), NEW n \in Nat, n + 1 \in DOMAIN lines,
         lines[n + 1].addr \notin AddrsOf(lines, n)
  PROVE  AddrRead(lines, n + 1, lines[n + 1].addr,
                  NewAddrDict(lines[n + 1].tid, n + 1, lines[n + 1].op))
<1> DEFINE a == lines[n + 1].addr
           t == lines[n + 1].tid
           op == lines[n + 1].op
           d == NewAddrDict(t, n + 1, op)
<1>1. op \in {"R", "W"} /\ Of(lines, n + 1, a, t)
  <2>1. lines[n + 1] \in LineSet
    BY ElementOfSeq
  <2> QED BY <2>1 DEF LineSet, Of
<1>2. \A k \in 1 .. n : lines[k].addr # a
  BY DEF AddrsOf
<1>3. ThreadsOf(lines, n + 1, a) = {t}
  <2>1. \A k : k \in 1 .. n + 1 <=> k \in 1 .. n \/ k = n + 1
    OBVIOUS
  <2> QED BY <1>2, <2>1 DEF ThreadsOf
<1>4. ThreadRead(lines, n + 1, a, t, NewTidDict(n + 1, op))
  BY <1>1, <1>2, ThreadNew DEF Of
<1>5. /\ d = [tid_list |-> d.tid_list, tids |-> d.tids]
      /\ d.tid_list = <<t>>
      /\ d.tids = [u \in {t} |-> NewTidDict(n + 1, op)]
  BY DEF NewAddrDict
<1> HIDE DEF a, t, op, d
<1>6. Names(<<t>>, {t})
  <2>1. <<t>> \in Seq({t}) /\ DOMAIN <<t>> = {1} /\ <<t>>[1] = t
    OBVIOUS
  <2> QED BY <2>1 DEF Names
<1>7. AddrRead(lines, n + 1, a, d)
  BY <1>3, <1>4, <1>5, <1>6 DEF AddrRead
<1> QED BY <1>7 DEF a, d, t, op

\* Another line leaves the dictionary of an address alone that it is not of.
LEMMA AddrKept ==
  ASSUME NEW lines, NEW n \in Nat, NEW a, NEW d, AddrRead(lines, n, a, d),
         lines[n + 1].addr # a
  PROVE  AddrRead(lines, n + 1, a, d)
<1>1. ThreadsOf(lines, n + 1, a) = ThreadsOf(lines, n, a)
  <2>1. \A k : k \in 1 .. n + 1 <=> k \in 1 .. n \/ k = n + 1
    OBVIOUS
  <2> QED BY <2>1 DEF ThreadsOf
<1>2. ASSUME NEW t, ThreadRead(lines, n, a, t, d.tids[t])
      PROVE  ThreadRead(lines, n + 1, a, t, d.tids[t])
  <2>1. ~Of(lines, n + 1, a, t)
    BY DEF Of
  <2> QED BY <1>2, <2>1, ThreadKept
<1> QED BY <1>1, <1>2 DEF AddrRead

\* Reading a line keeps the dictionaries true to the lines read.
LEMMA LineStep ==
  ASSUME NEW lines \in Seq(LineSet), lines_read \in Nat,
         MemRead(lines, lines_read, trace_mem), ReadLine(lines)
  PROVE  /\ lines_read' = lines_read + 1 /\ lines_read' \in 1 .. Len(lines)
         /\ MemRead(lines, lines_read', trace_mem')
<1> DEFINE n == lines_read
           k == n + 1
           a == lines[k].addr
           t == lines[k].tid
           op == lines[k].op
           Old == AddrsOf(lines, n)
           New == AddrsOf(lines, k)
           mem == trace_mem
<1>1. /\ lines_read' = k /\ n < Len(lines) /\ n \in Nat
      /\ \/ /\ a \in DOMAIN mem /\ t \in DOMAIN mem[a].tids
            /\ trace_mem' = [mem EXCEPT ![a].tids[t] = Appended(mem[a].tids[t], k, op)]
         \/ /\ a \in DOMAIN mem /\ t \notin DOMAIN mem[a].tids
            /\ trace_mem' = [mem EXCEPT ![a] = WithThread(mem[a], t, k, op)]
         \/ /\ a \notin DOMAIN mem
            /\ trace_mem' = [b \in DOMAIN mem \cup {a} |->
                               IF b = a THEN NewAddrDict(t, k, op) ELSE mem[b]]
  BY DEF ReadLine
<1>2. k \in 1 .. Len(lines) /\ k \in DOMAIN lines
  BY <1>1, LenProperties
<1>3. New = Old \cup {a}
  <2>1. \A j : j \in 1 .. k <=> j \in 1 .. n \/ j = k
    BY <1>1
  <2> QED BY <2>1 DEF AddrsOf
<1>4. /\ mem = [b \in Old |-> mem[b]]
      /\ \A b \in Old : AddrRead(lines, n, b, mem[b])
  BY DEF MemRead
<1> HIDE DEF Old, New, mem
<1>5. \A b \in Old : b # a => AddrRead(lines, k, b, mem[b])
  BY <1>1, <1>4, AddrKept
<1>6. SUFFICES MemRead(lines, k, trace_mem')
  BY <1>1, <1>2
<1>7. ASSUME NEW d, AddrRead(lines, k, a, d),
             trace_mem' = [b \in New |-> IF b = a THEN d ELSE mem[b]]
      PROVE  MemRead(lines, k, trace_mem')
  <2>1. ASSUME NEW b \in New PROVE AddrRead(lines, k, b, trace_mem'[b])
    BY <1>3, <1>5, <1>7
  <2>2. trace_mem' = [b \in New |-> trace_mem'[b]]
    BY <1>7
  <2> QED BY <2>1, <2>2 DEF MemRead, New
<1>8. CASE a \in DOMAIN mem /\ t \in DOMAIN mem[a].tids
  <2> DEFINE d == [mem[a] EXCEPT !.tids[t] = Appended(mem[a].tids[t], k, op)]
  <2>1. a \in Old
    BY <1>4, <1>8
  <2>2. trace_mem' = [b \in New |-> IF b = a THEN d ELSE mem[b]]
    <3>1. trace_mem' = [mem EXCEPT ![a] = d]
      BY <1>1, <1>8
    <3>2. DOMAIN mem = Old /\ New = Old
      BY <1>3, <1>4, <2>1
    <3> HIDE DEF d
    <3> QED BY <3>1, <3>2
  <2>3. AddrRead(lines, k, a, d)
    BY <1>1, <1>2, <1>4, <1>8, <2>1, AddrMore
  <2> HIDE DEF d
  <2> QED BY <1>7, <2>2, <2>3
<1>9. CASE a \in DOMAIN mem /\ t \notin DOMAIN mem[a].tids
  <2> DEFINE d == WithThread(mem[a], t, k, op)
  <2>1. a \in Old
    BY <1>4, <1>9
  <2>2. trace_mem' = [b \in New |-> IF b = a THEN d ELSE mem[b]]
    <3>1. trace_mem' = [mem EXCEPT ![a] = d]
      BY <1>1, <1>9
    <3>2. DOMAIN mem = Old /\ New = Old
      BY <1>3, <1>4, <2>1
    <3> HIDE DEF d
    <3> QED BY <3>1, <3>2
  <2>3. AddrRead(lines, k, a, d)
    BY <1>1, <1>2, <1>4, <1>9, <2>1, AddrMore
  <2> HIDE DEF d
  <2> QED BY <1>7, <2>2, <2>3
<1>10. CASE a \notin DOMAIN mem
  <2> DEFINE d == NewAddrDict(t, k, op)
  <2>1. DOMAIN mem = Old
    BY <1>4
  <2>2. trace_mem' = [b \in New |-> IF b = a THEN d ELSE mem[b]]
    BY <1>1, <1>3, <1>10, <2>1
  <2>3. AddrRead(lines, k, a, d)
    BY <1>1, <1>2, <1>10, <2>1, AddrNew DEF Old
  <2> HIDE DEF d
  <2> QED BY <1>7, <2>2, <2>3
<1> QED BY <1>8, <1>9, <1>10

-----------------------------------------------------------------------------
(* The search finds the violations of the lines read. *)

\* The predictor looks for the one kind of remote access that makes a pair
\* unserializable.
LEMMA RemoteExact ==
  ASSUME NEW first, NEW second, NEW inter,
         first.op \in {"R", "W"}, second.op \in {"R", "W"}, inter.op \in {"R", "W"}
  PROVE  Unserializable(first, inter, second)
           <=> inter.op = RemoteOp(first.op, second.op)
<1>1. D!Unserializable(first, inter, second)
        <=> inter.op = D!InterleaveOp(first, second)
  BY D!InterleaveExact, MonitorAssumption
<1>2. D!InterleaveOp(first, second) = RemoteOp(first.op, second.op)
  BY DEF D!InterleaveOp, RemoteOp
<1>3. D!Unserializable(first, inter, second) <=> Unserializable(first, inter, second)
  BY DEF D!Unserializable, Unserializable, D!Outcome, Outcome, D!After, After, D!Saw,
     Saw, D!Oper, Oper
<1> QED BY <1>1, <1>2, <1>3

\* What OneWay lists.
LEMMA OneWayMember ==
  ASSUME NEW lines, NEW list0, NEW list1, NEW v
  PROVE  v \in OneWay(lines, list0, list1) <=>
           \E i, j \in DOMAIN list0 : \E k \in DOMAIN list1 :
             /\ v = <<list0[i], list0[j], list1[k]>> /\ i < j
             /\ lines[list1[k]].op = RemoteOp(lines[list0[i]].op, lines[list0[j]].op)
<1>1. ASSUME v \in OneWay(lines, list0, list1)
      PROVE  \E i, j \in DOMAIN list0 : \E k \in DOMAIN list1 :
               /\ v = <<list0[i], list0[j], list1[k]>> /\ i < j
               /\ lines[list1[k]].op = RemoteOp(lines[list0[i]].op, lines[list0[j]].op)
  <2>1. PICK c \in (DOMAIN list0) \X (DOMAIN list0) \X (DOMAIN list1) :
          /\ v = <<list0[c[1]], list0[c[2]], list1[c[3]]>> /\ c[1] < c[2]
          /\ lines[list1[c[3]]].op = RemoteOp(lines[list0[c[1]]].op, lines[list0[c[2]]].op)
    BY <1>1 DEF OneWay
  <2>2. c[1] \in DOMAIN list0 /\ c[2] \in DOMAIN list0 /\ c[3] \in DOMAIN list1
    OBVIOUS
  <2> QED BY <2>1, <2>2
<1>2. ASSUME NEW i \in DOMAIN list0, NEW j \in DOMAIN list0, NEW k \in DOMAIN list1,
             v = <<list0[i], list0[j], list1[k]>>, i < j,
             lines[list1[k]].op = RemoteOp(lines[list0[i]].op, lines[list0[j]].op)
      PROVE  v \in OneWay(lines, list0, list1)
  <2> DEFINE c == <<i, j, k>>
  <2>1. /\ c \in (DOMAIN list0) \X (DOMAIN list0) \X (DOMAIN list1)
        /\ c[1] = i /\ c[2] = j /\ c[3] = k
    OBVIOUS
  <2> HIDE DEF c
  <2> QED BY <1>2, <2>1 DEF OneWay
<1> QED BY <1>1, <1>2

\* An unserializable interleaving at address a of a pair of t by u.
Between(lines, a, t, u, v) ==
  /\ v \in (DOMAIN lines) \X (DOMAIN lines) \X (DOMAIN lines)
  /\ Of(lines, v[1], a, t) /\ Of(lines, v[2], a, t) /\ Of(lines, v[3], a, u)
  /\ v[1] < v[2]
  /\ Unserializable(lines[v[1]], lines[v[3]], lines[v[2]])

\* Of the lists of two threads, one way of the search finds the violations of
\* one kind.
LEMMA OneWayExact ==
  ASSUME NEW lines \in Seq(LineSet), NEW a, NEW t, NEW u, NEW list0, NEW list1,
         Lists(lines, Len(lines), a, t, list0), Lists(lines, Len(lines), a, u, list1),
         NEW v
  PROVE  v \in OneWay(lines, list0, list1) <=> Between(lines, a, t, u, v)
<1>1. /\ Len(lines) \in Nat /\ DOMAIN lines = 1 .. Len(lines)
      /\ \A k \in DOMAIN lines : lines[k].op \in {"R", "W"}
  <2>1. \A k \in DOMAIN lines : lines[k] \in LineSet
    BY ElementOfSeq
  <2> QED BY <2>1, LenProperties DEF LineSet
<1>2. ASSUME NEW b, NEW list, Lists(lines, Len(lines), a, b, list)
      PROVE  /\ DOMAIN list = 1 .. Len(list) /\ Len(list) \in Nat
             /\ \A i \in DOMAIN list : list[i] \in DOMAIN lines
  BY <1>1, <1>2, ElementOfSeq, LenProperties DEF Lists
<1>3. ASSUME v \in OneWay(lines, list0, list1) PROVE Between(lines, a, t, u, v)
  <2>1. PICK i \in DOMAIN list0, j \in DOMAIN list0, k \in DOMAIN list1 :
          /\ v = <<list0[i], list0[j], list1[k]>> /\ i < j
          /\ lines[list1[k]].op = RemoteOp(lines[list0[i]].op, lines[list0[j]].op)
    BY <1>3, OneWayMember
  <2>2. list0[i] \in DOMAIN lines /\ list0[j] \in DOMAIN lines /\ list1[k] \in DOMAIN lines
    BY <1>2
  <2>3. /\ Of(lines, list0[i], a, t) /\ Of(lines, list0[j], a, t) /\ Of(lines, list1[k], a, u)
        /\ list0[i] < list0[j]
    BY <2>1 DEF Lists
  <2>4. Unserializable(lines[list0[i]], lines[list1[k]], lines[list0[j]])
    BY <1>1, <2>1, <2>2, RemoteExact
  <2> QED BY <2>1, <2>2, <2>3, <2>4 DEF Between
<1>4. ASSUME Between(lines, a, t, u, v) PROVE v \in OneWay(lines, list0, list1)
  <2>1. /\ v = <<v[1], v[2], v[3]>>
        /\ v[1] \in DOMAIN lines /\ v[2] \in DOMAIN lines /\ v[3] \in DOMAIN lines
        /\ Of(lines, v[1], a, t) /\ Of(lines, v[2], a, t) /\ Of(lines, v[3], a, u)
        /\ v[1] < v[2]
        /\ Unserializable(lines[v[1]], lines[v[3]], lines[v[2]])
    BY <1>4 DEF Between
  <2>2. lines[v[3]].op = RemoteOp(lines[v[1]].op, lines[v[2]].op)
    BY <1>1, <2>1, RemoteExact
  <2>3. PICK i \in DOMAIN list0 : list0[i] = v[1]
    BY <1>1, <2>1 DEF Lists
  <2>4. PICK j \in DOMAIN list0 : list0[j] = v[2]
    BY <1>1, <2>1 DEF Lists
  <2>5. PICK k \in DOMAIN list1 : list1[k] = v[3]
    BY <1>1, <2>1 DEF Lists
  <2>6. i < j
    <3>1. i \in Nat /\ j \in Nat /\ v[1] \in Nat /\ v[2] \in Nat
      BY <1>1, <1>2, <2>1
    <3>2. i # j
      BY <2>1, <2>3, <2>4, <3>1
    <3>3. ~ (j < i)
      <4> SUFFICES ASSUME j < i PROVE FALSE
        OBVIOUS
      <4>1. v[2] < v[1]
        BY <2>3, <2>4 DEF Lists
      <4> QED BY <2>1, <3>1, <4>1
    <3> QED BY <3>1, <3>2, <3>3
  <2> QED BY <2>1, <2>2, <2>3, <2>4, <2>5, <2>6, OneWayMember
<1> QED BY <1>3, <1>4

\* Between two threads that only read, or only write, there is no violation.
LEMMA TagsLoseNothing ==
  ASSUME NEW lines \in Seq(LineSet), NEW a, NEW t, NEW u, NEW tag \in {0, 1},
         Tags(lines, Len(lines), a, t, tag), Tags(lines, Len(lines), a, u, tag), NEW v
  PROVE  ~Between(lines, a, t, u, v)
<1> SUFFICES ASSUME Between(lines, a, t, u, v) PROVE FALSE
  OBVIOUS
<1>1. /\ v[1] \in DOMAIN lines /\ v[2] \in DOMAIN lines /\ v[3] \in DOMAIN lines
      /\ Of(lines, v[1], a, t) /\ Of(lines, v[2], a, t) /\ Of(lines, v[3], a, u)
      /\ Unserializable(lines[v[1]], lines[v[3]], lines[v[2]])
  BY DEF Between
<1>2. \A k \in DOMAIN lines : k \in 1 .. Len(lines) /\ lines[k].op \in {"R", "W"}
  <2>1. \A k \in DOMAIN lines : lines[k] \in LineSet
    BY ElementOfSeq
  <2> QED BY <2>1, LenProperties DEF LineSet
<1>3. lines[v[3]].op = RemoteOp(lines[v[1]].op, lines[v[2]].op)
  BY <1>1, <1>2, RemoteExact
<1> QED BY <1>1, <1>2, <1>3 DEF Tags, RemoteOp

\* What is found between two threads.
LEMMA FoundBetween ==
  ASSUME NEW lines \in Seq(LineSet), NEW a, NEW t, NEW u, NEW d, NEW e,
         ThreadRead(lines, Len(lines), a, t, d), ThreadRead(lines, Len(lines), a, u, e),
         NEW v
  PROVE  v \in find_CI_from_thread_pair(lines, d, e) <=>
           Between(lines, a, t, u, v) \/ Between(lines, a, u, t, v)
<1>1. v \in OneWay(lines, d.trace_list, e.trace_list) <=> Between(lines, a, t, u, v)
  BY OneWayExact DEF ThreadRead
<1>2. v \in OneWay(lines, e.trace_list, d.trace_list) <=> Between(lines, a, u, t, v)
  BY OneWayExact DEF ThreadRead
<1> DEFINE tags == {d.optag, e.optag}
<1>3. CASE tags = {0} \/ tags = {1}
  <2>1. d.optag = e.optag /\ d.optag \in {0, 1}
    <3>1. d.optag \in tags /\ e.optag \in tags
      OBVIOUS
    <3> HIDE DEF tags
    <3> QED BY <1>3, <3>1
  <2>2. ~Between(lines, a, t, u, v) /\ ~Between(lines, a, u, t, v)
    BY <2>1, TagsLoseNothing DEF ThreadRead
  <2> QED BY <1>3, <2>2 DEF find_CI_from_thread_pair
<1>4. CASE ~(tags = {0} \/ tags = {1})
  BY <1>1, <1>2, <1>4 DEF find_CI_from_thread_pair
<1> QED BY <1>3, <1>4

\* What is printed.
LEMMA Printed ==
  ASSUME NEW lines, NEW v
  PROVE  v \in CI_list(lines) <=>
           \E a \in DOMAIN trace_mem : \E i, j \in DOMAIN trace_mem[a].tid_list :
             /\ i < j
             /\ v \in find_CI_from_thread_pair(lines,
                        trace_mem[a].tids[trace_mem[a].tid_list[i]],
                        trace_mem[a].tids[trace_mem[a].tid_list[j]])
<1> DEFINE tid_list(a) == trace_mem[a].tid_list
           found(a, p) == find_CI_from_thread_pair(lines,
                            trace_mem[a].tids[trace_mem[a].tid_list[p[1]]],
                            trace_mem[a].tids[trace_mem[a].tid_list[p[2]]])
           pairs(a) == {p \in (DOMAIN tid_list(a)) \X (DOMAIN tid_list(a)) : p[1] < p[2]}
<1>1. CI_list(lines) = UNION {UNION {found(a, p) : p \in pairs(a)} : a \in DOMAIN trace_mem}
  BY DEF CI_list
<1>2. \A a : \A i, j \in DOMAIN tid_list(a) :
        i < j => /\ <<i, j>> \in pairs(a)
                 /\ found(a, <<i, j>>) =
                      find_CI_from_thread_pair(lines,
                        trace_mem[a].tids[trace_mem[a].tid_list[i]],
                        trace_mem[a].tids[trace_mem[a].tid_list[j]])
  OBVIOUS
<1>3. \A a : \A p \in pairs(a) :
        /\ p[1] \in DOMAIN tid_list(a) /\ p[2] \in DOMAIN tid_list(a) /\ p[1] < p[2]
        /\ found(a, p) = find_CI_from_thread_pair(lines,
                           trace_mem[a].tids[trace_mem[a].tid_list[p[1]]],
                           trace_mem[a].tids[trace_mem[a].tid_list[p[2]]])
  OBVIOUS
<1> HIDE DEF found, pairs
<1>4. v \in CI_list(lines) <=>
        \E a \in DOMAIN trace_mem : \E p \in pairs(a) : v \in found(a, p)
  BY <1>1
<1>5. ASSUME v \in CI_list(lines)
      PROVE  \E a \in DOMAIN trace_mem : \E i, j \in DOMAIN tid_list(a) :
               /\ i < j
               /\ v \in find_CI_from_thread_pair(lines,
                          trace_mem[a].tids[trace_mem[a].tid_list[i]],
                          trace_mem[a].tids[trace_mem[a].tid_list[j]])
  <2>1. PICK a \in DOMAIN trace_mem : \E p \in pairs(a) : v \in found(a, p)
    BY <1>4, <1>5
  <2>2. PICK p \in pairs(a) : v \in found(a, p)
    BY <2>1
  <2> QED BY <1>3, <2>2
<1>6. ASSUME NEW a \in DOMAIN trace_mem, NEW i \in DOMAIN tid_list(a),
             NEW j \in DOMAIN tid_list(a), i < j,
             v \in find_CI_from_thread_pair(lines,
                     trace_mem[a].tids[trace_mem[a].tid_list[i]],
                     trace_mem[a].tids[trace_mem[a].tid_list[j]])
      PROVE  v \in CI_list(lines)
  BY <1>2, <1>4, <1>6
<1> QED BY <1>5, <1>6

\* All of the violations of the lines read, and nothing else.
LEMMA PrintedExactly ==
  ASSUME NEW lines \in Seq(LineSet), MemRead(lines, Len(lines), trace_mem), NEW v
  PROVE  v \in CI_list(lines) <=>
           /\ v \in (DOMAIN lines) \X (DOMAIN lines) \X (DOMAIN lines)
           /\ Violation(lines, v)
<1> DEFINE n == Len(lines)
           mem == trace_mem
<1>1. /\ n \in Nat /\ DOMAIN lines = 1 .. n
  BY LenProperties
<1>2. /\ DOMAIN mem = AddrsOf(lines, n)
      /\ \A a \in AddrsOf(lines, n) : AddrRead(lines, n, a, mem[a])
  BY DEF MemRead
<1>3. ASSUME NEW a \in AddrsOf(lines, n)
      PROVE  /\ Names(mem[a].tid_list, ThreadsOf(lines, n, a))
             /\ \A t \in ThreadsOf(lines, n, a) : ThreadRead(lines, n, a, t, mem[a].tids[t])
  BY <1>2 DEF AddrRead
<1> HIDE DEF n, mem
<1>4. ASSUME v \in CI_list(lines)
      PROVE  /\ v \in (DOMAIN lines) \X (DOMAIN lines) \X (DOMAIN lines)
             /\ Violation(lines, v)
  <2>0. PICK a \in DOMAIN mem : \E i, j \in DOMAIN mem[a].tid_list :
          /\ i < j
          /\ v \in find_CI_from_thread_pair(lines, mem[a].tids[mem[a].tid_list[i]],
                                                   mem[a].tids[mem[a].tid_list[j]])
    BY <1>4, Printed DEF mem
  <2>1. PICK i \in DOMAIN mem[a].tid_list, j \in DOMAIN mem[a].tid_list :
          /\ i < j
          /\ v \in find_CI_from_thread_pair(lines, mem[a].tids[mem[a].tid_list[i]],
                                                   mem[a].tids[mem[a].tid_list[j]])
    BY <2>0
  <2> DEFINE t == mem[a].tid_list[i]
             u == mem[a].tid_list[j]
  <2>2. /\ t \in ThreadsOf(lines, n, a) /\ u \in ThreadsOf(lines, n, a) /\ t # u
    <3>1. Names(mem[a].tid_list, ThreadsOf(lines, n, a))
      BY <1>2, <1>3
    <3>2. i # j
      <4>1. i \in Nat /\ j \in Nat
        BY <3>1, LenProperties DEF Names
      <4> QED BY <2>1, <4>1
    <3> QED BY <3>1, <3>2, ElementOfSeq DEF Names
  <2>3. ThreadRead(lines, n, a, t, mem[a].tids[t]) /\ ThreadRead(lines, n, a, u, mem[a].tids[u])
    BY <1>2, <1>3, <2>2
  <2>4. Between(lines, a, t, u, v) \/ Between(lines, a, u, t, v)
    BY <2>1, <2>3, FoundBetween DEF n
  <2> HIDE DEF t, u
  <2> QED BY <2>2, <2>4 DEF Between, Of, Violation
<1>5. ASSUME v \in (DOMAIN lines) \X (DOMAIN lines) \X (DOMAIN lines), Violation(lines, v)
      PROVE  v \in CI_list(lines)
  <2> DEFINE a == lines[v[1]].addr
             t == lines[v[1]].tid
             u == lines[v[3]].tid
  <2>1. /\ v[1] \in 1 .. n /\ v[2] \in 1 .. n /\ v[3] \in 1 .. n
    BY <1>1, <1>5
  <2>2. /\ t # u /\ lines[v[3]].addr = a /\ Between(lines, a, t, u, v)
    BY <1>5 DEF Violation, Between, Of
  <2>3. /\ a \in AddrsOf(lines, n) /\ a \in DOMAIN mem
        /\ t \in ThreadsOf(lines, n, a) /\ u \in ThreadsOf(lines, n, a)
    BY <1>2, <2>1, <2>2 DEF AddrsOf, ThreadsOf
  <2> HIDE DEF a, t, u
  <2>4. Names(mem[a].tid_list, ThreadsOf(lines, n, a))
    BY <1>3, <2>3
  <2>5. PICK i \in DOMAIN mem[a].tid_list : mem[a].tid_list[i] = t
    BY <2>3, <2>4 DEF Names
  <2>6. PICK j \in DOMAIN mem[a].tid_list : mem[a].tid_list[j] = u
    BY <2>3, <2>4 DEF Names
  <2>7. ThreadRead(lines, n, a, t, mem[a].tids[t]) /\ ThreadRead(lines, n, a, u, mem[a].tids[u])
    BY <1>3, <2>3
  <2>8. i < j \/ j < i
    <3>1. i \in Nat /\ j \in Nat
      BY <2>4, LenProperties DEF Names
    <3>2. i # j
      BY <2>2, <2>5, <2>6
    <3> QED BY <3>1, <3>2
  <2>9. CASE i < j
    <3>1. v \in find_CI_from_thread_pair(lines, mem[a].tids[t], mem[a].tids[u])
      BY <2>2, <2>7, FoundBetween DEF n
    <3> QED BY <2>3, <2>5, <2>6, <2>9, <3>1, Printed DEF mem
  <2>10. CASE j < i
    <3>1. v \in find_CI_from_thread_pair(lines, mem[a].tids[u], mem[a].tids[t])
      BY <2>2, <2>7, FoundBetween DEF n
    <3> QED BY <2>3, <2>5, <2>6, <2>10, <3>1, Printed DEF mem
  <2> QED BY <2>8, <2>9, <2>10
<1> QED BY <1>4, <1>5

-----------------------------------------------------------------------------
(* The run, and then the predictor. *)

LogOK ==
  /\ file_mem_access \in Seq(LineSet)
  /\ timestamp \in Nat
  /\ on_disk \in 0 .. Len(file_mem_access)
  /\ status # "finished" => on_disk = 0

PredictorInv ==
  /\ LogOK
  /\ lines_read \in Nat
  /\ status # "finished" => lines_read = 0 /\ trace_mem = <<>>
  /\ status = "finished" => MemRead(Lines, lines_read, trace_mem)

\* What the predictor reads are lines of the log.
LEMMA LinesType ==
  ASSUME LogOK
  PROVE  /\ Lines \in Seq(LineSet) /\ Len(Lines) = on_disk
         /\ \A k \in 1 .. on_disk : Lines[k] = file_mem_access[k]
<1>1. /\ file_mem_access \in Seq(LineSet)
      /\ on_disk \in Nat /\ on_disk <= Len(file_mem_access)
      /\ Len(file_mem_access) \in Nat
  BY LenProperties DEF LogOK
<1>2. \A k \in 1 .. on_disk : k \in 1 .. Len(file_mem_access)
  BY <1>1
<1> QED BY <1>1, <1>2, SubSeqProperties DEF Lines

\* Nothing read, nothing known.
LEMMA ReadNothing == ASSUME NEW lines PROVE MemRead(lines, 0, <<>>)
<1>1. AddrsOf(lines, 0) = {}
  BY DEF AddrsOf
<1> QED BY <1>1 DEF MemRead

\* The target does not touch the clock.
LEMMA TargetKeepsTime == ASSUME NEW t, T!TargetStep(t) PROVE timestamp' = timestamp
BY DEF T!TargetStep, T!CreateThread, T!ExecMemAccess, T!AcquireMutex, T!ReleaseMutex,
   T!TrylockMutex, T!CondWait, T!CondWake, T!tool, T!history

\* A callback other than for an access leaves the log of accesses alone.
LEMMA OtherCallback ==
  ASSUME LogOK, NEW t,
         \/ ThreadStart(t) \/ ThreadFini(t) \/ afterThreadCreate(t)
         \/ \E site \in Site, m \in Mutex : beforeThreadLock(t, site, m)
         \/ \E site \in Site, m \in Mutex : beforeThreadUnLock(t, site, m)
         \/ \E type \in PauseTypes \cup WaitTypes : afterThreadSynch(t, type)
  PROVE  UNCHANGED <<file_mem_access, on_disk, status>> /\ timestamp' \in Nat
<1>1. timestamp \in Nat
  BY DEF LogOK
<1>2. CASE ThreadStart(t) \/ ThreadFini(t) \/ afterThreadCreate(t)
  BY <1>1, <1>2 DEF ThreadStart, ThreadFini, afterThreadCreate, files, target
<1>3. ASSUME NEW site, NEW m, beforeThreadLock(t, site, m) \/ beforeThreadUnLock(t, site, m)
      PROVE  UNCHANGED <<file_mem_access, on_disk, status>> /\ timestamp' \in Nat
  BY <1>1, <1>3 DEF beforeThreadLock, beforeThreadUnLock, target, Tick
<1>4. ASSUME NEW type, afterThreadSynch(t, type)
      PROVE  UNCHANGED <<file_mem_access, on_disk, status>> /\ timestamp' \in Nat
  BY <1>1, <1>4 DEF afterThreadSynch, target, Tick
<1> QED BY <1>2, <1>3, <1>4

\* One for an access adds a line, while the target runs.
LEMMA AccessCallback ==
  ASSUME LogOK, NEW t \in Thread, NEW inst \in Inst, NEW addr \in Addr,
         RecordMemRead(t, inst, addr) \/ RecordMemWrite(t, inst, addr)
  PROVE  LogOK' /\ status = "running"
<1>1. status = "running"
  BY DEF RecordMemRead, RecordMemWrite, T!Ready, T!Doing, T!Running
<1>2. ASSUME NEW op \in {"R", "W"}, RecordMem(t, op, inst, addr) PROVE LogOK'
  <2> DEFINE l == [tid |-> t, op |-> op, time |-> timestamp', ip |-> inst, addr |-> addr]
  <2>1. /\ timestamp' = timestamp + 1 /\ status' = status /\ on_disk' = on_disk
        /\ file_mem_access' = IF logging_start THEN Append(file_mem_access, l)
                                               ELSE file_mem_access
    BY <1>2 DEF RecordMem, Tick, target
  <2>2. timestamp' \in Nat /\ l \in LineSet
    BY <2>1 DEF LogOK, LineSet
  <2>3. on_disk = 0
    BY <1>1 DEF LogOK
  <2>4. file_mem_access' \in Seq(LineSet) /\ Len(file_mem_access') \in Nat
    <3> HIDE DEF l
    <3> QED BY <2>1, <2>2, AppendProperties, LenProperties DEF LogOK
  <2> QED BY <1>1, <2>1, <2>2, <2>3, <2>4 DEF LogOK
<1> QED BY <1>1, <1>2 DEF RecordMemRead, RecordMemWrite

\* A step of the monitor.  The log is final when the target has exited.
LEMMA LogStep ==
  ASSUME LogOK, [Next]_vars
  PROVE  /\ LogOK'
         /\ status = "finished" => UNCHANGED <<status, file_mem_access, on_disk>>
<1>1. CASE UNCHANGED vars
  BY <1>1 DEF LogOK, vars, files, globals, target
<1>2. CASE Fini
  <2>1. status = "running" /\ status' = "finished" /\ on_disk' \in 0 .. Len(file_mem_access)
        /\ UNCHANGED <<file_mem_access, timestamp>>
    BY <1>2 DEF Fini, globals
  <2> QED BY <2>1 DEF LogOK
<1>3. ASSUME NEW t \in Thread, TargetStep(t)
      PROVE  LogOK' /\ UNCHANGED <<status, file_mem_access, on_disk>>
  <2>1. UNCHANGED <<status, file_mem_access, on_disk>> /\ timestamp' = timestamp
    BY <1>3, TargetKeepsTime DEF TargetStep, files
  <2> QED BY <2>1 DEF LogOK
<1>4. ASSUME NEW t \in Thread, Callback(t)
      PROVE  /\ LogOK'
             /\ status = "finished" => UNCHANGED <<status, file_mem_access, on_disk>>
  <2>1. ASSUME NEW inst \in Inst, NEW addr \in Addr,
               RecordMemRead(t, inst, addr) \/ RecordMemWrite(t, inst, addr)
        PROVE  LogOK' /\ status = "running"
    BY <2>1, AccessCallback
  <2>2. CASE \/ ThreadStart(t) \/ ThreadFini(t) \/ afterThreadCreate(t)
             \/ \E site \in Site, m \in Mutex : beforeThreadLock(t, site, m)
             \/ \E site \in Site, m \in Mutex : beforeThreadUnLock(t, site, m)
             \/ \E type \in PauseTypes \cup WaitTypes : afterThreadSynch(t, type)
    <3>1. UNCHANGED <<file_mem_access, on_disk, status>> /\ timestamp' \in Nat
      BY <2>2, OtherCallback
    <3> QED BY <3>1 DEF LogOK
  <2> QED BY <1>4, <2>1, <2>2 DEF Callback
<1>5. T!Tid = Thread
  BY DEF T!Tid, Thread
<1> QED BY <1>1, <1>2, <1>3, <1>4, <1>5 DEF Next

\* A step of the run or of the predictor.
LEMMA PredictorStep == PredictorInv /\ [OfflineNext]_offlineVars => PredictorInv'
<1> SUFFICES ASSUME PredictorInv, [OfflineNext]_offlineVars PROVE PredictorInv'
  OBVIOUS
<1>1. CASE Predict
  <2>1. status = "finished" /\ ReadLine(Lines) /\ UNCHANGED vars
    BY <1>1 DEF Predict
  <2>2. UNCHANGED <<status, file_mem_access, on_disk, timestamp>>
    BY <2>1 DEF vars, files, globals, target
  <2>3. Lines' = Lines
    BY <2>2 DEF Lines
  <2>4. LogOK'
    BY <2>2 DEF PredictorInv, LogOK
  <2>5. Lines \in Seq(LineSet) /\ lines_read \in Nat /\ MemRead(Lines, lines_read, trace_mem)
    BY <2>1, LinesType DEF PredictorInv
  <2>6. lines_read' = lines_read + 1 /\ MemRead(Lines, lines_read', trace_mem')
    BY <2>1, <2>5, LineStep
  <2> QED BY <2>1, <2>2, <2>3, <2>4, <2>5, <2>6 DEF PredictorInv
<1>2. CASE [Next]_vars /\ UNCHANGED predictorVars
  <2>1. /\ LogOK' /\ trace_mem' = trace_mem /\ lines_read' = lines_read
        /\ status = "finished" => UNCHANGED <<status, file_mem_access, on_disk>>
    BY <1>2, LogStep DEF PredictorInv, predictorVars
  <2>2. CASE status = "finished"
    <3>1. Lines' = Lines /\ status' = status
      BY <2>1, <2>2 DEF Lines
    <3> QED BY <2>1, <2>2, <3>1 DEF PredictorInv
  <2>3. CASE status # "finished"
    BY <2>1, <2>3, ReadNothing DEF PredictorInv
  <2> QED BY <2>2, <2>3
<1> QED BY <1>1, <1>2 DEF OfflineNext, offlineVars

\* At the start nothing is read.
LEMMA PredictorBegins == OfflineInit => PredictorInv
<1> SUFFICES ASSUME OfflineInit PROVE PredictorInv
  OBVIOUS
<1>1. /\ file_mem_access = <<>> /\ on_disk = 0 /\ status = "running"
      /\ timestamp = 1 /\ trace_mem = <<>> /\ lines_read = 0
  BY DEF OfflineInit, Init, PredictorInit, T!Init
<1>2. <<>> \in Seq(LineSet) /\ Len(<<>>) = 0
  OBVIOUS
<1> QED BY <1>1, <1>2 DEF PredictorInv, LogOK

\* In every state of such a run.
LEMMA PredictorCorrect == OfflineSpec => []PredictorInv
BY PredictorBegins, PredictorStep, PTL DEF OfflineSpec

\* Then, what is printed is exact.
LEMMA PrintsExactly == PredictorInv => PredictsExactly
<1> DEFINE V == {v \in (DOMAIN Lines) \X (DOMAIN Lines) \X (DOMAIN Lines) :
                   Violation(Lines, v)}
<1>1. PredictsExactly <=> (AllRead => CI_list(Lines) = V)
  BY DEF PredictsExactly
<1> SUFFICES ASSUME PredictorInv, AllRead PROVE \A v : v \in CI_list(Lines) <=> v \in V
  <2> HIDE DEF V
  <2> QED BY <1>1
<1>2. Lines \in Seq(LineSet)
  BY LinesType DEF PredictorInv
<1>3. MemRead(Lines, Len(Lines), trace_mem)
  BY DEF PredictorInv, AllRead
<1>4. ASSUME NEW v
      PROVE  v \in V <=> /\ v \in (DOMAIN Lines) \X (DOMAIN Lines) \X (DOMAIN Lines)
                         /\ Violation(Lines, v)
  OBVIOUS
<1> HIDE DEF V
<1> QED BY <1>2, <1>3, <1>4, PrintedExactly

\* Of every log of every target, cut off at any line, the predictor prints
\* the unserializable triples, and nothing else.
THEOREM PredictsExactlyCorrect == OfflineSpec => []PredictsExactly
BY PredictorCorrect, PrintsExactly, PTL

-----------------------------------------------------------------------------
(* The tables that can be read from the log.                               *)

\* Entry j of row t is line g[j], and the entries are in the order of the lines.
Placed(lines, t, row, g) ==
  /\ \A j \in DOMAIN row :
       /\ lines[g[j]].tid = t
       /\ row[j] = MemAccess(lines[g[j]].op, lines[g[j]].ip, lines[g[j]].addr, t,
                             lines[g[j]].time)
  /\ \A j, k \in DOMAIN row : j < k => g[j] < g[k]

RowRead(lines, t, row) ==
  /\ row \in Seq(P!MemRow)
  /\ \E g \in [DOMAIN row -> DOMAIN lines] : Placed(lines, t, row, g)

RowsRead(lines) ==
  /\ RowsOf(lines) = [t \in Thread |-> RowsOf(lines)[t]]
  /\ \A t \in Thread : RowRead(lines, t, RowsOf(lines)[t])

\* A line of another thread leaves a row alone.
LEMMA RowKept ==
  ASSUME NEW lines \in Seq(LineSet), NEW l \in LineSet, NEW t, NEW row, RowRead(lines, t, row)
  PROVE  RowRead(Append(lines, l), t, row)
<1> DEFINE more == Append(lines, l)
<1>1. /\ DOMAIN lines = 1 .. Len(lines) /\ Len(lines) \in Nat
      /\ DOMAIN more = 1 .. Len(lines) + 1
      /\ \A k \in DOMAIN lines : more[k] = lines[k]
  BY AppendProperties, LenProperties
<1> HIDE DEF more
<1>2. PICK g \in [DOMAIN row -> DOMAIN lines] : Placed(lines, t, row, g)
  BY DEF RowRead
<1>3. g \in [DOMAIN row -> DOMAIN more]
  BY <1>1
<1>4. \A j \in DOMAIN row : more[g[j]] = lines[g[j]]
  BY <1>1
<1>5. Placed(more, t, row, g)
  BY <1>2, <1>4 DEF Placed
<1> QED BY <1>3, <1>5 DEF RowRead, more

\* A line of the thread of the row is its last entry.
LEMMA RowMore ==
  ASSUME NEW lines \in Seq(LineSet), NEW l \in LineSet, NEW row,
         RowRead(lines, l.tid, row)
  PROVE  RowRead(Append(lines, l), l.tid,
                 Append(row, MemAccess(l.op, l.ip, l.addr, l.tid, l.time)))
<1> DEFINE more == Append(lines, l)
           a == MemAccess(l.op, l.ip, l.addr, l.tid, l.time)
           longer == Append(row, a)
           n == Len(lines)
           r == Len(row)
<1>1. /\ DOMAIN lines = 1 .. n /\ n \in Nat /\ DOMAIN more = 1 .. n + 1
      /\ more[n + 1] = l /\ \A k \in DOMAIN lines : more[k] = lines[k]
  BY AppendProperties, LenProperties
<1>2. a \in P!MemRow
  BY DEF LineSet, P!MemRow, MemAccess, Thread, P!Tid
<1>3. PICK g \in [DOMAIN row -> DOMAIN lines] : Placed(lines, l.tid, row, g)
  BY DEF RowRead
<1> HIDE DEF more, a
<1>4. /\ row \in Seq(P!MemRow) /\ DOMAIN row = 1 .. r /\ r \in Nat
      /\ longer \in Seq(P!MemRow) /\ DOMAIN longer = 1 .. r + 1
      /\ longer[r + 1] = a /\ \A j \in DOMAIN row : longer[j] = row[j]
  BY <1>2, AppendProperties, LenProperties DEF RowRead
<1> DEFINE h == [j \in DOMAIN longer |-> IF j = r + 1 THEN n + 1 ELSE g[j]]
<1> HIDE DEF longer, n, r
<1>5. \A j \in DOMAIN longer : j \in DOMAIN row \/ j = r + 1
  BY <1>4
<1>6. \A j \in DOMAIN row : j \in DOMAIN longer /\ j # r + 1 /\ j < r + 1
  BY <1>4
<1>7. /\ \A j \in DOMAIN row : h[j] = g[j] /\ g[j] \in DOMAIN lines
      /\ h[r + 1] = n + 1
  BY <1>4, <1>6
<1>8. h \in [DOMAIN longer -> DOMAIN more]
  BY <1>1, <1>5
<1> HIDE DEF h
<1>9. ASSUME NEW j \in DOMAIN longer
      PROVE  /\ more[h[j]].tid = l.tid
             /\ longer[j] = MemAccess(more[h[j]].op, more[h[j]].ip, more[h[j]].addr, l.tid,
                                      more[h[j]].time)
  <2>1. CASE j \in DOMAIN row
    <3>1. more[h[j]] = lines[g[j]]
      BY <1>1, <1>7, <2>1
    <3> QED BY <1>3, <1>4, <2>1, <3>1 DEF Placed
  <2>2. CASE j = r + 1
    BY <1>1, <1>4, <1>7, <2>2 DEF a
  <2> QED BY <1>5, <2>1, <2>2
<1>10. ASSUME NEW j \in DOMAIN longer, NEW k \in DOMAIN longer, j < k PROVE h[j] < h[k]
  <2>1. j \in DOMAIN row
    BY <1>4, <1>10
  <2>2. CASE k \in DOMAIN row
    BY <1>3, <1>7, <1>10, <2>1, <2>2 DEF Placed
  <2>3. CASE k = r + 1
    <3>1. h[j] \in 1 .. n /\ h[k] = n + 1
      BY <1>1, <1>7, <2>1, <2>3
    <3> QED BY <1>1, <3>1
  <2> QED BY <1>5, <2>2, <2>3
<1>11. Placed(more, l.tid, longer, h)
  BY <1>9, <1>10 DEF Placed
<1>12. RowRead(more, l.tid, longer)
  BY <1>4, <1>8, <1>11 DEF RowRead
<1> QED BY <1>12 DEF more, longer, a

\* One more line in the tables.
LEMMA RowsMore ==
  ASSUME NEW lines \in Seq(LineSet), NEW l \in LineSet, RowsRead(lines)
  PROVE  RowsRead(Append(lines, l))
<1> DEFINE more == Append(lines, l)
           rows == RowsOf(lines)
<1>1. RowsOf(more) = Row(rows, l)
  BY OneMoreLine
<1>2. rows = [t \in Thread |-> rows[t]] /\ \A t \in Thread : RowRead(lines, t, rows[t])
  BY DEF RowsRead
<1> HIDE DEF rows
<1>3. RowsOf(more) =
        [t \in Thread |-> IF t = l.tid
                            THEN Append(rows[t], MemAccess(l.op, l.ip, l.addr, t, l.time))
                            ELSE rows[t]]
  <2>1. DOMAIN rows = Thread
    BY <1>2
  <2> HIDE DEF more
  <2> QED BY <1>1, <2>1 DEF Row
<1>4. ASSUME NEW t \in Thread PROVE RowRead(more, t, RowsOf(more)[t])
  <2>1. CASE t = l.tid
    <3>1. RowsOf(more)[t] = Append(rows[l.tid], MemAccess(l.op, l.ip, l.addr, l.tid, l.time))
      <4> HIDE DEF more
      <4> QED BY <1>3, <2>1
    <3>2. RowRead(lines, l.tid, rows[l.tid])
      BY <1>2, <2>1
    <3>3. RowRead(more, l.tid, Append(rows[l.tid],
                                      MemAccess(l.op, l.ip, l.addr, l.tid, l.time)))
      BY <3>2, RowMore
    <3> QED BY <2>1, <3>1, <3>3
  <2>2. CASE t # l.tid
    <3>1. RowsOf(more)[t] = rows[t] /\ RowRead(lines, t, rows[t])
      BY <1>2, <1>3, <2>2
    <3> QED BY <3>1, RowKept
  <2> QED BY <2>1, <2>2
<1> HIDE DEF more
<1>5. RowsOf(more) = [t \in Thread |-> RowsOf(more)[t]]
  BY <1>3
<1>6. RowsRead(more)
  BY <1>4, <1>5 DEF RowsRead
<1> QED BY <1>6 DEF more

ReportsInv ==
  /\ PredictorInv
  /\ RowsRead(file_mem_access)
  /\ threadExisted \in 0 .. NumThreads

\* Only a new thread is counted, and only an access adds a line.
LEMMA ReportsStep == ReportsInv /\ [OfflineNext]_offlineVars => ReportsInv'
<1> SUFFICES ASSUME ReportsInv, [OfflineNext]_offlineVars PROVE ReportsInv'
  OBVIOUS
<1>1. PredictorInv'
  BY PredictorStep DEF ReportsInv
<1>2. LogOK
  BY DEF ReportsInv, PredictorInv
<1>3. SUFFICES RowsRead(file_mem_access') /\ threadExisted' \in 0 .. NumThreads
  BY <1>1 DEF ReportsInv
<1>4. ASSUME UNCHANGED <<file_mem_access, threadExisted>>
      PROVE  RowsRead(file_mem_access') /\ threadExisted' \in 0 .. NumThreads
  BY <1>4 DEF ReportsInv
<1>5. CASE Predict \/ Fini \/ UNCHANGED vars
  BY <1>4, <1>5 DEF Predict, Fini, vars, files, globals
<1>6. ASSUME NEW t \in Thread, TargetStep(t)
      PROVE  UNCHANGED <<file_mem_access, threadExisted>>
  BY <1>6 DEF TargetStep, files, T!TargetStep, T!CreateThread, T!ExecMemAccess,
     T!AcquireMutex, T!ReleaseMutex, T!TrylockMutex, T!CondWait, T!CondWake, T!tool,
     T!history
<1>7. ASSUME NEW t \in Thread, ThreadStart(t)
      PROVE  RowsRead(file_mem_access') /\ threadExisted' \in 0 .. NumThreads
  <2>1. t = threadExisted /\ threadExisted' = threadExisted + 1
        /\ UNCHANGED file_mem_access
    BY <1>7 DEF ThreadStart, files
  <2>2. NumThreads \in Nat
    BY MonitorAssumption
  <2> QED BY <2>1, <2>2 DEF ReportsInv, Thread
<1>8. ASSUME NEW t \in Thread, NEW inst \in Inst, NEW addr \in Addr,
             RecordMemRead(t, inst, addr) \/ RecordMemWrite(t, inst, addr)
      PROVE  RowsRead(file_mem_access') /\ threadExisted' \in 0 .. NumThreads
  <2>1. PICK op \in {"R", "W"} : RecordMem(t, op, inst, addr)
    BY <1>8 DEF RecordMemRead, RecordMemWrite
  <2> DEFINE l == [tid |-> t, op |-> op, time |-> timestamp', ip |-> inst, addr |-> addr]
  <2>2. /\ timestamp' = timestamp + 1 /\ threadExisted' = threadExisted
        /\ file_mem_access' = IF logging_start THEN Append(file_mem_access, l)
                                               ELSE file_mem_access
    BY <2>1 DEF RecordMem, Tick
  <2>3. l \in LineSet /\ file_mem_access \in Seq(LineSet)
    BY <1>2, <2>2 DEF LogOK, LineSet
  <2> HIDE DEF l
  <2>4. RowsRead(Append(file_mem_access, l))
    BY <2>3, RowsMore DEF ReportsInv
  <2> QED BY <2>2, <2>4 DEF ReportsInv
<1>9. ASSUME NEW t \in Thread, ThreadFini(t) \/ afterThreadCreate(t)
      PROVE  UNCHANGED <<file_mem_access, threadExisted>>
  BY <1>9 DEF ThreadFini, afterThreadCreate, files
<1>10. ASSUME NEW t, NEW x, NEW y,
              \/ beforeThreadLock(t, x, y) \/ beforeThreadUnLock(t, x, y)
              \/ afterThreadSynch(t, x)
       PROVE  UNCHANGED <<file_mem_access, threadExisted>>
  BY <1>10 DEF beforeThreadLock, beforeThreadUnLock, afterThreadSynch
<1>11. ASSUME NEW t \in Thread, Callback(t)
       PROVE  RowsRead(file_mem_access') /\ threadExisted' \in 0 .. NumThreads
  BY <1>4, <1>7, <1>8, <1>9, <1>10, <1>11 DEF Callback
<1>12. T!Tid = Thread
  BY DEF T!Tid, Thread
<1> QED BY <1>4, <1>5, <1>6, <1>11, <1>12 DEF OfflineNext, Next, offlineVars

\* At the start there is no line and no thread.
LEMMA ReportsBegin == OfflineInit => ReportsInv
<1> SUFFICES ASSUME OfflineInit PROVE ReportsInv
  OBVIOUS
<1>1. file_mem_access = <<>> /\ threadExisted = 0
  BY DEF OfflineInit, Init, T!Init
<1>2. threadExisted \in 0 .. NumThreads
  BY <1>1, MonitorAssumption
<1>3. RowsOf(<<>>) = [t \in Thread |-> <<>>]
  BY NothingRead DEF Thread
<1>4. ASSUME NEW t PROVE RowRead(<<>>, t, <<>>)
  <2> DEFINE g == [j \in {} |-> 0]
  <2>1. DOMAIN <<>> = {} /\ <<>> \in Seq(P!MemRow)
    OBVIOUS
  <2>2. g \in [{} -> {}]
    OBVIOUS
  <2>3. Placed(<<>>, t, <<>>, g)
    BY <2>1 DEF Placed
  <2> HIDE DEF g
  <2> QED BY <2>1, <2>2, <2>3 DEF RowRead
<1>5. RowsRead(<<>>)
  BY <1>3, <1>4 DEF RowsRead
<1> QED BY <1>1, <1>2, <1>5, PredictorBegins DEF ReportsInv

\* Fini's annotation of an access leaves the fields of its line alone.
LEMMA AnnotateKeeps ==
  ASSUME NEW a, NEW csTab, a \in P!MemRow
  PROVE  LET b == Annotate(a, csTab)
         IN  b.op = a.op /\ b.addr = a.addr /\ b.tid = a.tid /\ b.time = a.time
BY DEF Annotate, P!MemRow

\* What the analysis reports of a run is in the log.
LEMMA ReportIsViolation ==
  ASSUME ReportsInv, NEW c \in Recorded(AnnotatedRows, threadExisted, file_sync)
  PROVE  \E v \in (DOMAIN file_mem_access) \X (DOMAIN file_mem_access)
                    \X (DOMAIN file_mem_access) :
           /\ Violation(file_mem_access, v)
           /\ Times(AnnotatedRows, c) =
                <<file_mem_access[v[1]].time, file_mem_access[v[2]].time,
                  file_mem_access[v[3]].time>>
<1> DEFINE ma == AnnotatedRows
           lines == file_mem_access
           rows == MemRows
<1>1. Recorded(ma, threadExisted, file_sync) = D!Recorded(ma, threadExisted, file_sync)
  BY DEF Recorded, D!Recorded, Pairs, D!Pairs, Interleaves, D!Interleaves,
     find_interleave, D!find_interleave, examine_interleaving, D!examine_interleaving,
     SynchBetween, D!SynchBetween, ProtectedBySameLock, D!ProtectedBySameLock,
     InterleaveOp, D!InterleaveOp
<1>2. /\ rows = [t \in Thread |-> rows[t]]
      /\ \A t \in Thread : RowRead(lines, t, rows[t])
  BY DEF ReportsInv, RowsRead, MemRows
<1>3. /\ DOMAIN ma = Thread
      /\ \A t \in Thread : /\ DOMAIN ma[t] = DOMAIN rows[t]
                           /\ \A j \in DOMAIN rows[t] : ma[t][j] = Annotate(rows[t][j], KeptTable)
  <2>1. DOMAIN rows = Thread
    BY <1>2
  <2> QED BY <2>1 DEF AnnotatedRows
<1> HIDE DEF ma, rows
<1>4. ASSUME NEW t \in Thread, NEW j \in DOMAIN rows[t]
      PROVE  /\ ma[t][j].op = rows[t][j].op /\ ma[t][j].addr = rows[t][j].addr
             /\ ma[t][j].tid = rows[t][j].tid /\ ma[t][j].time = rows[t][j].time
  <2>1. rows[t][j] \in P!MemRow
    BY <1>2, ElementOfSeq DEF RowRead
  <2> QED BY <1>3, <2>1, AnnotateKeeps
<1> DEFINE i == c[1]
           j == c[2]
           k == c[3]
           r == c[4]
           q == c[5]
<1>5. /\ i \in 0 .. threadExisted - 1 /\ r \in 0 .. threadExisted - 1
      /\ j \in DOMAIN ma[i] /\ k \in DOMAIN ma[i] /\ q \in DOMAIN ma[r]
      /\ j < k /\ ma[i][j].addr = ma[i][k].addr
      /\ D!Interleaves(ma[i][j], ma[i][k], ma[r][q], file_sync)
  <2>1. c \in D!Recorded(ma, threadExisted, file_sync)
    BY <1>1 DEF ma
  <2>2. c = <<i, j, k, r, q>>
    BY <2>1, D!RecordedShape, MonitorAssumption
  <2> HIDE DEF i, j, k, r, q
  <2> QED BY <2>1, <2>2, D!RecordedMember, MonitorAssumption
<1>6. Times(ma, c) = <<ma[i][j].time, ma[i][k].time, ma[r][q].time>>
  BY DEF Times
<1> HIDE DEF i, j, k, r, q
<1>7. i \in Thread /\ r \in Thread
  BY <1>5, MonitorAssumption DEF ReportsInv, Thread
<1>8. j \in DOMAIN rows[i] /\ k \in DOMAIN rows[i] /\ q \in DOMAIN rows[r]
  BY <1>3, <1>5, <1>7
<1>9. PICK g \in [DOMAIN rows[i] -> DOMAIN lines] : Placed(lines, i, rows[i], g)
  BY <1>2, <1>7 DEF RowRead
<1>10. PICK h \in [DOMAIN rows[r] -> DOMAIN lines] : Placed(lines, r, rows[r], h)
  BY <1>2, <1>7 DEF RowRead
<1>11. ASSUME NEW t \in Thread, NEW f, NEW p \in DOMAIN rows[t], Placed(lines, t, rows[t], f)
       PROVE  /\ ma[t][p].op = lines[f[p]].op /\ ma[t][p].addr = lines[f[p]].addr
              /\ ma[t][p].tid = t /\ lines[f[p]].tid = t
              /\ ma[t][p].time = lines[f[p]].time
  <2>1. /\ lines[f[p]].tid = t
        /\ rows[t][p] = MemAccess(lines[f[p]].op, lines[f[p]].ip, lines[f[p]].addr, t,
                                 lines[f[p]].time)
    BY <1>11 DEF Placed
  <2>2. /\ rows[t][p].op = lines[f[p]].op /\ rows[t][p].addr = lines[f[p]].addr
        /\ rows[t][p].tid = t /\ rows[t][p].time = lines[f[p]].time
    BY <2>1 DEF MemAccess
  <2> QED BY <1>4, <2>1, <2>2
<1> DEFINE x == g[j]
           y == g[k]
           z == h[q]
<1>12. x \in DOMAIN lines /\ y \in DOMAIN lines /\ z \in DOMAIN lines /\ x < y
  BY <1>5, <1>8, <1>9, <1>10 DEF Placed
<1>13. /\ ma[i][j].op = lines[x].op /\ ma[i][j].addr = lines[x].addr
       /\ ma[i][j].tid = i /\ lines[x].tid = i /\ ma[i][j].time = lines[x].time
       /\ ma[i][k].op = lines[y].op /\ ma[i][k].addr = lines[y].addr
       /\ ma[i][k].tid = i /\ lines[y].tid = i /\ ma[i][k].time = lines[y].time
       /\ ma[r][q].op = lines[z].op /\ ma[r][q].addr = lines[z].addr
       /\ ma[r][q].tid = r /\ lines[z].tid = r /\ ma[r][q].time = lines[z].time
  BY <1>7, <1>8, <1>9, <1>10, <1>11
<1> HIDE DEF x, y, z
<1>14. /\ ma[r][q].op = D!InterleaveOp(ma[i][j], ma[i][k])
       /\ ma[r][q].addr = ma[i][j].addr /\ ma[r][q].tid # ma[i][j].tid
  BY <1>5 DEF D!Interleaves, D!find_interleave
<1>15. lines[z].op = RemoteOp(lines[x].op, lines[y].op)
  BY <1>13, <1>14 DEF D!InterleaveOp, RemoteOp
<1>16. /\ lines[x].op \in {"R", "W"} /\ lines[y].op \in {"R", "W"}
       /\ lines[z].op \in {"R", "W"}
  <2>1. lines \in Seq(LineSet)
    BY DEF ReportsInv, PredictorInv, LogOK
  <2>2. lines[x] \in LineSet /\ lines[y] \in LineSet /\ lines[z] \in LineSet
    BY <1>12, <2>1, ElementOfSeq
  <2> QED BY <2>2 DEF LineSet
<1>17. Unserializable(lines[x], lines[z], lines[y])
  BY <1>15, <1>16, RemoteExact
<1> DEFINE v == <<x, y, z>>
<1>18. v[1] = x /\ v[2] = y /\ v[3] = z
       /\ v \in (DOMAIN lines) \X (DOMAIN lines) \X (DOMAIN lines)
  BY <1>12
<1> HIDE DEF v
<1>19. Violation(lines, v)
  BY <1>5, <1>12, <1>13, <1>14, <1>17, <1>18 DEF Violation
<1>20. Times(ma, c) = <<lines[v[1]].time, lines[v[2]].time, lines[v[3]].time>>
  BY <1>6, <1>13, <1>18
<1> QED BY <1>18, <1>19, <1>20 DEF ma

\* With a complete log, all of the reports are printed.
LEMMA ReportsPrinted == ReportsInv => ReportsArePredicted
<1> DEFINE reported == {Times(AnnotatedRows, c) :
                          c \in Recorded(AnnotatedRows, threadExisted, file_sync)}
           printed  == {<<Lines[c[1]].time, Lines[c[2]].time, Lines[c[3]].time>> :
                          c \in CI_list(Lines)}
<1>1. ReportsArePredicted <=>
        (AllRead /\ on_disk = Len(file_mem_access) => reported \subseteq printed)
  BY DEF ReportsArePredicted
<1>2. SUFFICES ASSUME ReportsInv, AllRead, on_disk = Len(file_mem_access),
                      NEW c \in Recorded(AnnotatedRows, threadExisted, file_sync)
               PROVE  Times(AnnotatedRows, c) \in printed
  <2> HIDE DEF printed
  <2> QED BY <1>1
<1>3. PICK v \in (DOMAIN file_mem_access) \X (DOMAIN file_mem_access)
                   \X (DOMAIN file_mem_access) :
        /\ Violation(file_mem_access, v)
        /\ Times(AnnotatedRows, c) =
             <<file_mem_access[v[1]].time, file_mem_access[v[2]].time,
               file_mem_access[v[3]].time>>
  BY <1>2, ReportIsViolation
<1>4. LogOK
  BY <1>2 DEF ReportsInv, PredictorInv
<1>5. /\ Lines \in Seq(LineSet) /\ DOMAIN Lines = DOMAIN file_mem_access
      /\ \A k \in DOMAIN file_mem_access : Lines[k] = file_mem_access[k]
  <2>1. DOMAIN file_mem_access = 1 .. Len(file_mem_access)
    BY <1>4, LenProperties DEF LogOK
  <2> QED BY <1>2, <1>4, <2>1, LinesType, LenProperties
<1>6. Violation(Lines, v) /\ v \in (DOMAIN Lines) \X (DOMAIN Lines) \X (DOMAIN Lines)
      /\ Times(AnnotatedRows, c) = <<Lines[v[1]].time, Lines[v[2]].time, Lines[v[3]].time>>
  <2>1. /\ v[1] \in DOMAIN file_mem_access /\ v[2] \in DOMAIN file_mem_access
        /\ v[3] \in DOMAIN file_mem_access
    OBVIOUS
  <2>2. /\ Lines[v[1]] = file_mem_access[v[1]] /\ Lines[v[2]] = file_mem_access[v[2]]
        /\ Lines[v[3]] = file_mem_access[v[3]]
    BY <1>5, <2>1
  <2> QED BY <1>3, <1>5, <2>2 DEF Violation
<1>7. v \in CI_list(Lines)
  <2>1. MemRead(Lines, Len(Lines), trace_mem)
    BY <1>2 DEF ReportsInv, PredictorInv, AllRead
  <2> QED BY <1>5, <1>6, <2>1, PrintedExactly
<1> QED BY <1>6, <1>7

\* Of every run whose log is complete, the predictor prints all that the
\* analysis of the tracing tool would report.
THEOREM ReportsCorrect == OfflineSpec => []ReportsArePredicted
<1>1. OfflineSpec => []ReportsInv
  BY ReportsBegin, ReportsStep, PTL DEF OfflineSpec
<1> QED BY <1>1, ReportsPrinted, PTL

\* The predictor does not disturb the monitor: what is proved of its runs
\* (LogsCorrect) holds of these.
THEOREM MonitorUnderneath == OfflineSpec => Spec
<1>1. OfflineInit => Init
  BY DEF OfflineInit
<1>2. [OfflineNext]_offlineVars => [Next]_vars
  BY DEF OfflineNext, offlineVars, Predict
<1> QED BY <1>1, <1>2, PTL DEF OfflineSpec, Spec
=============================================================================
