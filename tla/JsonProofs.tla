----------------------------- MODULE JsonProofs -----------------------------
(***************************************************************************)
(* The JSON reader: its result and its errors tell the same, and a whole   *)
(* number is never wrapped around.                                         *)
(***************************************************************************)
EXTENDS JsonReader, SequenceTheorems, WellFoundedInduction, TLAPS

-----------------------------------------------------------------------------
(* Sequences of anything. *)

IsSequence(s) == \E S : s \in Seq(S)

\* What is added at the end leaves the rest alone.
LEMMA Appended ==
  ASSUME NEW s, IsSequence(s), NEW v
  PROVE  /\ IsSequence(Append(s, v))
         /\ Len(Append(s, v)) = Len(s) + 1
         /\ Append(s, v) # <<>>
         /\ Append(s, v)[1] = IF s = <<>> THEN v ELSE s[1]
<1>1. PICK S : s \in Seq(S)
  BY DEF IsSequence
<1>2. s \in Seq(S \cup {v}) /\ v \in S \cup {v}
  <2>1. S \subseteq S \cup {v}
    OBVIOUS
  <2> QED BY <1>1, <2>1
<1>3. /\ Append(s, v) \in Seq(S \cup {v})
      /\ Len(Append(s, v)) = Len(s) + 1
      /\ \A i \in 1 .. Len(s) : Append(s, v)[i] = s[i]
      /\ Append(s, v)[Len(s) + 1] = v
  BY <1>2, AppendProperties
<1>4. Len(s) \in Nat /\ (s = <<>> <=> Len(s) = 0)
  BY <1>1, EmptySeq, LenProperties
<1> QED BY <1>3, <1>4 DEF IsSequence

\* The last element can be replaced and taken away.
LEMMA LastChanged ==
  ASSUME NEW s, IsSequence(s), s # <<>>, NEW v
  PROVE  /\ IsSequence([s EXCEPT ![Len(s)] = v])
         /\ Len([s EXCEPT ![Len(s)] = v]) = Len(s)
         /\ [s EXCEPT ![Len(s)] = v] # <<>>
         /\ IsSequence(Front(s))
         /\ Len(Front(s)) = Len(s) - 1
         /\ Len(s) \in Nat /\ Len(s) >= 1
         /\ Front(s) = <<>> <=> Len(s) = 1
<1>1. PICK S : s \in Seq(S)
  BY DEF IsSequence
<1>2. s \in Seq(S \cup {v}) /\ v \in S \cup {v}
  <2>1. S \subseteq S \cup {v}
    OBVIOUS
  <2> QED BY <1>1, <2>1
<1>3. Len(s) \in Nat /\ Len(s) >= 1
  BY <1>1, EmptySeq, LenProperties
<1>4. [s EXCEPT ![Len(s)] = v] \in Seq(S \cup {v}) /\ Len([s EXCEPT ![Len(s)] = v]) = Len(s)
  BY <1>2, <1>3, ExceptSeq
<1>5. Front(s) \in Seq(S) /\ Len(Front(s)) = Len(s) - 1
  <2> DEFINE n == Len(s) - 1
  <2>1. n \in Int /\ 1 \in Int /\ \A i \in 1 .. n : s[i] \in S
    BY <1>1, <1>3, LenProperties
  <2>2. n = Len(s) - 1 /\ (1 <= n \/ n = 0)
    <3>1. \A k \in Nat : k >= 1 => 1 <= k - 1 \/ k - 1 = 0
      OBVIOUS
    <3>2. 1 <= n \/ n = 0
      BY <1>3, <3>1
    <3> QED BY <3>2
  <2>3. Front(s) = SubSeq(s, 1, n)
    BY Zenon DEF Front
  <2> HIDE DEF n
  <2>4. SubSeq(s, 1, n) \in Seq(S) /\ Len(SubSeq(s, 1, n)) = IF 1 <= n THEN n - 1 + 1 ELSE 0
    BY <2>1, SubSeqProperties
  <2> QED BY <1>3, <2>2, <2>3, <2>4
<1>6. /\ [s EXCEPT ![Len(s)] = v] # <<>>
      /\ Front(s) = <<>> <=> Len(s) = 1
  BY <1>3, <1>4, <1>5, EmptySeq, LenProperties
<1> QED BY <1>3, <1>4, <1>5, <1>6 DEF IsSequence

-----------------------------------------------------------------------------
(* Where the reader stands. *)

Inside == {"first", "separator", "name", "colon", "comma", "afterComment"}

\* An error is noted once, and it costs the result as soon as all containers
\* are closed; parse may note another one.
ReaderInv ==
  /\ IsSequence(nodes) /\ Len(nodes) <= StackLimit
  /\ \/ at = "value" /\ ok = TRUE /\ errors = 0
     \/ at \in Inside /\ nodes # <<>> /\ ok = TRUE /\ errors = 0
     \/ at = "recover" /\ nodes # <<>> /\ ok = TRUE /\ errors = 1
     \/ at = "extra" /\ nodes = <<>> /\ ok = TRUE /\ errors = 0
     \/ at = "extra" /\ nodes = <<>> /\ ok = FALSE /\ errors = 1
     \/ at = "done" /\ nodes = <<>> /\ ok = TRUE /\ errors = 0
     \/ at = "done" /\ nodes = <<>> /\ ok = FALSE /\ errors \in 1 .. 2
     \/ at = "thrown" /\ ok = TRUE /\ errors = 0

\* readValue, readObject and readArray are running.
Reading == at \in Inside \cup {"value"}

\* While the text is read no error has been noted, and a container is open
\* wherever a loop of one goes on.
LEMMA WhileReading ==
  ASSUME ReaderInv, Reading
  PROVE  /\ IsSequence(nodes) /\ Len(nodes) <= StackLimit
         /\ ok = TRUE /\ errors = 0
         /\ at # "value" => nodes # <<>>
BY DEF ReaderInv, Reading, Inside

\* A value is returned to the container around it, or to parse.
LEMMA ReturnToStep ==
  ASSUME ReaderInv, Reading, NEW below, IsSequence(below), Len(below) <= StackLimit,
         NEW v, ReturnTo(below, v), UNCHANGED <<ok, errors>>
  PROVE  ReaderInv'
<1>1. ok' = TRUE /\ errors' = 0
  BY WhileReading
<1>2. CASE below = <<>>
  <2>1. nodes' = <<>> /\ at' = "extra"
    BY <1>2 DEF ReturnTo
  <2> QED BY <1>1, <1>2, <2>1 DEF ReaderInv
<1>3. CASE below # <<>>
  <2> DEFINE node == Attach(below[Len(below)], v)
  <2>1. nodes' = [below EXCEPT ![Len(below)] = node] /\ at' \in {"separator", "comma"}
    BY <1>3 DEF ReturnTo
  <2> HIDE DEF node
  <2>2. IsSequence(nodes') /\ Len(nodes') = Len(below) /\ nodes' # <<>>
    BY <1>3, <2>1, LastChanged
  <2> QED BY <1>1, <2>1, <2>2 DEF ReaderInv, Inside
<1> QED BY <1>2, <1>3

\* A scalar is returned (readValue).
LEMMA ReturnStep ==
  ASSUME ReaderInv, Reading, NEW v, Return(v)
  PROVE  ReaderInv'
BY WhileReading, ReturnToStep DEF Return

\* A container is returned to what is around it (readObject, readArray).
LEMMA CloseStep ==
  ASSUME ReaderInv, Reading, nodes # <<>>, Close
  PROVE  ReaderInv'
<1>1. IsSequence(Front(nodes)) /\ Len(Front(nodes)) <= StackLimit
  <2>1. IsSequence(nodes) /\ Len(nodes) <= StackLimit
    BY WhileReading
  <2>2. /\ IsSequence(Front(nodes)) /\ Len(Front(nodes)) = Len(nodes) - 1
        /\ Len(nodes) \in Nat
    BY <2>1, LastChanged
  <2> QED BY <2>1, <2>2, JsonReaderAssumption
<1> DEFINE v == Top.value
<1>2. ReturnTo(Front(nodes), v) /\ UNCHANGED <<ok, errors>>
  BY DEF Close
<1> HIDE DEF v
<1> QED BY <1>1, <1>2, ReturnToStep

\* An error is noted: the containers around skip to their ends, or parse has failed
\* (addError, addErrorAndRecover).
LEMMA FailStep ==
  ASSUME ReaderInv, Reading, Fail
  PROVE  ReaderInv'
<1>1. /\ IsSequence(nodes) /\ Len(nodes) <= StackLimit
      /\ ok = TRUE /\ errors = 0
  BY WhileReading
<1>2. errors' = 1 /\ nodes' = nodes
  BY <1>1 DEF Fail
<1>3. CASE nodes = <<>>
  <2>1. at' = "extra" /\ ok' = FALSE
    BY <1>3 DEF Fail
  <2> QED BY <1>1, <1>2, <1>3, <2>1 DEF ReaderInv
<1>4. CASE nodes # <<>>
  <2>1. at' = "recover" /\ ok' = TRUE
    BY <1>1, <1>4 DEF Fail
  <2> QED BY <1>1, <1>2, <1>4, <2>1 DEF ReaderInv
<1> QED BY <1>3, <1>4

\* The next token belongs to the same call.
LEMMA GoOnStep ==
  ASSUME ReaderInv, Reading, NEW next \in Inside \cup {"value"}, GoOn(next),
         next # "value" => nodes # <<>>
  PROVE  ReaderInv'
<1>1. /\ IsSequence(nodes) /\ Len(nodes) <= StackLimit
      /\ ok = TRUE /\ errors = 0
  BY WhileReading
<1>2. at' = next /\ nodes' = nodes /\ ok' = ok /\ errors' = errors
  BY DEF GoOn
<1> QED BY <1>1, <1>2 DEF ReaderInv, Inside

\* A container is opened within the limit (readValue).
LEMMA OpenStep ==
  ASSUME ReaderInv, Reading, ~TooDeep, NEW container, NEW next \in Inside,
         Open(container, next)
  PROVE  ReaderInv'
<1>1. /\ IsSequence(nodes) /\ Len(nodes) <= StackLimit
      /\ ok = TRUE /\ errors = 0
  BY WhileReading
<1> DEFINE node == Node(container)
<1>2. nodes' = Append(nodes, node) /\ at' = next /\ ok' = ok /\ errors' = errors
  BY DEF Open
<1> HIDE DEF node
<1>3. IsSequence(nodes') /\ Len(nodes') = Len(nodes) + 1 /\ nodes' # <<>>
  BY <1>1, <1>2, Appended
<1>4. Len(nodes') <= StackLimit
  <2>1. Len(nodes) \in Nat
    BY <1>1, LenProperties DEF IsSequence
  <2> QED BY <1>3, <2>1, JsonReaderAssumption DEF TooDeep
<1> QED BY <1>1, <1>2, <1>3, <1>4 DEF ReaderInv, Inside

\* A name is kept for the member to come (readObject).
LEMMA NamedStep ==
  ASSUME ReaderInv, Reading, nodes # <<>>, NEW name, Named(name)
  PROVE  ReaderInv'
<1>1. /\ IsSequence(nodes) /\ Len(nodes) <= StackLimit
      /\ ok = TRUE /\ errors = 0
  BY WhileReading
<1> DEFINE node == [nodes[Len(nodes)] EXCEPT !.name = name]
<1>2. /\ nodes' = [nodes EXCEPT ![Len(nodes)] = node]
      /\ at' = "colon" /\ ok' = ok /\ errors' = errors
  BY DEF Named
<1> HIDE DEF node
<1>3. IsSequence(nodes') /\ Len(nodes') = Len(nodes) /\ nodes' # <<>>
  BY <1>1, <1>2, LastChanged
<1> QED BY <1>1, <1>2, <1>3 DEF ReaderInv, Inside

-----------------------------------------------------------------------------
(* One step. *)

\* Whatever token readValue meets.
LEMMA readValueStep ==
  ASSUME ReaderInv, NEW tok, readValue(tok)
  PROVE  ReaderInv'
<1>1. Reading
  BY DEF readValue, AtValue, Reading, Inside
<1>2. ~TooDeep
  BY DEF readValue
<1>3. CASE GoOn("value")
  BY <1>1, <1>3, GoOnStep
<1>4. CASE Open(EmptyObject, "name") \/ Open(EmptyArray, "first")
  BY <1>1, <1>2, <1>4, OpenStep DEF Inside
<1>5. CASE \E v : Return(v)
  BY <1>1, <1>5, ReturnStep
<1>6. CASE Fail
  BY <1>1, <1>6, FailStep
<1>7. QED
  BY <1>3, <1>4, <1>5, <1>6 DEF readValue

\* The loop of readObject, at each of its places.
LEMMA readObjectStep ==
  ASSUME ReaderInv, NEW tok,
         \/ readObjectName(tok) \/ readObjectColon(tok)
         \/ readObjectComma(tok) \/ readObjectAfterComment(tok)
  PROVE  ReaderInv'
<1>1. Reading /\ at # "value"
  BY DEF readObjectName, readObjectColon, readObjectComma, readObjectAfterComment,
         Reading, Inside
<1>2. nodes # <<>>
  BY <1>1, WhileReading
<1>3. CASE \E next \in Inside \cup {"value"} : GoOn(next)
  BY <1>1, <1>2, <1>3, GoOnStep
<1>4. CASE Close
  BY <1>1, <1>2, <1>4, CloseStep
<1>5. CASE Fail
  BY <1>1, <1>5, FailStep
<1>6. CASE \E name : Named(name)
  BY <1>1, <1>2, <1>6, NamedStep
<1>7. {"name", "afterComment", "value"} \subseteq Inside \cup {"value"}
  BY DEF Inside
<1>8. ASSUME readObjectName(tok)         PROVE ReaderInv'
  BY <1>3, <1>4, <1>5, <1>6, <1>7, <1>8 DEF readObjectName
<1>9. ASSUME readObjectColon(tok)        PROVE ReaderInv'
  BY <1>3, <1>5, <1>7, <1>9 DEF readObjectColon
<1>10. ASSUME readObjectComma(tok)        PROVE ReaderInv'
  BY <1>3, <1>4, <1>5, <1>7, <1>10 DEF readObjectComma
<1>11. ASSUME readObjectAfterComment(tok) PROVE ReaderInv'
  BY <1>3, <1>4, <1>7, <1>11 DEF readObjectAfterComment
<1> QED BY <1>8, <1>9, <1>10, <1>11

\* The loop of readArray.
LEMMA readArrayStep ==
  ASSUME ReaderInv, NEW tok, readArrayFirst(tok) \/ readArraySeparator(tok)
  PROVE  ReaderInv'
<1>1. Reading /\ at # "value"
  BY DEF readArrayFirst, readArraySeparator, Reading, Inside
<1>2. nodes # <<>>
  BY <1>1, WhileReading
<1>3. CASE GoOn("separator") \/ GoOn("value")
  BY <1>1, <1>2, <1>3, GoOnStep DEF Inside
<1>4. CASE Close
  BY <1>1, <1>2, <1>4, CloseStep
<1>5. CASE Fail
  BY <1>1, <1>5, FailStep
<1> QED BY <1>3, <1>4, <1>5 DEF readArrayFirst, readArraySeparator

\* Containers are closed without a value; when the last one is, parse goes on.
LEMMA recoverFromErrorStep ==
  ASSUME ReaderInv, NEW tok, recoverFromError(tok)
  PROVE  ReaderInv'
<1>1. /\ IsSequence(nodes) /\ nodes # <<>> /\ Len(nodes) <= StackLimit
      /\ ok = TRUE /\ errors = 1 /\ at = "recover"
  BY DEF ReaderInv, recoverFromError, Inside
<1>2. /\ IsSequence(Front(nodes)) /\ Len(Front(nodes)) = Len(nodes) - 1
      /\ Len(nodes) \in Nat
      /\ Front(nodes) = <<>> <=> Len(nodes) = 1
  BY <1>1, LastChanged
<1>3. Len(Front(nodes)) <= StackLimit
  BY <1>1, <1>2, JsonReaderAssumption
<1>4. errors' = 1
  BY <1>1 DEF recoverFromError
<1>5. CASE UNCHANGED <<nodes, at, ok>>
  BY <1>1, <1>4, <1>5 DEF ReaderInv
<1>6. CASE /\ nodes' = Front(nodes)
           /\ at' = IF Len(nodes) = 1 THEN "extra" ELSE "recover"
           /\ ok' = (ok /\ Len(nodes) # 1)
  <2>1. IsSequence(nodes') /\ Len(nodes') <= StackLimit
    BY <1>2, <1>3, <1>6
  <2>2. ASSUME Len(nodes) = 1
        PROVE  nodes' = <<>> /\ at' = "extra" /\ ok' = FALSE
    BY <1>2, <1>6, <2>2
  <2>3. ASSUME Len(nodes) # 1
        PROVE  nodes' # <<>> /\ at' = "recover" /\ ok' = TRUE
    BY <1>1, <1>2, <1>6, <2>3
  <2> QED BY <1>4, <2>1, <2>2, <2>3 DEF ReaderInv
<1> QED BY <1>5, <1>6 DEF recoverFromError

\* What parse does after the value notes at most one more error.
LEMMA parseExtraStep ==
  ASSUME ReaderInv, NEW tok, parseExtra(tok)
  PROVE  ReaderInv'
<1>1. /\ IsSequence(nodes) /\ nodes = <<>> /\ Len(nodes) <= StackLimit
      /\ at = "extra"
      /\ (ok = TRUE /\ errors = 0) \/ (ok = FALSE /\ errors = 1)
  BY DEF ReaderInv, parseExtra, Inside
<1>2. nodes' = nodes
  BY DEF parseExtra
<1>3. CASE UNCHANGED <<at, ok, errors>>
  BY <1>1, <1>2, <1>3 DEF ReaderInv
<1>4. CASE /\ at' = "done"
           /\ ok' = (ok /\ ~Extra(tok) /\ ~BadRoot)
           /\ errors' = IF Extra(tok) \/ BadRoot THEN errors + 1 ELSE errors
  <2>1. ASSUME Extra(tok) \/ BadRoot
        PROVE  ok' = FALSE /\ errors' \in 1 .. 2
    <3>1. ok' = FALSE /\ errors' = errors + 1
      BY <1>4, <2>1
    <3>2. errors \in 0 .. 1
      <4>1. errors = 0 \/ errors = 1
        BY <1>1
      <4> QED BY <4>1
    <3> QED BY <3>1, <3>2
  <2>2. ASSUME ~(Extra(tok) \/ BadRoot)
        PROVE  (ok' <=> ok) /\ ok' \in BOOLEAN /\ errors' = errors
    BY <1>4, <2>2
  <2>3. ASSUME ~(Extra(tok) \/ BadRoot), ok = TRUE, errors = 0
        PROVE  ok' = TRUE /\ errors' = 0
    BY <2>2, <2>3
  <2>4. ASSUME ~(Extra(tok) \/ BadRoot), ok = FALSE, errors = 1
        PROVE  ok' = FALSE /\ errors' \in 1 .. 2
    <3>1. ok' = FALSE
      BY <2>2, <2>4
    <3>2. errors' \in 1 .. 2
      BY <2>2, <2>4
    <3> QED BY <3>1, <3>2
  <2>5. (ok' = TRUE /\ errors' = 0) \/ (ok' = FALSE /\ errors' \in 1 .. 2)
    BY <1>1, <2>1, <2>3, <2>4
  <2>6. at' = "done"
    BY <1>4
  <2> HIDE <1>4
  <2> QED BY <1>1, <1>2, <2>5, <2>6 DEF ReaderInv
<1> QED BY <1>3, <1>4 DEF parseExtra

\* What holds where the reader stands is kept by every token and by every use
\* of the reader.
LEMMA ReaderInvHolds == ReaderSpec => []ReaderInv
<1>1. ASSUME Begin PROVE ReaderInv
  <2>1. IsSequence(<<>>) /\ Len(<<>>) = 0
    BY EmptySeq DEF IsSequence
  <2> QED BY <1>1, <2>1, JsonReaderAssumption DEF Begin, ReaderInv
<1>2. ReaderInit => ReaderInv
  BY <1>1 DEF ReaderInit
<1>3. ASSUME ReaderInv, [ReaderNext \/ parse]_readerVars PROVE ReaderInv'
  <2>1. CASE UNCHANGED readerVars
    BY <1>3, <2>1 DEF readerVars, ReaderInv
  <2>2. CASE parse
    <3>1. nodes' = <<>> /\ at' = "value" /\ ok' = TRUE /\ errors' = 0
      BY <2>2 DEF parse
    <3>2. IsSequence(<<>>) /\ Len(<<>>) = 0
      BY EmptySeq DEF IsSequence
    <3> QED BY <3>1, <3>2, JsonReaderAssumption DEF ReaderInv
  <2>3. ASSUME NEW tok, Step(tok) PROVE ReaderInv'
    <3>1. CASE ThrowTooDeep(tok)
      <4>1. Reading
        BY <3>1 DEF ThrowTooDeep, AtValue, Reading, Inside
      <4>2. at' = "thrown" /\ UNCHANGED <<nodes, ok, errors>>
        BY <3>1 DEF ThrowTooDeep
      <4> QED BY <1>3, <4>1, <4>2, WhileReading DEF ReaderInv
    <3>2. CASE readValue(tok)
      BY <1>3, <3>2, readValueStep
    <3>3. CASE \/ readObjectName(tok) \/ readObjectColon(tok)
               \/ readObjectComma(tok) \/ readObjectAfterComment(tok)
      BY <1>3, <3>3, readObjectStep
    <3>4. CASE readArrayFirst(tok) \/ readArraySeparator(tok)
      BY <1>3, <3>4, readArrayStep
    <3>5. CASE recoverFromError(tok)
      BY <1>3, <3>5, recoverFromErrorStep
    <3>6. CASE parseExtra(tok)
      BY <1>3, <3>6, parseExtraStep
    <3> QED BY <2>3, <3>1, <3>2, <3>3, <3>4, <3>5, <3>6 DEF Step
  <2> QED BY <1>3, <2>1, <2>2, <2>3 DEF ReaderNext
<1> QED BY <1>2, <1>3, PTL DEF ReaderSpec

\* No more containers are open than stackLimit_ allows and none when parse has
\* its value, through failures and recoveries, for documents of any length.
THEOREM ReaderTypeCorrect == ReaderSpec => []TypeOK
<1>1. ASSUME ReaderInv PROVE TypeOK
  <2>1. /\ Len(nodes) <= StackLimit
        /\ at \in {"value", "first", "separator", "name", "colon", "comma",
                   "afterComment", "recover", "extra", "done", "thrown"}
        /\ at \in {"extra", "done"} => nodes = <<>>
    BY <1>1 DEF ReaderInv, Inside
  <2>2. errors \in 0 .. 2 /\ ok \in BOOLEAN
    <3>1. ok = TRUE \/ ok = FALSE
      BY <1>1 DEF ReaderInv
    <3>2. ok \in BOOLEAN
      BY <3>1
    <3>3. errors \in 0 .. 2
      BY <1>1 DEF ReaderInv
    <3> QED BY <3>2, <3>3
  <2> QED BY <2>1, <2>2 DEF TypeOK
<1> QED BY <1>1, ReaderInvHolds, PTL

\* parse succeeds exactly when it has noted no error.
THEOREM ErrorsTellCorrect == ReaderSpec => []ErrorsTell
<1>1. ASSUME ReaderInv PROVE ErrorsTell
  <2>1. SUFFICES ASSUME at = "done" PROVE ok <=> errors = 0
    BY DEF ErrorsTell
  <2>2. (ok = TRUE /\ errors = 0) \/ (ok = FALSE /\ errors \in 1 .. 2)
    BY <1>1, <2>1 DEF ReaderInv, Inside
  <2>3. CASE ok = TRUE /\ errors = 0
    BY <2>3
  <2>4. CASE ok = FALSE /\ errors \in 1 .. 2
    BY <2>4
  <2> QED BY <2>2, <2>3, <2>4
<1> QED BY <1>1, ReaderInvHolds, PTL

-----------------------------------------------------------------------------
(* Digits. *)

\* The number after one more digit: as it is, and as decodeNumber computes it.
Counted(how, before, digits, i, max) ==
  IF how = "exact" THEN before * 10 + digits[i]
  ELSE IF \/ before = -1
          \/ digits[i] \notin 0 .. 9
          \/ ~Fits(before, digits[i], i = Len(digits), max)
         THEN -1
         ELSE (before * 10 + digits[i]) % (LargestUIntMax + 1)

\* f[k] is the number after k digits.
Counts(how, f, digits, n, max) ==
  f = [i \in 0 .. n |-> IF i = 0 THEN 0 ELSE Counted(how, f[i - 1], digits, i, max)]

\* There is such a function for any number of digits.
LEMMA CountExists ==
  ASSUME NEW how, NEW digits, NEW max, NEW n \in Nat
  PROVE  \E f : Counts(how, f, digits, n, max)
<1> DEFINE Stuck == {m \in Nat : ~ \E f : Counts(how, f, digits, m, max)}
<1>1. SUFFICES ASSUME Stuck # {} PROVE FALSE
  OBVIOUS
<1>2. PICK m \in Stuck : \A o \in Stuck : ~ (<<o, m>> \in OpToRel(<, Nat))
  <2>1. Stuck \subseteq Nat
    OBVIOUS
  <2> HIDE DEF Stuck
  <2> QED BY <1>1, <2>1, NatLessThanWellFounded, WFMin
<1>3. m \in Nat /\ ~ \E f : Counts(how, f, digits, m, max)
  OBVIOUS
<1>4. CASE m = 0
  <2> DEFINE f == [i \in 0 .. 0 |-> 0]
  <2>1. \A i \in 0 .. 0 : i = 0
    OBVIOUS
  <2>2. f = [i \in 0 .. 0 |-> IF i = 0 THEN 0 ELSE Counted(how, f[i - 1], digits, i, max)]
    BY <2>1
  <2>3. Counts(how, f, digits, m, max)
    BY <1>4, <2>2 DEF Counts
  <2> QED BY <1>3, <2>3
<1>5. CASE m > 0
  <2>1. m - 1 \in Nat /\ m - 1 < m
    BY <1>3, <1>5
  <2>2. PICK f : Counts(how, f, digits, m - 1, max)
    <3>1. m - 1 \notin Stuck
      BY <1>2, <1>3, <2>1 DEF OpToRel
    <3> QED BY <2>1, <3>1
  <2> DEFINE g == [i \in 0 .. m |-> IF i < m THEN f[i]
                                    ELSE Counted(how, f[m - 1], digits, m, max)]
  <2>3. \A i \in 0 .. m - 1 : f[i] = IF i = 0 THEN 0
                                     ELSE Counted(how, f[i - 1], digits, i, max)
    BY <2>2 DEF Counts
  <2>4. \A i \in 0 .. m : g[i] = IF i = 0 THEN 0
                                 ELSE Counted(how, g[i - 1], digits, i, max)
    <3> SUFFICES ASSUME NEW i \in 0 .. m
                 PROVE  g[i] = IF i = 0 THEN 0
                               ELSE Counted(how, g[i - 1], digits, i, max)
      OBVIOUS
    <3>1. CASE i < m
      <4>1. i \in 0 .. m - 1 /\ (i # 0 => i - 1 \in 0 .. m /\ i - 1 < m)
        BY <1>3, <3>1
      <4>2. g[i] = f[i] /\ (i # 0 => g[i - 1] = f[i - 1])
        BY <3>1, <4>1
      <4> HIDE DEF g
      <4> QED BY <2>3, <4>1, <4>2
    <3>2. CASE i = m
      <4>1. m - 1 \in 0 .. m /\ m - 1 < m /\ ~(m < m) /\ m # 0
        BY <1>3, <1>5
      <4>2. g[m - 1] = f[m - 1] /\ g[m] = Counted(how, f[m - 1], digits, m, max)
        BY <4>1
      <4> HIDE DEF g
      <4> QED BY <3>2, <4>1, <4>2
    <3> QED BY <1>3, <3>1, <3>2
  <2>5. g = [i \in 0 .. m |-> g[i]]
    OBVIOUS
  <2> HIDE DEF g
  <2>6. g = [i \in 0 .. m |-> IF i = 0 THEN 0
                              ELSE Counted(how, g[i - 1], digits, i, max)]
    BY <2>4, <2>5
  <2>7. Counts(how, g, digits, m, max)
    BY <2>6 DEF Counts
  <2> QED BY <1>3, <2>7
<1> QED BY <1>3, <1>4, <1>5

\* What the two functions on digits are.
LEMMA DigitsCounted ==
  ASSUME NEW digits, Len(digits) \in Nat, NEW max
  PROVE  /\ \E f : Counts("exact", f, digits, Len(digits), max)
                     /\ NumberOf(digits) = f[Len(digits)]
         /\ \E f : Counts("decoded", f, digits, Len(digits), max)
                     /\ DecodedDigits(digits, max) = f[Len(digits)]
<1>1. \E f : f = [i \in 0 .. Len(digits) |->
                    IF i = 0 THEN 0 ELSE f[i - 1] * 10 + digits[i]]
  <2>1. PICK f : Counts("exact", f, digits, Len(digits), max)
    BY CountExists
  <2> QED BY <2>1 DEF Counts, Counted
<1>2. \E f : f = [i \in 0 .. Len(digits) |->
                    IF i = 0 THEN 0
                    ELSE LET before == f[i - 1]
                         IN  IF \/ before = -1
                                \/ digits[i] \notin 0 .. 9
                                \/ ~Fits(before, digits[i], i = Len(digits), max)
                               THEN -1
                               ELSE (before * 10 + digits[i]) % (LargestUIntMax + 1)]
  <2>1. PICK f : Counts("decoded", f, digits, Len(digits), max)
    BY CountExists
  <2> QED BY <2>1, ZenonT(60) DEF Counts, Counted
<1> DEFINE u == CHOOSE f : f = [i \in 0 .. Len(digits) |->
                    IF i = 0 THEN 0 ELSE f[i - 1] * 10 + digits[i]]
           v == CHOOSE f : f = [i \in 0 .. Len(digits) |->
                    IF i = 0 THEN 0
                    ELSE LET before == f[i - 1]
                         IN  IF \/ before = -1
                                \/ digits[i] \notin 0 .. 9
                                \/ ~Fits(before, digits[i], i = Len(digits), max)
                               THEN -1
                               ELSE (before * 10 + digits[i]) % (LargestUIntMax + 1)]
<1>3. Counts("exact", u, digits, Len(digits), max)
  BY <1>1, Zenon DEF Counts, Counted
<1>4. Counts("decoded", v, digits, Len(digits), max)
  BY <1>2, Zenon DEF Counts, Counted
<1>5. NumberOf(digits) = u[Len(digits)]
  BY Zenon DEF NumberOf
<1>6. DecodedDigits(digits, max) = v[Len(digits)]
  BY Zenon DEF DecodedDigits
<1> HIDE DEF u, v
<1> QED BY <1>3, <1>4, <1>5, <1>6

\* The test before the multiplication: what fits is not wrapped around, and what
\* does not fit is too large, or is with any digit that follows.
LEMMA OneDigit ==
  ASSUME NEW max \in Nat, 10 <= max, max <= LargestUIntMax,
         NEW digit \in 0 .. 9, NEW before \in Nat, NEW isLast \in BOOLEAN
  PROVE  LET n == before * 10 + digit
         IN  /\ n \in Nat
             /\ Fits(before, digit, isLast, max)
                  => n <= max /\ n % (LargestUIntMax + 1) = n
             /\ ~Fits(before, digit, isLast, max)
                  => n > max \/ (~isLast /\ n * 10 > max)
<1> DEFINE n == before * 10 + digit
           threshold == max \div 10
           rest == max % 10
<1>1. n \in Nat /\ n = before * 10 + digit /\ digit \in Nat /\ digit <= 9
  OBVIOUS
<1>2. /\ threshold \in Nat /\ rest \in Nat /\ rest <= 9
      /\ max = threshold * 10 + rest /\ threshold >= 1
  OBVIOUS
<1>3. Fits(before, digit, isLast, max)
        <=> \/ before < threshold
            \/ before = threshold /\ isLast /\ digit <= rest
  BY DEF Fits
<1> HIDE DEF n, threshold, rest
<1>4. ASSUME Fits(before, digit, isLast, max)
      PROVE  n <= max /\ n % (LargestUIntMax + 1) = n
  <2>1. n <= max
    BY <1>1, <1>2, <1>3, <1>4
  <2>2. LargestUIntMax \in Nat /\ n < LargestUIntMax + 1
    BY <1>1, <2>1, JsonTextAssumption
  <2> QED BY <1>1, <2>1, <2>2
<1>5. ASSUME ~Fits(before, digit, isLast, max)
      PROVE  n > max \/ (~isLast /\ n * 10 > max)
  <2>1. CASE before > threshold
    BY <1>1, <1>2, <2>1
  <2>2. CASE before = threshold /\ isLast
    <3>1. digit > rest
      <4>1. ~(digit <= rest)
        BY <1>3, <1>5, <2>2
      <4> QED BY <1>1, <1>2, <4>1
    <3> QED BY <1>1, <1>2, <2>2, <3>1
  <2>3. CASE before = threshold /\ ~isLast
    <3>1. n * 10 > max
      BY <1>1, <1>2, <2>3
    <3> QED BY <2>3, <3>1
  <2>4. ~(before < threshold)
    BY <1>3, <1>5
  <2> QED BY <1>2, <2>1, <2>2, <2>3, <2>4
<1> QED BY <1>1, <1>4, <1>5 DEF n

\* The loop of decodeNumber gives the number when max can hold it, and gives up
\* when it cannot.
LEMMA DigitsExact ==
  ASSUME NEW digits \in Seq(0 .. 9), NEW max \in Nat, 10 <= max, max <= LargestUIntMax
  PROVE  /\ NumberOf(digits) \in Nat
         /\ DecodedDigits(digits, max)
              = IF NumberOf(digits) <= max THEN NumberOf(digits) ELSE -1
<1> DEFINE len == Len(digits)
<1>1. len \in Nat /\ \A i \in 1 .. len : digits[i] \in 0 .. 9
  BY LenProperties
<1>2. PICK exact : Counts("exact", exact, digits, len, max)
                     /\ NumberOf(digits) = exact[len]
  BY <1>1, DigitsCounted
<1>3. PICK found : Counts("decoded", found, digits, len, max)
                     /\ DecodedDigits(digits, max) = found[len]
  BY <1>1, DigitsCounted
<1> DEFINE Right(i) ==
             /\ exact[i] \in Nat
             /\ \/ found[i] = exact[i] /\ exact[i] <= max
                \/ /\ found[i] = -1
                   /\ exact[i] > max \/ (i < len /\ exact[i] * 10 > max)
           Wrong == {i \in 0 .. len : ~Right(i)}
<1>4. Wrong = {}
  <2>1. SUFFICES ASSUME Wrong # {} PROVE FALSE
    OBVIOUS
  <2>2. PICK m \in Wrong : \A i \in Wrong : ~ (<<i, m>> \in OpToRel(<, Nat))
    <3>1. Wrong \subseteq Nat
      BY <1>1
    <3> HIDE DEF Wrong
    <3> QED BY <2>1, <3>1, NatLessThanWellFounded, WFMin
  <2>3. m \in 0 .. len /\ m \in Nat /\ ~Right(m)
    BY <1>1
  <2>4. exact[m] = IF m = 0 THEN 0 ELSE exact[m - 1] * 10 + digits[m]
    BY <1>2, <2>3 DEF Counts, Counted
  <2>5. found[m] = IF m = 0 THEN 0 ELSE Counted("decoded", found[m - 1], digits, m, max)
    BY <1>3, <2>3 DEF Counts
  <2>6. CASE m = 0
    <3>1. exact[m] = 0 /\ found[m] = 0
      BY <2>4, <2>5, <2>6
    <3> QED BY <2>3, <3>1
  <2>7. CASE m # 0
    <3>1. m - 1 \in 0 .. len /\ m - 1 < m /\ m \in 1 .. len /\ m - 1 \in Nat
      BY <1>1, <2>3, <2>7
    <3>2. Right(m - 1)
      <4>1. m - 1 \notin Wrong
        BY <2>2, <2>3, <3>1 DEF OpToRel
      <4> QED BY <3>1, <4>1
    <3> DEFINE before == exact[m - 1]
               digit == digits[m]
               fits == Fits(found[m - 1], digit, m = len, max)
    <3>3. before \in Nat /\ digit \in 0 .. 9 /\ digit \in Nat
      BY <1>1, <3>1, <3>2
    <3>4. exact[m] = before * 10 + digit
      BY <2>4, <2>7
    <3>5. found[m] = IF found[m - 1] = -1 \/ ~fits THEN -1
                     ELSE (found[m - 1] * 10 + digit) % (LargestUIntMax + 1)
      BY <2>5, <2>7, <3>3 DEF Counted
    <3>6. ASSUME found[m - 1] = before, before <= max PROVE FALSE
      <4>1. /\ exact[m] \in Nat
            /\ fits => exact[m] <= max /\ exact[m] % (LargestUIntMax + 1) = exact[m]
            /\ ~fits => exact[m] > max \/ (m # len /\ exact[m] * 10 > max)
        <5>1. max \in Nat /\ 10 <= max /\ max <= LargestUIntMax /\ (m = len) \in BOOLEAN
          BY <1>1
        <5> HIDE DEF before, digit
        <5>2. LET k == before * 10 + digit
              IN  /\ k \in Nat
                  /\ Fits(before, digit, m = len, max)
                       => k <= max /\ k % (LargestUIntMax + 1) = k
                  /\ ~Fits(before, digit, m = len, max)
                       => k > max \/ (~(m = len) /\ k * 10 > max)
          BY <3>3, <5>1, OneDigit
        <5> QED BY <3>4, <3>6, <5>2
      <4>2. found[m - 1] # -1
        BY <3>3, <3>6
      <4> HIDE DEF before, digit, fits
      <4>3. fits => found[m] = exact[m]
        BY <3>4, <3>5, <3>6, <4>1, <4>2
      <4>4. ~fits => found[m] = -1
        BY <3>5
      <4>5. m # len => m < len
        BY <1>1, <2>3
      <4>6. Right(m)
        BY <4>1, <4>3, <4>4, <4>5
      <4> QED BY <2>3, <4>6
    <3>7. ASSUME found[m - 1] = -1, before > max \/ before * 10 > max PROVE FALSE
      <4>1. found[m] = -1
        BY <3>5, <3>7
      <4>2. exact[m] \in Nat /\ exact[m] > max
        <5> HIDE DEF before, digit
        <5> QED BY <3>3, <3>4, <3>7
      <4> QED BY <2>3, <4>1, <4>2
    <3> QED BY <3>2, <3>6, <3>7
  <2> QED BY <2>6, <2>7
<1>5. Right(len)
  BY <1>1, <1>4
<1>6. /\ exact[len] \in Nat
      /\ found[len] = IF exact[len] <= max THEN exact[len] ELSE -1
  BY <1>1, <1>5
<1> QED BY <1>2, <1>3, <1>6

-----------------------------------------------------------------------------
(* Numbers. *)

\* The limits are at least ten, so that a threshold of decodeNumber is at least one.
LEMMA Maxima ==
  /\ maxLargestUInt \in Nat /\ 10 <= maxLargestUInt /\ maxLargestUInt <= LargestUIntMax
  /\ minLargestInt \in Int /\ -minLargestInt \in Nat
  /\ 10 <= -minLargestInt /\ -minLargestInt <= LargestUIntMax
<1> DEFINE half == LargestUIntMax \div 2
<1>1. half \in Nat /\ LargestUIntMax \in Nat /\ LargestUIntMax = 2 * half + 1 /\ 9 <= half
  BY JsonTextAssumption
<1>2. maxLargestUInt = LargestUIntMax /\ minLargestInt = -half - 1
  BY DEF maxLargestUInt, maxLargestInt, minLargestInt
<1> HIDE DEF half
<1> QED BY <1>1, <1>2

\* A whole number, as decodeNumber reads it.
LEMMA decodeNumberExact ==
  ASSUME NEW text, IsNumber(text), IsWhole(text)
  PROVE  LET n == ValueOf(text)
             v == decodeNumber(text)
         IN  IF n \in minLargestInt .. maxLargestUInt
               THEN v.kind \in {"int", "uint"} /\ v.int = n
               ELSE v.kind = "double"
<1>1. /\ text \in Seq(0 .. 9 \cup {Minus, Point, Exponent}) /\ text # <<>>
      /\ \A i \in 2 .. Len(text) : text[i] # Minus
      /\ \A i \in 1 .. Len(text) : text[i] \in 0 .. 9 \cup {Minus}
      /\ text # <<Minus>>
  BY LenProperties DEF IsNumber, IsWhole
<1>2. Len(text) \in Nat /\ Len(text) >= 1
  BY <1>1, EmptySeq
<1>3. CASE text[1] = Minus
  <2> DEFINE digits == Tail(text)
  <2>1. digits \in Seq(0 .. 9)
    <3>1. /\ Len(digits) = Len(text) - 1 /\ digits \in Seq(0 .. 9 \cup {Minus, Point, Exponent})
          /\ \A i \in 1 .. Len(digits) : digits[i] = text[i + 1]
      BY <1>1, HeadTailProperties
    <3>2. \A i \in 1 .. Len(digits) : digits[i] \in 0 .. 9
      BY <1>1, <1>2, <3>1
    <3> HIDE DEF digits
    <3>3. digits = [i \in 1 .. Len(digits) |-> digits[i]] /\ Len(digits) \in Nat
      BY <3>1, LenProperties
    <3>4. [i \in 1 .. Len(digits) |-> digits[i]] \in [1 .. Len(digits) -> 0 .. 9]
      BY <3>2
    <3> QED BY <3>3, <3>4 DEF Seq
  <2> DEFINE n == NumberOf(digits)
             value == DecodedDigits(digits, -minLargestInt)
  <2>2. n \in Nat /\ value = IF n <= -minLargestInt THEN n ELSE -1
    BY <2>1, Maxima, DigitsExact
  <2>3. ValueOf(text) = -n
    BY <1>3 DEF ValueOf
  <2>4. decodeNumber(text) = IF value = -1 THEN Double(text) ELSE IntValue(-value)
    BY <1>3 DEF decodeNumber
  <2> HIDE DEF n, value, digits
  <2>5. -n \in minLargestInt .. maxLargestUInt <=> n <= -minLargestInt
    BY <2>2, Maxima
  <2>6. value = -1 <=> ~(n <= -minLargestInt)
    BY <2>2
  <2>7. value # -1 => value = n
    BY <2>2
  <2> QED BY <2>3, <2>4, <2>5, <2>6, <2>7 DEF Double, IntValue
<1>4. CASE text[1] # Minus
  <2>1. text \in Seq(0 .. 9)
    <3>1. \A i \in 1 .. Len(text) : text[i] \in 0 .. 9
      BY <1>1, <1>2, <1>4
    <3> QED BY <1>1, <3>1
  <2> DEFINE n == NumberOf(text)
             value == DecodedDigits(text, maxLargestUInt)
  <2>2. n \in Nat /\ value = IF n <= maxLargestUInt THEN n ELSE -1
    BY <2>1, Maxima, DigitsExact
  <2>3. ValueOf(text) = n
    BY <1>4 DEF ValueOf
  <2>4. decodeNumber(text) = IF value = -1 THEN Double(text)
                             ELSE IF value <= maxInt THEN IntValue(value) ELSE UIntValue(value)
    BY <1>4 DEF decodeNumber
  <2> HIDE DEF n, value
  <2>5. n \in minLargestInt .. maxLargestUInt <=> n <= maxLargestUInt
    BY <2>2, Maxima
  <2>6. value = -1 <=> ~(n <= maxLargestUInt)
    BY <2>2
  <2>7. value # -1 => value = n
    BY <2>2
  <2> QED BY <2>3, <2>4, <2>5, <2>6, <2>7 DEF Double, IntValue, UIntValue
<1> QED BY <1>3, <1>4

\* A document that begins with a number: nothing of it has been read, or the
\* number has been returned to parse.
NumberInv ==
  /\ IsSequence(doc)
  /\ doc = <<>> => ahead = <<>> /\ nodes = <<>> /\ at \in {"value", "thrown"}
  /\ doc # <<>> /\ doc[1].type = "number" =>
       /\ IsNumber(doc[1].text)
       /\ \/ at = "value" /\ nodes = <<>> /\ ahead = doc
          \/ at \in {"extra", "done"} /\ (root = decodeNumber(doc[1].text) \/ ~ok)
          \/ at = "thrown"

\* A document begins with its first token; what is found to be its first token
\* is one of Tokens, or its end.
LEMMA FirstToken ==
  ASSUME NumberInv, NEW tok \in Upcoming, readToken(tok) \/ unreadToken(tok)
  PROVE  /\ IsSequence(doc') /\ doc' # <<>>
         /\ doc # <<>> => doc'[1] = doc[1]
         /\ doc = <<>> => /\ doc'[1] = tok /\ nodes = <<>> /\ at \in {"value", "thrown"}
                          /\ tok.type = "number" => IsNumber(tok.text)
<1>1. IsSequence(doc)
  BY DEF NumberInv
<1>2. doc' = IF ahead = <<>> /\ ~Ended THEN Append(doc, tok) ELSE doc
  BY DEF readToken, unreadToken
<1>3. CASE doc # <<>>
  <2>1. IsSequence(Append(doc, tok)) /\ Append(doc, tok) # <<>> /\ Append(doc, tok)[1] = doc[1]
    BY <1>1, <1>3, Appended
  <2> QED BY <1>1, <1>2, <1>3, <2>1
<1>4. CASE doc = <<>>
  <2>1. ahead = <<>> /\ ~Ended /\ nodes = <<>> /\ at \in {"value", "thrown"}
    BY <1>4 DEF NumberInv, Ended
  <2>2. doc' = Append(doc, tok)
    BY <1>2, <2>1
  <2>3. IsSequence(Append(doc, tok)) /\ Append(doc, tok) # <<>> /\ Append(doc, tok)[1] = tok
    BY <1>1, <1>4, Appended
  <2>4. tok \in Tokens \/ tok = End
    BY <2>1 DEF Upcoming
  <2>5. tok.type = "number" => IsNumber(tok.text)
    BY <2>4, JsonReaderAssumption DEF End, Token
  <2> QED BY <1>4, <2>1, <2>2, <2>3, <2>5
<1> QED BY <1>3, <1>4

\* The value of a document that is a number is that number.
LEMMA NumberStep ==
  ASSUME NumberInv, ReaderInv, NEW tok \in Upcoming, Step(tok)
  PROVE  NumberInv'
<1>1. CASE ThrowTooDeep(tok)
  <2>1. at' = "thrown" /\ AtValue(tok) /\ UNCHANGED <<doc, ahead, nodes, root>>
    BY <1>1 DEF ThrowTooDeep
  <2> QED BY <2>1 DEF NumberInv
<1>2. CASE at = "value" /\ ~TooDeep /\ readValue(tok)
  <2>1. readToken(tok) \/ unreadToken(tok)
    BY <1>2 DEF readValue
  <2>2. /\ IsSequence(doc') /\ doc' # <<>>
        /\ doc # <<>> => doc'[1] = doc[1]
        /\ doc = <<>> => /\ doc'[1] = tok /\ nodes = <<>> /\ at \in {"value", "thrown"}
                         /\ tok.type = "number" => IsNumber(tok.text)
    BY <2>1, FirstToken
  <2>3. SUFFICES ASSUME doc'[1].type = "number"
                 PROVE  /\ IsNumber(doc'[1].text)
                        /\ at' = "extra"
                        /\ root' = decodeNumber(doc'[1].text) \/ ~ok'
    BY <2>2 DEF NumberInv
  <2>4. doc'[1] = tok /\ nodes = <<>> /\ IsNumber(tok.text)
    <3>1. CASE doc = <<>>
      BY <2>2, <2>3, <3>1
    <3>2. CASE doc # <<>>
      <4>1. doc[1].type = "number" /\ doc'[1] = doc[1]
        BY <2>2, <2>3, <3>2
      <4>2. nodes = <<>> /\ ahead = doc /\ IsNumber(doc[1].text)
        BY <1>2, <3>2, <4>1 DEF NumberInv
      <4>3. tok = doc[1]
        BY <3>2, <4>2 DEF Upcoming
      <4> QED BY <4>1, <4>2, <4>3
    <3> QED BY <3>1, <3>2
  <2>5. tok.type = "number"
    BY <2>3, <2>4
  <2>6. Return(decodeNumber(tok.text)) \/ Fail
    BY <1>2, <2>5 DEF readValue
  <2>7. CASE Return(decodeNumber(tok.text))
    <3>1. root' = decodeNumber(tok.text) /\ at' = "extra"
      BY <2>4, <2>7 DEF Return, ReturnTo
    <3> QED BY <2>4, <3>1
  <2>8. CASE Fail
    <3>1. ok' = FALSE /\ at' = "extra"
      BY <2>4, <2>8 DEF Fail
    <3> QED BY <2>4, <3>1
  <2> QED BY <2>6, <2>7, <2>8
<1>3. CASE parseExtra(tok)
  <2>1. at = "extra" /\ at' \in {"extra", "done"} /\ root' = root /\ readToken(tok)
    BY <1>3 DEF parseExtra
  <2>5. ~ok => ~ok'
    BY <1>3, Zenon DEF parseExtra
  <2>2. doc # <<>>
    BY <2>1 DEF NumberInv
  <2>3. IsSequence(doc') /\ doc' # <<>> /\ doc'[1] = doc[1]
    BY <2>1, <2>2, FirstToken
  <2>4. doc[1].type = "number" => /\ IsNumber(doc[1].text)
                                  /\ root = decodeNumber(doc[1].text) \/ ~ok
    BY <2>1, <2>2 DEF NumberInv
  <2> QED BY <2>1, <2>3, <2>4, <2>5 DEF NumberInv
<1>4. ASSUME at \in Inside \cup {"recover"}, readToken(tok) \/ unreadToken(tok)
      PROVE  NumberInv'
  <2>1. doc # <<>>
    BY <1>4 DEF NumberInv, Inside
  <2>2. IsSequence(doc') /\ doc' # <<>> /\ doc'[1] = doc[1]
    BY <1>4, <2>1, FirstToken
  <2>3. doc[1].type # "number"
    BY <1>4, <2>1 DEF NumberInv, Inside
  <2> QED BY <2>2, <2>3 DEF NumberInv
<1>5. CASE at # "value" /\ readValue(tok)
  <2>1. at \in Inside /\ (readToken(tok) \/ unreadToken(tok))
    BY <1>5 DEF readValue, AtValue, Inside
  <2> QED BY <1>4, <2>1
<1>6. CASE \/ readObjectName(tok) \/ readObjectColon(tok)
           \/ readObjectComma(tok) \/ readObjectAfterComment(tok)
           \/ readArrayFirst(tok) \/ readArraySeparator(tok) \/ recoverFromError(tok)
  <2>1. at \in Inside \cup {"recover"} /\ readToken(tok)
    BY <1>6 DEF readObjectName, readObjectColon, readObjectComma, readObjectAfterComment,
                readArrayFirst, readArraySeparator, recoverFromError, Inside
  <2> QED BY <1>4, <2>1
<1>7. readValue(tok) => ~TooDeep
  BY DEF readValue
<1> QED BY <1>1, <1>2, <1>3, <1>5, <1>6, <1>7 DEF Step

\* A whole number is read as itself when LargestInt or LargestUInt can hold it,
\* and as a double when neither can, whatever its length and whatever their
\* sizes: never wrapped around.
THEOREM NumbersExactCorrect == ReaderSpec => []NumbersExact
<1>1. ReaderInit => NumberInv
  <2>1. SUFFICES ASSUME ReaderInit PROVE NumberInv
    OBVIOUS
  <2>2. at = "value" /\ nodes = <<>> /\ ahead = doc
    BY <2>1 DEF ReaderInit, Begin
  <2>3. CASE doc = <<>>
    <3>1. IsSequence(<<>>)
      BY EmptySeq DEF IsSequence
    <3> QED BY <2>2, <2>3, <3>1 DEF NumberInv
  <2>4. CASE doc # <<>>
    <3>1. IsDocument(doc)
      BY <2>1, <2>4, JsonReaderAssumption DEF ReaderInit
    <3>2. IsSequence(doc) /\ (doc[1].type = "number" => IsNumber(doc[1].text))
      <4>1. doc \in Seq(Range(doc))
        BY <3>1 DEF IsDocument
      <4>2. 1 \in DOMAIN doc
        BY <2>4, <4>1, EmptySeq, LenProperties
      <4> QED BY <3>1, <4>1, <4>2 DEF IsDocument, IsSequence
    <3> QED BY <2>2, <2>4, <3>2 DEF NumberInv
  <2> QED BY <2>3, <2>4
<1>2. ASSUME NumberInv, ReaderInv, [ReaderNext \/ parse]_readerVars PROVE NumberInv'
  <2>1. CASE UNCHANGED readerVars
    BY <1>2, <2>1 DEF readerVars, NumberInv
  <2>2. CASE parse
    <3>1. at' = "value" /\ nodes' = <<>> /\ ahead' = doc' /\ IsDocument(doc')
      BY <2>2 DEF parse
    <3>2. doc' \in Seq(Range(doc')) /\ doc' # <<>>
      BY <3>1 DEF IsDocument
    <3>3. 1 \in DOMAIN doc'
      BY <3>2, EmptySeq, LenProperties
    <3>4. IsSequence(doc') /\ (doc'[1].type = "number" => IsNumber(doc'[1].text))
      BY <3>1, <3>2, <3>3 DEF IsDocument, IsSequence
    <3> QED BY <3>1, <3>2, <3>4 DEF NumberInv
  <2>3. CASE ReaderNext
    <3>1. PICK tok \in Upcoming : Step(tok)
      BY <2>3 DEF ReaderNext
    <3> QED BY <1>2, <3>1, NumberStep
  <2> QED BY <1>2, <2>1, <2>2, <2>3
<1>3. ASSUME NumberInv PROVE NumbersExact
  <2>1. SUFFICES ASSUME at = "done", ok, doc[1].type = "number", IsWhole(doc[1].text)
                 PROVE  LET n == ValueOf(doc[1].text)
                        IN  IF n \in minLargestInt .. maxLargestUInt
                              THEN root.kind \in {"int", "uint"} /\ root.int = n
                              ELSE root.kind = "double"
    BY DEF NumbersExact
  <2>2. IsNumber(doc[1].text) /\ root = decodeNumber(doc[1].text)
    BY <1>3, <2>1 DEF NumberInv
  <2> QED BY <2>1, <2>2, decodeNumberExact
<1> QED BY <1>1, <1>2, <1>3, ReaderInvHolds, PTL DEF ReaderSpec


-----------------------------------------------------------------------------
(* Numbers that are written. *)

\* f[k] is the text of k.
Writes(f, n) ==
  f = [k \in 0 .. n |-> IF k < 10 THEN <<k>> ELSE Append(f[k \div 10], k % 10)]

\* Dividing by ten leads to a smaller number.
LEMMA FewerDigits ==
  ASSUME NEW k \in Nat, k >= 10
  PROVE  k \div 10 \in 0 .. k - 1 /\ k % 10 \in 0 .. 9 /\ (k \div 10) * 10 + (k % 10) = k
OBVIOUS

\* Every number can be written.
LEMMA WritingExists ==
  ASSUME NEW n \in Nat
  PROVE  \E f : Writes(f, n)
<1> DEFINE Stuck == {m \in Nat : ~ \E f : Writes(f, m)}
<1>1. SUFFICES ASSUME Stuck # {} PROVE FALSE
  OBVIOUS
<1>2. PICK m \in Stuck : \A o \in Stuck : ~ (<<o, m>> \in OpToRel(<, Nat))
  <2>1. Stuck \subseteq Nat
    OBVIOUS
  <2> HIDE DEF Stuck
  <2> QED BY <1>1, <2>1, NatLessThanWellFounded, WFMin
<1>3. m \in Nat /\ ~ \E f : Writes(f, m)
  OBVIOUS
<1>4. CASE m < 10
  <2> DEFINE f == [k \in 0 .. m |-> <<k>>]
  <2>1. \A k \in 0 .. m : k < 10
    BY <1>3, <1>4
  <2>2. f = [k \in 0 .. m |-> IF k < 10 THEN <<k>> ELSE Append(f[k \div 10], k % 10)]
    BY <2>1
  <2>3. Writes(f, m)
    BY <2>2 DEF Writes
  <2> QED BY <1>3, <2>3
<1>5. CASE m >= 10
  <2>1. m - 1 \in Nat /\ m - 1 < m
    BY <1>3, <1>5
  <2>2. PICK f : Writes(f, m - 1)
    <3>1. m - 1 \notin Stuck
      BY <1>2, <1>3, <2>1 DEF OpToRel
    <3> QED BY <2>1, <3>1
  <2> DEFINE g == [k \in 0 .. m |-> IF k < m THEN f[k] ELSE Append(f[m \div 10], m % 10)]
  <2>3. \A k \in 0 .. m - 1 : f[k] = IF k < 10 THEN <<k>>
                                     ELSE Append(f[k \div 10], k % 10)
    BY <2>2 DEF Writes
  <2>4. \A k \in 0 .. m : g[k] = IF k < 10 THEN <<k>> ELSE Append(g[k \div 10], k % 10)
    <3> SUFFICES ASSUME NEW k \in 0 .. m
                 PROVE  g[k] = IF k < 10 THEN <<k>> ELSE Append(g[k \div 10], k % 10)
      OBVIOUS
    <3>1. k >= 10 => k \div 10 \in 0 .. k - 1
      BY FewerDigits
    <3> DEFINE tenth == k \div 10
    <3>2. k >= 10 => g[tenth] = f[tenth]
      <4> HIDE DEF tenth
      <4>1. k >= 10 => tenth \in 0 .. m /\ tenth < m
        BY <1>3, <3>1 DEF tenth
      <4> QED BY <4>1
    <3>3. CASE k < m
      <4>1. g[k] = f[k] /\ k \in 0 .. m - 1
        BY <1>3, <3>3
      <4>2. k < 10 \/ k >= 10
        BY <1>3
      <4> HIDE DEF g
      <4> QED BY <2>3, <3>2, <4>1, <4>2
    <3>4. CASE k = m
      <4>1. g[k] = Append(f[tenth], k % 10) /\ k >= 10 /\ ~(k < 10)
        BY <1>3, <1>5, <3>4
      <4> HIDE DEF g
      <4> QED BY <3>2, <4>1
    <3> QED BY <1>3, <3>3, <3>4
  <2>5. g = [k \in 0 .. m |-> g[k]]
    OBVIOUS
  <2> HIDE DEF g
  <2>6. Writes(g, m)
    BY <2>4, <2>5 DEF Writes
  <2> QED BY <1>3, <2>6
<1> QED BY <1>3, <1>4, <1>5

\* One more digit at the end.
LEMMA OneMoreDigit ==
  ASSUME NEW digits \in Seq(0 .. 9), NEW digit \in 0 .. 9
  PROVE  NumberOf(Append(digits, digit)) = NumberOf(digits) * 10 + digit
<1> DEFINE len == Len(digits)
           more == Append(digits, digit)
<1>1. /\ len \in Nat /\ Len(more) = len + 1 /\ more[len + 1] = digit
      /\ \A i \in 1 .. len : more[i] = digits[i]
  BY AppendProperties, LenProperties
<1>2. PICK f : Counts("exact", f, digits, len, 0) /\ NumberOf(digits) = f[len]
  BY <1>1, DigitsCounted
<1>3. PICK g : Counts("exact", g, more, len + 1, 0) /\ NumberOf(more) = g[len + 1]
  <2> HIDE DEF more
  <2>1. Len(more) \in Nat
    BY <1>1
  <2> QED BY <1>1, <2>1, DigitsCounted
<1> HIDE DEF more
<1>4. \A i \in 0 .. len : f[i] = IF i = 0 THEN 0 ELSE f[i - 1] * 10 + digits[i]
  BY <1>2 DEF Counts, Counted
<1>5. \A i \in 0 .. len + 1 : g[i] = IF i = 0 THEN 0 ELSE g[i - 1] * 10 + more[i]
  BY <1>3 DEF Counts, Counted
<1> DEFINE Wrong == {i \in 0 .. len : g[i] # f[i]}
<1>6. Wrong = {}
  <2>1. SUFFICES ASSUME Wrong # {} PROVE FALSE
    OBVIOUS
  <2>2. PICK m \in Wrong : \A i \in Wrong : ~ (<<i, m>> \in OpToRel(<, Nat))
    <3>1. Wrong \subseteq Nat
      BY <1>1
    <3> HIDE DEF Wrong
    <3> QED BY <2>1, <3>1, NatLessThanWellFounded, WFMin
  <2>3. m \in 0 .. len /\ m \in 0 .. len + 1 /\ m \in Nat /\ g[m] # f[m]
    BY <1>1
  <2>4. CASE m = 0
    BY <1>4, <1>5, <2>3, <2>4
  <2>5. CASE m # 0
    <3>1. m - 1 \in 0 .. len /\ m - 1 < m /\ m \in 1 .. len /\ m - 1 \in Nat
      BY <1>1, <2>3, <2>5
    <3>2. m - 1 \notin Wrong
      BY <2>2, <2>3, <3>1 DEF OpToRel
    <3>3. g[m - 1] = f[m - 1] /\ more[m] = digits[m]
      BY <1>1, <3>1, <3>2
    <3> QED BY <1>4, <1>5, <2>3, <2>5, <3>3
  <2> QED BY <2>4, <2>5
<1>7. g[len] = f[len]
  BY <1>1, <1>6
<1>8. g[len + 1] = g[len] * 10 + digit
  <2>1. len + 1 \in 0 .. len + 1 /\ len + 1 # 0 /\ (len + 1) - 1 = len
    BY <1>1
  <2> QED BY <1>1, <1>5, <2>1
<1> QED BY <1>2, <1>3, <1>7, <1>8 DEF more

\* uintToString writes the digits of its number.
LEMMA DigitsWritten ==
  ASSUME NEW n \in Nat
  PROVE  /\ uintToString(n) \in Seq(0 .. 9) /\ uintToString(n) # <<>>
         /\ NumberOf(uintToString(n)) = n
<1> DEFINE d == CHOOSE d : d = [k \in 0 .. n |-> IF k < 10 THEN <<k>>
                                                 ELSE Append(d[k \div 10], k % 10)]
<1>1. uintToString(n) = d[n]
  BY Zenon DEF uintToString
<1>2. Writes(d, n)
  <2>1. \E f : f = [k \in 0 .. n |-> IF k < 10 THEN <<k>> ELSE Append(f[k \div 10], k % 10)]
    BY WritingExists, Zenon DEF Writes
  <2> QED BY <2>1, Zenon DEF Writes
<1> HIDE DEF d
<1>3. \A k \in 0 .. n : d[k] = IF k < 10 THEN <<k>> ELSE Append(d[k \div 10], k % 10)
  BY <1>2 DEF Writes
<1> DEFINE Right(k) == d[k] \in Seq(0 .. 9) /\ d[k] # <<>> /\ NumberOf(d[k]) = k
           Wrong == {k \in 0 .. n : ~Right(k)}
<1>4. Wrong = {}
  <2>1. SUFFICES ASSUME Wrong # {} PROVE FALSE
    OBVIOUS
  <2>2. PICK m \in Wrong : \A k \in Wrong : ~ (<<k, m>> \in OpToRel(<, Nat))
    <3>1. Wrong \subseteq Nat
      OBVIOUS
    <3> HIDE DEF Wrong
    <3> QED BY <2>1, <3>1, NatLessThanWellFounded, WFMin
  <2>3. m \in 0 .. n /\ m \in Nat /\ ~Right(m)
    OBVIOUS
  <2>4. d[m] = IF m < 10 THEN <<m>> ELSE Append(d[m \div 10], m % 10)
    BY <1>3, <2>3, Zenon
  <2>5. CASE m < 10
    <3>1. d[m] = <<m>> /\ m \in 0 .. 9
      <4>1. d[m] = <<m>>
        BY <2>5, <2>4
      <4>2. m \in 0 .. 9
        BY <2>3, <2>5
      <4> QED BY <4>1, <4>2
    <3>2. <<m>> \in Seq(0 .. 9) /\ <<m>> # <<>> /\ <<m>> = Append(<<>>, m)
      BY <3>1
    <3>3. <<>> \in Seq(0 .. 9) /\ Len(<<>>) = 0
      BY EmptySeq
    <3>4. NumberOf(<<>>) = 0
      <4>1. PICK f : Counts("exact", f, <<>>, 0, 0) /\ NumberOf(<<>>) = f[0]
        BY <3>3, DigitsCounted
      <4> QED BY <4>1 DEF Counts
    <3>5. NumberOf(<<m>>) = 0 * 10 + m
      BY <3>1, <3>2, <3>3, <3>4, OneMoreDigit
    <3>6. NumberOf(<<m>>) = m
      BY <2>3, <3>5
    <3> QED BY <2>3, <3>1, <3>2, <3>6
  <2>6. CASE m >= 10
    <3> DEFINE tenth == m \div 10
               digit == m % 10
    <3>1. tenth \in 0 .. m - 1 /\ digit \in 0 .. 9 /\ tenth * 10 + digit = m
      BY <2>3, <2>6, FewerDigits
    <3>2. d[m] = Append(d[tenth], digit)
      <4>1. ~(m < 10)
        BY <2>3, <2>6
      <4> QED BY <2>4, <4>1
    <3> HIDE DEF tenth, digit
    <3>3. Right(tenth)
      <4>1. tenth \in 0 .. n /\ tenth \in Nat /\ tenth < m
        BY <2>3, <3>1
      <4>2. tenth \notin Wrong
        BY <2>2, <2>3, <4>1 DEF OpToRel
      <4> QED BY <4>1, <4>2
    <3>4. d[m] \in Seq(0 .. 9) /\ d[m] # <<>>
      <4>1. d[tenth] \in Seq(0 .. 9) /\ digit \in 0 .. 9
        BY <3>1, <3>3
      <4>2. Append(d[tenth], digit) \in Seq(0 .. 9) /\ Append(d[tenth], digit) # <<>>
        BY <4>1, AppendProperties
      <4> QED BY <3>2, <4>2
    <3>5. NumberOf(d[m]) = tenth * 10 + digit
      BY <3>1, <3>2, <3>3, OneMoreDigit
    <3> QED BY <2>3, <3>1, <3>4, <3>5
  <2> QED BY <2>3, <2>5, <2>6
<1>5. n \in 0 .. n
  OBVIOUS
<1>6. Right(n)
  BY <1>4, <1>5
<1> QED BY <1>1, <1>6

\* A number of digits, with or without a sign in front, can be decoded.
LEMMA DigitsDecoded ==
  ASSUME NEW digits \in Seq(0 .. 9), digits # <<>>, NEW text, NEW sign \in 0 .. 1,
         DOMAIN text = 1 .. Len(text), Len(text) = sign + Len(digits), Len(digits) \in Nat,
         sign = 1 => text[1] = Minus,
         \A i \in 1 .. Len(digits) : text[i + sign] = digits[i]
  PROVE  CanDecodeNumber(text)
<1> DEFINE exponents == {i \in DOMAIN text : text[i] = Exponent}
<1>1. Len(digits) >= 1 /\ \A i \in 1 .. Len(digits) : digits[i] \in 0 .. 9
  BY EmptySeq, LenProperties
<1>2. text[1 + sign] \in 0 .. 9 /\ 1 + sign \in DOMAIN text
  BY <1>1
<1>3. \A i \in DOMAIN text : text[i] \in 0 .. 9 \cup {Minus}
  <2> SUFFICES ASSUME NEW i \in 1 .. Len(text) PROVE text[i] \in 0 .. 9 \cup {Minus}
    OBVIOUS
  <2>1. CASE sign = 1 /\ i = 1
    BY <2>1
  <2>2. CASE ~(sign = 1 /\ i = 1)
    <3>1. i - sign \in 1 .. Len(digits) /\ (i - sign) + sign = i
      BY <2>2
    <3> QED BY <1>1, <3>1
  <2> QED BY <2>1, <2>2
<1>4. exponents = {}
  BY <1>3 DEF Exponent, Minus
<1> QED BY <1>2, <1>4 DEF CanDecodeNumber

\* Every integer that LargestInt or LargestUInt can hold is read again as it was
\* written, of the same type (valueToString, uintToString, decodeNumber).
THEOREM NumbersComeBack ==
  ASSUME NEW n \in minLargestInt .. maxLargestUInt
  PROVE  LET v == IF n <= maxInt THEN IntValue(n) ELSE UIntValue(n)
             text == valueToString(v)
         IN  CanDecodeNumber(text) /\ decodeNumber(text) = v
<1>1. /\ minLargestInt \in Int /\ maxLargestUInt \in Int /\ n \in Int
      /\ maxLargestUInt \in Nat /\ 10 <= maxLargestUInt /\ maxLargestUInt <= LargestUIntMax
      /\ -minLargestInt \in Nat /\ 10 <= -minLargestInt /\ -minLargestInt <= LargestUIntMax
  BY Maxima
<1>2. maxInt \in Nat
  BY JsonTextAssumption DEF maxInt
<1>3. minLargestInt <= n /\ n <= maxLargestUInt
  BY <1>1
<1>4. CASE n < 0
  <2> DEFINE digits == uintToString(-n)
             text == <<Minus>> \o digits
             value == DecodedDigits(digits, -minLargestInt)
  <2>1. -n \in Nat /\ -n <= -minLargestInt /\ n <= maxInt /\ -(-n) = n
    BY <1>1, <1>2, <1>3, <1>4
  <2>2. digits \in Seq(0 .. 9) /\ NumberOf(digits) = -n
    BY <2>1, DigitsWritten
  <2>3. value = -n
    BY <1>1, <2>1, <2>2, DigitsExact
  <2>4. valueToString(IntValue(n)) = text
    BY <1>4 DEF valueToString, IntValue
  <2>5. text[1] = Minus /\ Tail(text) = digits
    <3>1. digits \in Seq(Nat) /\ <<Minus>> \in Seq(Nat) /\ Len(<<Minus>>) = 1 /\ <<Minus>>[1] = Minus
      BY <2>2 DEF Minus
    <3> HIDE DEF digits
    <3>2. /\ text \in Seq(Nat) /\ Len(text) = 1 + Len(digits)
          /\ text[1] = Minus
          /\ \A i \in 1 .. Len(digits) : text[i + 1] = digits[i]
      BY <3>1
    <3> HIDE DEF text
    <3>3. Len(digits) \in Nat /\ text # <<>>
      BY <3>1, <3>2, EmptySeq, LenProperties
    <3>4. /\ Tail(text) \in Seq(Nat) /\ Len(Tail(text)) = Len(digits)
          /\ \A i \in 1 .. Len(digits) : Tail(text)[i] = digits[i]
      BY <3>2, <3>3, HeadTailProperties
    <3> QED BY <3>1, <3>2, <3>4, SeqEqual
  <2>6. decodeNumber(text) = IF value = -1 THEN Double(text) ELSE IntValue(-value)
    BY <2>5 DEF decodeNumber
  <2> HIDE DEF value, text, digits
  <2>7. value # -1
    BY <2>1, <2>3
  <2>8. decodeNumber(text) = IntValue(n)
    BY <2>1, <2>3, <2>6, <2>7
  <2>9. CanDecodeNumber(text)
    <3>1. digits \in Seq(0 .. 9) /\ digits # <<>>
      BY <2>1, DigitsWritten DEF digits
    <3>2. /\ Len(text) = 1 + Len(digits) /\ Len(digits) \in Nat /\ text[1] = Minus
          /\ DOMAIN text = 1 .. Len(text)
          /\ \A i \in 1 .. Len(digits) : text[i + 1] = digits[i]
      <4>1. digits \in Seq(Nat) /\ <<Minus>> \in Seq(Nat) /\ Len(<<Minus>>) = 1
            /\ <<Minus>>[1] = Minus
        BY <3>1 DEF Minus
      <4> QED BY <4>1, LenProperties DEF text
    <3> QED BY <3>1, <3>2, DigitsDecoded
  <2> QED BY <2>1, <2>4, <2>8, <2>9
<1>5. CASE ~(n < 0)
  <2> DEFINE text == uintToString(n)
             value == DecodedDigits(text, maxLargestUInt)
             v == IF n <= maxInt THEN IntValue(n) ELSE UIntValue(n)
  <2>1. n \in Nat
    BY <1>1, <1>5
  <2>2. text \in Seq(0 .. 9) /\ text # <<>> /\ NumberOf(text) = n
    BY <2>1, DigitsWritten
  <2>3. value = n
    BY <1>1, <1>3, <2>2, DigitsExact
  <2>4. valueToString(v) = text
    BY <1>5 DEF valueToString, IntValue, UIntValue
  <2>5. text[1] # Minus
    <3>1. text[1] \in 0 .. 9
      BY <2>2, EmptySeq, LenProperties
    <3> QED BY <3>1 DEF Minus
  <2>6. decodeNumber(text) = IF value = -1 THEN Double(text)
                             ELSE IF value <= maxInt THEN IntValue(value) ELSE UIntValue(value)
    BY <2>5 DEF decodeNumber
  <2> HIDE DEF value, text
  <2>7. value # -1
    BY <2>1, <2>3
  <2>8. CanDecodeNumber(text)
    <3>1. DOMAIN text = 1 .. Len(text) /\ Len(text) = 0 + Len(text) /\ Len(text) \in Nat
      BY <2>2, LenProperties
    <3> QED BY <2>2, <3>1, DigitsDecoded
  <2> QED BY <2>3, <2>4, <2>6, <2>7, <2>8
<1> QED BY <1>4, <1>5
=============================================================================
