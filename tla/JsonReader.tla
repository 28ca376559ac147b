----------------------------- MODULE JsonReader -----------------------------
(***************************************************************************)
(* The JSON reader (class OurReader of mypintool/jsoncpp.cpp): parse with  *)
(* readValue, readObject and readArray, which call each other recursively, *)
(* and recoverFromError.  A step reads one token.                          *)
(*                                                                         *)
(* Where the recursion stands is kept in "at" and in a stack of the open   *)
(* containers.  Comments are read, but where they are attached to values   *)
(* is left out, and so are positions in the text, single-quoted strings    *)
(* and NaN and the infinities.                                             *)
(***************************************************************************)
EXTENDS JsonText, TLC

CONSTANTS
  FeatureSets,   \* the settings a reader may have been built with
  StackLimit,    \* features_.stackLimit_
  Tokens,        \* the tokens documents are made of
  MaxTokens,     \* bound: tokens of a document that is not given
  GivenDocuments \* documents given whole: longer ones, and ones of other tokens

VARIABLES
  features,
  doc,       \* the tokens the document has turned out to have so far
  ahead,     \* tokens of doc still to be read
  at,        \* what is read next
  nodes,     \* the open containers, from the outside in
  root,
  ok,        \* what readValue has returned to parse
  errors     \* the number of errors_

readerVars == <<features, doc, ahead, at, nodes, root, ok, errors>>

-----------------------------------------------------------------------------
(* Settings, tokens and values. *)

Features(comments, strict, dropped, numeric, extra, dup) ==
  [allowComments |-> comments, strictRoot |-> strict,
   allowDroppedNullPlaceholders |-> dropped, allowNumericKeys |-> numeric,
   failIfExtra |-> extra, rejectDupKeys |-> dup]

strictMode  == Features(FALSE, TRUE, FALSE, FALSE, TRUE, TRUE)
setDefaults == Features(TRUE, FALSE, FALSE, FALSE, FALSE, FALSE)

Token(type) == [type |-> type, text |-> <<>>]
Number(text) == [type |-> "number", text |-> text]
String(text) == [type |-> "string", text |-> text]
End == Token("end")

Null == [kind |-> "null"]
Str(bytes) == [kind |-> "string", bytes |-> bytes]
Array(items) == [kind |-> "array", items |-> items]
Object(members) == [kind |-> "object", members |-> members]
EmptyArray == Array(<<>>)
EmptyObject == Object(<<>>)
IsContainer(v) == v.kind \in {"array", "object"}

\* An open container; in an object, name is the name read last.
Node(value) == [value |-> value, name |-> <<>>]
Top == nodes[Len(nodes)]

Attach(node, v) ==
  IF node.value.kind = "array" THEN [node EXCEPT !.value.items = Append(@, v)]
  ELSE [node EXCEPT !.value.members = (node.name :> v) @@ @]

\* numberName.asString(): the characters of the number.
AsString(text) ==
  LET number == valueToString(decodeNumber(text))
  IN  [i \in DOMAIN number |->
         CASE number[i] = Minus -> 45 [] number[i] = Point -> 46
           [] number[i] = Exponent -> 101 [] OTHER -> 48 + number[i]]

-----------------------------------------------------------------------------
(* readToken.  A document ends when its end is read, and then reading goes   *)
(* on to find its end.                                                       *)

Ended == doc # <<>> /\ doc[Len(doc)] = End

\* What recoverFromError skips does not matter: it is one token, an error.
Upcoming ==
  IF ahead # <<>> THEN {ahead[1]}
  ELSE IF Ended THEN {End}
  ELSE IF Len(doc) = MaxTokens THEN {End}
  ELSE IF at = "recover" THEN {tok \in Tokens : tok.type \in {"]", "}", "error"}} \cup {End}
  ELSE Tokens \cup {End}

readToken(tok) ==
  /\ doc'   = IF ahead = <<>> /\ ~Ended THEN Append(doc, tok) ELSE doc
  /\ ahead' = IF ahead = <<>> THEN <<>> ELSE Tail(ahead)

\* current_--: tok is read again.
unreadToken(tok) ==
  /\ doc'   = IF ahead = <<>> /\ ~Ended THEN Append(doc, tok) ELSE doc
  /\ ahead' = IF ahead = <<>> THEN <<tok>> ELSE ahead

-----------------------------------------------------------------------------
(* The ways a call of readValue ends. *)

\* With value v for its node, where below are the nodes around it.
ReturnTo(below, v) ==
  IF below = <<>>
    THEN /\ nodes' = <<>> /\ root' = v /\ at' = "extra"
    ELSE LET node == below[Len(below)]
         IN  /\ nodes' = [below EXCEPT ![Len(below)] = Attach(node, v)]
             /\ at' = IF node.value.kind = "array" THEN "separator" ELSE "comma"
             /\ UNCHANGED root

Return(v) == ReturnTo(nodes, v) /\ UNCHANGED <<ok, errors>>
Close == ReturnTo(Front(nodes), Top.value) /\ UNCHANGED <<ok, errors>>

\* addError, and then the containers around skip to their ends.
Fail ==
  /\ errors' = errors + 1
  /\ at' = IF nodes = <<>> THEN "extra" ELSE "recover"
  /\ ok' = (ok /\ nodes # <<>>)
  /\ UNCHANGED <<nodes, root>>

GoOn(next) == at' = next /\ UNCHANGED <<nodes, root, ok, errors>>

Open(container, next) ==
  /\ nodes' = Append(nodes, Node(container))
  /\ root' = IF nodes = <<>> THEN container ELSE root
  /\ at' = next
  /\ UNCHANGED <<ok, errors>>

-----------------------------------------------------------------------------
(* readValue. *)

\* "first" is the place after "[": an array may be closed there.
AtValue(tok) == at = "value" \/ (at = "first" /\ tok.type # "]")

\* Mutant: only the open containers are counted.
TooDeepLate == Len(nodes) > StackLimit

\* nodes_ also holds the node of the value to be read.
TooDeep == Len(nodes) + 1 > StackLimit

ThrowTooDeep(tok) ==
  /\ AtValue(tok) /\ TooDeep
  /\ at' = "thrown"
  /\ UNCHANGED <<doc, ahead, nodes, root, ok, errors>>

readValue(tok) ==
  /\ AtValue(tok) /\ ~TooDeep
  /\ \/ /\ tok.type = "comment" /\ features.allowComments
        /\ readToken(tok)
        /\ GoOn("value")
     \/ /\ tok.type = "{"
        /\ readToken(tok)
        /\ Open(EmptyObject, "name")
     \/ /\ tok.type = "["
        /\ readToken(tok)
        /\ Open(EmptyArray, "first")
     \/ /\ tok.type = "number" /\ CanDecodeNumber(tok.text)
        /\ readToken(tok)
        /\ Return(decodeNumber(tok.text))
     \/ /\ tok.type = "string" /\ CanDecode(tok.text)
        /\ readToken(tok)
        /\ Return(Str(decodeString(tok.text)))
     \/ /\ tok.type = "null"
        /\ readToken(tok)
        /\ Return(Null)
     \/ /\ tok.type \in {",", "}", "]"} /\ features.allowDroppedNullPlaceholders
        /\ unreadToken(tok)
        /\ Return(Null)
     \/ /\ \/ tok.type \in {":", "end", "error"}
           \/ tok.type = "comment" /\ ~features.allowComments
           \/ tok.type = "number" /\ ~CanDecodeNumber(tok.text)
           \/ tok.type = "string" /\ ~CanDecode(tok.text)
           \/ tok.type \in {",", "}", "]"} /\ ~features.allowDroppedNullPlaceholders
        /\ readToken(tok)
        /\ Fail

-----------------------------------------------------------------------------
(* readObject and readArray. *)

Named(name) ==
  /\ nodes' = [nodes EXCEPT ![Len(nodes)].name = name]
  /\ at' = "colon"
  /\ UNCHANGED <<root, ok, errors>>

\* Mutant: a "}" is taken after a comma.
BraceAlways(tok) ==
  /\ at = "name"
  /\ readToken(tok)
  /\ \/ tok.type = "comment" /\ GoOn("name")
     \/ tok.type = "}" /\ Close
     \/ tok.type = "string" /\ CanDecode(tok.text) /\ Named(decodeString(tok.text))
     \/ tok.type \notin {"comment", "}", "string"} /\ Fail

\* Comments are skipped here whatever allowComments says.  A "}" is taken
\* as long as the name is empty, which means the first time, or after "".
readObjectName(tok) ==
  /\ at = "name"
  /\ readToken(tok)
  /\ \/ tok.type = "comment" /\ GoOn("name")
     \/ tok.type = "}" /\ Top.name = <<>> /\ Close
     \/ tok.type = "string" /\ CanDecode(tok.text) /\ Named(decodeString(tok.text))
     \/ /\ tok.type = "number" /\ features.allowNumericKeys
        /\ CanDecodeNumber(tok.text)
        /\ Named(AsString(tok.text))
     \/ /\ \/ tok.type \notin {"comment", "}", "string", "number"}
           \/ tok.type = "}" /\ Top.name # <<>>
           \/ tok.type = "string" /\ ~CanDecode(tok.text)
           \/ /\ tok.type = "number"
              /\ ~(features.allowNumericKeys /\ CanDecodeNumber(tok.text))
        /\ Fail

readObjectColon(tok) ==
  LET duplicate == features.rejectDupKeys /\ Top.name \in DOMAIN Top.value.members
  IN  /\ at = "colon"
      /\ readToken(tok)
      /\ \/ tok.type = ":" /\ ~duplicate /\ GoOn("value")
         \/ (tok.type # ":" \/ duplicate) /\ Fail

\* Mutant: a closing brace is not looked for after a member.
CommaOnly(tok) ==
  /\ at = "comma"
  /\ readToken(tok)
  /\ \/ tok.type = "," /\ GoOn("name")
     \/ tok.type = "comment" /\ GoOn("afterComment")
     \/ tok.type \notin {",", "comment"} /\ Fail

readObjectComma(tok) ==
  /\ at = "comma"
  /\ readToken(tok)
  /\ \/ tok.type = "}" /\ Close
     \/ tok.type = "," /\ GoOn("name")
     \/ tok.type = "comment" /\ GoOn("afterComment")
     \/ tok.type \notin {"}", ",", "comment"} /\ Fail

\* After a comment any token but "}" is taken for the comma.
readObjectAfterComment(tok) ==
  /\ at = "afterComment"
  /\ readToken(tok)
  /\ \/ tok.type = "}" /\ Close
     \/ tok.type = "comment" /\ GoOn("afterComment")
     \/ tok.type \notin {"}", "comment"} /\ GoOn("name")

readArrayFirst(tok) ==
  /\ at = "first" /\ tok.type = "]"
  /\ readToken(tok)
  /\ Close

readArraySeparator(tok) ==
  /\ at = "separator"
  /\ readToken(tok)
  /\ \/ tok.type = "comment" /\ GoOn("separator")
     \/ tok.type = "," /\ GoOn("value")
     \/ tok.type = "]" /\ Close
     \/ tok.type \notin {"comment", ",", "]"} /\ Fail

\* Mutant: the end of the document does not stop the skipping.
RecoverAtCloserOnly(tok) ==
  /\ at = "recover"
  /\ readToken(tok)
  /\ IF tok.type = (IF Top.value.kind = "array" THEN "]" ELSE "}")
       THEN /\ nodes' = Front(nodes)
            /\ at' = IF Len(nodes) = 1 THEN "extra" ELSE "recover"
            /\ ok' = (ok /\ Len(nodes) # 1)
       ELSE UNCHANGED <<nodes, at, ok>>
  /\ UNCHANGED <<root, errors>>

\* Mutant: errors_ is emptied and not cut to its former length.
RecoverAndForget(tok) ==
  /\ at = "recover"
  /\ readToken(tok)
  /\ IF tok.type \in {IF Top.value.kind = "array" THEN "]" ELSE "}", "end"}
       THEN /\ nodes' = Front(nodes)
            /\ at' = IF Len(nodes) = 1 THEN "extra" ELSE "recover"
            /\ ok' = (ok /\ Len(nodes) # 1)
            /\ errors' = 0
       ELSE UNCHANGED <<nodes, at, ok, errors>>
  /\ UNCHANGED root

\* Skip to the end of the innermost container, or of the document.
recoverFromError(tok) ==
  /\ at = "recover"
  /\ readToken(tok)
  /\ IF tok.type \in {IF Top.value.kind = "array" THEN "]" ELSE "}", "end"}
       THEN /\ nodes' = Front(nodes)
            /\ at' = IF Len(nodes) = 1 THEN "extra" ELSE "recover"
            /\ ok' = (ok /\ Len(nodes) # 1)
       ELSE UNCHANGED <<nodes, at, ok>>
  /\ UNCHANGED <<root, errors>>

-----------------------------------------------------------------------------
(* parse. *)

\* What parse does with the token after the value, comments aside.
Extra(tok) ==
  /\ features.failIfExtra
  /\ features.strictRoot \/ tok.type # "error"
  /\ tok.type # "end"

BadRoot == features.strictRoot /\ ~IsContainer(root)

parseExtra(tok) ==
  /\ at = "extra"
  /\ readToken(tok)
  /\ \/ /\ tok.type = "comment" /\ features.allowComments
        /\ UNCHANGED <<at, ok, errors>>
     \/ /\ ~(tok.type = "comment" /\ features.allowComments)
        /\ at' = "done"
        /\ ok' = (ok /\ ~Extra(tok) /\ ~BadRoot)
        /\ errors' = IF Extra(tok) \/ BadRoot THEN errors + 1 ELSE errors
  /\ UNCHANGED <<nodes, root>>

Finished == at \in {"done", "thrown"}

\* What the caller hands over to be read into: parse leaves it as it is when it
\* finds no value, and BadRoot may then look at a container of before.
CallerRoots == {Null, EmptyArray}

\* Where readValue begins.
Begin ==
  /\ at = "value" /\ nodes = <<>> /\ root \in CallerRoots /\ ok = TRUE /\ errors = 0

\* A document is a list of tokens; only in front does a number have a sign of
\* its own.
IsNumber(text) ==
  /\ text \in Seq(0 .. 9 \cup {Minus, Point, Exponent}) /\ text # <<>>
  /\ \A i \in 2 .. Len(text) : text[i] # Minus
IsDocument(d) ==
  /\ d \in Seq(Range(d)) /\ d # <<>>
  /\ \A i \in DOMAIN d : d[i].type = "number" => IsNumber(d[i].text)

ASSUME JsonReaderAssumption ==
  /\ StackLimit \in Nat
  /\ \A tok \in Tokens : tok.type = "number" => IsNumber(tok.text)
  /\ \A d \in GivenDocuments : IsDocument(Append(d, End))

ReaderInit ==
  /\ Begin
  /\ features \in FeatureSets
  /\ doc \in {<<>>} \cup {Append(d, End) : d \in GivenDocuments}
  /\ ahead = doc

\* A reader is used again: errors_ and nodes_ are emptied.
parse ==
  /\ Finished
  /\ IsDocument(doc') /\ ahead' = doc'
  /\ at' = "value" /\ nodes' = <<>> /\ root' \in CallerRoots /\ ok' = TRUE /\ errors' = 0
  /\ UNCHANGED features

Step(tok) ==
  \/ ThrowTooDeep(tok)
  \/ readValue(tok)
  \/ readObjectName(tok)
  \/ readObjectColon(tok)
  \/ readObjectComma(tok)
  \/ readObjectAfterComment(tok)
  \/ readArrayFirst(tok)
  \/ readArraySeparator(tok)
  \/ recoverFromError(tok)
  \/ parseExtra(tok)

ReaderNext == (\E tok \in Upcoming : Step(tok)) /\ UNCHANGED features

ReaderSpec == ReaderInit /\ [][ReaderNext \/ parse]_readerVars

-----------------------------------------------------------------------------
(* Properties. *)

\* No more containers are open than stackLimit_ allows, none is when readValue
\* has returned to parse, whether it failed or not, and no more than two errors
\* are noted (readValue, recoverFromError, parse).
TypeOK ==
  /\ at \in {"value", "first", "separator", "name", "colon", "comma", "afterComment",
             "recover", "extra", "done", "thrown"}
  /\ Len(nodes) <= StackLimit /\ errors \in 0 .. 2 /\ ok \in BOOLEAN
  /\ at \in {"extra", "done"} => nodes = <<>>

\* A caller that looks at the errors and one that looks at the result of parse
\* decide alike, recoveries in between notwithstanding (addError,
\* recoverFromError, parse).
ErrorsTell == at = "done" => (ok <=> errors = 0)

\* The number that the digits of text are, in unbounded arithmetic.
NumberOf(digits) ==
  LET number[i \in 0 .. Len(digits)] ==
        IF i = 0 THEN 0 ELSE number[i - 1] * 10 + digits[i]
  IN  number[Len(digits)]
IsWhole(text) == text # <<Minus>> /\ \A i \in DOMAIN text : text[i] \notin {Point, Exponent}
ValueOf(text) == IF text[1] = Minus THEN -NumberOf(Tail(text)) ELSE NumberOf(text)

\* A whole number is read as itself whenever LargestInt or LargestUInt can hold
\* it, and as a double when neither can: never wrapped around (decodeNumber).
NumbersExact ==
  at = "done" /\ ok /\ doc[1].type = "number" /\ IsWhole(doc[1].text) =>
    LET n == ValueOf(doc[1].text)
    IN  IF n \in minLargestInt .. maxLargestUInt
          THEN root.kind \in {"int", "uint"} /\ root.int = n
          ELSE root.kind = "double"
=============================================================================
