------------------------------ MODULE Documents ------------------------------
(***************************************************************************)
(* A document is read by OurReader, and what was read is written by        *)
(* FastWriter and read again.                                              *)
(***************************************************************************)
EXTENDS JsonGrammar

VARIABLES
  first,     \* what the first reading read
  rewritten  \* is this the second reading?

vars == <<readerVars, first, rewritten>>

-----------------------------------------------------------------------------
(* FastWriter, whose dropNullPlaceholders is on when the reader allows it.   *)

RECURSIVE writeValue(_, _)

Separated(parts) ==
  FlattenSeq([i \in DOMAIN parts |->
                IF i > 1 THEN <<Token(",")>> \o parts[i] ELSE parts[i]])

\* Members are written in the order of their names; any order will do here.
writeValue(v, dropNulls) ==
  CASE v.kind = "null" -> IF dropNulls THEN <<>> ELSE <<Token("null")>>
    [] v.kind \in {"int", "uint", "double"} -> <<Number(valueToString(v))>>
    [] v.kind = "string" -> <<String(valueToQuotedStringN(v.bytes))>>
    [] v.kind = "array" ->
         <<Token("[")>>
         \o Separated([i \in DOMAIN v.items |-> writeValue(v.items[i], dropNulls)])
         \o <<Token("]")>>
    [] v.kind = "object" ->
         LET names == SetToSeq(DOMAIN v.members)
         IN  <<Token("{")>>
             \o Separated([i \in DOMAIN names |->
                  <<String(valueToQuotedStringN(names[i])), Token(":")>>
                  \o writeValue(v.members[names[i]], dropNulls)])
             \o <<Token("}")>>

-----------------------------------------------------------------------------
Read == ReaderNext /\ UNCHANGED <<first, rewritten>>

Rewrite ==
  /\ at = "done" /\ ok /\ ~rewritten
  /\ rewritten' = TRUE
  /\ first' = root
  /\ doc' = Append(writeValue(root, features.allowDroppedNullPlaceholders), End)
  /\ parse

Init == ReaderInit /\ first = Null /\ rewritten = FALSE
Next == Read \/ Rewrite
Spec == Init /\ [][Next]_vars
\* The reader is a loop of its caller's thread: nothing keeps it from running on.
FairSpec == Spec /\ WF_vars(Read)

-----------------------------------------------------------------------------
(* Properties. *)

\* The tokens that have been read, and the last of them, which parse takes
\* after the value.
Taken == SubSeq(doc, 1, Len(doc) - Len(ahead))
LastTaken == Taken[Len(Taken)]
WithoutComments(t) == SelectSeq(t, LAMBDA tok : tok.type # "comment")

\* No comment stands before a colon or alone in an array.
CommentsInPlace(t) ==
  \A i \in 1 .. Len(t) - 1 :
    t[i].type = "comment" =>
      /\ t[i + 1].type # ":"
      /\ i > 1 => ~(t[i - 1].type = "[" /\ t[i + 1].type \in {"]", "comment"})

\* Every JSON document is read, as the value it means: nested ones, ones with
\* repeated names and, when they are allowed, with comments between tokens
\* (parse, readValue, readObject and readArray).  strictRoot wants a container.
ReadsJson ==
  at = "done" /\ Ended /\ ahead = <<>> =>
    LET t == Front(doc)
        commented == \E i \in DOMAIN t : t[i].type = "comment"
    IN  (commented => features.allowComments /\ CommentsInPlace(t)) =>
          \A v \in Meanings(WithoutComments(t), features.rejectDupKeys) :
            (features.strictRoot => IsContainer(v)) => ok /\ root = v

\* Documents whose reading is known to go wrong: with a comma before the brace
\* after a member named "", with another token in the place of a comma after a
\* comment, with names that are numbers, and with nulls that were dropped.
Misread(t) ==
  LET u == WithoutComments(t)
  IN  \/ features.allowDroppedNullPlaceholders \/ features.allowNumericKeys
      \/ /\ String(<<>>) \in Range(u)
         /\ \E i \in 2 .. Len(u) : u[i - 1].type = "," /\ u[i].type = "}"
      \/ \E i \in 3 .. Len(t) :
           /\ t[i - 2].type \in {"null", "number", "string", "}", "]", "comment"}
           /\ t[i - 1].type = "comment"
           /\ t[i].type \notin {"comment", ",", "}", "]", "end"}

\* And nothing but JSON is read: no comma is missing or too many, no bracket
\* is closed by another, comments or not, whatever the depth.
ReadsOnlyJson ==
  at = "done" /\ ok /\ ~Misread(Taken) =>
    /\ root \in Meanings(WithoutComments(Front(Taken)), features.rejectDupKeys)
    /\ features.failIfExtra => LastTaken = End
    /\ features.strictRoot => IsContainer(root)

RECURSIVE Drops(_)

\* Values that a writer that drops nulls cannot write.
Drops(v) ==
  CASE v.kind = "null" -> TRUE
    [] v.kind = "array" ->
         \/ v.items = <<Null>>
         \/ \E i \in DOMAIN v.items : IsContainer(v.items[i]) /\ Drops(v.items[i])
    [] v.kind = "object" ->
         \E n \in DOMAIN v.members : IsContainer(v.members[n]) /\ Drops(v.members[n])
    [] OTHER -> FALSE

\* What FastWriter writes is read as what was written.
RoundTrip ==
  [][rewritten /\ at' = "done" /\ at # "done"
       /\ ~(features.allowDroppedNullPlaceholders /\ Drops(first))
     => ok' /\ root' = first]_vars

\* parse returns: an unclosed container does not keep recoverFromError going at
\* the end of the document.
Terminates == at = "value" ~> Finished

Surrogates == 55296 .. 57343

\* A comment of utf8ToCodepoint: surrogates "aren't valid codepoints itself
\* shouldn't be UTF-8 encoded".  So a character is written as U+FFFD if it is a
\* surrogate, or U+FFFD itself, and in no other case.
OnlySurrogatesReplaced ==
  rewritten /\ first.kind = "string" /\ doc[1].text = <<toHex16Bit(ReplacementCharacter)>> =>
    \E cp \in Surrogates \cup {ReplacementCharacter} : first.bytes = codePointToUTF8(cp)
=============================================================================
