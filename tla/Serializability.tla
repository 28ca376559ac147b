-------------------------- MODULE Serializability ---------------------------
(***************************************************************************)
(* A reference for what an atomicity violation is.  Three operations on    *)
(* one variable run in a row; what they did is what each read saw and the  *)
(* last value written, a value being the name of the operation that wrote  *)
(* it.                                                                     *)
(***************************************************************************)

Oper(name, op) == [name |-> name, op |-> op]
After(o, v) == IF o.op = "W" THEN o.name ELSE v
Saw(o, v)   == IF o.op = "R" THEN {<<o.name, v>>} ELSE {}

Outcome(a, b, c) ==
  LET v1 == After(a, "old")
      v2 == After(b, v1)
  IN  [saw |-> Saw(a, "old") \cup Saw(b, v1) \cup Saw(c, v2),
       final |-> After(c, v2)]

\* No order in which first and second are adjacent has the same outcome.
Unserializable(first, inter, second) ==
  LET f == Oper("first", first.op)
      s == Oper("second", second.op)
      i == Oper("inter", inter.op)
  IN  Outcome(f, i, s) \notin {Outcome(i, f, s), Outcome(f, s, i)}
=============================================================================
