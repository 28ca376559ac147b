----------------------------- MODULE JsonGrammar -----------------------------
(***************************************************************************)
(* The reference for the JSON reader: what a sequence of tokens means,     *)
(* from the grammar of JSON and not from the code.  A value is a scalar, a *)
(* bracketed list of values or a braced list of named values, and a list   *)
(* is one part, or a part, a comma and a list.                             *)
(***************************************************************************)
EXTENDS JsonReader

RECURSIVE Meanings(_, _), Lists(_, _), Fields(_, _)

Inner(t) == SubSeq(t, 2, Len(t) - 1)
Commas(t) == {i \in DOMAIN t : t[i].type = ","}
Before(t, i) == SubSeq(t, 1, i - 1)
Behind(t, i) == SubSeq(t, i + 1, Len(t))
Bracketed(t, open, close) == Len(t) >= 2 /\ t[1].type = open /\ t[Len(t)].type = close

Scalars(tok) ==
  CASE tok.type = "null" -> {Null}
    [] tok.type = "number" /\ CanDecodeNumber(tok.text) -> {decodeNumber(tok.text)}
    [] tok.type = "string" /\ CanDecode(tok.text) -> {Str(decodeString(tok.text))}
    [] OTHER -> {}

\* The items t may list.
Lists(t, unique) ==
  {<<v>> : v \in Meanings(t, unique)}
  \cup UNION {{<<v>> \o list : v \in Meanings(Before(t, i), unique),
                               list \in Lists(Behind(t, i), unique)} : i \in Commas(t)}

OneField(t, unique) ==
  IF Len(t) > 2 /\ t[1].type = "string" /\ t[2].type = ":" /\ CanDecode(t[1].text)
    THEN {decodeString(t[1].text) :> v : v \in Meanings(SubSeq(t, 3, Len(t)), unique)}
    ELSE {}

\* The members t may list.  The last of two with one name counts, and if
\* names are to be unique there are no two.
Fields(t, unique) ==
  OneField(t, unique)
  \cup UNION {{later @@ m : <<m, later>> \in
                 {p \in OneField(Before(t, i), unique) \X Fields(Behind(t, i), unique) :
                    unique => (DOMAIN p[1]) \cap (DOMAIN p[2]) = {}}} : i \in Commas(t)}

\* The values that the tokens t mean: one, or none when t is not JSON.
Meanings(t, unique) ==
  CASE Len(t) = 1 -> Scalars(t[1])
    [] Bracketed(t, "[", "]") ->
         IF Len(t) = 2 THEN {EmptyArray}
         ELSE {Array(list) : list \in Lists(Inner(t), unique)}
    [] Bracketed(t, "{", "}") ->
         IF Len(t) = 2 THEN {EmptyObject}
         ELSE {Object(members) : members \in Fields(Inner(t), unique)}
    [] OTHER -> {}
=============================================================================
