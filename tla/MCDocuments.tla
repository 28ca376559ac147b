---------------------------- MODULE MCDocuments ----------------------------
(***************************************************************************)
(* Small documents for the JSON reader and the writer.                     *)
(***************************************************************************)
EXTENDS Documents

Unit(code) == <<Item("u", code)>>
MCTokens ==
  {Token(type) : type \in {"{", "}", "[", "]", ",", ":", "null", "comment", "error"}}
  \cup {String(<<>>), String(<<Item("raw", 97)>>), Number(<<7>>)}

\* Settings: the two the library names, and one that allows what they forbid.
lenient == Features(TRUE, FALSE, TRUE, TRUE, FALSE, FALSE)
noExtra == Features(TRUE, FALSE, FALSE, TRUE, TRUE, TRUE)
MCFeatureSets == {strictMode, setDefaults, lenient, noExtra}

\* Numbers around the limits of 8-bit LargestInt and 4-bit Int.
Digits == {0, 1, 2, 5, 6, 7, 8, 9}
DigitTexts == {<<a>> : a \in Digits} \cup {<<a, b>> : a, b \in Digits}
              \cup {<<a, b, c>> : a, b, c \in Digits}
NumberTexts == DigitTexts \cup {<<Minus>> \o text : text \in DigitTexts}
               \cup {<<Minus>>, <<Minus, Point>>, <<Minus, Exponent, 5>>, <<1, Exponent>>,
                     <<1, Point, 5>>, <<1, Point, Exponent, 5>>}

\* Units at the borders of the lengths of UTF-8 and of the surrogates, which
\* make characters of planes 0 to 3; those of the planes above and those from
\* U+DFFF to U+FFFF come back as others (Escapes.cfg).
Units == {0, 9, 31, 34, 65, 127, 128, 2047, 2048, 55295, 55296, 55487, 56320, 57342}
StringTexts ==
  {Unit(a) : a \in Units} \cup {Unit(a) \o Unit(b) : a, b \in Units}
  \cup {<<Item("raw", 35), Item("short", 10), Item("bad", 0)>>,
        <<Item("u", 55296), Item("raw", 65)>>, <<Item("short", 34), Item("raw", 127)>>}

ScalarDocuments == {<<Number(text)>> : text \in NumberTexts} \cup {<<String(text)>> : text \in StringTexts}

\* {"a": 7, "": [null, {"a": 7}], "a": "\u0041" }, and what it becomes when one
\* of its tokens is another or is left out.
KeyA == String(<<Item("raw", 97)>>)
Seven == Number(<<7>>)
LongDocument ==
  <<Token("{"), KeyA, Token(":"), Seven, Token(","), String(<<>>), Token(":"), Token("["),
    Token("null"), Token(","), Token("{"), KeyA, Token(":"), Seven, Token("}"), Token("]"),
    Token(","), KeyA, Token(":"), String(Unit(65)), Token("}")>>
Damaged ==
  {LongDocument}
  \cup {[LongDocument EXCEPT ![i] = tok] : i \in DOMAIN LongDocument, tok \in MCTokens}
  \cup {RemoveAt(LongDocument, i) : i \in DOMAIN LongDocument}

\* Numbers as names, and one that cannot be decoded in both places.
NumberNames ==
  {<<Token("{"), Number(name), Token(":"), Number(value), Token("}")>> :
     name, value \in {<<7>>, <<1, Exponent, 5>>, <<Minus, Point>>}}

MCGivenDocuments == ScalarDocuments \cup Damaged \cup NumberNames

\* For Escapes.cfg: the characters of plane 0 around the surrogates.
DefaultsOnly == {setDefaults}
NoTokens == {}
PlaneZero == {<<String(Unit(cp))>> :
                cp \in {128, 2048, 55295, 55296, 56320, 57343, 57344, 65533, 65535}}
=============================================================================
