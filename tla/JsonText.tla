------------------------------ MODULE JsonText ------------------------------
(***************************************************************************)
(* Numbers and strings of a JSON document (mypintool/jsoncpp.cpp): how     *)
(* OurReader decodes the text of a token and how the writers encode a      *)
(* value.  Both directions are pure functions.                             *)
(*                                                                         *)
(* The text of a number is a sequence of digits, with Minus for the sign   *)
(* in front, Point for the point and Exponent for an "e" with its sign.    *)
(* The text of a string is a sequence of items, each one character or one  *)
(* escape sequence; a decoded string is a sequence of bytes (UTF-8).       *)
(***************************************************************************)
EXTENDS Integers, Sequences, SequencesExt

CONSTANTS
  LargestUIntMax,     \* LargestUInt(-1), 2^64 - 1 in the code
  UIntMax,            \* UInt(-1), 2^32 - 1
  ExponentNeedsDigit  \* does sscanf fail on "1e"?  The C standard says it
                      \* does; there are libraries that read 1.

\* minLargestInt has two digits, or 05 would not be read as a whole number.
ASSUME JsonTextAssumption ==
  /\ UIntMax \in Nat /\ UIntMax % 2 = 1
  /\ LargestUIntMax \in Nat /\ LargestUIntMax % 2 = 1
  /\ UIntMax <= LargestUIntMax /\ 19 <= LargestUIntMax
  /\ ExponentNeedsDigit \in BOOLEAN

maxLargestUInt == LargestUIntMax
maxLargestInt  == LargestUIntMax \div 2
minLargestInt  == -maxLargestInt - 1   \* ~maxLargestInt
maxInt         == UIntMax \div 2

Minus == 10
Point == 11
Exponent == 12

\* A number that does not fit is kept as a double.  What sscanf and printf make
\* of a double is left to them: its value is its text.
IntValue(n)  == [kind |-> "int", int |-> n]
UIntValue(n) == [kind |-> "uint", int |-> n]
Double(text) == [kind |-> "double", text |-> text]

-----------------------------------------------------------------------------
(* Numbers. *)

\* Mutant: the last digit is not compared.
FitsAnyDigit(value, digit, isLast, maxIntegerValue) ==
  LET threshold == maxIntegerValue \div 10
  IN  value < threshold \/ (value = threshold /\ isLast)

\* May digit be appended to value?  The test is made before the multiplication.
Fits(value, digit, isLast, maxIntegerValue) ==
  LET threshold == maxIntegerValue \div 10
  IN  \/ value < threshold
      \/ value = threshold /\ isLast /\ digit <= maxIntegerValue % 10

\* The loop of decodeNumber over the characters after the sign; -1 stands for
\* the call of decodeDouble.
DecodedDigits(digits, maxIntegerValue) ==
  LET value[i \in 0 .. Len(digits)] ==
        IF i = 0 THEN 0
        ELSE LET before == value[i - 1]
             IN  IF \/ before = -1
                    \/ digits[i] \notin 0 .. 9
                    \/ ~Fits(before, digits[i], i = Len(digits), maxIntegerValue)
                   THEN -1
                   ELSE (before * 10 + digits[i]) % (LargestUIntMax + 1)
  IN  value[Len(digits)]

\* decodeDouble, and so decodeNumber, fails when sscanf finds no number: it
\* wants a digit in front of the exponent.  A lone Minus does not get there.
CanDecodeNumber(text) ==
  LET exponents == {i \in DOMAIN text : text[i] = Exponent}
  IN  \/ text = <<Minus>>
      \/ /\ \E i \in DOMAIN text : text[i] \in 0 .. 9 /\ \A e \in exponents : i < e
         /\ ExponentNeedsDigit => Len(text) \notin exponents

\* A lone Minus has no digits and is 0.
decodeNumber(text) ==
  LET isNegative == text[1] = Minus
      value == IF isNegative THEN DecodedDigits(Tail(text), -minLargestInt)
                             ELSE DecodedDigits(text, maxLargestUInt)
  IN  IF value = -1 THEN Double(text)
      ELSE IF isNegative THEN IntValue(-value)
      ELSE IF value <= maxInt THEN IntValue(value) ELSE UIntValue(value)

\* Digits from the least significant one on; 0 has one digit.
uintToString(n) ==
  LET digits[k \in 0 .. n] ==
        IF k < 10 THEN <<k>> ELSE Append(digits[k \div 10], k % 10)
  IN  digits[n]

valueToString(number) ==
  IF number.kind = "double" THEN number.text
  ELSE IF number.int < 0 THEN <<Minus>> \o uintToString(-number.int)
  ELSE uintToString(number.int)

-----------------------------------------------------------------------------
(* Strings. *)

\* esc is "raw" (a character as it is), "short" (\n and the like), "u"
\* (four hexadecimal digits) or "bad" (any other escape sequence).
Item(esc, code) == [esc |-> esc, code |-> code]

\* The characters that valueToQuotedStringN escapes by one letter.
ShortEscapes == {34, 92, 8, 12, 10, 13, 9}

codePointToUTF8(cp) ==
  IF cp <= 127 THEN <<cp>>
  ELSE IF cp <= 2047 THEN <<192 + (cp \div 64), 128 + (cp % 64)>>
  ELSE IF cp <= 65535
    THEN <<224 + (cp \div 4096), 128 + ((cp \div 64) % 64), 128 + (cp % 64)>>
  ELSE <<240 + (cp \div 262144), 128 + ((cp \div 4096) % 64),
         128 + ((cp \div 64) % 64), 128 + (cp % 64)>>

IsHighSurrogate(unit) == unit \in 55296 .. 56319

\* Mutant: the halves of a surrogate pair are swapped.
FromLowHigh(high, low) == 65536 + (low % 1024) * 1024 + (high % 1024)

\* The second half of a surrogate pair may be any unit.
FromSurrogates(high, low) == 65536 + (high % 1024) * 1024 + (low % 1024)

\* decodeString: the bytes so far, and a high surrogate that awaits its other
\* half (0: none).
DecodeItem(state, item) ==
  IF ~state.ok \/ item.esc = "bad" \/ (state.high # 0 /\ item.esc # "u")
    THEN [state EXCEPT !.ok = FALSE]
  ELSE IF state.high # 0
    THEN [state EXCEPT !.high = 0,
            !.bytes = @ \o codePointToUTF8(FromSurrogates(state.high, item.code))]
  ELSE IF item.esc = "u" /\ IsHighSurrogate(item.code)
    THEN [state EXCEPT !.high = item.code]
  ELSE IF item.esc = "u"
    THEN [state EXCEPT !.bytes = @ \o codePointToUTF8(item.code)]
  ELSE [state EXCEPT !.bytes = Append(@, item.code)]

Decoded(text) ==
  FoldLeft(DecodeItem, [ok |-> TRUE, high |-> 0, bytes |-> <<>>], text)

CanDecode(text) == Decoded(text).ok /\ Decoded(text).high = 0
decodeString(text) == Decoded(text).bytes

ReplacementCharacter == 65533

\* What utf8ToCodepoint returns for the bytes from position i on, and how many
\* of them it takes.  The test for surrogates replaces what lies above
\* them, and the first byte of four is shifted by 24 and not by 18.
utf8ToCodepoint(bytes, i) ==
  LET left == Len(bytes) - i + 1
      Low(k) == bytes[i + k] % 64
      Found(cp, n) == [cp |-> cp, taken |-> n]
  IN  CASE bytes[i] < 128 -> Found(bytes[i], 1)
        [] bytes[i] \in 128 .. 223 /\ left >= 2 ->
             LET cp == (bytes[i] % 32) * 64 + Low(1)
             IN  Found(IF cp < 128 THEN ReplacementCharacter ELSE cp, 2)
        [] bytes[i] \in 224 .. 239 /\ left >= 3 ->
             LET cp == (bytes[i] % 16) * 4096 + Low(1) * 64 + Low(2)
             IN  Found(IF (cp >= 55296 /\ cp >= 57343) \/ cp < 2048
                         THEN ReplacementCharacter ELSE cp, 3)
        [] bytes[i] \in 240 .. 247 /\ left >= 4 ->
             LET cp == (bytes[i] % 8) * 2 ^ 24 + Low(1) * 4096 + Low(2) * 64 + Low(3)
             IN  Found(IF cp < 65536 THEN ReplacementCharacter ELSE cp, 4)
        [] OTHER -> Found(ReplacementCharacter, 1)

toHex16Bit(x) == Item("u", x % 65536)

\* How a character is written.
Quoted(cp) ==
  IF cp < 128 /\ cp >= 32 THEN <<Item("raw", cp)>>
  ELSE IF cp < 65536 THEN <<toHex16Bit(cp)>>
  ELSE <<toHex16Bit(((cp - 65536) \div 1024) + 55296),
         toHex16Bit(((cp - 65536) % 1024) + 56320)>>

\* The loop of valueToQuotedStringN, from position i on.  Only the empty string
\* returns early: isAnyCharRequiredQuoting takes every other, as any byte is
\* below 0x80 or, char being signed, below ' '.
valueToQuotedStringN(bytes) ==
  LET items[i \in 1 .. Len(bytes) + 1] ==
        IF i > Len(bytes) THEN <<>>
        ELSE IF bytes[i] \in ShortEscapes
          THEN <<Item("short", bytes[i])>> \o items[i + 1]
          ELSE LET c == utf8ToCodepoint(bytes, i)
               IN  Quoted(c.cp) \o items[i + c.taken]
  IN  items[1]
=============================================================================
