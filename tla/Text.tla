-------------------------------- MODULE Text --------------------------------
(***************************************************************************)
(* kernel/utils.c: the string and number functions behind both shells.     *)
(* A string is a sequence of characters; a buffer is one too, in which NUL *)
(* ends a string and what lies behind it is whatever the stack held.  A    *)
(* pointer into a buffer is an index, the null pointer is Null.            *)
(***************************************************************************)
EXTENDS Integers, Sequences, SequencesExt

CONSTANTS
  WORD    \* uint32_t and int count modulo WORD (2^32)

ASSUME WordAssumption == WORD \in Nat \ {0} /\ WORD % 32 = 0

NUL == "nul"
Space == " "
Null == 0

DecDigits == <<"0", "1", "2", "3", "4", "5", "6", "7", "8", "9">>
Digits == <<"0", "1", "2", "3", "4", "5", "6", "7", "8", "9",
            "A", "B", "C", "D", "E", "F">>
LowDigits == <<"0", "1", "2", "3", "4", "5", "6", "7", "8", "9",
               "a", "b", "c", "d", "e", "f">>

DigitValue(c) ==
  CHOOSE d \in 0 .. 15 : Digits[d + 1] = c \/ LowDigits[d + 1] = c

-----------------------------------------------------------------------------
(***************************************************************************)
(* Strings in buffers.                                                     *)
(***************************************************************************)
\* The first character from index i on that is one of these.
Scan(b, i, chars) ==
  CHOOSE j \in i .. Len(b) :
    b[j] \in chars /\ \A k \in i .. j - 1 : b[k] \notin chars

StringAt(b, i) == SubSeq(b, i, Scan(b, i, {NUL}) - 1)

\* strcmp(s, t) == 0.
SameString(s, t) == s = t

\* strtok(str, " "): what it returns, its static pointer and the buffer
\* afterwards.  from is str, or the static pointer when str is null.
TokenStart(b, from) == Scan(b, from, ToSet(b) \ {Space})
TokenEnd(b, from) == Scan(b, TokenStart(b, from), {NUL, Space})

Strtok(b, from) ==
  LET start == TokenStart(b, from)
      end == TokenEnd(b, from)
      Result(token, next, after) ==
        [token |-> token, next |-> next, buf |-> after]
  IN  IF from = Null THEN Result(Null, Null, b)
      ELSE IF b[start] = NUL THEN Result(Null, start, b)
      ELSE IF b[end] = NUL THEN Result(start, Null, b)
      ELSE Result(start, end + 1, [b EXCEPT ![end] = NUL])

-----------------------------------------------------------------------------
(***************************************************************************)
(* Numbers.                                                                *)
(***************************************************************************)
\* itoa: 30 places are more than a word has digits in the bases in use.
Itoa(val, base) ==
  LET digits[v \in 0 .. val] ==
        IF v < base THEN <<Digits[v + 1]>>
        ELSE Append(digits[v \div base], Digits[(v % base) + 1])
  IN  digits[val]

\* How many characters from the start on are one of these.
Span(s, chars) ==
  CHOOSE n \in 0 .. Len(s) :
    /\ \A k \in 1 .. n : s[k] \in chars
    /\ n < Len(s) => s[n + 1] \notin chars

Signed(x) == ((x + (WORD \div 2)) % WORD) - (WORD \div 2)

\* Mutant of Atoi: a number of one digit only.
AtoiFirst(s) == IF s # <<>> /\ s[1] \in ToSet(DecDigits)
                  THEN DigitValue(s[1]) ELSE 0

\* A sign and digits up to the first other character; 0 without any.
Atoi(s) ==
  LET minus == s # <<>> /\ s[1] = "-"
      t == IF minus THEN Tail(s) ELSE s
      n == Span(t, ToSet(DecDigits))
      num[k \in 0 .. n] ==
        IF k = 0 THEN 0 ELSE Signed(num[k - 1] * 10 + DigitValue(t[k]))
  IN  IF minus THEN Signed(-num[n]) ELSE num[n]

\* Mutant of ParseHex: the prefix is not skipped.
ParseHexPrefix(s) ==
  LET n == Span(s, ToSet(Digits) \cup ToSet(LowDigits))
      value[k \in 0 .. n] ==
        IF k = 0 THEN 0 ELSE (value[k - 1] * 16 + DigitValue(s[k])) % WORD
  IN  IF n < Len(s) THEN (value[n] * 16) % WORD ELSE value[n]

\* After an optional prefix, digits up to the first other character, for which
\* the number has been shifted already.
ParseHex(s) ==
  LET t == IF Len(s) >= 2 /\ s[1] = "0" /\ s[2] \in {"x", "X"}
             THEN SubSeq(s, 3, Len(s)) ELSE s
      n == Span(t, ToSet(Digits) \cup ToSet(LowDigits))
      value[k \in 0 .. n] ==
        IF k = 0 THEN 0 ELSE (value[k - 1] * 16 + DigitValue(t[k])) % WORD
  IN  IF n < Len(t) THEN (value[n] * 16) % WORD ELSE value[n]
=============================================================================
