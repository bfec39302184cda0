------------------------------- MODULE JsonText -------------------------------
(***************************************************************************)
(* escapeJson and humanSafe (src/src/render.cpp): what becomes of a byte   *)
(* sequence, which need not be UTF-8, in a JSON string and in a line of    *)
(* text.  escapeJson is a walk with one step per byte or character it      *)
(* consumes; decodeUtf8 is the table of ranges it consults.                *)
(*                                                                         *)
(* What a JSON reader makes of the output, and which byte sequences are    *)
(* characters, is defined independently of the code, from the encoding of  *)
(* code points.                                                            *)
(***************************************************************************)
EXTENDS Integers, Sequences, SequencesExt

CONSTANT Values     \* the strings a run escapes, as sequences of bytes

Byte == 0..255

ASSUME ValuesAssumption == Values \subseteq Seq(Byte)

VARIABLES
    phase, value, offset,   \* where escapeJson is, in which string, at which byte of it
    escaped                 \* its output so far

escape_vars == <<phase, value, offset, escaped>>

-----------------------------------------------------------------------------
(* decodeUtf8.                                                             *)

IsContinuationByte(b) == b \in 128..191

\* The ranges a second byte may have after a lead byte; none after a byte
\* that leads nothing.
AnySecond(first) == 128..191        \* mutant: no test of overlong forms and surrogates
SecondBytes(first) ==
    CASE first = 224 -> 160..191    \* E0: not overlong
      [] first = 237 -> 128..159    \* ED: no surrogate
      [] first = 240 -> 144..191    \* F0: not overlong
      [] first = 244 -> 128..143    \* F4: at most U+10FFFF
      [] OTHER       -> 128..191

\* How many bytes a lead byte asks for; 0 if it leads nothing.
LengthFrom(first) ==
    CASE first <= 127        -> 1
      [] first \in 194..223 -> 2
      [] first \in 224..239 -> 3
      [] first \in 240..244 -> 4
      [] OTHER              -> 0

\* The length of the character at a position, 0 if there is none.
DecodedLength(bytes, i) ==
    LET n == LengthFrom(bytes[i]) IN
    IF /\ n > 0 /\ i + n - 1 <= Len(bytes)
       /\ n > 1 => bytes[i + 1] \in SecondBytes(bytes[i])
       /\ \A k \in 2..n - 1 : IsContinuationByte(bytes[i + k])
    THEN n ELSE 0

\* The value of the payload bits of one character.
Payload(b) == b % 64
CodePoint(char) ==
    IF Len(char) = 1 THEN char[1]
    ELSE IF Len(char) = 2 THEN (char[1] % 32) * 64 + Payload(char[2])
    ELSE IF Len(char) = 3
         THEN ((char[1] % 16) * 64 + Payload(char[2])) * 64 + Payload(char[3])
    ELSE (((char[1] % 8) * 64 + Payload(char[2])) * 64 + Payload(char[3])) * 64 + Payload(char[4])

-----------------------------------------------------------------------------
(* escapeJson.                                                             *)

Backslash == 92
Quote     == 34
Replacement == 65533        \* U+FFFD

\* \b \f \n \r \t, the quote and the backslash have a letter of their own.
ShortEscape == [b \in {8, 9, 10, 12, 13, Quote, Backslash} |->
                    CASE b = 8  -> 98  [] b = 9  -> 116 [] b = 10 -> 110
                      [] b = 12 -> 102 [] b = 13 -> 114 [] OTHER  -> b]

HexDigit(n) == IF n < 10 THEN 48 + n ELSE 55 + n

\* appendUnicodeEscape: a backslash, u and four digits.
UnicodeEscape(code) ==
    <<Backslash, 117, HexDigit((code \div 4096) % 16), HexDigit((code \div 256) % 16),
      HexDigit((code \div 16) % 16), HexDigit(code % 16)>>

IsControl(b) == b < 32 \/ b = 127

\* C1 controls and the two separators that end a line in JavaScript.
IsUnsafe(code)  == code \in 128..159 \cup {8232, 8233}

EscapeInit == phase = "escape" /\ value \in Values /\ offset = 1 /\ escaped = <<>>

NextByte == value[offset]
Escaping == phase = "escape" /\ offset <= Len(value)

\* Consume n bytes and write some.
Consume(n, bytes) ==
    /\ offset' = offset + n
    /\ escaped' = escaped \o bytes
    /\ UNCHANGED <<phase, value>>

EscapedAscii(b) ==
    IF b \in DOMAIN ShortEscape THEN <<Backslash, ShortEscape[b]>>
    ELSE IF IsControl(b) THEN UnicodeEscape(b)
    ELSE <<b>>

Ascii == Escaping /\ NextByte <= 127 /\ Consume(1, EscapedAscii(NextByte))

\* One replacement for each byte that belongs to no character; the next byte
\* gets its own chance.
Resume(first) == 1

Undecodable ==
    /\ Escaping /\ NextByte > 127 /\ DecodedLength(value, offset) = 0
    /\ Consume(Resume(NextByte), UnicodeEscape(Replacement))

Character ==
    /\ Escaping /\ NextByte > 127 /\ DecodedLength(value, offset) > 0
    /\ LET n    == DecodedLength(value, offset)
           char == SubSeq(value, offset, offset + n - 1) IN
       Consume(n, IF IsUnsafe(CodePoint(char)) THEN UnicodeEscape(CodePoint(char)) ELSE char)

EscapeReturn == phase = "escape" /\ offset > Len(value) /\ phase' = "done"
                /\ UNCHANGED <<value, offset, escaped>>

EscapeWork == Ascii \/ Undecodable \/ Character \/ EscapeReturn
EscapeDone == phase = "done" /\ UNCHANGED escape_vars
EscapeNext == EscapeWork \/ EscapeDone
EscapeSpec == EscapeInit /\ [][EscapeNext]_escape_vars

-----------------------------------------------------------------------------
(* humanSafe: one byte at a time, whatever it belongs to.                  *)

SignedControl(b) == IsControl(b) \/ b > 127   \* mutant: plain char is negative above 127
NeedsHex(b) == IsControl(b)

HumanByte(b) ==
    IF b \in {8, 9, 10, 12, 13} THEN <<Backslash, ShortEscape[b]>>
    ELSE IF NeedsHex(b) THEN <<Backslash, 120, HexDigit(b \div 16), HexDigit(b % 16)>>
    ELSE <<b>>

HumanSafe(bytes) == FlattenSeq([i \in DOMAIN bytes |-> HumanByte(bytes[i])])

-----------------------------------------------------------------------------
(* The reference: UTF-8 as the encoding of code points, and a JSON reader. *)

IsSurrogate(code) == 55296 <= code /\ code <= 57343
IsScalar(code) == 0 <= code /\ code <= 1114111 /\ ~IsSurrogate(code)

Continuation(code, weight) == 128 + Payload(code \div weight)
Encoded(code) ==
    IF code < 128 THEN <<code>>
    ELSE IF code < 2048 THEN <<192 + (code \div 64), Continuation(code, 1)>>
    ELSE IF code < 65536
         THEN <<224 + (code \div 4096), Continuation(code, 64), Continuation(code, 1)>>
    ELSE <<240 + (code \div 262144), Continuation(code, 4096),
           Continuation(code, 64), Continuation(code, 1)>>

IsCharacter(bytes) ==
    /\ Len(bytes) \in 1..4
    /\ IsScalar(CodePoint(bytes)) /\ Encoded(CodePoint(bytes)) = bytes

\* All places of a string where a character stands, overlapping or not.
CharactersOf(bytes) ==
    {r \in (1..Len(bytes)) \X (1..4) :
        r[1] + r[2] - 1 <= Len(bytes) /\ IsCharacter(SubSeq(bytes, r[1], r[1] + r[2] - 1))}
Covers(r, i) == r[1] <= i /\ i < r[1] + r[2]

\* The code points of a string: its characters, and a replacement for every
\* byte that no character covers.
Meaning(bytes) ==
    LET chars == CharactersOf(bytes)
        At(i) == IF \E r \in chars : r[1] = i
                 THEN LET r == CHOOSE r \in chars : r[1] = i
                      IN <<CodePoint(SubSeq(bytes, i, i + r[2] - 1))>>
                 ELSE IF \E r \in chars : Covers(r, i) THEN <<>>
                 ELSE <<Replacement>>
    IN FlattenSeq([i \in 1..Len(bytes) |-> At(i)])

WellFormed(bytes) ==
    \A i \in 1..Len(bytes) : \E r \in CharactersOf(bytes) : Covers(r, i)

HexValue(b) == IF b \in 48..57 THEN b - 48 ELSE IF b \in 65..70 THEN b - 55 ELSE -1

\* What a JSON reader makes of the body of a string: code points, or -1 where
\* the text is no JSON.
Reading(text) ==
    LET Short(b) == IF \E c \in DOMAIN ShortEscape : ShortEscape[c] = b
                    THEN CHOOSE c \in DOMAIN ShortEscape : ShortEscape[c] = b ELSE -1
        Hex(i) == IF i + 5 <= Len(text) /\ \A k \in 2..5 : HexValue(text[i + k]) >= 0
                  THEN HexValue(text[i + 2]) * 4096 + HexValue(text[i + 3]) * 256
                           + HexValue(text[i + 4]) * 16 + HexValue(text[i + 5])
                  ELSE -1
        chars == CharactersOf(text)
        from[i \in 1..Len(text) + 7] ==
            IF i > Len(text) THEN <<>>
            ELSE IF text[i] = Backslash /\ i < Len(text)
                 THEN IF text[i + 1] = 117 THEN <<Hex(i)>> \o from[i + 6]
                                           ELSE <<Short(text[i + 1])>> \o from[i + 2]
            ELSE IF text[i] < 32 \/ text[i] \in {Quote, Backslash} THEN <<-1>>
            ELSE IF \E r \in chars : r[1] = i
                 THEN LET r == CHOOSE r \in chars : r[1] = i
                      IN <<CodePoint(SubSeq(text, i, i + r[2] - 1))>> \o from[i + r[2]]
            ELSE <<-1>>
    IN from[1]

-----------------------------------------------------------------------------
(* Properties.                                                             *)

\* Whatever the bytes, a JSON reader gets back every character of the string
\* and one U+FFFD for each byte that belongs to none: escapeJson never
\* swallows a good character behind a broken one, and never writes anything a
\* reader refuses.
MeaningIsPreserved == phase = "done" => Reading(escaped) = Meaning(value)

BeyondAscii(codes) ==
    FlattenSeq([i \in DOMAIN codes |-> IF codes[i] > 127 THEN <<codes[i]>> ELSE <<>>])

\* A line of text stays one line, and no character of UTF-8 text is torn:
\* humanSafe works on bytes and must leave alone those above 127.
LinesStayWhole ==
    phase = "done" =>
        /\ \A i \in DOMAIN HumanSafe(value) : HumanSafe(value)[i] \notin (0..31) \cup {127}
        /\ WellFormed(value) =>
               /\ WellFormed(HumanSafe(value))
               /\ BeyondAscii(Meaning(HumanSafe(value))) = BeyondAscii(Meaning(value))

=============================================================================
