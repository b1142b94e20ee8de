-------------------------------- MODULE Utf ---------------------------------
(***************************************************************************)
(* The conversions of lib/quicker_sfv/string_utilities.cpp, along the way  *)
(* the name of a file takes from a line of a checksum file: LineReader     *)
(* checks its bytes, resolvePath() converts it to UTF-16 for the system    *)
(* and doVerify() converts the resolved path back to UTF-8 for the events. *)
(* One round of each loop is one step.  Masks and shifts are written as    *)
(* division and remainder.                                                 *)
(***************************************************************************)
EXTENDS Integers, Sequences, SequencesExt

CONSTANTS
  Texts,      \* sequences of Unicode scalar values
  ByteRanges, \* other sequences of bytes
  MaxGrowth   \* bound: bytes by which a conversion that does not end may grow

Scalar(c) == c \in Nat /\ (c <= 55295 \/ (57344 <= c /\ c <= 1114111))

UtfConstants ==
  /\ Texts \subseteq Seq(Nat) /\ \A t \in Texts : \A i \in DOMAIN t : Scalar(t[i])
  /\ ByteRanges \subseteq Seq(0 .. 255)
  /\ MaxGrowth \in Nat

VARIABLES
  kind, text, \* history: "whole", "cut" or "bytes", and what input encodes
  input,  \* the bytes of the line
  loop,   \* which loop is running, "rejected" or "done"
  rest,   \* str or u8range: what is left to convert
  utf16,  \* the path as the system has it
  utf8    \* the path as an event has it

vars == <<kind, text, input, loop, rest, utf16, utf8>>

-----------------------------------------------------------------------------
DecodeError == [code_units_consumed |-> 0, code_point |-> 0]

\* Bytes of a sequence by its first byte; 0 for a byte none begins with.
SequenceLength(b) ==
  CASE b \div 128 = 0 -> 1 [] b \div 32 = 6 -> 2 [] b \div 16 = 14 -> 3
    [] b \div 8 = 30 -> 4 [] OTHER -> 0
HeaderBits(b) ==
  CASE b \div 128 = 0 -> b [] b \div 32 = 6 -> b % 32 [] b \div 16 = 14 -> b % 16
    [] b \div 8 = 30 -> b % 8
check_multi_byte(b) == b \div 64 = 2
add_multi_byte(acc, b) == (acc * 64) + (b % 64)

\* acc, after n bytes
Accumulated(s, n) ==
  LET two == add_multi_byte(HeaderBits(s[1]), s[2])
      three == add_multi_byte(two, s[3])
  IN CASE n = 1 -> HeaderBits(s[1]) [] n = 2 -> two [] n = 3 -> three
       [] n = 4 -> add_multi_byte(three, s[4])

decodeUtf8(s) ==
  LET n == SequenceLength(s[1]) IN
  IF n = 0 \/ n > Len(s) \/ \E i \in 2 .. n : ~check_multi_byte(s[i]) THEN DecodeError
  ELSE [code_units_consumed |-> n, code_point |-> Accumulated(s, n)]

encodeUtf32ToUtf8(c) ==
  LET multi_byte(bits) == (bits % 64) + 128 IN
  IF c < 128 THEN <<c>>
  ELSE IF c < 2048 THEN <<(c \div 64) + 192, multi_byte(c)>>
  ELSE IF c < 65536 THEN <<(c \div 4096) + 224, multi_byte(c \div 64), multi_byte(c)>>
  ELSE IF c <= 1114111 THEN
    <<(c \div 262144) + 240, multi_byte(c \div 4096), multi_byte(c \div 64), multi_byte(c)>>
  ELSE <<>>

HighSurrogate(u) == u \div 1024 = 54
LowSurrogate(u) == u \div 1024 = 55

decodeUtf16(s) ==
  IF ~HighSurrogate(s[1]) /\ ~LowSurrogate(s[1])
    THEN [code_units_consumed |-> 1, code_point |-> s[1]]
  ELSE IF HighSurrogate(s[1]) /\ Len(s) > 1 /\ LowSurrogate(s[2])
    THEN [code_units_consumed |-> 2,
          code_point |-> ((s[1] % 1024) * 1024) + (s[2] % 1024) + 65536]
  ELSE DecodeError

\* Mutant: the offset of the supplementary planes is left in.
encodeUtf32ToUtf16WithOffset(c) ==
  IF c < 65536 THEN <<c>>
  ELSE <<(c \div 1024) + 55296, (c % 1024) + 56320>>

encodeUtf32ToUtf16(c) ==
  IF c < 65536 THEN <<c>>
  ELSE IF c <= 1114111 THEN
    <<((c - 65536) \div 1024) + 55296, ((c - 65536) % 1024) + 56320>>
  ELSE <<>>

Drop(s, n) == SubSeq(s, n + 1, Len(s))

-----------------------------------------------------------------------------
\* A text from its k-th character on
EncodedFrom(t) ==
  LET from[k \in 1 .. Len(t) + 1] ==
        IF k > Len(t) THEN <<>> ELSE encodeUtf32ToUtf8(t[k]) \o from[k + 1]
  IN from
Encoded(t) == EncodedFrom(t)[1]

\* A text, one that ends in the middle of its last character, or anything
Init ==
  /\ \/ kind = "whole" /\ text \in Texts /\ input = Encoded(text)
     \/ /\ kind = "cut" /\ text \in Texts \ {<<>>}
        /\ \E k \in 1 .. Len(encodeUtf32ToUtf8(Last(text))) - 1 :
             input = SubSeq(Encoded(text), 1, Len(Encoded(text)) - k)
     \/ kind = "bytes" /\ text = <<>> /\ input \in ByteRanges
  /\ loop = "checkValidUtf8" /\ rest = input
  /\ utf16 = <<>> /\ utf8 = <<>>

checkValidUtf8 ==
  LET r == decodeUtf8(rest) IN
  /\ loop = "checkValidUtf8" /\ rest # <<>>
  /\ IF r.code_units_consumed = 0 THEN loop' = "rejected" /\ UNCHANGED rest
     ELSE rest' = Drop(rest, r.code_units_consumed) /\ UNCHANGED loop
  /\ UNCHANGED <<kind, text, input, utf16, utf8>>

\* Mutant: a round leaves the last byte of the character for the next one.
convertToUtf16OffByOne ==
  LET r == decodeUtf8(rest) IN
  /\ loop = "convertToUtf16" /\ rest # <<>>
  /\ rest' = Drop(rest, r.code_units_consumed - 1)
  /\ utf16' = utf16 \o encodeUtf32ToUtf16(r.code_point)
  /\ UNCHANGED <<kind, text, input, loop, utf8>>

convertToUtf16 ==
  LET r == decodeUtf8(rest) IN
  /\ loop = "convertToUtf16" /\ rest # <<>>
  /\ rest' = Drop(rest, r.code_units_consumed)
  /\ utf16' = utf16 \o encodeUtf32ToUtf16(r.code_point)
  /\ UNCHANGED <<kind, text, input, loop, utf8>>

\* An error consumes nothing and yields the code point 0: unless the assertion
\* is compiled in, the loop never ends, and the result grows.
convertToUtf8 ==
  LET r == decodeUtf16(rest) IN
  /\ loop = "convertToUtf8" /\ rest # <<>>
  /\ rest' = Drop(rest, r.code_units_consumed)
  /\ utf8' = IF Len(utf8) <= 2 * Len(input) + MaxGrowth
             THEN utf8 \o encodeUtf32ToUtf8(r.code_point) ELSE utf8
  /\ UNCHANGED <<kind, text, input, loop, utf16>>

NextLoop ==
  /\ rest = <<>>
  /\ \/ /\ loop = "checkValidUtf8"
        /\ loop' = "convertToUtf16" /\ rest' = input
     \/ /\ loop = "convertToUtf16"
        /\ loop' = "convertToUtf8" /\ rest' = utf16
     \/ /\ loop = "convertToUtf8"
        /\ loop' = "done" /\ UNCHANGED rest
  /\ UNCHANGED <<kind, text, input, utf16, utf8>>

Next == checkValidUtf8 \/ convertToUtf16 \/ convertToUtf8 \/ NextLoop

Spec == Init /\ [][Next]_vars

-----------------------------------------------------------------------------
(* trimAllUtf(): white space in any alphabet, by whole characters          *)

WhiteSpace(c) ==
  c \in (9 .. 13) \cup {32, 133, 160, 5760, 8232, 8233, 8239, 8287, 12288} \cup (8192 .. 8202)

TrimmedFront(s) ==
  IF s # <<>> /\ WhiteSpace(decodeUtf8(s).code_point)
    THEN Drop(s, decodeUtf8(s).code_units_consumed) ELSE s

\* The shortest suffix that decodes
Suffix(s, k) == SubSeq(s, Len(s) - k + 1, Len(s))
SuffixDecodes(s, k) == k <= Len(s) /\ decodeUtf8(Suffix(s, k)).code_units_consumed # 0
LastCharacter(s) ==
  Suffix(s, CHOOSE k \in 1 .. 4 :
              SuffixDecodes(s, k) /\ \A j \in 1 .. k - 1 : ~SuffixDecodes(s, j))

TrimmedBack(s) ==
  IF s # <<>> /\ WhiteSpace(decodeUtf8(LastCharacter(s)).code_point)
    THEN SubSeq(s, 1, Len(s) - Len(LastCharacter(s))) ELSE s

\* After k rounds of a loop: what it does not go on with the rounds that remain
\* leave as it is.
Fronts(s) ==
  LET front[k \in 0 .. Len(s)] == IF k = 0 THEN s ELSE TrimmedFront(front[k - 1])
  IN front
Backs(s) ==
  LET back[k \in 0 .. Len(s)] == IF k = 0 THEN s ELSE TrimmedBack(back[k - 1])
  IN back
trimAllUtf(s) ==
  LET front == Fronts(s)[Len(s)] IN Backs(front)[Len(front)]

-----------------------------------------------------------------------------
(* Properties                                                              *)

UtfTypeOK ==
  /\ \A i \in DOMAIN utf16 : utf16[i] \in Nat /\ utf16[i] < 65536
  /\ \A i \in DOMAIN utf8 : utf8[i] \in Nat /\ utf8[i] < 256
  /\ loop \in {"checkValidUtf8", "convertToUtf16", "convertToUtf8", "rejected", "done"}

\* A name in any script comes back from the conversions byte for byte, across
\* the limits of each length of a sequence in both encodings.
TextSurvives ==
  kind = "whole" => loop # "rejected" /\ (loop = "done" => utf8 = input)

\* A line that ends within a character is rejected, whatever it begins with.
CutIsRejected == kind = "cut" => loop \in {"checkValidUtf8", "rejected"}

\* The conversion of a name that is text ends: each round of a loop takes
\* something off what is left.
ConversionGoesOn ==
  [][kind = "whole" /\ loop' = loop => Len(rest') < Len(rest)]_vars

\* Trimming takes white space off both ends of a text, never a part of a
\* character, and nothing from between.
Kept(t) == {i \in DOMAIN t : ~WhiteSpace(t[i])}
TrimmedText(t) ==
  IF Kept(t) = {} THEN <<>> ELSE SubSeq(t, Min(Kept(t)), Max(Kept(t)))
TrimsCharacters ==
  kind = "whole" /\ loop = "done" => trimAllUtf(input) = Encoded(TrimmedText(text))

\* string_utilities.hpp: checkValidUtf8() checks whether a range of bytes is
\* valid UTF-8; what it accepts can be converted and comes back.  The code
\* breaks this: overlong sequences and surrogates are accepted; the first come
\* back as something else, and the second never do.
AcceptedSurvives == loop = "done" => utf8 = input
=============================================================================
