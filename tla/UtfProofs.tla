----------------------------- MODULE UtfProofs ------------------------------
(***************************************************************************)
(* A name comes back from the conversions byte for byte, for every text.   *)
(* A scalar value is at most four digits to the base 64: each length of a  *)
(* sequence is one case of them.  At every round the loop is at some       *)
(* character of the text: what it has left is the text from there on, and  *)
(* what it has made is what makes the whole text with the rest of it.      *)
(***************************************************************************)
EXTENDS Utf, FiniteSetTheorems, TLAPS

Byte == 0 .. 255
IsUnit(c) == c \in Nat /\ c < 65536

-----------------------------------------------------------------------------
(* Characters and bytes                                                    *)

LEMMA ByteIs ==
  /\ \A b \in Byte : b \in Nat /\ b < 256
  /\ \A b \in Nat : b < 256 => b \in Byte
BY DEF Byte

LEMMA Parts ==
  ASSUME NEW c \in Nat, NEW k \in Nat, NEW u, u = c \div 64, c < 64 * k
  PROVE  u \in Nat /\ u < k /\ c % 64 \in Nat /\ c % 64 < 64 /\ c = (64 * u) + (c % 64)
OBVIOUS

LEMMA Quotient ==
  ASSUME NEW c \in Nat, NEW v \in Nat, NEW r \in Nat, r < 4096, c = (4096 * v) + r
  PROVE  c \div 4096 = v
OBVIOUS

LEMMA QuotientTwo ==
  ASSUME NEW c \in Nat, NEW v \in Nat, NEW r \in Nat, r < 262144, c = (262144 * v) + r
  PROVE  c \div 262144 = v
OBVIOUS

LEMMA FourParts ==
  ASSUME NEW c \in Nat, c < 1114112, NEW u, NEW v, NEW x,
         u = c \div 64, v = u \div 64, x = v \div 64
  PROVE  /\ u \in Nat /\ v \in Nat /\ x \in Nat /\ u < 17408 /\ v < 272 /\ x < 5
         /\ c % 64 \in Nat /\ u % 64 \in Nat /\ v % 64 \in Nat
         /\ c % 64 < 64 /\ u % 64 < 64 /\ v % 64 < 64
         /\ c = (64 * u) + (c % 64)
         /\ u = (64 * v) + (u % 64)
         /\ v = (64 * x) + (v % 64)
         /\ c \div 4096 = v /\ c \div 262144 = x
<1> PICK o, z, y : o = c % 64 /\ z = u % 64 /\ y = v % 64
  OBVIOUS
<1>1. u \in Nat /\ u < 17408 /\ o \in Nat /\ o < 64 /\ c = (64 * u) + o
  <2>1. c \in Nat /\ c < 64 * 17408
    OBVIOUS
  <2> QED BY <2>1, Parts
<1>2. v \in Nat /\ v < 272 /\ z \in Nat /\ z < 64 /\ u = (64 * v) + z
  <2>1. u \in Nat /\ u < 64 * 272
    BY <1>1
  <2> QED BY <2>1, Parts
<1>3. x \in Nat /\ x < 5 /\ y \in Nat /\ y < 64 /\ v = (64 * x) + y
  <2>1. v \in Nat /\ v < 64 * 5
    BY <1>2
  <2> QED BY <2>1, Parts
<1>4. c \div 4096 = v
  <2>1. /\ (64 * z) + o \in Nat /\ (64 * z) + o < 4096
        /\ c = (4096 * v) + ((64 * z) + o) /\ v \in Nat /\ c \in Nat
    BY ONLY <1>1, <1>2, c \in Nat
  <2> QED BY ONLY <2>1, Quotient
<1>5. c \div 262144 = x
  <2>1. /\ (4096 * y) + ((64 * z) + o) \in Nat /\ (4096 * y) + ((64 * z) + o) < 262144
        /\ c = (262144 * x) + ((4096 * y) + ((64 * z) + o)) /\ x \in Nat /\ c \in Nat
    BY ONLY <1>1, <1>2, <1>3, c \in Nat
  <2> QED BY ONLY <2>1, QuotientTwo
<1> QED BY <1>1, <1>2, <1>3, <1>4, <1>5

\* What the first byte of a sequence of n bytes with the bits x is.
LEMMA Continues ==
  ASSUME NEW y \in Nat, y < 64, NEW b, b = y + 128
  PROVE  b \in Byte /\ check_multi_byte(b) /\ \A acc \in Nat : add_multi_byte(acc, b) = (64 * acc) + y
<1>1. b \in Byte
  BY ByteIs
<1>2. b \div 64 = 2 /\ b % 64 = y
  OBVIOUS
<1> QED BY <1>1, <1>2 DEF check_multi_byte, add_multi_byte

\* b is the first of n bytes, and x are its bits.
Begins(b, n, x) ==
  b \in Byte /\ SequenceLength(b) = n /\ HeaderBits(b) = x /\ ~check_multi_byte(b)

LEMMA BeginsOne == ASSUME NEW x \in Nat, x < 128 PROVE Begins(x, 1, x)
<1>1. x \div 128 = 0 /\ x \div 64 # 2
  OBVIOUS
<1> QED BY <1>1, ByteIs DEF SequenceLength, HeaderBits, Begins, check_multi_byte

LEMMA BeginsTwo == ASSUME NEW x \in Nat, x < 32, NEW b, b = x + 192 PROVE Begins(b, 2, x)
<1>1. /\ b \div 128 = 1 /\ b \div 64 = 3 /\ b \div 32 = 6 /\ b \div 16 # 14 /\ b \div 8 # 30
      /\ b % 32 = x /\ b \in Nat /\ b < 256
  OBVIOUS
<1> QED BY ONLY <1>1, ByteIs DEF SequenceLength, HeaderBits, Begins, check_multi_byte

LEMMA BeginsThree == ASSUME NEW x \in Nat, x < 16, NEW b, b = x + 224 PROVE Begins(b, 3, x)
<1>1. /\ b \div 128 = 1 /\ b \div 64 = 3 /\ b \div 32 = 7 /\ b \div 16 = 14 /\ b \div 8 # 30
      /\ b % 16 = x /\ b \in Nat /\ b < 256
  OBVIOUS
<1> QED BY ONLY <1>1, ByteIs DEF SequenceLength, HeaderBits, Begins, check_multi_byte

LEMMA BeginsFour == ASSUME NEW x \in Nat, x < 8, NEW b, b = x + 240 PROVE Begins(b, 4, x)
<1>1. /\ b \div 128 = 1 /\ b \div 64 = 3 /\ b \div 32 = 7 /\ b \div 16 = 15 /\ b \div 8 = 30
      /\ b % 8 = x /\ b \in Nat /\ b < 256
  OBVIOUS
<1> QED BY ONLY <1>1, ByteIs DEF SequenceLength, HeaderBits, Begins, check_multi_byte

\* A byte within a sequence begins none.
LEMMA ContinuationBeginsNone ==
  ASSUME NEW b \in Byte, check_multi_byte(b) PROVE SequenceLength(b) = 0
<1>1. b \in Nat /\ b \div 64 = 2
  BY ByteIs DEF check_multi_byte
<1>2. b \div 128 # 0 /\ b \div 32 # 6 /\ b \div 16 # 14 /\ b \div 8 # 30
  BY ONLY <1>1
<1> QED BY <1>2 DEF SequenceLength

\* e is the sequence of c.
Encodes(e, c) ==
  /\ e \in Seq(Byte) /\ Len(e) \in Nat /\ 1 <= Len(e) /\ Len(e) <= 4
  /\ SequenceLength(e[1]) = Len(e)
  /\ \A i \in 2 .. Len(e) : check_multi_byte(e[i])
  /\ Accumulated(e, Len(e)) = c

\* A byte that goes on with acc yields v.
Continued(acc, b, v) == b \in Byte /\ check_multi_byte(b) /\ add_multi_byte(acc, b) = v

LEMMA OneToFour ==
  ASSUME NEW n \in Nat, 1 <= n, n <= 4 PROVE n = 1 \/ n = 2 \/ n = 3 \/ n = 4
OBVIOUS

LEMMA AccumulatedIs ==
  ASSUME NEW s
  PROVE  /\ Accumulated(s, 1) = HeaderBits(s[1])
         /\ Accumulated(s, 2) = add_multi_byte(HeaderBits(s[1]), s[2])
         /\ Accumulated(s, 3) = add_multi_byte(add_multi_byte(HeaderBits(s[1]), s[2]), s[3])
         /\ Accumulated(s, 4) =
              add_multi_byte(add_multi_byte(add_multi_byte(HeaderBits(s[1]), s[2]), s[3]), s[4])
<1>1. Accumulated(s, 1) = HeaderBits(s[1])
  BY DEF Accumulated
<1>2. Accumulated(s, 2) = add_multi_byte(HeaderBits(s[1]), s[2])
  BY DEF Accumulated
<1>3. Accumulated(s, 3) = add_multi_byte(add_multi_byte(HeaderBits(s[1]), s[2]), s[3])
  BY DEF Accumulated
<1>4. Accumulated(s, 4) =
        add_multi_byte(add_multi_byte(add_multi_byte(HeaderBits(s[1]), s[2]), s[3]), s[4])
  BY DEF Accumulated
<1> QED BY <1>1, <1>2, <1>3, <1>4

LEMMA EncodesOne == ASSUME NEW c \in Nat, c < 128 PROVE Encodes(<<c>>, c)
<1> DEFINE e == <<c>>
<1>1. Begins(c, 1, c)
  BY BeginsOne
<1>2. e \in Seq(Byte) /\ Len(e) = 1 /\ e[1] = c
  BY <1>1 DEF Begins
<1> HIDE DEF e
<1>3. Accumulated(e, 1) = HeaderBits(e[1])
  BY DEF Accumulated
<1>4. Encodes(e, c)
  BY <1>1, <1>2, <1>3 DEF Encodes, Begins
<1> QED BY <1>4 DEF e

LEMMA TwoEncode ==
  ASSUME NEW a, NEW b, NEW x, NEW c, Begins(a, 2, x), Continued(x, b, c)
  PROVE  Encodes(<<a, b>>, c)
<1> DEFINE e == <<a, b>>
<1>1. e \in Seq(Byte) /\ Len(e) = 2 /\ e[1] = a /\ e[2] = b
  BY DEF Begins, Continued
<1> HIDE DEF e
<1>2. Accumulated(e, 2) = add_multi_byte(HeaderBits(e[1]), e[2])
  BY DEF Accumulated
<1>3. \A i \in 2 .. 2 : check_multi_byte(e[i])
  BY <1>1 DEF Continued
<1>4. Encodes(e, c)
  BY <1>1, <1>2, <1>3 DEF Encodes, Begins, Continued
<1> QED BY <1>4 DEF e

LEMMA ThreeEncode ==
  ASSUME NEW a, NEW b, NEW d, NEW x, NEW y, NEW c,
         Begins(a, 3, x), Continued(x, b, y), Continued(y, d, c)
  PROVE  Encodes(<<a, b, d>>, c)
<1> DEFINE e == <<a, b, d>>
<1>1. e \in Seq(Byte) /\ Len(e) = 3 /\ e[1] = a /\ e[2] = b /\ e[3] = d
  BY DEF Begins, Continued
<1> HIDE DEF e
<1>2. Accumulated(e, 3) = add_multi_byte(add_multi_byte(HeaderBits(e[1]), e[2]), e[3])
  BY DEF Accumulated
<1>3. \A i \in 2 .. 3 : check_multi_byte(e[i])
  BY <1>1 DEF Continued
<1>4. Encodes(e, c)
  BY <1>1, <1>2, <1>3 DEF Encodes, Begins, Continued
<1> QED BY <1>4 DEF e

LEMMA FourEncode ==
  ASSUME NEW a, NEW b, NEW d, NEW f, NEW x, NEW y, NEW z, NEW c,
         Begins(a, 4, x), Continued(x, b, y), Continued(y, d, z), Continued(z, f, c)
  PROVE  Encodes(<<a, b, d, f>>, c)
<1> DEFINE e == <<a, b, d, f>>
<1>1. e \in Seq(Byte) /\ Len(e) = 4 /\ e[1] = a /\ e[2] = b /\ e[3] = d /\ e[4] = f
  BY DEF Begins, Continued
<1> HIDE DEF e
<1>2. Accumulated(e, 4) =
        add_multi_byte(add_multi_byte(add_multi_byte(HeaderBits(e[1]), e[2]), e[3]), e[4])
  BY DEF Accumulated
<1>3. \A i \in 2 .. 4 : check_multi_byte(e[i])
  BY <1>1 DEF Continued
<1>4. Encodes(e, c)
  BY <1>1, <1>2, <1>3 DEF Encodes, Begins, Continued
<1> QED BY <1>4 DEF e

LEMMA EncodesTwo ==
  ASSUME NEW c \in Nat, 128 <= c, c < 2048
  PROVE  Encodes(<<(c \div 64) + 192, (c % 64) + 128>>, c)
<1> DEFINE x == c \div 64
           y == c % 64
<1>1. x \in Nat /\ x < 32 /\ y \in Nat /\ y < 64 /\ c = (64 * x) + y
  <2>1. c < 64 * 32
    OBVIOUS
  <2> QED BY <2>1, Parts
<1> HIDE DEF x, y
<1>2. Begins(x + 192, 2, x) /\ Continued(x, y + 128, c)
  BY <1>1, BeginsTwo, Continues DEF Continued
<1>3. Encodes(<<x + 192, y + 128>>, c)
  BY ONLY <1>2, TwoEncode
<1> QED BY <1>3 DEF x, y

LEMMA EncodesThree ==
  ASSUME NEW c \in Nat, 2048 <= c, c < 65536
  PROVE  Encodes(<<(c \div 4096) + 224, ((c \div 64) % 64) + 128, (c % 64) + 128>>, c)
<1> DEFINE u == c \div 64
           v == u \div 64
           y == u % 64
           z == c % 64
<1>1. /\ u \in Nat /\ v \in Nat /\ y \in Nat /\ z \in Nat /\ y < 64 /\ z < 64
      /\ c = (64 * u) + z /\ u = (64 * v) + y /\ c \div 4096 = v
  BY FourParts
<1> HIDE DEF v, y, z
<1>2. v < 16
  BY <1>1
<1>3. Begins(v + 224, 3, v)
  BY <1>1, <1>2, BeginsThree
<1>4. Continued(v, y + 128, u)
  BY <1>1, Continues DEF Continued
<1>5. Continued(u, z + 128, c)
  BY <1>1, Continues DEF Continued
<1>6. Encodes(<<v + 224, y + 128, z + 128>>, c)
  BY ONLY <1>3, <1>4, <1>5, ThreeEncode
<1> QED BY <1>1, <1>6 DEF y, z

LEMMA EncodesFour ==
  ASSUME NEW c \in Nat, 65536 <= c, c <= 1114111
  PROVE  Encodes(<<(c \div 262144) + 240, ((c \div 4096) % 64) + 128,
                   ((c \div 64) % 64) + 128, (c % 64) + 128>>, c)
<1> DEFINE u == c \div 64
           v == u \div 64
           x == v \div 64
           y == v % 64
           z == u % 64
           o == c % 64
<1>1. /\ u \in Nat /\ v \in Nat /\ x \in Nat /\ x < 5 /\ y \in Nat /\ z \in Nat /\ o \in Nat
      /\ y < 64 /\ z < 64 /\ o < 64
      /\ c = (64 * u) + o /\ u = (64 * v) + z /\ v = (64 * x) + y
      /\ c \div 4096 = v /\ c \div 262144 = x
  BY FourParts
<1> HIDE DEF v, x, y, z, o
<1>2. Begins(x + 240, 4, x)
  BY <1>1, BeginsFour
<1>3. Continued(x, y + 128, v)
  BY <1>1, Continues DEF Continued
<1>4. Continued(v, z + 128, u)
  BY <1>1, Continues DEF Continued
<1>5. Continued(u, o + 128, c)
  BY <1>1, Continues DEF Continued
<1>6. Encodes(<<x + 240, y + 128, z + 128, o + 128>>, c)
  BY ONLY <1>2, <1>3, <1>4, <1>5, FourEncode
<1> QED BY <1>1, <1>6 DEF y, z, o

LEMMA Utf8Encodes ==
  ASSUME NEW c \in Nat, c <= 1114111 PROVE Encodes(encodeUtf32ToUtf8(c), c)
<1>1. CASE c < 128
  <2>1. encodeUtf32ToUtf8(c) = <<c>>
    BY <1>1 DEF encodeUtf32ToUtf8
  <2> QED BY <1>1, <2>1, EncodesOne
<1>2. CASE 128 <= c /\ c < 2048
  <2>1. encodeUtf32ToUtf8(c) = <<(c \div 64) + 192, (c % 64) + 128>>
    BY <1>2 DEF encodeUtf32ToUtf8
  <2> QED BY <1>2, <2>1, EncodesTwo
<1>3. CASE 2048 <= c /\ c < 65536
  <2>1. encodeUtf32ToUtf8(c) =
          <<(c \div 4096) + 224, ((c \div 64) % 64) + 128, (c % 64) + 128>>
    BY <1>3 DEF encodeUtf32ToUtf8
  <2> QED BY <1>3, <2>1, EncodesThree
<1>4. CASE 65536 <= c
  <2>1. encodeUtf32ToUtf8(c) =
          <<(c \div 262144) + 240, ((c \div 4096) % 64) + 128,
            ((c \div 64) % 64) + 128, (c % 64) + 128>>
    BY <1>4 DEF encodeUtf32ToUtf8
  <2> QED BY <1>4, <2>1, EncodesFour
<1> QED BY <1>1, <1>2, <1>3, <1>4

-----------------------------------------------------------------------------
(* Sequences                                                               *)

LEMMA SameSequence ==
  ASSUME NEW S, NEW s \in Seq(S), NEW t \in Seq(S), Len(s) = Len(t),
         \A i \in 1 .. Len(s) : s[i] = t[i]
  PROVE  s = t
OBVIOUS

LEMMA Joined ==
  ASSUME NEW S, NEW e \in Seq(S), NEW s \in Seq(S)
  PROVE  /\ e \o s \in Seq(S) /\ Len(e) \in Nat /\ Len(s) \in Nat /\ Len(e \o s) = Len(e) + Len(s)
         /\ \A i \in 1 .. Len(e) : (e \o s)[i] = e[i]
         /\ \A i \in 1 .. Len(s) : (e \o s)[Len(e) + i] = s[i]
OBVIOUS

LEMMA JoinedDrop ==
  ASSUME NEW S, NEW e \in Seq(S), NEW s \in Seq(S)
  PROVE  Drop(e \o s, Len(e)) = s
<1> DEFINE t == e \o s
<1>1. /\ t \in Seq(S) /\ Len(e) \in Nat /\ Len(s) \in Nat /\ Len(t) = Len(e) + Len(s)
      /\ \A i \in 1 .. Len(s) : t[Len(e) + i] = s[i]
  BY Joined
<1> HIDE DEF t
<1>2. /\ Drop(t, Len(e)) \in Seq(S) /\ Len(Drop(t, Len(e))) = Len(s)
      /\ \A i \in 1 .. Len(s) : Drop(t, Len(e))[i] = t[Len(e) + i]
  BY <1>1 DEF Drop
<1>3. Drop(t, Len(e)) = s
  BY <1>1, <1>2, SameSequence
<1> QED BY <1>3 DEF t

LEMMA Dropped ==
  ASSUME NEW S, NEW s \in Seq(S), NEW n \in Nat, n <= Len(s)
  PROVE  Drop(s, n) \in Seq(S) /\ Len(Drop(s, n)) = Len(s) - n
BY DEF Drop

LEMMA JoinedTwice ==
  ASSUME NEW S, NEW a \in Seq(S), NEW b \in Seq(S), NEW c \in Seq(S)
  PROVE  (a \o b) \o c = a \o (b \o c)
OBVIOUS

-----------------------------------------------------------------------------
(* A sequence of bytes that begins with a character                        *)

LEMMA DecodesUtf8 ==
  ASSUME NEW e, NEW c, Encodes(e, c), NEW s \in Seq(Byte)
  PROVE  decodeUtf8(e \o s) = [code_units_consumed |-> Len(e), code_point |-> c]
<1> DEFINE t == e \o s
<1>0. e \in Seq(Byte) /\ Len(e) \in Nat /\ 1 <= Len(e) /\ Len(e) <= 4
  BY DEF Encodes
<1>1. /\ t \in Seq(Byte) /\ Len(t) \in Nat /\ Len(e) <= Len(t)
      /\ \A i \in 1 .. Len(e) : t[i] = e[i]
  BY <1>0, Joined
<1> HIDE DEF t
<1>2. t[1] = e[1] /\ \A i \in 2 .. Len(e) : t[i] = e[i]
  BY <1>0, <1>1
<1>3. SequenceLength(t[1]) = Len(e) /\ Len(e) # 0 /\ ~(Len(e) > Len(t))
      /\ \A i \in 2 .. Len(e) : check_multi_byte(t[i])
  BY <1>0, <1>1, <1>2 DEF Encodes
<1>4. Accumulated(t, Len(e)) = Accumulated(e, Len(e))
  <2>1. ASSUME Len(e) = 1 PROVE Accumulated(t, 1) = Accumulated(e, 1)
    BY <1>2, AccumulatedIs
  <2>2. ASSUME Len(e) = 2 PROVE Accumulated(t, 2) = Accumulated(e, 2)
    <3>1. t[2] = e[2]
      BY <1>2, <2>2
    <3> QED BY <1>2, <3>1, AccumulatedIs
  <2>3. ASSUME Len(e) = 3 PROVE Accumulated(t, 3) = Accumulated(e, 3)
    <3>1. t[2] = e[2] /\ t[3] = e[3]
      BY <1>2, <2>3
    <3> QED BY <1>2, <3>1, AccumulatedIs
  <2>4. ASSUME Len(e) = 4 PROVE Accumulated(t, 4) = Accumulated(e, 4)
    <3>1. t[2] = e[2] /\ t[3] = e[3] /\ t[4] = e[4]
      BY <1>2, <2>4
    <3> QED BY <1>2, <3>1, AccumulatedIs
  <2>5. Len(e) = 1 \/ Len(e) = 2 \/ Len(e) = 3 \/ Len(e) = 4
    BY <1>0, OneToFour
  <2> QED BY <2>1, <2>2, <2>3, <2>4, <2>5
<1>5. decodeUtf8(t) = [code_units_consumed |-> Len(e), code_point |-> c]
  <2>1. Accumulated(t, Len(e)) = c
    BY <1>4 DEF Encodes
  <2> QED BY <1>3, <2>1, Zenon DEF decodeUtf8
<1> QED BY <1>5 DEF t

\* What is cut within its first character is rejected.
LEMMA CutDecodesNothing ==
  ASSUME NEW e, NEW c, Encodes(e, c), NEW k \in 1 .. Len(e) - 1
  PROVE  /\ SubSeq(e, 1, k) # <<>>
         /\ decodeUtf8(SubSeq(e, 1, k)).code_units_consumed = 0
<1> DEFINE t == SubSeq(e, 1, k)
<1>0. e \in Seq(Byte) /\ Len(e) \in Nat /\ 1 <= Len(e) /\ Len(e) <= 4
  BY DEF Encodes
<1>1. t \in Seq(Byte) /\ Len(t) = k /\ t[1] = e[1] /\ k \in Nat /\ k < Len(e) /\ k # 0
  BY <1>0
<1> HIDE DEF t
<1>2. t # <<>> /\ SequenceLength(t[1]) = Len(e) /\ Len(e) > Len(t)
  BY <1>0, <1>1 DEF Encodes
<1>3. decodeUtf8(t) = DecodeError
  BY <1>2, Zenon DEF decodeUtf8
<1> QED BY <1>2, <1>3 DEF DecodeError, t

\* Whatever it decodes, a step takes a number of bytes there are.
LEMMA DecodedUtf8 ==
  ASSUME NEW s \in Seq(Byte), s # <<>>
  PROVE  /\ decodeUtf8(s).code_units_consumed \in Nat
         /\ decodeUtf8(s).code_units_consumed <= Len(s)
         /\ decodeUtf8(s).code_point \in Nat
<1>1. Len(s) \in Nat /\ 1 <= Len(s) /\ \A i \in 1 .. Len(s) : s[i] \in Byte
  OBVIOUS
<1> DEFINE n == SequenceLength(s[1])
<1>2. n \in {0, 1, 2, 3, 4}
  BY DEF SequenceLength
<1>3. ASSUME NEW b \in Byte PROVE SequenceLength(b) # 0 => HeaderBits(b) \in Nat
  <2>1. b \in Nat /\ b % 32 \in Nat /\ b % 16 \in Nat /\ b % 8 \in Nat
    BY ByteIs
  <2> QED BY <2>1 DEF SequenceLength, HeaderBits
<1>4. ASSUME NEW acc \in Nat, NEW b \in Byte PROVE add_multi_byte(acc, b) \in Nat
  <2>1. b \in Nat /\ b % 64 \in Nat
    BY ByteIs
  <2> QED BY <2>1 DEF add_multi_byte
<1> HIDE DEF n
<1>5. CASE n = 0 \/ n > Len(s) \/ \E i \in 2 .. n : ~check_multi_byte(s[i])
  <2>1. decodeUtf8(s) = DecodeError
    BY <1>5, Zenon DEF decodeUtf8, n
  <2> QED BY <1>1, <2>1 DEF DecodeError
<1>6. CASE ~(n = 0 \/ n > Len(s) \/ \E i \in 2 .. n : ~check_multi_byte(s[i]))
  <2>1. decodeUtf8(s) = [code_units_consumed |-> n, code_point |-> Accumulated(s, n)]
    BY <1>6, Zenon DEF decodeUtf8, n
  <2>2. n \in Nat /\ n <= Len(s) /\ n # 0
    BY <1>1, <1>2, <1>6
  <2>3. HeaderBits(s[1]) \in Nat
    BY <1>1, <1>3, <2>2 DEF n
  <2>4. Accumulated(s, n) \in Nat
    <3>1. ASSUME n = 1 PROVE Accumulated(s, 1) \in Nat
      BY <2>3, AccumulatedIs
    <3>2. ASSUME 2 <= n PROVE Accumulated(s, 2) \in Nat
      <4>1. s[2] \in Byte
        BY <1>1, <2>2, <3>2
      <4> QED BY <1>4, <2>3, <4>1, AccumulatedIs
    <3>3. ASSUME 3 <= n PROVE Accumulated(s, 3) \in Nat
      <4>1. s[3] \in Byte
        BY <1>1, <2>2, <3>3
      <4>2. Accumulated(s, 3) = add_multi_byte(Accumulated(s, 2), s[3])
        BY AccumulatedIs
      <4>3. Accumulated(s, 2) \in Nat
        BY <2>2, <3>2, <3>3
      <4> QED BY <1>4, <4>1, <4>2, <4>3, Zenon
    <3>4. ASSUME 4 <= n PROVE Accumulated(s, 4) \in Nat
      <4>1. s[4] \in Byte
        BY <1>1, <2>2, <3>4
      <4>2. Accumulated(s, 4) = add_multi_byte(Accumulated(s, 3), s[4])
        BY AccumulatedIs
      <4>3. Accumulated(s, 3) \in Nat
        BY <2>2, <3>3, <3>4
      <4> QED BY <1>4, <4>1, <4>2, <4>3, Zenon
    <3> QED BY <1>2, <2>2, <3>1, <3>2, <3>3, <3>4
  <2> QED BY <2>1, <2>2, <2>4
<1> QED BY <1>5, <1>6

-----------------------------------------------------------------------------
(* A sequence of units of UTF-16 that begins with a character              *)

Unit == {u \in Nat : u < 65536}

LEMMA Single ==
  ASSUME NEW c, Scalar(c), c < 65536, NEW s \in Seq(Unit)
  PROVE  /\ <<c>> \in Seq(Unit) /\ Len(<<c>>) = 1
         /\ decodeUtf16(<<c>> \o s) = [code_units_consumed |-> 1, code_point |-> c]
<1> DEFINE e == <<c>>
           t == e \o s
<1>1. c \in Unit /\ c \in Nat /\ (c <= 55295 \/ 57344 <= c)
  BY DEF Scalar, Unit
<1>2. c \div 1024 # 54 /\ c \div 1024 # 55
  BY ONLY <1>1
<1>3. e \in Seq(Unit) /\ Len(e) = 1 /\ e[1] = c
  BY <1>1
<1> HIDE DEF e
<1>4. t[1] = c
  <2>1. \A i \in 1 .. Len(e) : t[i] = e[i]
    BY ONLY <1>3, s \in Seq(Unit), Joined
  <2>2. 1 \in 1 .. Len(e)
    BY ONLY <1>3
  <2> QED BY ONLY <1>3, <2>1, <2>2
<1> HIDE DEF t
<1>5. decodeUtf16(t) = [code_units_consumed |-> 1, code_point |-> c]
  BY <1>2, <1>4 DEF decodeUtf16, HighSurrogate, LowSurrogate
<1> QED BY <1>3, <1>5 DEF e, t

LEMMA PairBegins ==
  ASSUME NEW S, NEW h \in S, NEW l \in S, NEW s \in Seq(S), NEW t, t = <<h, l>> \o s
  PROVE  t[1] = h /\ t[2] = l /\ Len(t) \in Nat /\ Len(t) > 1
OBVIOUS

\* A pair of surrogates
PairOf(h, l, c) ==
  /\ h \in Unit /\ l \in Unit /\ h \div 1024 = 54 /\ l \div 1024 = 55
  /\ ((h % 1024) * 1024) + (l % 1024) + 65536 = c

LEMMA PairIs ==
  ASSUME NEW c \in Nat, 65536 <= c, c <= 1114111
  PROVE  PairOf(((c - 65536) \div 1024) + 55296, ((c - 65536) % 1024) + 56320, c)
<1> DEFINE v == c - 65536
           x == v \div 1024
           y == v % 1024
           h == x + 55296
           l == y + 56320
<1>1. v \in Nat /\ v < 1024 * 1024 /\ c = v + 65536
  OBVIOUS
<1> HIDE DEF v
<1>2. x \in Nat /\ x < 1024 /\ y \in Nat /\ y < 1024 /\ v = (1024 * x) + y
  BY ONLY <1>1
<1> HIDE DEF x, y
<1>3. h \div 1024 = 54 /\ h % 1024 = x /\ l \div 1024 = 55 /\ l % 1024 = y
  BY ONLY <1>2
<1>4. h \in Unit /\ l \in Unit
  BY ONLY <1>2 DEF Unit
<1> HIDE DEF h, l
<1>5. ((h % 1024) * 1024) + (l % 1024) + 65536 = c
  BY ONLY <1>1, <1>2, <1>3
<1>6. PairOf(h, l, c)
  BY ONLY <1>3, <1>4, <1>5 DEF PairOf
<1> QED BY <1>6 DEF h, l, x, y, v

LEMMA PairDecodes ==
  ASSUME NEW h, NEW l, NEW c, PairOf(h, l, c), NEW s \in Seq(Unit)
  PROVE  decodeUtf16(<<h, l>> \o s) = [code_units_consumed |-> 2, code_point |-> c]
<1> DEFINE t == <<h, l>> \o s
<1>1. t[1] = h /\ t[2] = l /\ Len(t) \in Nat /\ Len(t) > 1
  BY PairBegins DEF PairOf
<1> HIDE DEF t
<1>2. decodeUtf16(t) = [code_units_consumed |-> 2, code_point |-> c]
  BY ONLY <1>1, PairOf(h, l, c) DEF PairOf, decodeUtf16, HighSurrogate, LowSurrogate
<1> QED BY <1>2 DEF t

LEMMA PairSequence ==
  ASSUME NEW h \in Unit, NEW l \in Unit PROVE <<h, l>> \in Seq(Unit) /\ Len(<<h, l>>) = 2
OBVIOUS

LEMMA DecodesUtf16 ==
  ASSUME NEW c, Scalar(c), NEW s \in Seq(Unit)
  PROVE  LET e == encodeUtf32ToUtf16(c)
         IN  /\ e \in Seq(Unit) /\ Len(e) \in Nat /\ Len(e) # 0
             /\ decodeUtf16(e \o s) = [code_units_consumed |-> Len(e), code_point |-> c]
<1>1. CASE c < 65536
  <2>1. encodeUtf32ToUtf16(c) = <<c>>
    BY <1>1 DEF encodeUtf32ToUtf16
  <2> QED BY <1>1, <2>1, Single
<1>2. CASE ~(c < 65536)
  <2>1. c \in Nat /\ 65536 <= c /\ c <= 1114111
    BY <1>2 DEF Scalar
  <2>2. encodeUtf32ToUtf16(c) = <<((c - 65536) \div 1024) + 55296, ((c - 65536) % 1024) + 56320>>
    BY <2>1 DEF encodeUtf32ToUtf16
  <2> DEFINE h == ((c - 65536) \div 1024) + 55296
             l == ((c - 65536) % 1024) + 56320
  <2>3. PairOf(h, l, c)
    BY <2>1, PairIs
  <2> HIDE DEF h, l
  <2>4. <<h, l>> \in Seq(Unit) /\ Len(<<h, l>>) = 2
    BY <2>3, PairSequence DEF PairOf
  <2>5. decodeUtf16(<<h, l>> \o s) = [code_units_consumed |-> 2, code_point |-> c]
    BY <2>3, PairDecodes
  <2>6. encodeUtf32ToUtf16(c) = <<h, l>>
    BY <2>2 DEF h, l
  <2> QED BY ONLY <2>4, <2>5, <2>6
<1> QED BY <1>1, <1>2

\* Whatever code point there is, the units fit.
LEMMA EncodedUtf16 ==
  ASSUME NEW c \in Nat PROVE encodeUtf32ToUtf16(c) \in Seq(Unit)
<1>1. CASE c < 65536
  BY <1>1 DEF encodeUtf32ToUtf16, Unit
<1>2. CASE 65536 <= c /\ c <= 1114111
  <2>1. encodeUtf32ToUtf16(c) = <<((c - 65536) \div 1024) + 55296, ((c - 65536) % 1024) + 56320>>
    BY <1>2 DEF encodeUtf32ToUtf16
  <2> DEFINE h == ((c - 65536) \div 1024) + 55296
             l == ((c - 65536) % 1024) + 56320
  <2>2. PairOf(h, l, c)
    BY <1>2, PairIs
  <2> HIDE DEF h, l
  <2>3. <<h, l>> \in Seq(Unit)
    BY <2>2, PairSequence DEF PairOf
  <2> QED BY <2>1, <2>3 DEF h, l
<1>3. CASE 1114111 < c
  <2>1. encodeUtf32ToUtf16(c) = <<>>
    BY <1>3 DEF encodeUtf32ToUtf16
  <2> QED BY <2>1
<1> QED BY <1>1, <1>2, <1>3

LEMMA DecodedUtf16 ==
  ASSUME NEW s \in Seq(Unit), s # <<>>
  PROVE  /\ decodeUtf16(s).code_units_consumed \in Nat
         /\ decodeUtf16(s).code_units_consumed <= Len(s)
         /\ decodeUtf16(s).code_point \in Nat /\ decodeUtf16(s).code_point <= 1114111
<1>1. Len(s) \in Nat /\ 1 <= Len(s) /\ s[1] \in Nat /\ s[1] < 65536
  BY DEF Unit
<1>2. CASE ~HighSurrogate(s[1]) /\ ~LowSurrogate(s[1])
  <2>1. decodeUtf16(s) = [code_units_consumed |-> 1, code_point |-> s[1]]
    BY <1>2 DEF decodeUtf16
  <2> QED BY <1>1, <2>1
<1>3. CASE HighSurrogate(s[1]) /\ Len(s) > 1 /\ LowSurrogate(s[2])
  <2>1. decodeUtf16(s) = [code_units_consumed |-> 2,
                          code_point |-> ((s[1] % 1024) * 1024) + (s[2] % 1024) + 65536]
    BY <1>3 DEF decodeUtf16
  <2>2. s[2] \in Nat
    BY <1>1, <1>3 DEF Unit
  <2> DEFINE h == s[1] % 1024
             l == s[2] % 1024
  <2>3. h \in Nat /\ h < 1024 /\ l \in Nat /\ l < 1024
    BY ONLY <1>1, <2>2
  <2> HIDE DEF h, l
  <2>4. (h * 1024) + l + 65536 \in Nat /\ (h * 1024) + l + 65536 <= 1114111
    BY ONLY <2>3, SMT
  <2>5. /\ decodeUtf16(s).code_units_consumed = 2
        /\ decodeUtf16(s).code_point = (h * 1024) + l + 65536
    <3>1. decodeUtf16(s) = [code_units_consumed |-> 2, code_point |-> (h * 1024) + l + 65536]
      BY <2>1, SMT DEF h, l
    <3> QED BY ONLY <3>1, SMT
  <2>6. 2 \in Nat /\ 2 <= Len(s)
    BY ONLY <1>1, <1>3
  <2> QED BY ONLY <2>4, <2>5, <2>6
<1>4. CASE ~(~HighSurrogate(s[1]) /\ ~LowSurrogate(s[1]))
           /\ ~(HighSurrogate(s[1]) /\ Len(s) > 1 /\ LowSurrogate(s[2]))
  <2>1. decodeUtf16(s) = DecodeError
    BY <1>4 DEF decodeUtf16
  <2> QED BY <1>1, <2>1 DEF DecodeError
<1> QED BY <1>2, <1>3, <1>4

\* The bytes of what UTF-16 holds are bytes.
LEMMA EncodedUtf8 ==
  ASSUME NEW c \in Nat, c <= 1114111
  PROVE  encodeUtf32ToUtf8(c) \in Seq(Byte)
BY Utf8Encodes DEF Encodes

-----------------------------------------------------------------------------
(* A text from each of its characters on                                   *)

LEMMA UpToN ==
  ASSUME NEW n \in Nat
  PROVE  /\ IsFiniteSet(1 .. n) /\ Cardinality(1 .. n) = n
         /\ IsFiniteSet(0 .. n - 1) /\ Cardinality(0 .. n - 1) = n
<1>1. IsFiniteSet(1 .. n) /\ Cardinality(1 .. n) = IF 1 > n THEN 0 ELSE n - 1 + 1
  BY FS_Interval
<1>2. IsFiniteSet(0 .. n - 1) /\ Cardinality(0 .. n - 1) = IF 0 > n - 1 THEN 0 ELSE n - 1 - 0 + 1
  <2>1. 0 \in Int /\ n - 1 \in Int
    OBVIOUS
  <2> QED BY <2>1, FS_Interval
<1> QED BY <1>1, <1>2

\* By the number of those before each of them: one has none before it.
LEMMA FirstExists ==
  ASSUME NEW n \in Nat, NEW S \in SUBSET (1 .. n), S # {}
  PROVE  \E x \in S : \A y \in S : x <= y
<1> DEFINE Below(x) == {y \in S : y < x}
           rank == [x \in S |-> Cardinality(Below(x))]
           m == Cardinality(S)
<1>1. IsFiniteSet(S) /\ m \in Nat /\ m # 0
  BY UpToN, FS_Subset, FS_CardinalityType, FS_EmptySet
<1>2. \A x \in S : x \in Int
  OBVIOUS
<1>3. ASSUME NEW x \in S
      PROVE  IsFiniteSet(Below(x)) /\ rank[x] \in Nat /\ rank[x] < m
  <2>1. Below(x) \in SUBSET S /\ Below(x) # S
    BY <1>2
  <2>2. IsFiniteSet(Below(x)) /\ Cardinality(Below(x)) \in Nat
    BY <1>1, <2>1, FS_Subset, FS_CardinalityType
  <2>3. Cardinality(Below(x)) <= m /\ Cardinality(Below(x)) # m
    BY <1>1, <2>1, FS_Subset
  <2> QED BY <1>1, <2>2, <2>3
<1>4. ASSUME NEW x \in S, NEW y \in S, x < y PROVE rank[x] # rank[y]
  <2>1. \A z \in S : z < x => z < y
    BY <1>2, <1>4
  <2>2. Below(x) \in SUBSET Below(y)
    BY <2>1
  <2>3. x \in Below(y) /\ x \notin Below(x)
    BY <1>2, <1>4
  <2> QED BY <1>3, <2>2, <2>3, FS_Subset
<1>5. rank \in Injection(S, 0 .. m - 1)
  <2>1. ASSUME NEW x \in S PROVE rank[x] \in 0 .. m - 1
    <3>1. ASSUME NEW r \in Nat, r < m PROVE r \in 0 .. m - 1
      BY <1>1, <3>1
    <3> QED BY <1>3, <3>1
  <2>2. rank \in [S -> 0 .. m - 1]
    BY <2>1
  <2>3. ASSUME NEW x \in S, NEW y \in S, rank[x] = rank[y] PROVE x = y
    <3>1. ~(x < y) /\ ~(y < x)
      BY <1>4, <2>3
    <3> QED BY <1>2, <3>1
  <2> QED BY <2>2, <2>3 DEF Injection, IsInjective
<1>6. rank \in Surjection(S, 0 .. m - 1)
  <2>1. IsFiniteSet(0 .. m - 1) /\ Cardinality(0 .. m - 1) = m
    BY <1>1, UpToN
  <2> QED BY <1>1, <1>5, <2>1, FS_Injection
<1>7. PICK x \in S : rank[x] = 0
  <2>1. 0 \in 0 .. m - 1
    BY <1>1
  <2> QED BY <1>6, <2>1 DEF Surjection
<1>8. Below(x) = {}
  BY <1>3, <1>7, FS_EmptySet
<1> QED BY <1>2, <1>8

LEMMA LastExists ==
  ASSUME NEW n \in Nat, NEW S \in SUBSET (1 .. n), S # {}
  PROVE  \E x \in S : \A y \in S : x >= y
<1> DEFINE T == {z \in 1 .. n : n + 1 - z \in S}
<1>1. \A x \in S : x \in 1 .. n /\ n + 1 - x \in T
  <2>1. ASSUME NEW x \in S PROVE x \in 1 .. n /\ n + 1 - x \in 1 .. n /\ n + 1 - (n + 1 - x) = x
    OBVIOUS
  <2> QED BY <2>1
<1>2. T \in SUBSET (1 .. n) /\ T # {}
  BY <1>1
<1>p. PICK z \in T : \A y \in T : z <= y
  BY <1>2, FirstExists
<1>3. ASSUME NEW y \in S PROVE n + 1 - z >= y
  BY <1>1, <1>p
<1> QED BY <1>3

\* From the k-th on, f[j] is e[j] and all that follow in a row.
RowFrom(S, n, e, k, f) ==
  /\ f \in [k .. n + 1 -> Seq(S)] /\ f[n + 1] = <<>>
  /\ \A j \in k .. n : f[j] = e[j] \o f[j + 1]
Row(S, n, e, f) == RowFrom(S, n, e, 1, f)
RowOf(n, e, g) == g[n + 1] = <<>> /\ \A k \in 1 .. n : g[k] = e[k] \o g[k + 1]

LEMMA RowGrows ==
  ASSUME NEW S, NEW n \in Nat, NEW e \in [1 .. n -> Seq(S)], NEW m \in 1 .. n, NEW f,
         RowFrom(S, n, e, m + 1, f)
  PROVE  \E g : RowFrom(S, n, e, m, g)
<1>1. /\ f \in [m + 1 .. n + 1 -> Seq(S)] /\ f[n + 1] = <<>>
      /\ \A j \in m + 1 .. n : f[j] = e[j] \o f[j + 1]
  BY DEF RowFrom
<1> DEFINE s == e[m] \o f[m + 1]
           g == [k \in m .. n + 1 |-> IF k = m THEN s ELSE f[k]]
<1>2. s \in Seq(S)
  <2>1. e[m] \in Seq(S) /\ f[m + 1] \in Seq(S)
    BY <1>1
  <2> QED BY <2>1, Joined
<1> HIDE DEF s
<1>3. \A k \in m .. n + 1 : k = m \/ k \in m + 1 .. n + 1
  OBVIOUS
<1>4. g \in [m .. n + 1 -> Seq(S)]
  BY <1>1, <1>2, <1>3
<1>5. m \in m .. n + 1 /\ \A k \in m + 1 .. n + 1 : k \in m .. n + 1 /\ k # m
  OBVIOUS
<1>6. g[m] = s /\ \A k \in m + 1 .. n + 1 : g[k] = f[k]
  BY <1>5
<1> HIDE DEF g
<1>7. g[n + 1] = <<>>
  BY <1>1, <1>6
<1>8. ASSUME NEW j \in m .. n PROVE g[j] = e[j] \o g[j + 1]
  <2>1. j + 1 \in m + 1 .. n + 1 /\ (j = m \/ (j \in m + 1 .. n /\ j \in m + 1 .. n + 1))
    OBVIOUS
  <2>2. g[j + 1] = f[j + 1]
    BY <1>6, <2>1
  <2>3. CASE j = m
    BY <1>6, <2>2, <2>3 DEF s
  <2>4. CASE j \in m + 1 .. n /\ j \in m + 1 .. n + 1
    BY <1>1, <1>6, <2>2, <2>4
  <2> QED BY <2>1, <2>3, <2>4
<1>9. RowFrom(S, n, e, m, g)
  BY <1>4, <1>7, <1>8 DEF RowFrom
<1> QED BY <1>9

\* From the end: the first there is a row from is the first.
LEMMA RowExists ==
  ASSUME NEW S, NEW n \in Nat, NEW e \in [1 .. n -> Seq(S)]
  PROVE  \E f : Row(S, n, e, f)
<1> DEFINE Good == {k \in 1 .. n + 1 : \E f : RowFrom(S, n, e, k, f)}
<1>1. n + 1 \in Good
  <2> DEFINE f == [k \in n + 1 .. n + 1 |-> <<>>]
  <2>1. f \in [n + 1 .. n + 1 -> Seq(S)] /\ f[n + 1] = <<>> /\ n + 1 .. n = {}
    OBVIOUS
  <2>2. RowFrom(S, n, e, n + 1, f)
    BY <2>1 DEF RowFrom
  <2>3. n + 1 \in 1 .. n + 1
    OBVIOUS
  <2> QED BY <2>2, <2>3
<1>2. n + 1 \in Nat /\ Good \in SUBSET (1 .. n + 1) /\ Good # {}
  <2>1. Good \in SUBSET (1 .. n + 1)
    BY Zenon
  <2> HIDE DEF Good
  <2> QED BY <1>1, <2>1
<1>p. PICK k \in Good : \A j \in Good : k <= j
  <2> HIDE DEF Good
  <2> QED BY <1>2, FirstExists
<1>3. ASSUME k # 1 PROVE FALSE
  <2>1. k \in 1 .. n + 1 /\ \E f : RowFrom(S, n, e, k, f)
    OBVIOUS
  <2> DEFINE m == k - 1
  <2>2. m \in 1 .. n /\ k = m + 1 /\ m \in 1 .. n + 1 /\ ~(k <= m)
    BY <1>3, <2>1
  <2> HIDE DEF m
  <2>3. \E f : RowFrom(S, n, e, m + 1, f)
    BY <2>1, <2>2
  <2>4. \E g : RowFrom(S, n, e, m, g)
    BY <2>2, <2>3, RowGrows
  <2>5. m \in Good
    BY <2>2, <2>4
  <2> QED BY <1>p, <2>2, <2>5
<1>4. \E f : RowFrom(S, n, e, 1, f)
  BY <1>3
<1> QED BY <1>4 DEF Row

LEMMA RowIs ==
  ASSUME NEW S, NEW n \in Nat, NEW e, NEW f, Row(S, n, e, f), NEW g, RowOf(n, e, g)
  PROVE  \A k \in 1 .. n + 1 : g[k] = f[k]
<1> DEFINE Bad == {k \in 1 .. n + 1 : g[k] # f[k]}
<1>1. ASSUME Bad # {} PROVE FALSE
  <2>p. PICK k \in Bad : \A j \in Bad : k >= j
    <3>1. n + 1 \in Nat /\ Bad \in SUBSET (1 .. n + 1)
      OBVIOUS
    <3> HIDE DEF Bad
    <3> QED BY <1>1, <3>1, LastExists
  <2>1. k \in 1 .. n
    BY DEF Row, RowFrom, RowOf
  <2>2. k + 1 \in 1 .. n + 1 /\ ~(k >= k + 1)
    BY <2>1
  <2>3. g[k + 1] = f[k + 1]
    BY <2>p, <2>2
  <2> QED BY <2>1, <2>3 DEF Row, RowFrom, RowOf
<1> QED BY <1>1

LEMMA RowOfBytesIs ==
  \A n \in Nat : \A e, f, g :
    Row(Byte, n, e, f) /\ RowOf(n, e, g) => \A k \in 1 .. n + 1 : g[k] = f[k]
<1> SUFFICES ASSUME NEW n \in Nat, NEW e, NEW f, NEW g, Row(Byte, n, e, f), RowOf(n, e, g)
             PROVE  \A k \in 1 .. n + 1 : g[k] = f[k]
  OBVIOUS
<1> QED BY RowIs

LEMMA EncodedScalar ==
  ASSUME NEW c, Scalar(c)
  PROVE  /\ Encodes(encodeUtf32ToUtf8(c), c)
         /\ encodeUtf32ToUtf8(c) \in Seq(Byte) /\ encodeUtf32ToUtf16(c) \in Seq(Unit)
<1>1. c \in Nat /\ c <= 1114111
  BY SMT DEF Scalar
<1> QED BY <1>1, Utf8Encodes, EncodedUtf8, EncodedUtf16, SMT

Bytes8(t) == [k \in 1 .. Len(t) |-> encodeUtf32ToUtf8(t[k])]
Units16(t) == [k \in 1 .. Len(t) |-> encodeUtf32ToUtf16(t[k])]
UnitsFrom(t) == CHOOSE f : Row(Unit, Len(t), Units16(t), f)

\* A text
IsText(t) == t \in Seq(Nat) /\ \A i \in 1 .. Len(t) : Scalar(t[i])

LEMMA EncodedRow ==
  ASSUME NEW t, IsText(t)
  PROVE  Row(Byte, Len(t), Bytes8(t), EncodedFrom(t)) /\ Row(Unit, Len(t), Units16(t), UnitsFrom(t))
<1> DEFINE n == Len(t)
<1>1. n \in Nat /\ \A k \in 1 .. n : Scalar(t[k])
  BY DEF IsText
<1>2. Bytes8(t) \in [1 .. n -> Seq(Byte)]
  BY <1>1, EncodedScalar DEF Bytes8
<1>3. Units16(t) \in [1 .. n -> Seq(Unit)]
  BY <1>1, EncodedScalar DEF Units16
<1> HIDE DEF n
<1>4. PICK f : Row(Byte, n, Bytes8(t), f)
  BY <1>1, <1>2, RowExists
<1>5. f = [k \in 1 .. n + 1 |-> IF k > n THEN <<>> ELSE encodeUtf32ToUtf8(t[k]) \o f[k + 1]]
  <2>1. ASSUME NEW k \in 1 .. n + 1
        PROVE  f[k] = IF k > n THEN <<>> ELSE encodeUtf32ToUtf8(t[k]) \o f[k + 1]
    <3>1. CASE k > n
      <4>1. k = n + 1
        BY <1>1, <3>1
      <4> QED BY <1>4, <3>1, <4>1 DEF Row, RowFrom
    <3>2. CASE ~(k > n)
      <4>1. k \in 1 .. n
        BY <1>1, <3>2
      <4>2. Bytes8(t)[k] = encodeUtf32ToUtf8(t[k])
        BY <4>1 DEF Bytes8, n
      <4> QED BY <1>4, <3>2, <4>1, <4>2 DEF Row, RowFrom
    <3> QED BY <3>1, <3>2
  <2>2. f \in [1 .. n + 1 -> Seq(Byte)]
    BY <1>4 DEF Row, RowFrom
  <2> QED BY <2>1, <2>2
<1> DEFINE g == EncodedFrom(t)
<1>6. g = [k \in 1 .. n + 1 |-> IF k > n THEN <<>> ELSE encodeUtf32ToUtf8(t[k]) \o g[k + 1]]
  BY <1>5, Zenon DEF EncodedFrom, n
<1> HIDE DEF g
<1>7. RowOf(n, Bytes8(t), g)
  <2>1. n + 1 \in 1 .. n + 1 /\ n + 1 > n
    BY <1>1
  <2>2. g[n + 1] = <<>>
    BY <1>6, <2>1
  <2>3. ASSUME NEW k \in 1 .. n PROVE g[k] = Bytes8(t)[k] \o g[k + 1]
    <3>1. k \in 1 .. n + 1 /\ ~(k > n)
      BY <1>1
    <3>2. Bytes8(t)[k] = encodeUtf32ToUtf8(t[k])
      BY DEF Bytes8, n
    <3> QED BY <1>6, <3>1, <3>2
  <2> QED BY <2>2, <2>3 DEF RowOf
<1>8. g = f
  <2>1. \A k \in 1 .. n + 1 : g[k] = f[k]
    <3>1. n \in Nat
      BY <1>1
    <3> QED BY ONLY <3>1, <1>4, <1>7, RowIs
  <2>2. DOMAIN g = 1 .. n + 1 /\ DOMAIN f = 1 .. n + 1
    BY <1>5, <1>6
  <2>3. g = [k \in 1 .. n + 1 |-> g[k]] /\ f = [k \in 1 .. n + 1 |-> f[k]]
    BY <1>5, <1>6
  <2> QED BY <2>1, <2>3
<1>9. Row(Unit, n, Units16(t), UnitsFrom(t))
  <2>1. \E h : Row(Unit, n, Units16(t), h)
    BY <1>1, <1>3, RowExists
  <2> QED BY <2>1, Zenon DEF UnitsFrom, n
<1> QED BY <1>4, <1>8, <1>9 DEF g, n

-----------------------------------------------------------------------------
(* What a round of a loop meets                                            *)

\* The text from its k-th character on, in bytes and in units, and the round
\* that takes this character off.
LEMMA AtCharacter ==
  ASSUME NEW t, IsText(t), NEW k \in 1 .. Len(t)
  PROVE  LET e == encodeUtf32ToUtf8(t[k])
             u == encodeUtf32ToUtf16(t[k])
             B == EncodedFrom(t)
             U == UnitsFrom(t)
         IN  /\ Encodes(e, t[k]) /\ e \in Seq(Byte) /\ u \in Seq(Unit)
             /\ B[k] = e \o B[k + 1] /\ U[k] = u \o U[k + 1]
             /\ B[k + 1] \in Seq(Byte) /\ U[k + 1] \in Seq(Unit)
             /\ decodeUtf8(B[k]) = [code_units_consumed |-> Len(e), code_point |-> t[k]]
             /\ decodeUtf16(U[k]) = [code_units_consumed |-> Len(u), code_point |-> t[k]]
             /\ Drop(B[k], Len(e)) = B[k + 1] /\ Drop(U[k], Len(u)) = U[k + 1]
             /\ Len(e) \in Nat /\ Len(e) # 0 /\ Len(u) \in Nat /\ Len(u) # 0
<1> DEFINE e == encodeUtf32ToUtf8(t[k])
           u == encodeUtf32ToUtf16(t[k])
           B == EncodedFrom(t)
           U == UnitsFrom(t)
<1>1. Scalar(t[k]) /\ k + 1 \in 1 .. Len(t) + 1
  BY DEF IsText
<1>2. Encodes(e, t[k]) /\ e \in Seq(Byte) /\ u \in Seq(Unit)
  BY <1>1, EncodedScalar
<1>3. Row(Byte, Len(t), Bytes8(t), B) /\ Row(Unit, Len(t), Units16(t), U)
  BY EncodedRow
<1>4. Bytes8(t)[k] = e /\ Units16(t)[k] = u
  BY DEF Bytes8, Units16
<1> HIDE DEF e, u, B, U
<1>5. /\ B[k] = e \o B[k + 1] /\ U[k] = u \o U[k + 1]
      /\ B[k + 1] \in Seq(Byte) /\ U[k + 1] \in Seq(Unit)
  BY <1>1, <1>3, <1>4 DEF Row, RowFrom
<1>6. decodeUtf8(B[k]) = [code_units_consumed |-> Len(e), code_point |-> t[k]]
  BY <1>2, <1>5, DecodesUtf8
<1>7. /\ Len(u) \in Nat /\ Len(u) # 0
      /\ decodeUtf16(U[k]) = [code_units_consumed |-> Len(u), code_point |-> t[k]]
  BY <1>1, <1>5, DecodesUtf16 DEF u
<1>8. Drop(B[k], Len(e)) = B[k + 1] /\ Drop(U[k], Len(u)) = U[k + 1]
  BY <1>2, <1>5, JoinedDrop
<1>9. Len(e) \in Nat /\ Len(e) # 0
  BY <1>2 DEF Encodes
<1> QED BY <1>2, <1>5, <1>6, <1>7, <1>8, <1>9 DEF e, u, B, U

LEMMA Round ==
  ASSUME NEW t, IsText(t), NEW k \in 1 .. Len(t)
  PROVE  LET r == decodeUtf8(EncodedFrom(t)[k])
             q == decodeUtf16(UnitsFrom(t)[k])
         IN  /\ k + 1 \in 1 .. Len(t) + 1 /\ r.code_units_consumed # 0 /\ q.code_units_consumed # 0
             /\ Drop(EncodedFrom(t)[k], r.code_units_consumed) = EncodedFrom(t)[k + 1]
             /\ Drop(UnitsFrom(t)[k], q.code_units_consumed) = UnitsFrom(t)[k + 1]
             /\ encodeUtf32ToUtf16(r.code_point) \o UnitsFrom(t)[k + 1] = UnitsFrom(t)[k]
             /\ encodeUtf32ToUtf8(q.code_point) \o EncodedFrom(t)[k + 1] = EncodedFrom(t)[k]
             /\ EncodedFrom(t)[k + 1] \in Seq(Byte) /\ UnitsFrom(t)[k + 1] \in Seq(Unit)
<1> DEFINE B == EncodedFrom(t)
           U == UnitsFrom(t)
           e == encodeUtf32ToUtf8(t[k])
           u == encodeUtf32ToUtf16(t[k])
           r == decodeUtf8(B[k])
           q == decodeUtf16(U[k])
<1>1. k + 1 \in 1 .. Len(t) + 1
  BY DEF IsText
<1>2. /\ B[k] = e \o B[k + 1] /\ U[k] = u \o U[k + 1]
      /\ B[k + 1] \in Seq(Byte) /\ U[k + 1] \in Seq(Unit)
      /\ Drop(B[k], Len(e)) = B[k + 1] /\ Drop(U[k], Len(u)) = U[k + 1]
      /\ Len(e) # 0 /\ Len(u) # 0
  BY AtCharacter
<1>3. /\ r = [code_units_consumed |-> Len(e), code_point |-> t[k]]
      /\ q = [code_units_consumed |-> Len(u), code_point |-> t[k]]
  BY AtCharacter
<1> HIDE DEF B, U, r, q
<1>4. /\ r.code_units_consumed = Len(e) /\ encodeUtf32ToUtf16(r.code_point) = u
      /\ q.code_units_consumed = Len(u) /\ encodeUtf32ToUtf8(q.code_point) = e
  BY <1>3
<1> HIDE DEF e, u
<1>5. /\ r.code_units_consumed # 0 /\ q.code_units_consumed # 0
      /\ Drop(B[k], r.code_units_consumed) = B[k + 1] /\ Drop(U[k], q.code_units_consumed) = U[k + 1]
      /\ encodeUtf32ToUtf16(r.code_point) \o U[k + 1] = U[k]
      /\ encodeUtf32ToUtf8(q.code_point) \o B[k + 1] = B[k]
  BY <1>2, <1>4
<1> QED BY <1>1, <1>2, <1>5 DEF B, U, r, q

LEMMA AtEnd ==
  ASSUME NEW t, IsText(t)
  PROVE  /\ EncodedFrom(t)[Len(t) + 1] = <<>> /\ UnitsFrom(t)[Len(t) + 1] = <<>>
         /\ Len(t) \in Nat
         /\ \A k \in 1 .. Len(t) + 1 :
              EncodedFrom(t)[k] \in Seq(Byte) /\ UnitsFrom(t)[k] \in Seq(Unit)
<1>1. Len(t) \in Nat
  BY DEF IsText
<1>2. Row(Byte, Len(t), Bytes8(t), EncodedFrom(t)) /\ Row(Unit, Len(t), Units16(t), UnitsFrom(t))
  BY EncodedRow
<1> QED BY ONLY <1>1, <1>2 DEF Row, RowFrom

LEMMA Nonempty ==
  ASSUME NEW S, NEW e \in Seq(S), NEW s \in Seq(S), Len(e) # 0 PROVE e \o s # <<>>
<1>1. Len(e \o s) = Len(e) + Len(s) /\ Len(e) \in Nat /\ Len(s) \in Nat
  BY Joined
<1> QED BY <1>1

LEMMA InText ==
  ASSUME NEW t, IsText(t), NEW k \in 1 .. Len(t) + 1
  PROVE  /\ EncodedFrom(t)[k] # <<>> => k \in 1 .. Len(t)
         /\ UnitsFrom(t)[k] # <<>> => k \in 1 .. Len(t)
         /\ EncodedFrom(t)[k] = <<>> => k = Len(t) + 1
         /\ UnitsFrom(t)[k] = <<>> => k = Len(t) + 1
<1>1. k = Len(t) + 1 \/ k \in 1 .. Len(t)
  BY AtEnd
<1>2. ASSUME k \in 1 .. Len(t) PROVE EncodedFrom(t)[k] # <<>> /\ UnitsFrom(t)[k] # <<>>
  <2> DEFINE e == encodeUtf32ToUtf8(t[k])
             u == encodeUtf32ToUtf16(t[k])
             b == EncodedFrom(t)[k + 1]
             v == UnitsFrom(t)[k + 1]
  <2>1. /\ e \in Seq(Byte) /\ b \in Seq(Byte) /\ Len(e) # 0 /\ EncodedFrom(t)[k] = e \o b
        /\ u \in Seq(Unit) /\ v \in Seq(Unit) /\ Len(u) # 0 /\ UnitsFrom(t)[k] = u \o v
    BY <1>2, AtCharacter
  <2> HIDE DEF e, u, b, v
  <2>2. e \o b # <<>> /\ u \o v # <<>>
    BY ONLY <2>1, Nonempty
  <2> QED BY <2>1, <2>2
<1> QED BY <1>1, <1>2, AtEnd

\* No part of a text is shorter than its last character.
LEMMA NotShorter ==
  ASSUME NEW t, IsText(t), NEW k \in 1 .. Len(t)
  PROVE  /\ Len(EncodedFrom(t)[k]) \in Nat /\ Len(EncodedFrom(t)[Len(t)]) \in Nat
         /\ Len(EncodedFrom(t)[Len(t)]) <= Len(EncodedFrom(t)[k])
<1> DEFINE n == Len(t)
           L == [i \in 1 .. n |-> Len(EncodedFrom(t)[i])]
           Bad == {i \in 1 .. n : ~(L[n] <= L[i])}
<1>1. n \in Nat /\ n \in 1 .. n
  BY AtEnd
<1>2. ASSUME NEW i \in 1 .. n PROVE L[i] \in Nat
  <2>1. i \in 1 .. n + 1
    BY <1>1
  <2> QED BY <2>1, AtEnd
<1>3. ASSUME NEW i \in 1 .. n, i # n PROVE i + 1 \in 1 .. n /\ L[i + 1] <= L[i]
  <2>1. i + 1 \in 1 .. n
    BY <1>1, <1>3
  <2> DEFINE e == encodeUtf32ToUtf8(t[i])
             b == EncodedFrom(t)[i + 1]
  <2>2. e \in Seq(Byte) /\ b \in Seq(Byte) /\ EncodedFrom(t)[i] = e \o b
    BY AtCharacter
  <2>3. L[i] = Len(EncodedFrom(t)[i]) /\ L[i + 1] = Len(b)
    BY <2>1
  <2> HIDE DEF L, e, b
  <2>4. Len(e \o b) = Len(e) + Len(b) /\ Len(e) \in Nat /\ Len(b) \in Nat
    BY ONLY <2>2, Joined
  <2> QED BY <2>1, <2>2, <2>3, <2>4
<1> HIDE DEF L
<1>4. Bad \in SUBSET (1 .. n)
  BY Zenon
<1>5. ASSUME Bad # {} PROVE FALSE
  <2>p. PICK i \in Bad : \A j \in Bad : i >= j
    <3> HIDE DEF Bad
    <3> QED BY <1>1, <1>4, <1>5, LastExists
  <2>1. i \in 1 .. n /\ ~(L[n] <= L[i]) /\ L[i] \in Nat /\ L[n] \in Nat
    BY <1>1, <1>2
  <2>2. i # n
    BY <2>1
  <2>3. i + 1 \in 1 .. n /\ L[i + 1] <= L[i] /\ L[i + 1] \in Nat /\ ~(i >= i + 1)
    BY <1>2, <1>3, <2>1, <2>2
  <2>4. i + 1 \in Bad
    BY <2>1, <2>3
  <2> QED BY <2>p, <2>3, <2>4
<1>6. L[n] <= L[k]
  BY <1>5
<1> QED BY <1>1, <1>2, <1>6 DEF L

-----------------------------------------------------------------------------
(* The inductive invariant                                                 *)

UtfTypes ==
  /\ kind \in {"whole", "cut", "bytes"}
  /\ loop \in {"checkValidUtf8", "convertToUtf16", "convertToUtf8", "rejected", "done"}
  /\ input \in Seq(Byte) /\ utf16 \in Seq(Unit) /\ utf8 \in Seq(Byte)
  /\ rest \in Seq(IF loop \in {"convertToUtf8", "done"} THEN Unit ELSE Byte)
  /\ loop = "checkValidUtf8" => utf16 = <<>>
  /\ loop \in {"checkValidUtf8", "convertToUtf16"} => utf8 = <<>>

\* The loop is at the k-th character: what it has taken off and what it has
\* made of it fit.
AtWhole(k) ==
  LET B == EncodedFrom(text)
      U == UnitsFrom(text)
  IN  /\ loop = "checkValidUtf8" => rest = B[k]
      /\ loop = "convertToUtf16" => rest = B[k] /\ utf16 \o U[k] = U[1]
      /\ loop = "convertToUtf8" => rest = U[k] /\ utf8 \o B[k] = B[1]
      /\ loop = "done" => utf8 = B[1]

WholeInv ==
  kind = "whole" =>
    /\ IsText(text) /\ input = EncodedFrom(text)[1] /\ loop # "rejected"
    /\ \E k \in 1 .. Len(text) + 1 : AtWhole(k)

\* The text from its k-th character on, without its last j bytes
CutFrom(k, j) == SubSeq(EncodedFrom(text)[k], 1, Len(EncodedFrom(text)[k]) - j)
LastLength == Len(encodeUtf32ToUtf8(text[Len(text)]))

CutInv ==
  kind = "cut" =>
    /\ IsText(text) /\ loop \in {"checkValidUtf8", "rejected"}
    /\ loop = "checkValidUtf8" =>
         \E k \in 1 .. Len(text), j \in 1 .. LastLength - 1 : rest = CutFrom(k, j)

UtfInv == UtfTypes /\ WholeInv /\ CutInv

LEMMA JoinedUnits == \A a, b, c \in Seq(Unit) : (a \o b) \o c = a \o (b \o c)
BY JoinedTwice

LEMMA JoinedBytes == \A a, b, c \in Seq(Byte) : (a \o b) \o c = a \o (b \o c)
BY JoinedTwice

LEMMA JoinedEmpty ==
  ASSUME NEW S, NEW a \in Seq(S) PROVE a \o <<>> = a /\ <<>> \o a = a
OBVIOUS

LEMMA LastBytes ==
  ASSUME IsText(text), NEW k \in 1 .. Len(text)
  PROVE  /\ Len(text) \in Nat /\ Len(text) \in 1 .. Len(text)
         /\ EncodedFrom(text)[Len(text)] = encodeUtf32ToUtf8(text[Len(text)])
         /\ Encodes(encodeUtf32ToUtf8(text[Len(text)]), text[Len(text)])
<1> DEFINE n == Len(text)
           e == encodeUtf32ToUtf8(text[n])
<1>1. n \in Nat /\ EncodedFrom(text)[n + 1] = <<>>
  BY AtEnd
<1>2. n \in 1 .. n
  BY <1>1
<1>3. Encodes(e, text[n]) /\ e \in Seq(Byte) /\ EncodedFrom(text)[n] = e \o EncodedFrom(text)[n + 1]
  BY <1>1, <1>2, AtCharacter
<1> HIDE DEF e
<1>4. e \o <<>> = e
  BY <1>3, JoinedEmpty
<1>5. EncodedFrom(text)[n] = e
  BY <1>1, <1>3, <1>4
<1> QED BY <1>1, <1>2, <1>3, <1>5 DEF e

LEMMA LastIsCut ==
  ASSUME IsText(text), NEW k \in 1 .. Len(text), NEW j \in 1 .. LastLength - 1
  PROVE  /\ CutFrom(Len(text), j) # <<>>
         /\ decodeUtf8(CutFrom(Len(text), j)).code_units_consumed = 0
<1> DEFINE n == Len(text)
           e == encodeUtf32ToUtf8(text[n])
<1>1. EncodedFrom(text)[n] = e /\ Encodes(e, text[n]) /\ LastLength = Len(e)
  BY LastBytes DEF LastLength
<1>2. CutFrom(n, j) = SubSeq(e, 1, Len(e) - j)
  BY <1>1 DEF CutFrom
<1> HIDE DEF n, e
<1>3. Len(e) - j \in 1 .. Len(e) - 1
  BY <1>1 DEF Encodes
<1>4. /\ SubSeq(e, 1, Len(e) - j) # <<>>
      /\ decodeUtf8(SubSeq(e, 1, Len(e) - j)).code_units_consumed = 0
  BY <1>1, <1>3, CutDecodesNothing
<1> QED BY <1>2, <1>4 DEF n

LEMMA CutJoined ==
  ASSUME NEW S, NEW e \in Seq(S), NEW b \in Seq(S), NEW j \in Nat, j <= Len(b)
  PROVE  /\ SubSeq(e \o b, 1, Len(e \o b) - j) = e \o SubSeq(b, 1, Len(b) - j)
         /\ SubSeq(b, 1, Len(b) - j) \in Seq(S)
<1> DEFINE t == e \o b
           m == Len(b) - j
           w == SubSeq(b, 1, m)
           x == SubSeq(t, 1, Len(t) - j)
           y == e \o w
<1>1. /\ t \in Seq(S) /\ Len(t) = Len(e) + Len(b) /\ Len(e) \in Nat /\ Len(b) \in Nat
      /\ \A i \in 1 .. Len(e) : t[i] = e[i]
      /\ \A i \in 1 .. Len(b) : t[Len(e) + i] = b[i]
  BY Joined
<1> HIDE DEF t
<1>2. m \in Nat /\ m <= Len(b) /\ Len(t) - j = Len(e) + m
  BY <1>1
<1> HIDE DEF m
<1>3. w \in Seq(S) /\ Len(w) = m /\ \A i \in 1 .. m : w[i] = b[i]
  BY <1>1, <1>2
<1>4. x \in Seq(S) /\ Len(x) = Len(e) + m /\ \A i \in 1 .. Len(e) + m : x[i] = t[i]
  BY <1>1, <1>2
<1> HIDE DEF w, x
<1>5. /\ y \in Seq(S) /\ Len(y) = Len(e) + m
      /\ \A i \in 1 .. Len(e) : y[i] = e[i]
      /\ \A i \in 1 .. m : y[Len(e) + i] = w[i]
  <2>1. w \in Seq(S)
    BY <1>3
  <2>2. /\ y \in Seq(S) /\ Len(y) = Len(e) + Len(w)
        /\ \A i \in 1 .. Len(e) : y[i] = e[i]
        /\ \A i \in 1 .. Len(w) : y[Len(e) + i] = w[i]
    BY ONLY <2>1, Joined
  <2> QED BY <1>3, <2>2
<1> HIDE DEF y
<1>6. ASSUME NEW i \in 1 .. Len(e) + m PROVE x[i] = y[i]
  <2>1. CASE i \in 1 .. Len(e)
    BY <1>1, <1>4, <1>5, <2>1
  <2>2. CASE ~(i \in 1 .. Len(e))
    <3> DEFINE l == i - Len(e)
    <3>1. l \in 1 .. m /\ l \in 1 .. Len(b) /\ i = Len(e) + l
      BY <1>1, <1>2, <2>2
    <3> HIDE DEF l
    <3>2. x[i] = t[Len(e) + l] /\ t[Len(e) + l] = b[l] /\ y[Len(e) + l] = w[l] /\ w[l] = b[l]
      BY <1>1, <1>3, <1>4, <1>5, <3>1
    <3> QED BY <3>1, <3>2
  <2> QED BY <2>1, <2>2
<1>7. x = y
  BY <1>4, <1>5, <1>6, SameSequence
<1> QED BY <1>3, <1>7 DEF x, y, w, t, m

LEMMA CutJoinedAll ==
  \A e, b \in Seq(Byte), j \in Nat :
    j <= Len(b) =>
      /\ SubSeq(e \o b, 1, Len(e \o b) - j) = e \o SubSeq(b, 1, Len(b) - j)
      /\ SubSeq(b, 1, Len(b) - j) \in Seq(Byte)
BY CutJoined

LEMMA CutGoesOn ==
  ASSUME IsText(text), NEW k \in 1 .. Len(text), k # Len(text), NEW j \in 1 .. LastLength - 1
  PROVE  /\ k + 1 \in 1 .. Len(text) /\ CutFrom(k, j) # <<>>
         /\ Drop(CutFrom(k, j), decodeUtf8(CutFrom(k, j)).code_units_consumed) = CutFrom(k + 1, j)
<1> DEFINE e == encodeUtf32ToUtf8(text[k])
           b == EncodedFrom(text)[k + 1]
           w == CutFrom(k + 1, j)
<1>1. Len(text) \in Nat /\ k + 1 \in 1 .. Len(text)
  BY AtEnd
<1>2. /\ Encodes(e, text[k]) /\ e \in Seq(Byte) /\ b \in Seq(Byte) /\ EncodedFrom(text)[k] = e \o b
      /\ Len(e) # 0
  BY AtCharacter
<1>3. j \in Nat /\ j <= Len(b)
  <2>1. Len(b) \in Nat /\ Len(EncodedFrom(text)[Len(text)]) <= Len(b)
    BY <1>1, NotShorter
  <2>2. LastLength = Len(EncodedFrom(text)[Len(text)])
    BY LastBytes DEF LastLength
  <2>3. LastLength \in Nat /\ LastLength <= Len(b)
    BY <1>1, <2>1, <2>2, NotShorter
  <2> HIDE DEF b
  <2> QED BY ONLY <2>1, <2>3, j \in 1 .. LastLength - 1
<1>4. w = SubSeq(b, 1, Len(b) - j) /\ CutFrom(k, j) = SubSeq(e \o b, 1, Len(e \o b) - j)
  BY <1>2 DEF CutFrom
<1> HIDE DEF e, b, w
<1>5. CutFrom(k, j) = e \o w /\ w \in Seq(Byte)
  <2>1. e \in Seq(Byte) /\ b \in Seq(Byte) /\ j \in Nat /\ j <= Len(b)
    BY <1>2, <1>3
  <2>2. /\ SubSeq(e \o b, 1, Len(e \o b) - j) = e \o SubSeq(b, 1, Len(b) - j)
        /\ SubSeq(b, 1, Len(b) - j) \in Seq(Byte)
    BY ONLY <2>1, CutJoinedAll
  <2> QED BY <1>4, <2>2
<1>6. e \o w # <<>> /\ Drop(e \o w, Len(e)) = w
  BY <1>2, <1>5, Nonempty, JoinedDrop
<1>7. decodeUtf8(e \o w) = [code_units_consumed |-> Len(e), code_point |-> text[k]]
  BY <1>2, <1>5, DecodesUtf8
<1> QED BY <1>1, <1>5, <1>6, <1>7 DEF w

LEMMA CheckKeeps == ASSUME UtfInv, checkValidUtf8 PROVE UtfInv'
<1> DEFINE r == decodeUtf8(rest)
           n == r.code_units_consumed
<1>1. /\ loop = "checkValidUtf8" /\ rest # <<>> /\ rest \in Seq(Byte)
      /\ UNCHANGED <<kind, text, input, utf16, utf8>>
      /\ \/ n = 0 /\ loop' = "rejected" /\ rest' = rest
         \/ n # 0 /\ rest' = Drop(rest, n) /\ loop' = loop
  BY DEF checkValidUtf8, UtfInv, UtfTypes
<1>2. n \in Nat /\ n <= Len(rest)
  BY <1>1, DecodedUtf8
<1> HIDE DEF n
<1>3. UtfTypes'
  <2>1. rest' \in Seq(Byte)
    BY <1>1, <1>2, Dropped
  <2>2. loop' \in {"checkValidUtf8", "rejected"}
    BY <1>1
  <2> QED BY <1>1, <2>1, <2>2 DEF UtfInv, UtfTypes
<1>4. WholeInv'
  <2> SUFFICES ASSUME kind = "whole" PROVE WholeInv'
    BY <1>1 DEF WholeInv
  <2>1. PICK k \in 1 .. Len(text) + 1 : AtWhole(k)
    BY DEF UtfInv, WholeInv
  <2>2. IsText(text) /\ input = EncodedFrom(text)[1] /\ rest = EncodedFrom(text)[k]
    BY <1>1, <2>1 DEF UtfInv, WholeInv, AtWhole
  <2>3. k \in 1 .. Len(text)
    BY <1>1, <2>2, InText
  <2>4. k + 1 \in 1 .. Len(text) + 1 /\ n # 0 /\ Drop(rest, n) = EncodedFrom(text)[k + 1]
    <3>1. /\ k + 1 \in 1 .. Len(text) + 1
          /\ decodeUtf8(EncodedFrom(text)[k]).code_units_consumed # 0
          /\ Drop(EncodedFrom(text)[k], decodeUtf8(EncodedFrom(text)[k]).code_units_consumed)
               = EncodedFrom(text)[k + 1]
      BY <2>2, <2>3, Round
    <3> QED BY <2>2, <3>1 DEF n
  <2>5. AtWhole(k + 1)'
    BY <1>1, <2>4 DEF AtWhole
  <2> QED BY <1>1, <2>2, <2>4, <2>5 DEF WholeInv
<1>5. CutInv'
  <2> SUFFICES ASSUME kind = "cut" PROVE CutInv'
    BY <1>1 DEF CutInv
  <2>1. PICK k \in 1 .. Len(text), j \in 1 .. LastLength - 1 : rest = CutFrom(k, j)
    BY <1>1 DEF UtfInv, CutInv
  <2>2. IsText(text)
    BY DEF UtfInv, CutInv
  <2>3. CASE k = Len(text)
    <3>1. n = 0
      BY <2>1, <2>2, <2>3, LastIsCut DEF n
    <3> QED BY <1>1, <2>2, <3>1 DEF CutInv
  <2>4. CASE k # Len(text)
    <3>1. k + 1 \in 1 .. Len(text) /\ Drop(rest, n) = CutFrom(k + 1, j)
      BY <2>1, <2>2, <2>4, CutGoesOn DEF n
    <3>2. rest' = CutFrom(k + 1, j) \/ loop' = "rejected"
      BY <1>1, <3>1
    <3>3. loop' \in {"checkValidUtf8", "rejected"}
      BY <1>1
    <3> QED BY <1>1, <2>2, <3>1, <3>2, <3>3 DEF CutInv, CutFrom, LastLength
  <2> QED BY <2>3, <2>4
<1> QED BY <1>3, <1>4, <1>5 DEF UtfInv

LEMMA ToUtf16Keeps == ASSUME UtfInv, convertToUtf16 PROVE UtfInv'
<1> DEFINE r == decodeUtf8(rest)
           n == r.code_units_consumed
           u == encodeUtf32ToUtf16(r.code_point)
<1>1. /\ loop = "convertToUtf16" /\ rest # <<>> /\ rest \in Seq(Byte) /\ utf16 \in Seq(Unit)
      /\ UNCHANGED <<kind, text, input, loop, utf8>>
      /\ rest' = Drop(rest, n) /\ utf16' = utf16 \o u
  BY DEF convertToUtf16, UtfInv, UtfTypes
<1>2. n \in Nat /\ n <= Len(rest) /\ u \in Seq(Unit)
  BY <1>1, DecodedUtf8, EncodedUtf16
<1> HIDE DEF n, u
<1>3. UtfTypes'
  <2>1. rest' \in Seq(Byte) /\ utf16' \in Seq(Unit)
    BY <1>1, <1>2, Dropped, Joined
  <2> QED BY <1>1, <2>1 DEF UtfInv, UtfTypes
<1>4. WholeInv'
  <2> SUFFICES ASSUME kind = "whole" PROVE WholeInv'
    BY <1>1 DEF WholeInv
  <2>1. PICK k \in 1 .. Len(text) + 1 : AtWhole(k)
    BY DEF UtfInv, WholeInv
  <2>2. /\ IsText(text) /\ input = EncodedFrom(text)[1] /\ rest = EncodedFrom(text)[k]
        /\ utf16 \o UnitsFrom(text)[k] = UnitsFrom(text)[1]
    BY <1>1, <2>1 DEF UtfInv, WholeInv, AtWhole
  <2>3. k \in 1 .. Len(text)
    BY <1>1, <2>2, InText
  <2>4. /\ k + 1 \in 1 .. Len(text) + 1 /\ Drop(rest, n) = EncodedFrom(text)[k + 1]
        /\ UnitsFrom(text)[k] = u \o UnitsFrom(text)[k + 1] /\ UnitsFrom(text)[k + 1] \in Seq(Unit)
    <3> DEFINE B == EncodedFrom(text)
               U == UnitsFrom(text)
               d == decodeUtf8(B[k])
    <3>1. /\ k + 1 \in 1 .. Len(text) + 1 /\ Drop(B[k], d.code_units_consumed) = B[k + 1]
          /\ U[k] = encodeUtf32ToUtf16(d.code_point) \o U[k + 1] /\ U[k + 1] \in Seq(Unit)
      BY <2>2, <2>3, Round
    <3>2. rest = B[k] /\ n = d.code_units_consumed /\ u = encodeUtf32ToUtf16(d.code_point)
      BY <2>2 DEF n, u
    <3> HIDE DEF d
    <3> QED BY <3>1, <3>2
  <2>5. (utf16 \o u) \o UnitsFrom(text)[k + 1] = UnitsFrom(text)[1]
    <3>1. u \in Seq(Unit) /\ utf16 \in Seq(Unit) /\ UnitsFrom(text)[k + 1] \in Seq(Unit)
      BY <1>1, <1>2, <2>4
    <3>2. (utf16 \o u) \o UnitsFrom(text)[k + 1] = utf16 \o (u \o UnitsFrom(text)[k + 1])
      BY ONLY <3>1, JoinedUnits
    <3> QED BY <2>2, <2>4, <3>2
  <2>6. AtWhole(k + 1)'
    BY <1>1, <2>4, <2>5 DEF AtWhole
  <2> QED BY <1>1, <2>2, <2>4, <2>6 DEF WholeInv
<1>5. CutInv'
  BY <1>1 DEF UtfInv, CutInv
<1> QED BY <1>3, <1>4, <1>5 DEF UtfInv

LEMMA ToUtf8Keeps == ASSUME UtfConstants, UtfInv, convertToUtf8 PROVE UtfInv'
<1> DEFINE r == decodeUtf16(rest)
           n == r.code_units_consumed
           e == encodeUtf32ToUtf8(r.code_point)
<1>1. /\ loop = "convertToUtf8" /\ rest # <<>> /\ rest \in Seq(Unit) /\ utf8 \in Seq(Byte)
      /\ UNCHANGED <<kind, text, input, loop, utf16>>
      /\ rest' = Drop(rest, n)
      /\ utf8' = IF Len(utf8) <= 2 * Len(input) + MaxGrowth THEN utf8 \o e ELSE utf8
  BY DEF convertToUtf8, UtfInv, UtfTypes
<1>2. n \in Nat /\ n <= Len(rest) /\ e \in Seq(Byte)
  BY <1>1, DecodedUtf16, EncodedUtf8
<1> HIDE DEF n, e
<1>3. UtfTypes'
  <2>1. rest' \in Seq(Unit)
    BY <1>1, <1>2, Dropped
  <2>2. utf8 \o e \in Seq(Byte)
    BY <1>1, <1>2, Joined
  <2>3. utf8' \in Seq(Byte)
    BY <1>1, <2>2
  <2> QED BY <1>1, <2>1, <2>3 DEF UtfInv, UtfTypes
<1>4. WholeInv'
  <2> SUFFICES ASSUME kind = "whole" PROVE WholeInv'
    BY <1>1 DEF WholeInv
  <2>1. PICK k \in 1 .. Len(text) + 1 : AtWhole(k)
    BY DEF UtfInv, WholeInv
  <2>2. /\ IsText(text) /\ input = EncodedFrom(text)[1] /\ rest = UnitsFrom(text)[k]
        /\ utf8 \o EncodedFrom(text)[k] = EncodedFrom(text)[1]
    BY <1>1, <2>1 DEF UtfInv, WholeInv, AtWhole
  <2>3. k \in 1 .. Len(text)
    BY <1>1, <2>2, InText
  <2>4. /\ k + 1 \in 1 .. Len(text) + 1 /\ Drop(rest, n) = UnitsFrom(text)[k + 1]
        /\ EncodedFrom(text)[k] = e \o EncodedFrom(text)[k + 1]
        /\ EncodedFrom(text)[k + 1] \in Seq(Byte)
    <3> DEFINE B == EncodedFrom(text)
               U == UnitsFrom(text)
               d == decodeUtf16(U[k])
    <3>1. /\ k + 1 \in 1 .. Len(text) + 1 /\ Drop(U[k], d.code_units_consumed) = U[k + 1]
          /\ B[k] = encodeUtf32ToUtf8(d.code_point) \o B[k + 1] /\ B[k + 1] \in Seq(Byte)
      BY <2>2, <2>3, Round
    <3>2. rest = U[k] /\ n = d.code_units_consumed /\ e = encodeUtf32ToUtf8(d.code_point)
      BY <2>2 DEF n, e
    <3> HIDE DEF d
    <3> QED BY <3>1, <3>2
  <2>5. (utf8 \o e) \o EncodedFrom(text)[k + 1] = EncodedFrom(text)[1]
    <3>1. e \in Seq(Byte) /\ utf8 \in Seq(Byte) /\ EncodedFrom(text)[k + 1] \in Seq(Byte)
      BY <1>1, <1>2, <2>4
    <3>2. (utf8 \o e) \o EncodedFrom(text)[k + 1] = utf8 \o (e \o EncodedFrom(text)[k + 1])
      BY ONLY <3>1, JoinedBytes
    <3> QED BY <2>2, <2>4, <3>2
  <2>6. utf8' = utf8 \o e
    <3>1. EncodedFrom(text)[k] \in Seq(Byte)
      BY <2>2, AtEnd
    <3> DEFINE b == EncodedFrom(text)[k]
    <3>2. Len(utf8 \o b) = Len(utf8) + Len(b) /\ Len(utf8) \in Nat /\ Len(b) \in Nat
      <4>1. utf8 \in Seq(Byte) /\ b \in Seq(Byte)
        BY <1>1, <3>1
      <4> HIDE DEF b
      <4> QED BY ONLY <4>1, Joined
    <3>3. Len(input) = Len(utf8) + Len(b)
      BY <2>2, <3>2
    <3> HIDE DEF b
    <3>4. Len(utf8) <= 2 * Len(input) + MaxGrowth
      BY <3>2, <3>3 DEF UtfConstants
    <3> QED BY <1>1, <3>4
  <2>7. AtWhole(k + 1)'
    BY <1>1, <2>4, <2>5, <2>6 DEF AtWhole
  <2> QED BY <1>1, <2>2, <2>4, <2>7 DEF WholeInv
<1>5. CutInv'
  BY <1>1 DEF UtfInv, CutInv
<1> QED BY <1>3, <1>4, <1>5 DEF UtfInv

LEMMA NextLoopKeeps == ASSUME UtfInv, NextLoop PROVE UtfInv'
<1>1. rest = <<>> /\ UNCHANGED <<kind, text, input, utf16, utf8>>
  BY DEF NextLoop
<1>2. CASE loop = "checkValidUtf8" /\ loop' = "convertToUtf16" /\ rest' = input
  <2>1. UtfTypes'
    BY <1>1, <1>2 DEF UtfInv, UtfTypes
  <2>2. WholeInv'
    <3> SUFFICES ASSUME kind = "whole" PROVE WholeInv'
      BY <1>1 DEF WholeInv
    <3>1. IsText(text) /\ input = EncodedFrom(text)[1] /\ 1 \in 1 .. Len(text) + 1
      BY AtEnd DEF UtfInv, WholeInv
    <3>2. utf16 = <<>> /\ UnitsFrom(text)[1] \in Seq(Unit)
      BY <1>2, <3>1, AtEnd DEF UtfInv, UtfTypes
    <3>3. utf16 \o UnitsFrom(text)[1] = UnitsFrom(text)[1]
      BY <3>2, JoinedEmpty
    <3>4. AtWhole(1)'
      BY <1>1, <1>2, <3>1, <3>3 DEF AtWhole
    <3> QED BY <1>1, <1>2, <3>1, <3>4 DEF WholeInv
  <2>3. CutInv'
    <3> SUFFICES ASSUME kind = "cut" PROVE FALSE
      BY <1>1 DEF CutInv
    <3>1. PICK k \in 1 .. Len(text), j \in 1 .. LastLength - 1 : rest = CutFrom(k, j)
      BY <1>2 DEF UtfInv, CutInv
    <3>2. IsText(text)
      BY DEF UtfInv, CutInv
    <3>3. CutFrom(k, j) # <<>>
      <4>1. CASE k = Len(text)
        BY <3>2, <4>1, LastIsCut
      <4>2. CASE k # Len(text)
        BY <3>2, <4>2, CutGoesOn
      <4> QED BY <4>1, <4>2
    <3> QED BY <1>1, <3>1, <3>3
  <2> QED BY <2>1, <2>2, <2>3 DEF UtfInv
<1>3. CASE loop = "convertToUtf16" /\ loop' = "convertToUtf8" /\ rest' = utf16
  <2>1. UtfTypes'
    BY <1>1, <1>3 DEF UtfInv, UtfTypes
  <2>2. WholeInv'
    <3> SUFFICES ASSUME kind = "whole" PROVE WholeInv'
      BY <1>1 DEF WholeInv
    <3>1. PICK k \in 1 .. Len(text) + 1 : AtWhole(k)
      BY DEF UtfInv, WholeInv
    <3>2. /\ IsText(text) /\ input = EncodedFrom(text)[1] /\ EncodedFrom(text)[k] = <<>>
          /\ utf16 \o UnitsFrom(text)[k] = UnitsFrom(text)[1] /\ utf16 \in Seq(Unit)
          /\ utf8 = <<>> /\ 1 \in 1 .. Len(text) + 1
      BY <1>1, <1>3, <3>1, AtEnd DEF UtfInv, UtfTypes, WholeInv, AtWhole
    <3>3. UnitsFrom(text)[k] = <<>>
      BY <3>2, InText, AtEnd
    <3>4. utf16 = UnitsFrom(text)[1]
      <4>1. utf16 \o <<>> = utf16
        BY <3>2, JoinedEmpty
      <4> QED BY <3>2, <3>3, <4>1
    <3>5. utf8 \o EncodedFrom(text)[1] = EncodedFrom(text)[1]
      <4>1. EncodedFrom(text)[1] \in Seq(Byte)
        BY <3>2, AtEnd
      <4> QED BY <3>2, <4>1, JoinedEmpty
    <3>6. AtWhole(1)'
      BY <1>1, <1>3, <3>4, <3>5 DEF AtWhole
    <3> QED BY <1>1, <1>3, <3>2, <3>6 DEF WholeInv
  <2>3. CutInv'
    BY <1>1, <1>3 DEF UtfInv, CutInv
  <2> QED BY <2>1, <2>2, <2>3 DEF UtfInv
<1>4. CASE loop = "convertToUtf8" /\ loop' = "done" /\ rest' = rest
  <2>1. UtfTypes'
    BY <1>1, <1>4 DEF UtfInv, UtfTypes
  <2>2. WholeInv'
    <3> SUFFICES ASSUME kind = "whole" PROVE WholeInv'
      BY <1>1 DEF WholeInv
    <3>1. PICK k \in 1 .. Len(text) + 1 : AtWhole(k)
      BY DEF UtfInv, WholeInv
    <3>2. /\ IsText(text) /\ input = EncodedFrom(text)[1] /\ UnitsFrom(text)[k] = <<>>
          /\ utf8 \o EncodedFrom(text)[k] = EncodedFrom(text)[1] /\ utf8 \in Seq(Byte)
      BY <1>1, <1>4, <3>1 DEF UtfInv, UtfTypes, WholeInv, AtWhole
    <3>3. EncodedFrom(text)[k] = <<>>
      BY <3>2, InText, AtEnd
    <3>4. utf8 = EncodedFrom(text)[1]
      <4>1. utf8 \o <<>> = utf8
        BY <3>2, JoinedEmpty
      <4> QED BY <3>2, <3>3, <4>1
    <3>5. AtWhole(k)'
      BY <1>1, <1>4, <3>4 DEF AtWhole
    <3> QED BY <1>1, <1>4, <3>2, <3>5 DEF WholeInv
  <2>3. CutInv'
    BY <1>1, <1>4 DEF UtfInv, CutInv
  <2> QED BY <2>1, <2>2, <2>3 DEF UtfInv
<1> QED BY <1>2, <1>3, <1>4 DEF NextLoop

LEMMA UtfInit == ASSUME UtfConstants PROVE Init => UtfInv
<1> SUFFICES ASSUME Init PROVE UtfInv
  OBVIOUS
<1>1. /\ loop = "checkValidUtf8" /\ rest = input /\ utf16 = <<>> /\ utf8 = <<>>
      /\ kind \in {"whole", "cut", "bytes"}
  BY DEF Init
<1>2. ASSUME text \in Texts PROVE IsText(text)
  BY <1>2 DEF UtfConstants, IsText
<1>3. CASE kind = "whole"
  <2>1. IsText(text) /\ input = EncodedFrom(text)[1] /\ 1 \in 1 .. Len(text) + 1
    BY <1>2, <1>3, AtEnd DEF Init, Encoded
  <2>2. input \in Seq(Byte)
    BY <2>1, AtEnd
  <2>3. AtWhole(1)
    BY <1>1, <2>1 DEF AtWhole
  <2> QED BY <1>1, <1>3, <2>1, <2>2, <2>3 DEF UtfInv, UtfTypes, WholeInv, CutInv
<1>4. CASE kind = "cut"
  <2>1. text # <<>> /\ IsText(text)
    BY <1>2, <1>4 DEF Init
  <2>2. 1 \in 1 .. Len(text) /\ Last(text) = text[Len(text)]
    BY <2>1 DEF IsText, Last
  <2>3. PICK j \in 1 .. LastLength - 1 :
          input = SubSeq(EncodedFrom(text)[1], 1, Len(EncodedFrom(text)[1]) - j)
    BY <1>4, <2>2 DEF Init, Encoded, LastLength
  <2>4. input = CutFrom(1, j)
    BY <2>3 DEF CutFrom
  <2>5. input \in Seq(Byte)
    <3>1. EncodedFrom(text)[1] \in Seq(Byte) /\ LastLength \in Nat
      BY <2>1, <2>2, AtEnd, LastBytes DEF LastLength, Encodes
    <3>2. Len(EncodedFrom(text)[1]) \in Nat /\ LastLength <= Len(EncodedFrom(text)[1])
      <4>1. LastLength = Len(EncodedFrom(text)[Len(text)])
        BY <2>1, <2>2, LastBytes DEF LastLength
      <4> QED BY <2>1, <2>2, <4>1, NotShorter
    <3> DEFINE b == EncodedFrom(text)[1]
    <3>3. Len(b) - j \in Nat /\ Len(b) - j <= Len(b) /\ b \in Seq(Byte)
      BY <3>1, <3>2
    <3> HIDE DEF b
    <3>4. SubSeq(b, 1, Len(b) - j) \in Seq(Byte)
      BY ONLY <3>3
    <3> QED BY <2>3, <3>4 DEF b
  <2> QED BY <1>1, <1>4, <2>1, <2>2, <2>4, <2>5 DEF UtfInv, UtfTypes, WholeInv, CutInv
<1>5. CASE kind = "bytes"
  <2>1. input \in Seq(Byte)
    BY <1>5 DEF Init, UtfConstants, Byte
  <2> QED BY <1>1, <1>5, <2>1 DEF UtfInv, UtfTypes, WholeInv, CutInv
<1> QED BY <1>1, <1>3, <1>4, <1>5

LEMMA UtfKept == ASSUME UtfConstants PROVE UtfInv /\ [Next]_vars => UtfInv'
<1> SUFFICES ASSUME UtfInv, [Next]_vars PROVE UtfInv'
  OBVIOUS
<1>1. CASE UNCHANGED vars
  BY <1>1 DEF vars, UtfInv, UtfTypes, WholeInv, AtWhole, CutInv, CutFrom, LastLength
<1>2. CASE checkValidUtf8
  BY <1>2, CheckKeeps
<1>3. CASE convertToUtf16
  BY <1>3, ToUtf16Keeps
<1>4. CASE convertToUtf8
  BY <1>4, ToUtf8Keeps
<1>5. CASE NextLoop
  BY <1>5, NextLoopKeeps
<1> QED BY <1>1, <1>2, <1>3, <1>4, <1>5 DEF Next

LEMMA UtfInvariant == ASSUME UtfConstants PROVE Spec => []UtfInv
BY UtfInit, UtfKept, PTL DEF Spec

LEMMA UtfInvMeans == ASSUME UtfInv PROVE UtfTypeOK /\ TextSurvives /\ CutIsRejected
<1>1. UtfTypeOK
  <2>1. utf16 \in Seq(Unit) /\ utf8 \in Seq(Byte)
    BY DEF UtfInv, UtfTypes
  <2>2. \A i \in DOMAIN utf16 : utf16[i] \in Nat /\ utf16[i] < 65536
    BY <2>1, SMT DEF Unit
  <2>3. \A i \in DOMAIN utf8 : utf8[i] \in Nat /\ utf8[i] < 256
    BY <2>1, ByteIs, SMT
  <2>4. loop \in {"checkValidUtf8", "convertToUtf16", "convertToUtf8", "rejected", "done"}
    BY DEF UtfInv, UtfTypes
  <2> QED BY ONLY <2>2, <2>3, <2>4, SMT DEF UtfTypeOK
<1>2. TextSurvives
  BY DEF UtfInv, WholeInv, AtWhole, TextSurvives
<1>3. CutIsRejected
  BY DEF UtfInv, CutInv, CutIsRejected
<1> QED BY <1>1, <1>2, <1>3

LEMMA GoesOn ==
  ASSUME UtfInv, Next, kind = "whole", loop' = loop PROVE Len(rest') < Len(rest)
<1>1. PICK k \in 1 .. Len(text) + 1 : AtWhole(k)
  BY DEF UtfInv, WholeInv
<1>2. IsText(text)
  BY DEF UtfInv, WholeInv
<1>3. CASE checkValidUtf8 \/ convertToUtf16
  <2>1. /\ rest # <<>> /\ rest \in Seq(Byte) /\ rest = EncodedFrom(text)[k]
        /\ loop \in {"checkValidUtf8", "convertToUtf16"}
    BY <1>1, <1>3 DEF checkValidUtf8, convertToUtf16, UtfInv, UtfTypes, AtWhole
  <2> DEFINE n == decodeUtf8(rest).code_units_consumed
  <2>2. n # 0
    <3>1. k \in 1 .. Len(text)
      BY <1>2, <2>1, InText
    <3> QED BY <1>2, <2>1, <3>1, Round
  <2>3. n \in Nat /\ n <= Len(rest)
    BY <2>1, DecodedUtf8
  <2>4. rest' = Drop(rest, n)
    <3>1. CASE checkValidUtf8
      BY <2>2, <3>1 DEF checkValidUtf8
    <3>2. CASE convertToUtf16
      BY <3>2 DEF convertToUtf16
    <3> QED BY <1>3, <3>1, <3>2
  <2> HIDE DEF n
  <2>5. Len(rest') = Len(rest) - n /\ Len(rest) \in Nat
    <3>1. Len(Drop(rest, n)) = Len(rest) - n
      BY ONLY <2>1, <2>3, Dropped
    <3> QED BY <2>1, <2>4, <3>1
  <2> QED BY <2>2, <2>3, <2>5
<1>4. CASE convertToUtf8
  <2>1. /\ rest # <<>> /\ rest \in Seq(Unit) /\ rest = UnitsFrom(text)[k]
        /\ loop = "convertToUtf8"
    BY <1>1, <1>4 DEF convertToUtf8, UtfInv, UtfTypes, AtWhole
  <2> DEFINE n == decodeUtf16(rest).code_units_consumed
  <2>2. n # 0
    <3>1. k \in 1 .. Len(text)
      BY <1>2, <2>1, InText
    <3> QED BY <1>2, <2>1, <3>1, Round
  <2>3. n \in Nat /\ n <= Len(rest)
    BY <2>1, DecodedUtf16
  <2>4. rest' = Drop(rest, n)
    BY <1>4 DEF convertToUtf8
  <2> HIDE DEF n
  <2>5. Len(rest') = Len(rest) - n /\ Len(rest) \in Nat
    <3>1. Len(Drop(rest, n)) = Len(rest) - n
      BY ONLY <2>1, <2>3, Dropped
    <3> QED BY <2>1, <2>4, <3>1
  <2> QED BY <2>2, <2>3, <2>5
<1>5. ~NextLoop
  BY DEF NextLoop
<1> QED BY <1>3, <1>4, <1>5 DEF Next

-----------------------------------------------------------------------------
(* Trimming                                                                *)

\* What goes on the same from the same goes the same.
Follows(n, f, g) ==
  f[0] = g[0] /\ \A k \in 1 .. n : f[k - 1] = g[k - 1] => f[k] = g[k]

LEMMA Along ==
  ASSUME NEW n \in Nat, NEW f, NEW g, Follows(n, f, g)
  PROVE  \A k \in 0 .. n : f[k] = g[k]
<1>0. f[0] = g[0] /\ \A k \in 1 .. n : f[k - 1] = g[k - 1] => f[k] = g[k]
  BY DEF Follows
<1> DEFINE Bad == {k \in 1 .. n : f[k] # g[k]}
<1>1. ASSUME Bad # {} PROVE FALSE
  <2>p. PICK k \in Bad : \A j \in Bad : k <= j
    <3>1. Bad \in SUBSET (1 .. n)
      BY Zenon
    <3> HIDE DEF Bad
    <3> QED BY <1>1, <3>1, FirstExists
  <2>1. k \in 1 .. n /\ f[k] # g[k]
    OBVIOUS
  <2>2. k - 1 = 0 \/ (k - 1 \in 1 .. n /\ ~(k <= k - 1))
    BY <2>1
  <2>3. f[k - 1] = g[k - 1]
    BY <1>0, <2>p, <2>2
  <2> QED BY <1>0, <2>1, <2>3
<1>2. \A k \in 0 .. n : k = 0 \/ k \in 1 .. n
  OBVIOUS
<1> QED BY <1>0, <1>1, <1>2

LEMMA Between ==
  ASSUME NEW S, NEW s \in Seq(S), NEW a \in 1 .. Len(s) + 1, NEW b \in Nat,
         b <= Len(s), a <= b + 1
  PROVE  /\ SubSeq(s, a, b) \in Seq(S) /\ Len(SubSeq(s, a, b)) = b - a + 1
         /\ \A k \in 1 .. b - a + 1 : SubSeq(s, a, b)[k] = s[a + k - 1]
<1> DEFINE t == SubSeq(s, a, b)
<1>0. Len(s) \in Nat /\ a \in Nat /\ 1 <= a
  OBVIOUS
<1>1. CASE a = b + 1
  <2>1. t = <<>> /\ b - a + 1 = 0 /\ 1 .. b - a + 1 = {}
    BY <1>0, <1>1
  <2> QED BY <2>1
<1>2. CASE a # b + 1
  <2>1. a <= b
    BY <1>0, <1>2
  <2> QED BY <1>0, <2>1
<1> QED BY <1>1, <1>2

\* Every character is at least a byte.
LEMMA AsLong ==
  ASSUME NEW t, IsText(t)
  PROVE  Len(Encoded(t)) \in Nat /\ Len(t) <= Len(Encoded(t))
<1> DEFINE n == Len(t)
           L == [k \in 1 .. n + 1 |-> Len(EncodedFrom(t)[k])]
           Bad == {k \in 1 .. n + 1 : ~(n + 1 - k <= L[k])}
<1>1. n \in Nat /\ L[n + 1] = 0 /\ \A k \in 1 .. n + 1 : L[k] \in Nat
  <2>1. n \in Nat /\ EncodedFrom(t)[n + 1] = <<>>
    BY AtEnd
  <2>2. \A k \in 1 .. n + 1 : EncodedFrom(t)[k] \in Seq(Byte)
    BY AtEnd
  <2>3. \A k \in 1 .. n + 1 : L[k] = Len(EncodedFrom(t)[k])
    OBVIOUS
  <2>4. n + 1 \in 1 .. n + 1
    BY <2>1
  <2> HIDE DEF n, L
  <2> QED BY <2>1, <2>2, <2>3, <2>4
<1>2. ASSUME NEW k \in 1 .. n PROVE L[k + 1] < L[k]
  <2> DEFINE e == encodeUtf32ToUtf8(t[k])
             b == EncodedFrom(t)[k + 1]
  <2>1. e \in Seq(Byte) /\ b \in Seq(Byte) /\ EncodedFrom(t)[k] = e \o b /\ Len(e) # 0
    BY AtCharacter
  <2>2. L[k] = Len(EncodedFrom(t)[k]) /\ L[k + 1] = Len(b)
    BY <1>1
  <2> HIDE DEF L, e, b
  <2>3. Len(e \o b) = Len(e) + Len(b) /\ Len(e) \in Nat /\ Len(b) \in Nat
    BY ONLY <2>1, Joined
  <2> QED BY <2>1, <2>2, <2>3
<1> HIDE DEF L
<1>3. ASSUME Bad # {} PROVE FALSE
  <2>p. PICK k \in Bad : \A j \in Bad : k >= j
    <3>1. n + 1 \in Nat
      BY <1>1
    <3>2. Bad \in SUBSET (1 .. n + 1)
      BY Zenon
    <3> HIDE DEF Bad
    <3> QED BY <1>3, <3>1, <3>2, LastExists
  <2>1. k \in 1 .. n + 1 /\ ~(n + 1 - k <= L[k]) /\ L[k] \in Nat
    BY <1>1
  <2>2. k \in 1 .. n /\ k + 1 \in 1 .. n + 1 /\ ~(k >= k + 1)
    BY <1>1, <2>1
  <2>3. L[k + 1] < L[k] /\ L[k + 1] \in Nat
    BY <1>1, <1>2, <2>2
  <2>4. k + 1 \in Bad
    BY <1>1, <2>1, <2>2, <2>3
  <2> QED BY <2>p, <2>2, <2>4
<1>4. 1 \in 1 .. n + 1 /\ n <= L[1] /\ L[1] \in Nat
  BY <1>1, <1>3
<1> QED BY <1>4 DEF L, n, Encoded

\* A text from its a-th character on, in bytes, and as a text
LEMMA Shifted ==
  ASSUME NEW t, IsText(t), NEW a \in 1 .. Len(t) + 1
  PROVE  /\ IsText(SubSeq(t, a, Len(t)))
         /\ Encoded(SubSeq(t, a, Len(t))) = EncodedFrom(t)[a]
<1> DEFINE n == Len(t)
           w == SubSeq(t, a, n)
           m == n - a + 1
           g == [k \in 1 .. m + 1 |-> EncodedFrom(t)[a + k - 1]]
<1>1. t \in Seq(Nat) /\ n \in Nat /\ a \in Nat /\ m \in Nat /\ a + m = n + 1 /\ 1 <= a
  BY DEF IsText
<1>2. w \in Seq(Nat) /\ Len(w) = m /\ \A k \in 1 .. m : w[k] = t[a + k - 1]
  <2>1. n <= Len(t) /\ a <= n + 1
    BY <1>1
  <2> QED BY ONLY <1>1, <2>1, a \in 1 .. Len(t) + 1, Between
<1>3. \A k \in 1 .. m : a + k - 1 \in 1 .. n /\ a + k - 1 + 1 = a + (k + 1) - 1 /\ k + 1 \in 1 .. m + 1
  BY <1>1
<1>4. IsText(w)
  BY <1>2, <1>3 DEF IsText
<1> HIDE DEF w
<1>5. Row(Byte, m, Bytes8(w), EncodedFrom(w))
  BY <1>2, <1>4, EncodedRow
<1>6. RowOf(m, Bytes8(w), g)
  <2>1. m + 1 \in 1 .. m + 1 /\ a + (m + 1) - 1 = n + 1
    BY <1>1
  <2>2. g[m + 1] = <<>>
    BY <2>1, AtEnd
  <2>3. ASSUME NEW k \in 1 .. m PROVE g[k] = Bytes8(w)[k] \o g[k + 1]
    <3>1. EncodedFrom(t)[a + k - 1] = encodeUtf32ToUtf8(t[a + k - 1]) \o EncodedFrom(t)[a + k - 1 + 1]
      BY <1>3, AtCharacter
    <3>2. k \in 1 .. m + 1 /\ k + 1 \in 1 .. m + 1
      BY <1>1
    <3>3. g[k] = EncodedFrom(t)[a + k - 1] /\ g[k + 1] = EncodedFrom(t)[a + (k + 1) - 1]
      BY <3>2
    <3>4. Bytes8(w)[k] = encodeUtf32ToUtf8(w[k])
      BY <1>2 DEF Bytes8
    <3> QED BY <1>2, <1>3, <3>1, <3>3, <3>4
  <2> QED BY <2>2, <2>3 DEF RowOf
<1>7. 1 \in 1 .. m + 1 /\ g[1] = EncodedFrom(t)[a]
  BY <1>1
<1> HIDE DEF m, g
<1>8. g[1] = EncodedFrom(w)[1]
  BY ONLY <1>1, <1>5, <1>6, <1>7, RowOfBytesIs
<1> QED BY <1>4, <1>7, <1>8 DEF Encoded, w

\* A text up to its m-th character ends in the bytes of this one.
LEMMA EndsInLast ==
  ASSUME NEW t, IsText(t), NEW m \in 1 .. Len(t)
  PROVE  /\ IsText(SubSeq(t, 1, m)) /\ IsText(SubSeq(t, 1, m - 1))
         /\ Encoded(SubSeq(t, 1, m)) = Encoded(SubSeq(t, 1, m - 1)) \o encodeUtf32ToUtf8(t[m])
<1> DEFINE v == SubSeq(t, 1, m)
           w == SubSeq(t, 1, m - 1)
           e == encodeUtf32ToUtf8(t[m])
           g == [k \in 1 .. m + 1 |-> IF k = m + 1 THEN <<>> ELSE EncodedFrom(w)[k] \o e]
<1>1. t \in Seq(Nat) /\ m \in Nat /\ 1 <= m /\ Len(t) \in Nat /\ m <= Len(t)
  BY DEF IsText
<1>2. /\ v \in Seq(Nat) /\ Len(v) = m /\ \A k \in 1 .. m : v[k] = t[k]
      /\ w \in Seq(Nat) /\ Len(w) = m - 1 /\ \A k \in 1 .. m - 1 : w[k] = t[k]
  <2>1. /\ 1 \in 1 .. Len(t) + 1 /\ m - 1 \in Nat /\ m - 1 <= Len(t) /\ 1 <= m - 1 + 1 /\ 1 <= m + 1
        /\ m - 1 + 1 = m /\ m - 1 - 1 + 1 = m - 1 /\ \A k \in Nat : 1 + k - 1 = k
    BY <1>1
  <2>2. v \in Seq(Nat) /\ Len(v) = m - 1 + 1 /\ \A k \in 1 .. m - 1 + 1 : v[k] = t[1 + k - 1]
    BY ONLY <1>1, <2>1, Between
  <2>3. w \in Seq(Nat) /\ Len(w) = m - 1 - 1 + 1 /\ \A k \in 1 .. m - 1 - 1 + 1 : w[k] = t[1 + k - 1]
    BY ONLY <1>1, <2>1, Between
  <2> HIDE DEF v, w
  <2>4. \A k \in 1 .. m : v[k] = t[k]
    BY ONLY <1>1, <2>1, <2>2
  <2>5. \A k \in 1 .. m - 1 : w[k] = t[k]
    BY ONLY <1>1, <2>1, <2>3
  <2> QED BY ONLY <2>1, <2>2, <2>3, <2>4, <2>5
<1>3. \A k \in 1 .. m : k \in 1 .. Len(t)
  BY <1>1
<1>4. IsText(v) /\ IsText(w)
  BY <1>1, <1>2, <1>3 DEF IsText
<1>5. e \in Seq(Byte)
  BY EncodedScalar DEF IsText
<1> HIDE DEF v, w, e
<1>6. Row(Byte, m, Bytes8(v), EncodedFrom(v))
  BY <1>2, <1>4, EncodedRow
<1>7. /\ EncodedFrom(w)[m] = <<>>
      /\ \A k \in 1 .. m - 1 :
           /\ EncodedFrom(w)[k] = encodeUtf32ToUtf8(w[k]) \o EncodedFrom(w)[k + 1]
           /\ encodeUtf32ToUtf8(w[k]) \in Seq(Byte) /\ EncodedFrom(w)[k + 1] \in Seq(Byte)
  <2>1. EncodedFrom(w)[m - 1 + 1] = <<>> /\ m - 1 + 1 = m
    BY <1>1, <1>2, <1>4, AtEnd
  <2>2. ASSUME NEW k \in 1 .. m - 1
        PROVE  /\ EncodedFrom(w)[k] = encodeUtf32ToUtf8(w[k]) \o EncodedFrom(w)[k + 1]
               /\ encodeUtf32ToUtf8(w[k]) \in Seq(Byte) /\ EncodedFrom(w)[k + 1] \in Seq(Byte)
    BY <1>2, <1>4, AtCharacter
  <2> QED BY <2>1, <2>2
<1>8. RowOf(m, Bytes8(v), g)
  <2>1. m + 1 \in 1 .. m + 1 /\ m \in 1 .. m + 1 /\ m # m + 1 /\ m \in 1 .. m
    BY <1>1
  <2>2. g[m + 1] = <<>>
    BY <2>1
  <2>3. ASSUME NEW k \in 1 .. m PROVE g[k] = Bytes8(v)[k] \o g[k + 1]
    <3>1. Bytes8(v)[k] = encodeUtf32ToUtf8(t[k])
      BY <1>2 DEF Bytes8
    <3>2. CASE k = m
      <4>1. g[m] = <<>> \o e /\ g[m + 1] = <<>>
        BY <1>7, <2>1
      <4>2. <<>> \o e = e /\ e \o <<>> = e
        BY <1>5, JoinedEmpty
      <4> QED BY <3>1, <3>2, <4>1, <4>2 DEF e
    <3>3. CASE k # m
      <4> DEFINE b == encodeUtf32ToUtf8(w[k])
                 c == EncodedFrom(w)[k + 1]
      <4>1. k \in 1 .. m - 1 /\ k \in 1 .. m + 1 /\ k # m + 1 /\ k + 1 \in 1 .. m + 1 /\ k + 1 # m + 1
        BY <1>1, <3>3
      <4>2. g[k] = EncodedFrom(w)[k] \o e /\ g[k + 1] = c \o e
        BY <4>1
      <4>3. EncodedFrom(w)[k] = b \o c /\ b \in Seq(Byte) /\ c \in Seq(Byte) /\ w[k] = t[k]
        BY <1>2, <1>7, <4>1
      <4>4. Bytes8(v)[k] = b
        BY <3>1, <4>3
      <4> HIDE DEF b, c, g
      <4>5. (b \o c) \o e = b \o (c \o e)
        BY ONLY <1>5, <4>3, JoinedBytes
      <4> QED BY <4>2, <4>3, <4>4, <4>5
    <3> QED BY <3>2, <3>3
  <2> QED BY <2>2, <2>3 DEF RowOf
<1>9. 1 \in 1 .. m + 1 /\ 1 # m + 1 /\ m \in Nat
  BY <1>1
<1>10. g[1] = EncodedFrom(w)[1] \o e
  BY <1>9
<1> HIDE DEF g
<1>11. \A k \in 1 .. m + 1 : g[k] = EncodedFrom(v)[k]
  <2> DEFINE f == EncodedFrom(v)
             q == Bytes8(v)
  <2>1. m \in Nat /\ Row(Byte, m, q, f) /\ RowOf(m, q, g)
    BY <1>6, <1>8, <1>9
  <2> HIDE DEF f, q
  <2>2. \A k \in 1 .. m + 1 : g[k] = f[k]
    BY ONLY <2>1, RowOfBytesIs
  <2> QED BY <2>2 DEF f
<1> QED BY <1>4, <1>9, <1>10, <1>11 DEF Encoded, v, w, e

LEMMA NothingToTrim == TrimmedFront(<<>>) = <<>> /\ TrimmedBack(<<>>) = <<>>
BY DEF TrimmedFront, TrimmedBack

LEMMA FrontRound ==
  ASSUME NEW t, IsText(t), NEW k \in 1 .. Len(t)
  PROVE  TrimmedFront(EncodedFrom(t)[k]) =
           IF WhiteSpace(t[k]) THEN EncodedFrom(t)[k + 1] ELSE EncodedFrom(t)[k]
<1> DEFINE s == EncodedFrom(t)[k]
           e == encodeUtf32ToUtf8(t[k])
<1>1. /\ decodeUtf8(s) = [code_units_consumed |-> Len(e), code_point |-> t[k]]
      /\ Drop(s, Len(e)) = EncodedFrom(t)[k + 1]
  BY AtCharacter
<1>2. s # <<>>
  <2>1. k \in 1 .. Len(t) + 1 /\ k # Len(t) + 1
    BY AtEnd
  <2> QED BY <2>1, InText
<1> HIDE DEF s, e
<1>3. decodeUtf8(s).code_units_consumed = Len(e) /\ decodeUtf8(s).code_point = t[k]
  BY <1>1
<1>4. TrimmedFront(s) = IF WhiteSpace(t[k]) THEN EncodedFrom(t)[k + 1] ELSE s
  BY <1>1, <1>2, <1>3, Zenon DEF TrimmedFront
<1> QED BY <1>4 DEF s

\* The rounds of the first loop take off the first a - 1 characters.
LEMMA FrontIs ==
  ASSUME NEW t, IsText(t), NEW a \in 1 .. Len(t) + 1,
         \A i \in 1 .. a - 1 : WhiteSpace(t[i]), a # Len(t) + 1 => ~WhiteSpace(t[a])
  PROVE  Fronts(Encoded(t))[Len(Encoded(t))] = EncodedFrom(t)[a]
<1> DEFINE n == Len(t)
           s == Encoded(t)
           l == Len(s)
           B == EncodedFrom(t)
           first(k) == IF k < a THEN k + 1 ELSE a
           f == [k \in 0 .. l |-> B[first(k)]]
           g == Fronts(s)
<1>1. n \in Nat /\ l \in Nat /\ n <= l /\ a \in Nat /\ 1 <= a /\ a <= n + 1
  BY AsLong DEF IsText
<1>2. s = B[1] /\ B[n + 1] = <<>>
  BY AtEnd DEF Encoded
<1>3. \A k \in 1 .. n : TrimmedFront(B[k]) = IF WhiteSpace(t[k]) THEN B[k + 1] ELSE B[k]
  BY FrontRound
<1> HIDE DEF n, l, B
<1>4. ASSUME NEW k \in 1 .. l PROVE f[k] = TrimmedFront(f[k - 1])
  <2>1. k \in 0 .. l /\ k - 1 \in 0 .. l
    BY <1>1
  <2>2. f[k] = B[first(k)] /\ f[k - 1] = B[first(k - 1)]
    BY <2>1
  <2>3. CASE k < a
    <3>1. k \in 1 .. a - 1 /\ k \in 1 .. n /\ first(k - 1) = k /\ first(k) = k + 1
      BY <1>1, <2>3
    <3> QED BY <1>3, <2>2, <3>1
  <2>4. CASE ~(k < a)
    <3>1. first(k - 1) = a /\ first(k) = a
      BY <1>1, <2>4
    <3>2. TrimmedFront(B[a]) = B[a]
      <4>1. CASE a = n + 1
        BY <1>2, <4>1, NothingToTrim
      <4>2. CASE a # n + 1
        <5>1. a \in 1 .. n /\ ~WhiteSpace(t[a])
          BY <1>1, <4>2 DEF n
        <5> QED BY <1>3, <5>1
      <4> QED BY <4>1, <4>2
    <3> QED BY <2>2, <3>1, <3>2
  <2> QED BY <2>3, <2>4
<1>5. f[0] = s
  <2>1. 0 \in 0 .. l /\ first(0) = 1
    BY <1>1
  <2> QED BY <1>2, <2>1
<1>6. f[l] = B[a]
  <2>1. l \in 0 .. l /\ first(l) = a
    BY <1>1
  <2> QED BY <2>1
<1>7. f = [k \in 0 .. l |-> f[k]]
  OBVIOUS
<1> HIDE DEF f
<1>8. f = [k \in 0 .. l |-> IF k = 0 THEN s ELSE TrimmedFront(f[k - 1])]
  <2>1. \A k \in 0 .. l : k = 0 \/ (k # 0 /\ k \in 1 .. l)
    BY <1>1
  <2>2. ASSUME NEW k \in 0 .. l PROVE f[k] = IF k = 0 THEN s ELSE TrimmedFront(f[k - 1])
    BY <1>4, <1>5, <2>1
  <2> QED BY <1>7, <2>2
<1>9. g = [k \in 0 .. l |-> IF k = 0 THEN s ELSE TrimmedFront(g[k - 1])]
  BY <1>8, Zenon DEF Fronts, l
<1> HIDE DEF g, s
<1>10. g[0] = s /\ \A k \in 1 .. l : g[k] = TrimmedFront(g[k - 1])
  <2>1. 0 \in 0 .. l /\ \A k \in 1 .. l : k \in 0 .. l /\ k # 0
    BY <1>1
  <2> QED BY <1>9, <2>1
<1>11. \A k \in 0 .. l : g[k] = f[k]
  <2>1. Follows(l, g, f)
    BY <1>4, <1>5, <1>10 DEF Follows
  <2> QED BY ONLY <1>1, <2>1, Along
<1>12. g[l] = B[a]
  <2>1. l \in 0 .. l
    BY <1>1
  <2> QED BY <1>6, <1>11, <2>1
<1> QED BY <1>12 DEF g, l, B, s

\* The shortest suffix that decodes is the last character.
LEMMA LastCharacterIs ==
  ASSUME NEW x \in Seq(Byte), NEW e, NEW c, Encodes(e, c)
  PROVE  /\ LastCharacter(x \o e) = e /\ decodeUtf8(e).code_point = c
         /\ x \o e \in Seq(Byte) /\ x \o e # <<>>
         /\ SubSeq(x \o e, 1, Len(x \o e) - Len(e)) = x
<1> DEFINE s == x \o e
           m == Len(e)
<1>1. e \in Seq(Byte) /\ m \in Nat /\ 1 <= m /\ m <= 4
  BY DEF Encodes
<1>2. /\ s \in Seq(Byte) /\ Len(x) \in Nat /\ Len(s) = Len(x) + m
      /\ \A i \in 1 .. Len(x) : s[i] = x[i]
      /\ \A i \in 1 .. m : s[Len(x) + i] = e[i]
  BY <1>1, Joined
<1> HIDE DEF s, m
<1>3. SubSeq(s, 1, Len(s) - m) = x
  <2>1. /\ 1 \in 1 .. Len(s) + 1 /\ Len(x) <= Len(s) /\ 1 <= Len(x) + 1 /\ Len(s) - m = Len(x)
        /\ Len(x) - 1 + 1 = Len(x) /\ \A k \in Nat : 1 + k - 1 = k
    BY <1>1, <1>2
  <2> DEFINE y == SubSeq(s, 1, Len(x))
  <2>2. y \in Seq(Byte) /\ Len(y) = Len(x) - 1 + 1 /\ \A k \in 1 .. Len(x) - 1 + 1 : y[k] = s[1 + k - 1]
    BY ONLY <1>2, <2>1, Between
  <2> HIDE DEF y
  <2>3. \A k \in 1 .. Len(y) : y[k] = x[k]
    BY <1>2, <2>1, <2>2
  <2>4. y = x
    BY <1>2, <2>1, <2>2, <2>3, SameSequence
  <2> QED BY <2>1, <2>4 DEF y
<1>4. ASSUME NEW k \in 1 .. m
      PROVE  /\ Suffix(s, k) \in Seq(Byte) /\ Len(Suffix(s, k)) = k /\ k <= Len(s)
             /\ \A i \in 1 .. k : Suffix(s, k)[i] = e[m - k + i]
  <2> DEFINE a == Len(s) - k + 1
             y == SubSeq(s, a, Len(s))
  <2>1. /\ a \in 1 .. Len(s) + 1 /\ Len(s) \in Nat /\ Len(s) <= Len(s) /\ a <= Len(s) + 1
        /\ Len(s) - a + 1 = k /\ k <= Len(s)
    BY <1>1, <1>2
  <2>2. \A i \in 1 .. k : m - k + i \in 1 .. m /\ a + i - 1 = Len(x) + (m - k + i)
    BY <1>1, <1>2
  <2> HIDE DEF a
  <2>3. /\ y \in Seq(Byte) /\ Len(y) = Len(s) - a + 1
        /\ \A i \in 1 .. Len(s) - a + 1 : y[i] = s[a + i - 1]
    BY ONLY <1>2, <2>1, Between
  <2>4. Suffix(s, k) = y
    BY DEF Suffix, a
  <2> HIDE DEF y
  <2>5. y \in Seq(Byte) /\ Len(y) = k
    BY <2>1, <2>3
  <2>6. ASSUME NEW i \in 1 .. k PROVE y[i] = e[m - k + i]
    <3>1. y[i] = s[a + i - 1] /\ a + i - 1 = Len(x) + (m - k + i) /\ m - k + i \in 1 .. m
      BY <2>1, <2>2, <2>3
    <3>2. s[Len(x) + (m - k + i)] = e[m - k + i]
      BY <1>2, <3>1
    <3> QED BY <3>1, <3>2
  <2> QED BY <2>1, <2>4, <2>5, <2>6
<1>5. Suffix(s, m) = e
  <2>1. m \in 1 .. m /\ \A i \in 1 .. m : m - m + i = i
    BY <1>1
  <2>2. /\ Suffix(s, m) \in Seq(Byte) /\ Len(Suffix(s, m)) = m
        /\ \A i \in 1 .. m : Suffix(s, m)[i] = e[i]
    BY <1>4, <2>1
  <2> QED BY ONLY <1>1, <2>2, SameSequence DEF m
<1>6. decodeUtf8(e) = [code_units_consumed |-> m, code_point |-> c]
  <2>1. decodeUtf8(e \o <<>>) = [code_units_consumed |-> Len(e), code_point |-> c]
    <3>1. <<>> \in Seq(Byte) /\ Encodes(e, c)
      OBVIOUS
    <3> QED BY ONLY <3>1, DecodesUtf8
  <2>2. e \o <<>> = e
    BY <1>1, JoinedEmpty
  <2> QED BY <2>1, <2>2 DEF m
<1>7. SuffixDecodes(s, m)
  <2>1. m <= Len(s)
    BY <1>1, <1>2
  <2>2. decodeUtf8(Suffix(s, m)).code_units_consumed # 0
    BY <1>1, <1>5, <1>6
  <2> QED BY <2>1, <2>2 DEF SuffixDecodes
<1>8. ASSUME NEW k \in 1 .. m - 1 PROVE ~SuffixDecodes(s, k)
  <2> DEFINE y == Suffix(s, k)
  <2>1. k \in 1 .. m /\ 1 \in 1 .. k /\ m - k + 1 \in 2 .. m
    BY <1>1
  <2>2. y[1] = e[m - k + 1]
    BY <1>4, <2>1
  <2>3. y[1] \in Byte /\ check_multi_byte(y[1])
    <3>1. e[m - k + 1] \in Byte
      BY <1>1, <2>1 DEF m
    <3>2. check_multi_byte(e[m - k + 1])
      BY <2>1 DEF Encodes, m
    <3> QED BY <2>2, <3>1, <3>2
  <2>4. SequenceLength(y[1]) = 0
    BY <2>3, ContinuationBeginsNone
  <2> HIDE DEF y
  <2>5. decodeUtf8(y) = DecodeError
    BY <2>4, Zenon DEF decodeUtf8
  <2> QED BY <2>5 DEF SuffixDecodes, DecodeError, y
<1> DEFINE Shortest(k) == SuffixDecodes(s, k) /\ \A j \in 1 .. k - 1 : ~SuffixDecodes(s, j)
<1>9. m \in 1 .. 4 /\ Shortest(m)
  BY <1>1, <1>7, <1>8
<1>10. ASSUME NEW k \in 1 .. 4, Shortest(k) PROVE k = m
  <2>1. k \in Nat /\ 1 <= k /\ (k = m \/ k \in 1 .. m - 1 \/ m \in 1 .. k - 1)
    BY <1>1
  <2> QED BY <1>7, <1>8, <1>10, <2>1
<1>11. (CHOOSE k \in 1 .. 4 : Shortest(k)) = m
  <2> HIDE DEF Shortest
  <2> QED BY <1>9, <1>10
<1>12. LastCharacter(s) = e
  BY <1>5, <1>11 DEF LastCharacter
<1>13. s # <<>>
  <2>1. Len(s) # 0
    BY <1>1, <1>2
  <2> QED BY <2>1
<1> QED BY <1>2, <1>3, <1>6, <1>12, <1>13 DEF s, m

LEMMA BackRound ==
  ASSUME NEW x \in Seq(Byte), NEW c, Scalar(c)
  PROVE  TrimmedBack(x \o encodeUtf32ToUtf8(c)) =
           IF WhiteSpace(c) THEN x ELSE x \o encodeUtf32ToUtf8(c)
<1> DEFINE e == encodeUtf32ToUtf8(c)
           s == x \o e
<1>1. Encodes(e, c)
  BY EncodedScalar
<1>2. /\ LastCharacter(s) = e /\ decodeUtf8(e).code_point = c /\ s # <<>>
      /\ SubSeq(s, 1, Len(s) - Len(e)) = x
  BY <1>1, LastCharacterIs
<1> HIDE DEF s, e
<1>3. TrimmedBack(s) = IF WhiteSpace(c) THEN x ELSE s
  BY <1>2, Zenon DEF TrimmedBack
<1> QED BY <1>3 DEF s, e

\* The rounds of the second loop leave the first b characters.
LEMMA BackIs ==
  ASSUME NEW t, IsText(t), NEW b \in 0 .. Len(t),
         \A i \in b + 1 .. Len(t) : WhiteSpace(t[i]), b # 0 => ~WhiteSpace(t[b])
  PROVE  Backs(Encoded(t))[Len(Encoded(t))] = Encoded(SubSeq(t, 1, b))
<1> DEFINE n == Len(t)
           s == Encoded(t)
           l == Len(s)
           P == [m \in 0 .. n |-> Encoded(SubSeq(t, 1, m))]
           last(k) == IF n - k > b THEN n - k ELSE b
           f == [k \in 0 .. l |-> P[last(k)]]
           g == Backs(s)
<1>1. n \in Nat /\ l \in Nat /\ n <= l /\ b \in Nat /\ b <= n /\ t \in Seq(Nat)
  BY AsLong DEF IsText
<1>2. P[n] = s /\ P[0] = <<>>
  <2>1. SubSeq(t, 1, n) = t /\ SubSeq(t, 1, 0) = <<>> /\ 0 \in 0 .. n /\ n \in 0 .. n
    BY <1>1
  <2>2. Encoded(<<>>) = <<>>
    <3>1. IsText(<<>>) /\ Len(<<>>) + 1 = 1
      BY DEF IsText
    <3>2. EncodedFrom(<<>>)[1] = <<>>
      BY <3>1, AtEnd
    <3> QED BY <3>2 DEF Encoded
  <2> QED BY <2>1, <2>2
<1>3. ASSUME NEW m \in 1 .. n
      PROVE  TrimmedBack(P[m]) = IF WhiteSpace(t[m]) THEN P[m - 1] ELSE P[m]
  <2> DEFINE x == Encoded(SubSeq(t, 1, m - 1))
             e == encodeUtf32ToUtf8(t[m])
  <2>1. m \in 0 .. n /\ m - 1 \in 0 .. n
    BY <1>1
  <2>2. Encoded(SubSeq(t, 1, m)) = x \o e /\ IsText(SubSeq(t, 1, m - 1)) /\ Scalar(t[m])
    BY EndsInLast DEF IsText
  <2>3. P[m] = x \o e /\ P[m - 1] = x
    BY <2>1, <2>2
  <2>4. x \in Seq(Byte)
    <3>1. 1 \in 1 .. Len(SubSeq(t, 1, m - 1)) + 1
      BY <2>2, AtEnd
    <3> QED BY <2>2, <3>1, AtEnd DEF Encoded
  <2>5. TrimmedBack(x \o e) = IF WhiteSpace(t[m]) THEN x ELSE x \o e
    BY <2>2, <2>4, BackRound
  <2> HIDE DEF P, x, e
  <2> QED BY <2>3, <2>5
<1> HIDE DEF n, l, P
<1>4. ASSUME NEW k \in 1 .. l PROVE f[k] = TrimmedBack(f[k - 1])
  <2>1. k \in 0 .. l /\ k - 1 \in 0 .. l
    BY <1>1
  <2>2. f[k] = P[last(k)] /\ f[k - 1] = P[last(k - 1)]
    BY <2>1
  <2>3. CASE n - (k - 1) > b
    <3> DEFINE m == n - (k - 1)
    <3>1. m \in 1 .. n /\ m \in b + 1 .. n /\ last(k - 1) = m /\ last(k) = m - 1
      BY <1>1, <2>3
    <3> HIDE DEF m
    <3>2. TrimmedBack(P[m]) = P[m - 1]
      BY <1>3, <3>1 DEF n
    <3> QED BY <2>2, <3>1, <3>2
  <2>4. CASE ~(n - (k - 1) > b)
    <3>1. last(k - 1) = b /\ last(k) = b
      BY <1>1, <2>4
    <3>2. TrimmedBack(P[b]) = P[b]
      <4>1. CASE b = 0
        BY <1>2, <4>1, NothingToTrim
      <4>2. CASE b # 0
        <5>1. b \in 1 .. n /\ ~WhiteSpace(t[b])
          BY <1>1, <4>2
        <5> QED BY <1>3, <5>1
      <4> QED BY <4>1, <4>2
    <3> QED BY <2>2, <3>1, <3>2
  <2> QED BY <2>3, <2>4
<1>5. f[0] = s
  <2>1. 0 \in 0 .. l /\ last(0) = n
    BY <1>1
  <2> QED BY <1>2, <2>1
<1>6. f[l] = P[b]
  <2>1. l \in 0 .. l /\ last(l) = b
    BY <1>1
  <2> QED BY <2>1
<1>7. f = [k \in 0 .. l |-> f[k]]
  OBVIOUS
<1> HIDE DEF f
<1>8. f = [k \in 0 .. l |-> IF k = 0 THEN s ELSE TrimmedBack(f[k - 1])]
  <2>1. \A k \in 0 .. l : k = 0 \/ (k # 0 /\ k \in 1 .. l)
    BY <1>1
  <2>2. ASSUME NEW k \in 0 .. l PROVE f[k] = IF k = 0 THEN s ELSE TrimmedBack(f[k - 1])
    BY <1>4, <1>5, <2>1
  <2> QED BY <1>7, <2>2
<1>9. g = [k \in 0 .. l |-> IF k = 0 THEN s ELSE TrimmedBack(g[k - 1])]
  BY <1>8, Zenon DEF Backs, l
<1> HIDE DEF g, s
<1>10. g[0] = s /\ \A k \in 1 .. l : g[k] = TrimmedBack(g[k - 1])
  <2>1. 0 \in 0 .. l /\ \A k \in 1 .. l : k \in 0 .. l /\ k # 0
    BY <1>1
  <2> QED BY <1>9, <2>1
<1>11. \A k \in 0 .. l : g[k] = f[k]
  <2>1. Follows(l, g, f)
    BY <1>4, <1>5, <1>10 DEF Follows
  <2> QED BY ONLY <1>1, <2>1, Along
<1>12. g[l] = P[b]
  <2>1. l \in 0 .. l
    BY <1>1
  <2> QED BY <1>6, <1>11, <2>1
<1>13. P[b] = Encoded(SubSeq(t, 1, b))
  BY <1>1 DEF P
<1> QED BY <1>12, <1>13 DEF g, l, s

\* The first character that is kept, or behind the last, and the last
KeptFrom(t, a) ==
  /\ a \in 1 .. Len(t) + 1 /\ \A i \in 1 .. a - 1 : WhiteSpace(t[i])
  /\ a # Len(t) + 1 => ~WhiteSpace(t[a])
KeptTo(t, b) ==
  /\ b \in 0 .. Len(t) /\ \A i \in b + 1 .. Len(t) : WhiteSpace(t[i])
  /\ b # 0 => ~WhiteSpace(t[b])

\* Both loops
LEMMA TrimsTo ==
  ASSUME NEW t, IsText(t), NEW a, KeptFrom(t, a), NEW v, v = SubSeq(t, a, Len(t)),
         NEW b, KeptTo(v, b)
  PROVE  trimAllUtf(Encoded(t)) = Encoded(SubSeq(v, 1, b))
<1>1. Fronts(Encoded(t))[Len(Encoded(t))] = EncodedFrom(t)[a]
  BY FrontIs DEF KeptFrom
<1>2. IsText(v) /\ Encoded(v) = EncodedFrom(t)[a]
  BY Shifted DEF KeptFrom
<1>3. Backs(Encoded(v))[Len(Encoded(v))] = Encoded(SubSeq(v, 1, b))
  BY <1>2, BackIs DEF KeptTo
<1> QED BY <1>1, <1>2, <1>3, Zenon DEF trimAllUtf

LEMMA Trims == ASSUME NEW t, IsText(t) PROVE trimAllUtf(Encoded(t)) = Encoded(TrimmedText(t))
<1> DEFINE n == Len(t)
<1>1. n \in Nat /\ t \in Seq(Nat) /\ Kept(t) = {i \in 1 .. n : ~WhiteSpace(t[i])}
  BY DEF IsText, Kept
<1>2. CASE Kept(t) = {}
  <2> DEFINE v == SubSeq(t, n + 1, n)
  <2>1. /\ n + 1 \in 1 .. n + 1 /\ v = <<>> /\ Len(v) = 0 /\ 0 \in 0 .. Len(v)
        /\ 0 + 1 .. Len(v) = {} /\ SubSeq(v, 1, 0) = <<>> /\ n + 1 - 1 = n
    BY <1>1
  <2>2. \A i \in 1 .. n : WhiteSpace(t[i])
    BY <1>1, <1>2
  <2> HIDE DEF v
  <2>3. v = SubSeq(t, n + 1, Len(t)) /\ KeptFrom(t, n + 1) /\ KeptTo(v, 0)
    BY <2>1, <2>2 DEF v, KeptFrom, KeptTo
  <2>4. trimAllUtf(Encoded(t)) = Encoded(SubSeq(v, 1, 0))
    BY ONLY IsText(t), <2>3, TrimsTo
  <2> QED BY <1>2, <2>1, <2>4 DEF TrimmedText
<1>3. CASE Kept(t) # {}
  <2> DEFINE a == Min(Kept(t))
             b == Max(Kept(t))
  <2>1. a \in Kept(t) /\ \A j \in Kept(t) : a <= j
    <3>1. \E i \in Kept(t) : \A j \in Kept(t) : i <= j
      BY <1>1, <1>3, FirstExists
    <3> QED BY <3>1, Zenon DEF Min
  <2>2. b \in Kept(t) /\ \A j \in Kept(t) : b >= j
    <3>1. \E i \in Kept(t) : \A j \in Kept(t) : i >= j
      BY <1>1, <1>3, LastExists
    <3> QED BY <3>1, Zenon DEF Max
  <2>3. TrimmedText(t) = SubSeq(t, a, b)
    BY <1>3, Zenon DEF TrimmedText
  <2> HIDE DEF a, b
  <2> DEFINE v == SubSeq(t, a, n)
             m == b - a + 1
             x == SubSeq(v, 1, m)
             y == SubSeq(t, a, b)
  <2>4. /\ a \in 1 .. n /\ b \in 1 .. n /\ a <= b /\ ~WhiteSpace(t[a]) /\ ~WhiteSpace(t[b])
        /\ a \in 1 .. n + 1 /\ a \in 1 .. Len(t) + 1 /\ b \in Nat /\ b <= Len(t) /\ a <= b + 1
        /\ n <= Len(t) /\ a <= n + 1
    BY <1>1, <2>1, <2>2
  <2>5. v \in Seq(Nat) /\ Len(v) = n - a + 1 /\ \A k \in 1 .. n - a + 1 : v[k] = t[a + k - 1]
    BY ONLY <1>1, <2>4, Between
  <2>6. y \in Seq(Nat) /\ Len(y) = b - a + 1 /\ \A k \in 1 .. b - a + 1 : y[k] = t[a + k - 1]
    BY ONLY <1>1, <2>4, Between
  <2>7. v = SubSeq(t, a, Len(t))
    OBVIOUS
  <2> HIDE DEF v, y
  <2>8. /\ m \in 1 .. Len(v) /\ m \in 0 .. Len(v) /\ m # 0 /\ a + m - 1 = b /\ m \in Nat
        /\ m <= Len(v) /\ 1 \in 1 .. Len(v) + 1 /\ 1 <= m + 1 /\ m - 1 + 1 = m
        /\ \A k \in Nat : 1 + k - 1 = k
    BY <2>4, <2>5
  <2>9. ~WhiteSpace(v[m])
    BY <2>4, <2>5, <2>8
  <2>10. ASSUME NEW i \in m + 1 .. Len(v) PROVE WhiteSpace(v[i])
    <3>1. a + i - 1 \in 1 .. n /\ ~(b >= a + i - 1) /\ i \in 1 .. n - a + 1
      BY <1>1, <2>4, <2>5, <2>8
    <3>2. v[i] = t[a + i - 1] /\ ~(a + i - 1 \in Kept(t))
      BY <2>2, <2>5, <3>1
    <3> QED BY <1>1, <3>1, <3>2
  <2>11. ASSUME NEW i \in 1 .. a - 1 PROVE WhiteSpace(t[i])
    <3>1. i \in 1 .. n /\ ~(a <= i)
      BY <1>1, <2>4
    <3>2. ~(i \in Kept(t))
      BY <2>1, <3>1
    <3> QED BY <1>1, <3>1, <3>2
  <2>12. trimAllUtf(Encoded(t)) = Encoded(SubSeq(v, 1, m))
    <3> HIDE DEF m
    <3>1. KeptFrom(t, a) /\ KeptTo(v, m)
      BY <2>4, <2>8, <2>9, <2>10, <2>11 DEF KeptFrom, KeptTo
    <3> QED BY ONLY IsText(t), <2>7, <3>1, TrimsTo
  <2>13. x = y
    <3> HIDE DEF m
    <3>1. x \in Seq(Nat) /\ Len(x) = m - 1 + 1 /\ \A k \in 1 .. m - 1 + 1 : x[k] = v[1 + k - 1]
      BY ONLY <2>5, <2>8, Between
    <3>2. Len(y) = m /\ Len(v) = n - a + 1 /\ \A k \in 1 .. m : y[k] = t[a + k - 1]
      BY <2>5, <2>6 DEF m
    <3> HIDE DEF x
    <3>3. \A k \in 1 .. Len(x) : x[k] = y[k]
      <4> SUFFICES ASSUME NEW k \in 1 .. Len(x) PROVE x[k] = y[k]
        OBVIOUS
      <4>1. k \in 1 .. m /\ k \in 1 .. n - a + 1 /\ k \in Nat
        BY <2>8, <3>1, <3>2
      <4> QED BY <2>5, <2>8, <3>1, <3>2, <4>1
    <3> QED BY <2>6, <2>8, <3>1, <3>2, <3>3, SameSequence
  <2> HIDE DEF x, m
  <2> QED BY <2>3, <2>12, <2>13 DEF x, y
<1> QED BY <1>2, <1>3

LEMMA UtfTrims == ASSUME UtfInv PROVE TrimsCharacters
BY Trims DEF UtfInv, WholeInv, Encoded, TrimsCharacters

-----------------------------------------------------------------------------
(* The theorems                                                            *)

\* A name in any script comes back from the conversions to UTF-16 and to UTF-8
\* byte for byte, whatever its characters and its length; a line that ends
\* within a character is rejected; what trimAllUtf() leaves of a text is the
\* text without the white space at its ends, in whole characters.
THEOREM TextComesBack ==
  ASSUME UtfConstants
  PROVE  Spec => [](UtfTypeOK /\ TextSurvives /\ CutIsRejected /\ TrimsCharacters)
<1>1. UtfInv => UtfTypeOK /\ TextSurvives /\ CutIsRejected /\ TrimsCharacters
  BY UtfInvMeans, UtfTrims
<1> QED BY <1>1, UtfInvariant, PTL

\* No round of a conversion of a name that is text leaves as much as there was:
\* none goes round for ever.
THEOREM ConversionsGoOn == ASSUME UtfConstants PROVE Spec => ConversionGoesOn
<1>1. UtfInv /\ [Next]_vars
        => [kind = "whole" /\ loop' = loop => Len(rest') < Len(rest)]_vars
  BY GoesOn
<1> QED BY <1>1, UtfInvariant, PTL DEF Spec, ConversionGoesOn
=============================================================================
