---------------------------- MODULE LineReaderProofs ---------------------------
(***************************************************************************)
(* For buffers of any size and every file: readLine() hands out the lines  *)
(* of the file, and rejects it for a reason.  The invariant says what the  *)
(* buffers hold of the file, and that the reader stands at the beginning   *)
(* of the line after those it has returned.                                *)
(***************************************************************************)
EXTENDS LineReader, FiniteSetTheorems, SequenceTheorems, TLAPS

-----------------------------------------------------------------------------
(* The first of some positions.                                            *)

LEMMA UpToN ==
  ASSUME NEW n \in Nat
  PROVE  /\ IsFiniteSet(1 .. n) /\ Cardinality(1 .. n) = n
         /\ IsFiniteSet(0 .. n - 1) /\ Cardinality(0 .. n - 1) = n
<1>1. IsFiniteSet(1 .. n) /\ Cardinality(1 .. n) = IF 1 > n THEN 0 ELSE n - 1 + 1
  BY FS_Interval
<1>2. IsFiniteSet(0 .. n - 1) /\ Cardinality(0 .. n - 1) = IF 0 > n - 1 THEN 0 ELSE n - 1 - 0 + 1
  <2>1. 0 \in Int /\ n - 1 \in Int
    OBVIOUS
  <2> QED BY <2>1, FS_Interval
<1> QED BY <1>1, <1>2

\* By the number of those before each of them: one has none before it.
LEMMA FirstExists ==
  ASSUME NEW n \in Nat, NEW S \in SUBSET (1 .. n), S # {}
  PROVE  \E x \in S : \A y \in S : x <= y
<1> DEFINE Below(x) == {y \in S : y < x}
           rank == [x \in S |-> Cardinality(Below(x))]
           m == Cardinality(S)
<1>1. IsFiniteSet(S) /\ m \in Nat /\ m # 0
  BY UpToN, FS_Subset, FS_CardinalityType, FS_EmptySet
<1>2. \A x \in S : x \in Int
  OBVIOUS
<1>3. ASSUME NEW x \in S
      PROVE  IsFiniteSet(Below(x)) /\ rank[x] \in Nat /\ rank[x] < m
  <2>1. Below(x) \in SUBSET S /\ Below(x) # S
    BY <1>2
  <2>2. IsFiniteSet(Below(x)) /\ Cardinality(Below(x)) \in Nat
    BY <1>1, <2>1, FS_Subset, FS_CardinalityType
  <2>3. Cardinality(Below(x)) <= m /\ Cardinality(Below(x)) # m
    BY <1>1, <2>1, FS_Subset
  <2> QED BY <1>1, <2>2, <2>3
<1>4. ASSUME NEW x \in S, NEW y \in S, x < y PROVE rank[x] # rank[y]
  <2>1. \A z \in S : z < x => z < y
    BY <1>2, <1>4
  <2>2. Below(x) \in SUBSET Below(y)
    BY <2>1
  <2>3. x \in Below(y) /\ x \notin Below(x)
    BY <1>2, <1>4
  <2> QED BY <1>3, <2>2, <2>3, FS_Subset
<1>5. rank \in Injection(S, 0 .. m - 1)
  <2>1. ASSUME NEW x \in S PROVE rank[x] \in 0 .. m - 1
    <3>1. ASSUME NEW r \in Nat, r < m PROVE r \in 0 .. m - 1
      BY <1>1, <3>1
    <3> QED BY <1>3, <3>1
  <2>2. rank \in [S -> 0 .. m - 1]
    BY <2>1
  <2>3. ASSUME NEW x \in S, NEW y \in S, rank[x] = rank[y] PROVE x = y
    <3>1. ~(x < y) /\ ~(y < x)
      BY <1>4, <2>3
    <3> QED BY <1>2, <3>1
  <2> QED BY <2>2, <2>3 DEF Injection, IsInjective
<1>6. rank \in Surjection(S, 0 .. m - 1)
  <2>1. IsFiniteSet(0 .. m - 1) /\ Cardinality(0 .. m - 1) = m
    BY <1>1, UpToN
  <2> QED BY <1>1, <1>5, <2>1, FS_Injection
<1>7. PICK x \in S : rank[x] = 0
  <2>1. 0 \in 0 .. m - 1
    BY <1>1
  <2> QED BY <1>6, <2>1 DEF Surjection
<1>8. Below(x) = {}
  BY <1>3, <1>7, FS_EmptySet
<1> QED BY <1>2, <1>8

LEMMA MinIsFirst ==
  ASSUME NEW n \in Nat, NEW S \in SUBSET (1 .. n), S # {}
  PROVE  Min(S) \in S /\ \A y \in S : Min(S) <= y
BY FirstExists DEF Min

\* What is before the first line feed.
LEMMA UpToLFStops ==
  ASSUME NEW s \in Seq(Byte)
  PROVE  \E n \in 0 .. Len(s) :
           /\ UpToLF(s) = SubSeq(s, 1, n)
           /\ \A i \in 1 .. n : s[i] # "LF"
           /\ IF HasLF(s) THEN n < Len(s) /\ s[n + 1] = "LF" ELSE n = Len(s)
<1> DEFINE I == {i \in 1 .. Len(s) : s[i] = "LF"}
           k == SelectInSeq(s, LAMBDA b : b = "LF")
<1>1. k = IF I # {} THEN Min(I) ELSE 0
  BY DEF SelectInSeq
<1>2. UpToLF(s) = IF k = 0 THEN s ELSE SubSeq(s, 1, k - 1)
  BY DEF UpToLF
<1>3. HasLF(s) <=> I # {}
  BY DEF HasLF, Contains
<1>4. Len(s) \in Nat
  OBVIOUS
<1>5. CASE I = {}
  <2>1. UpToLF(s) = SubSeq(s, 1, Len(s))
    BY <1>1, <1>2, <1>5, SubSeqFull
  <2> QED BY <1>3, <1>4, <1>5, <2>1
<1>6. CASE I # {}
  <2>1. Min(I) \in I /\ \A y \in I : Min(I) <= y
    BY <1>4, <1>6, MinIsFirst
  <2> DEFINE n == Min(I) - 1
  <2>2. n \in 0 .. Len(s) /\ n < Len(s) /\ n + 1 = Min(I) /\ Min(I) # 0
    BY <1>4, <2>1
  <2>3. UpToLF(s) = SubSeq(s, 1, n)
    BY <1>1, <1>2, <1>6, <2>2
  <2>4. \A i \in 1 .. n : s[i] # "LF"
    BY <1>4, <2>1, <2>2
  <2>5. s[n + 1] = "LF"
    BY <2>1, <2>2
  <2> HIDE DEF n
  <2> QED BY <1>3, <1>6, <2>2, <2>3, <2>4, <2>5
<1> QED BY <1>5, <1>6


-----------------------------------------------------------------------------
(* The lines of a file, from the number of line feeds before them.         *)

Upto(c, i) == {j \in 1 .. Len(c) : c[j] = "LF" /\ j <= i}

\* Where the k-th line begins: at the beginning of the file or behind a line
\* feed, with k - 1 of them before it.
Begins(c, k, p) ==
  /\ p \in 1 .. Len(c) + 1
  /\ p = 1 \/ c[p - 1] = "LF"
  /\ Cardinality(Upto(c, p - 1)) = k - 1

\* Where a line ends that begins at p: before the next line feed, or with the file.
Stops(c, p, q) ==
  /\ q \in p .. Len(c) + 1
  /\ \A i \in p .. q - 1 : c[i] # "LF"
  /\ q <= Len(c) => c[q] = "LF"

LEMMA UptoIsFinite ==
  ASSUME NEW c \in Seq(Byte), NEW i \in Int
  PROVE  /\ IsFiniteSet(Upto(c, i)) /\ Cardinality(Upto(c, i)) \in Nat
         /\ Cardinality(Upto(c, 0)) = 0
<1>1. Len(c) \in Nat
  OBVIOUS
<1>2. Upto(c, i) \in SUBSET (1 .. Len(c))
  BY DEF Upto
<1>3. Upto(c, 0) = {}
  BY DEF Upto
<1> QED BY <1>1, <1>2, <1>3, UpToN, FS_Subset, FS_CardinalityType, FS_EmptySet

\* No two line feeds have as many before them.
LEMMA CountsAreUnique ==
  ASSUME NEW c \in Seq(Byte), NEW i \in Upto(c, Len(c)), NEW j \in Upto(c, Len(c)),
         Cardinality(Upto(c, i)) = Cardinality(Upto(c, j))
  PROVE  i = j
<1>1. i \in Int /\ j \in Int /\ i \in Upto(c, i) /\ j \in Upto(c, j)
  BY DEF Upto
<1>2. ASSUME NEW a \in Upto(c, Len(c)), NEW b \in Upto(c, Len(c)), a < b
      PROVE  Cardinality(Upto(c, a)) # Cardinality(Upto(c, b))
  <2>1. a \in Int /\ b \in Int
    BY DEF Upto
  <2>2. Upto(c, a) \in SUBSET Upto(c, b)
    BY <1>2, <2>1 DEF Upto
  <2>3. b \in Upto(c, b) /\ b \notin Upto(c, a)
    BY <1>2, <2>1 DEF Upto
  <2> QED BY <2>1, <2>2, <2>3, UptoIsFinite, FS_Subset
<1>3. ~(i < j) /\ ~(j < i)
  BY <1>2
<1> QED BY <1>1, <1>3

LEMMA LineFeedsUpto ==
  ASSUME content \in Seq(Byte)
  PROVE  /\ LineFeeds = Upto(content, Len(content))
         /\ \A i : {j \in LineFeeds : j <= i} = Upto(content, i)
BY DEF LineFeeds, Upto

\* A line feed is the end of the line that it is counted as.
LEMMA LineEndIs ==
  ASSUME content \in Seq(Byte), NEW i \in LineFeeds
  PROVE  LineEnd(Cardinality(Upto(content, i))) = i
<1> DEFINE k == Cardinality(Upto(content, i))
           e == LineEnd(k)
<1>1. e = CHOOSE j \in LineFeeds : Cardinality(Upto(content, j)) = k
  BY LineFeedsUpto DEF LineEnd
<1>2. e \in LineFeeds /\ Cardinality(Upto(content, e)) = k
  BY <1>1
<1> QED BY <1>2, CountsAreUnique, LineFeedsUpto

\* The next line feed counts one more, and the next line begins behind it.
LEMMA NextCount ==
  ASSUME NEW c \in Seq(Byte), NEW k \in Nat, NEW p, NEW q, Begins(c, k, p), Stops(c, p, q)
  PROVE  /\ q <= Len(c) => Cardinality(Upto(c, q)) = k /\ Begins(c, k + 1, q + 1)
         /\ q = Len(c) + 1 => Cardinality(Upto(c, Len(c))) = k - 1
<1>1. /\ p \in 1 .. Len(c) + 1 /\ q \in p .. Len(c) + 1 /\ Len(c) \in Nat
      /\ \A i \in p .. q - 1 : c[i] # "LF"
      /\ q <= Len(c) => c[q] = "LF"
      /\ Cardinality(Upto(c, p - 1)) = k - 1
  BY DEF Begins, Stops
<1>2. CASE q <= Len(c)
  <2>1. ASSUME NEW j \in 1 .. Len(c), c[j] = "LF" PROVE j <= q <=> j <= p - 1 \/ j = q
    BY <1>1, <1>2, <2>1
  <2>2. Upto(c, q) = Upto(c, p - 1) \cup {q}
    BY <1>1, <1>2, <2>1 DEF Upto
  <2>3. q \notin Upto(c, p - 1) /\ p - 1 \in Int
    BY <1>1 DEF Upto
  <2>4. Cardinality(Upto(c, p - 1) \cup {q}) = Cardinality(Upto(c, p - 1)) + 1
    BY <2>3, UptoIsFinite, FS_AddElement
  <2>5. Cardinality(Upto(c, q)) = k
    BY <1>1, <2>2, <2>4
  <2>6. q + 1 \in 1 .. Len(c) + 1 /\ (q + 1) - 1 = q /\ q # Len(c) + 1 /\ (k + 1) - 1 = k
    BY <1>1, <1>2
  <2> QED BY <1>1, <1>2, <2>5, <2>6 DEF Begins
<1>3. CASE q = Len(c) + 1
  <2>1. ASSUME NEW j \in 1 .. Len(c), c[j] = "LF" PROVE j <= p - 1
    BY <1>1, <1>3, <2>1
  <2>2. Upto(c, Len(c)) = Upto(c, p - 1)
    BY <1>1, <2>1 DEF Upto
  <2>3. ~(q <= Len(c))
    BY <1>1, <1>3
  <2> QED BY <1>1, <2>2, <2>3
<1>4. q <= Len(c) \/ q = Len(c) + 1
  BY <1>1
<1> QED BY <1>2, <1>3, <1>4

\* What lies between is the line.
LEMMA RawLineIs ==
  ASSUME content \in Seq(Byte), NEW k \in Nat, NEW p, NEW q,
         Begins(content, k, p), Stops(content, p, q)
  PROVE  /\ k >= 1 /\ RawLine(k) = SubSeq(content, p, q - 1)
         /\ k <= NumLines /\ (k = NumLines <=> q = Len(content) + 1)
<1>1. /\ p \in 1 .. Len(content) + 1 /\ q \in p .. Len(content) + 1 /\ Len(content) \in Nat
      /\ Cardinality(Upto(content, p - 1)) = k - 1
      /\ p = 1 \/ content[p - 1] = "LF"
      /\ q <= Len(content) => content[q] = "LF"
  BY DEF Begins, Stops
<1>2. NumLines = Cardinality(Upto(content, Len(content))) + 1
  BY LineFeedsUpto DEF NumLines
<1>3. k >= 1
  <2>1. Cardinality(Upto(content, p - 1)) \in Nat
    BY <1>1, UptoIsFinite
  <2> QED BY <1>1, <2>1
<1>4. p = IF k = 1 THEN 1 ELSE LineEnd(k - 1) + 1
  <2>1. CASE p = 1
    <3>1. Cardinality(Upto(content, 0)) = 0
      BY UptoIsFinite
    <3>2. k - 1 = 0
      BY <1>1, <2>1, <3>1
    <3> QED BY <2>1, <3>2
  <2>2. CASE p # 1
    <3>1. p - 1 \in Upto(content, p - 1) /\ p - 1 \in LineFeeds /\ p - 1 \in Int
      BY <1>1, <2>2 DEF Upto, LineFeeds
    <3>2. Cardinality(Upto(content, p - 1)) # 0
      BY <3>1, UptoIsFinite, FS_EmptySet
    <3>3. LineEnd(k - 1) = p - 1
      BY <1>1, <3>1, LineEndIs
    <3> QED BY <1>1, <3>2, <3>3
  <2> QED BY <2>1, <2>2
<1>5. CASE q <= Len(content)
  <2>1. Cardinality(Upto(content, q)) = k /\ q \in LineFeeds
    BY <1>1, <1>5, NextCount DEF LineFeeds
  <2>2. LineEnd(k) = q
    BY <2>1, LineEndIs
  <2>3. Cardinality(Upto(content, q)) <= Cardinality(Upto(content, Len(content)))
    <3>1. Upto(content, q) \in SUBSET Upto(content, Len(content))
      BY DEF Upto
    <3> QED BY <1>1, <3>1, UptoIsFinite, FS_Subset
  <2>4. k < NumLines /\ NumLines \in Nat
    <3>1. Cardinality(Upto(content, Len(content))) \in Nat
      BY <1>1, UptoIsFinite
    <3> QED BY <1>2, <2>1, <2>3, <3>1
  <2>5. q # Len(content) + 1 /\ k # NumLines /\ k <= NumLines
    BY <1>1, <1>5, <2>4
  <2>6. RawLine(k) = SubSeq(content, p, q - 1)
    BY <1>4, <2>2, <2>5 DEF RawLine
  <2> QED BY <1>3, <2>5, <2>6
<1>6. CASE q = Len(content) + 1
  <2>1. Cardinality(Upto(content, Len(content))) = k - 1
    BY <1>6, NextCount
  <2>2. NumLines = k /\ q - 1 = Len(content)
    BY <1>1, <1>2, <1>6, <2>1
  <2>3. RawLine(k) = SubSeq(content, p, q - 1)
    BY <1>4, <2>2 DEF RawLine
  <2> QED BY <1>3, <1>6, <2>2, <2>3
<1>7. q <= Len(content) \/ q = Len(content) + 1
  BY <1>1
<1> QED BY <1>5, <1>6, <1>7

\* Each line stops somewhere.
LEMMA LineStops ==
  ASSUME NEW c \in Seq(Byte), NEW p \in 1 .. Len(c) + 1
  PROVE  \E q : Stops(c, p, q)
<1> DEFINE S == {i \in 1 .. Len(c) : p <= i /\ c[i] = "LF"}
<1>1. Len(c) \in Nat
  OBVIOUS
<1>2. CASE S = {}
  <2>1. Len(c) + 1 \in p .. Len(c) + 1 /\ ~(Len(c) + 1 <= Len(c)) /\ Len(c) + 1 - 1 = Len(c)
    BY <1>1
  <2>2. \A i \in p .. Len(c) : c[i] # "LF"
    BY <1>1, <1>2
  <2>3. Stops(c, p, Len(c) + 1)
    BY <2>1, <2>2 DEF Stops
  <2> QED BY <2>3
<1>3. CASE S # {}
  <2>1. PICK q \in S : \A y \in S : q <= y
    BY <1>1, <1>3, FirstExists
  <2>2. q \in p .. Len(c) + 1 /\ c[q] = "LF"
    BY <1>1, <2>1
  <2>3. ASSUME NEW i \in p .. q - 1 PROVE c[i] # "LF"
    <3>1. i \in 1 .. Len(c) /\ p <= i /\ ~(q <= i)
      BY <1>1, <2>1
    <3> QED BY <2>1, <3>1
  <2> QED BY <2>2, <2>3 DEF Stops
<1> QED BY <1>2, <1>3


-----------------------------------------------------------------------------
(* What the buffers hold.                                                  *)

Readers == [fileOffset : Nat, eof : BOOLEAN, front : Seq(Byte), back : Seq(Byte), bufferOffset : Int]
NewReader == [fileOffset |-> 0, eof |-> FALSE, front |-> <<>>, back |-> <<>>, bufferOffset |-> 0]

\* How much of the file lies before the front buffer.
Base(r) == r.fileOffset - Len(r.back) - Len(r.front)
NextAt(r) == Base(r) + r.bufferOffset + 1

\* The two buffers hold adjacent parts of the file, full ones unless it ends there.
Buffered(c, r) ==
  /\ r \in Readers
  /\ r.fileOffset <= Len(c)
  /\ Len(r.front) <= READ_BUFFER_SIZE /\ Len(r.back) <= READ_BUFFER_SIZE /\ Base(r) >= 0
  /\ \A i \in 1 .. Len(r.front) : r.front[i] = c[Base(r) + i]
  /\ \A i \in 1 .. Len(r.back) : r.back[i] = c[Base(r) + Len(r.front) + i]
  /\ IF r.eof THEN r.fileOffset = Len(c)
              ELSE Len(r.front) = READ_BUFFER_SIZE /\ Len(r.back) = READ_BUFFER_SIZE
  /\ Len(r.back) > 0 => Len(r.front) = READ_BUFFER_SIZE

InFront(r) == r.bufferOffset \in 0 .. Len(r.front)
Ended(r) == r.eof /\ r.back = <<>> /\ r.bufferOffset = Len(r.front) + 1

LEMMA BufferedTypes ==
  ASSUME NEW c \in Seq(Byte), NEW r, Buffered(c, r)
  PROVE  /\ READ_BUFFER_SIZE \in Nat /\ READ_BUFFER_SIZE > 0 /\ Len(c) \in Nat
         /\ r.fileOffset \in Nat /\ r.eof \in BOOLEAN /\ r.bufferOffset \in Int
         /\ r.front \in Seq(Byte) /\ r.back \in Seq(Byte)
         /\ Len(r.front) \in Nat /\ Len(r.back) \in Nat /\ Base(r) \in Nat
         /\ Base(r) + Len(r.front) + Len(r.back) = r.fileOffset
BY ReaderAssumption DEF Buffered, Readers, Base

LEMMA ChunkIs ==
  ASSUME content \in Seq(Byte), NEW o \in 0 .. Len(content)
  PROVE  /\ Chunk(o) \in Seq(Byte) /\ Len(Chunk(o)) \in 0 .. READ_BUFFER_SIZE
         /\ o + Len(Chunk(o)) <= Len(content)
         /\ Len(Chunk(o)) < READ_BUFFER_SIZE => o + Len(Chunk(o)) = Len(content)
         /\ \A i \in 1 .. Len(Chunk(o)) : Chunk(o)[i] = content[o + i]
<1> DEFINE m == o + 1
           n == Least(o + READ_BUFFER_SIZE, Len(content))
<1>1. /\ m \in Int /\ n \in Int /\ n - m + 1 \in 0 .. READ_BUFFER_SIZE /\ m \in 1 .. n + 1
      /\ n <= Len(content) /\ (n - m + 1 < READ_BUFFER_SIZE => n = Len(content))
      /\ READ_BUFFER_SIZE \in Nat /\ Len(content) \in Nat /\ o \in Int
      /\ n = o + (n - m + 1)
  BY ReaderAssumption DEF Least
<1>2. Chunk(o) = SubSeq(content, m, n)
  BY DEF Chunk
<1> HIDE DEF m, n
<1>3. \A i \in m .. n : content[i] \in Byte
  BY <1>1
<1>4. /\ Chunk(o) \in Seq(Byte)
      /\ Len(Chunk(o)) = n - m + 1
      /\ \A i \in 1 .. n - m + 1 : Chunk(o)[i] = content[m + i - 1]
  <2>1. /\ SubSeq(content, m, n) \in Seq(Byte)
        /\ Len(SubSeq(content, m, n)) = IF m <= n THEN n - m + 1 ELSE 0
        /\ \A i \in 1 .. n - m + 1 : SubSeq(content, m, n)[i] = content[m + i - 1]
    BY <1>1, <1>3, SubSeqProperties
  <2> QED BY <1>1, <1>2, <2>1
<1>5. \A i \in 1 .. Len(Chunk(o)) : m + i - 1 = o + i
  BY <1>1, <1>4 DEF m
<1> QED BY <1>1, <1>4, <1>5

\* The assignments of the code to single fields.
LEMMA Moved ==
  ASSUME NEW r \in Readers, NEW o \in Int, NEW s, s = [r EXCEPT !.bufferOffset = o]
  PROVE  /\ s \in Readers /\ s.fileOffset = r.fileOffset /\ (s.eof <=> r.eof)
         /\ s.front = r.front /\ s.back = r.back /\ s.bufferOffset = o
BY DEF Readers

LEMMA ReadMoreIs ==
  ASSUME content \in Seq(Byte), NEW r \in Readers, r.fileOffset <= Len(content), NEW s, s = read_more(r)
  PROVE  /\ s \in Readers /\ s.fileOffset = r.fileOffset + Len(Chunk(r.fileOffset))
         /\ s.eof <=> Len(Chunk(r.fileOffset)) < READ_BUFFER_SIZE
         /\ s.front = r.back /\ s.back = Chunk(r.fileOffset)
         /\ s.bufferOffset = r.bufferOffset - READ_BUFFER_SIZE
<1>1. r.fileOffset \in 0 .. Len(content) /\ r.fileOffset \in Nat /\ r.bufferOffset \in Int
  BY DEF Readers
<1>2. Chunk(r.fileOffset) \in Seq(Byte) /\ Len(Chunk(r.fileOffset)) \in Nat
  BY <1>1, ChunkIs
<1>3. r.bufferOffset - READ_BUFFER_SIZE \in Int /\ r.fileOffset + Len(Chunk(r.fileOffset)) \in Nat
  BY <1>1, <1>2, ReaderAssumption
<1>4. r.back \in Seq(Byte)
  BY DEF Readers
<1>5. s = [fileOffset |-> r.fileOffset + Len(Chunk(r.fileOffset)),
           eof |-> Len(Chunk(r.fileOffset)) < READ_BUFFER_SIZE,
           front |-> r.back, back |-> Chunk(r.fileOffset),
           bufferOffset |-> r.bufferOffset - READ_BUFFER_SIZE]
  BY DEF read_more
<1>6. (Len(Chunk(r.fileOffset)) < READ_BUFFER_SIZE) \in BOOLEAN
  OBVIOUS
<1>7. s \in Readers
  BY <1>2, <1>3, <1>4, <1>5, <1>6 DEF Readers
<1>8. s.eof <=> Len(Chunk(r.fileOffset)) < READ_BUFFER_SIZE
  <2>1. s.eof = (Len(Chunk(r.fileOffset)) < READ_BUFFER_SIZE)
    BY <1>5
  <2> QED BY <2>1
<1>9. /\ s.fileOffset = r.fileOffset + Len(Chunk(r.fileOffset))
      /\ s.front = r.back /\ s.back = Chunk(r.fileOffset)
      /\ s.bufferOffset = r.bufferOffset - READ_BUFFER_SIZE
  BY <1>5
<1> QED BY <1>7, <1>8, <1>9

\* The first call finds the beginning of the file in the buffers.
LEMMA FirstFill ==
  ASSUME content \in Seq(Byte), reader = NewReader
  PROVE  Buffered(content, Filled) /\ Base(Filled) = 0 /\ Filled.bufferOffset = 0
<1> DEFINE B == READ_BUFFER_SIZE
<1> PICK a : a = Chunk(0)
  OBVIOUS
<1> PICK b : b = Chunk(Len(a))
  OBVIOUS
<1>1. B \in Nat /\ B > 0 /\ Len(content) \in Nat /\ <<>> \in Seq(Byte) /\ Len(<<>>) = 0
  BY ReaderAssumption
<1>2. /\ a \in Seq(Byte) /\ Len(a) \in 0 .. B /\ Len(a) <= Len(content)
      /\ Len(a) < B => Len(a) = Len(content)
      /\ \A i \in 1 .. Len(a) : a[i] = content[0 + i]
  <2>1. 0 \in 0 .. Len(content)
    BY <1>1
  <2>2. /\ a \in Seq(Byte) /\ Len(a) \in 0 .. B /\ 0 + Len(a) <= Len(content)
        /\ Len(a) < B => 0 + Len(a) = Len(content)
        /\ \A i \in 1 .. Len(a) : a[i] = content[0 + i]
    BY <2>1, ChunkIs
  <2>3. 0 + Len(a) = Len(a)
    BY <2>2
  <2> QED BY <2>2, <2>3
<1>3. /\ b \in Seq(Byte) /\ Len(b) \in 0 .. B /\ Len(a) + Len(b) <= Len(content)
      /\ Len(b) < B => Len(a) + Len(b) = Len(content)
      /\ \A i \in 1 .. Len(b) : b[i] = content[Len(a) + i]
  <2>1. Len(a) \in 0 .. Len(content)
    BY <1>1, <1>2
  <2> QED BY <2>1, ChunkIs
<1> PICK first : first = read_more(Skip(reader))
  OBVIOUS
<1>4. /\ first \in Readers /\ first.fileOffset = Len(a) /\ (first.eof <=> Len(a) < B)
      /\ first.back = a /\ first.bufferOffset = 0
  <2>1. NewReader \in Readers
    BY <1>1 DEF NewReader, Readers
  <2>2. PICK s : s = Skip(reader)
    OBVIOUS
  <2>3. s = [NewReader EXCEPT !.bufferOffset = NewReader.bufferOffset + B]
    BY <2>2 DEF Skip
  <2>4. NewReader.bufferOffset = 0 /\ NewReader.fileOffset = 0
    BY DEF NewReader
  <2>5. NewReader.bufferOffset + B = B /\ B \in Int
    BY <1>1, <2>4
  <2>6. s \in Readers /\ s.fileOffset = 0 /\ s.bufferOffset = B
    BY <2>1, <2>3, <2>4, <2>5, Moved
  <2>7. 0 <= Len(content) /\ 0 + Len(a) = Len(a) /\ B - B = 0
    BY <1>1, <1>2
  <2> QED BY <2>2, <2>6, <2>7, ReadMoreIs
<1>5. Filled = IF first.eof THEN [first EXCEPT !.front = first.back, !.back = <<>>]
                            ELSE read_more(Skip(first))
  <2>1. reader.fileOffset = 0
    BY DEF NewReader
  <2> QED BY <2>1 DEF Filled
<1> PICK r : r = Filled
  OBVIOUS
<1>6. CASE Len(a) < B
  <2>1. r = [first EXCEPT !.front = a, !.back = <<>>]
    BY <1>4, <1>5, <1>6
  <2>2. /\ r \in Readers /\ r.fileOffset = Len(a) /\ r.eof
        /\ r.front = a /\ r.back = <<>> /\ r.bufferOffset = 0
    <3>1. PICK z \in Seq(Byte) : z = <<>>
      BY <1>1
    <3>2. r = [first EXCEPT !.front = a, !.back = z]
      BY <2>1, <3>1
    <3>3. /\ r \in Readers /\ r.fileOffset = first.fileOffset /\ (r.eof <=> first.eof)
          /\ r.front = a /\ r.back = z /\ r.bufferOffset = first.bufferOffset
      BY <1>2, <1>4, <3>2 DEF Readers
    <3> QED BY <1>4, <1>6, <3>1, <3>3
  <2>3. /\ Len(a) = 0 + Len(a) + Len(<<>>) /\ 0 \in Nat
        /\ Len(a) <= B /\ Len(<<>>) <= B /\ ~(Len(<<>>) > 0)
        /\ Len(a) = Len(content) /\ Len(a) <= Len(content)
    BY <1>1, <1>2, <1>6
  <2>4. \A i \in 1 .. Len(<<>>) : <<>>[i] = content[0 + Len(a) + i]
    BY <1>1
  <2>5. Base(r) = 0
    BY <1>1, <1>2, <2>2 DEF Base
  <2>6. Buffered(content, r)
    BY <1>1, <1>2, <2>2, <2>3, <2>4, <2>5 DEF Buffered
  <2> QED BY <2>2, <2>5, <2>6
<1>7. CASE ~(Len(a) < B)
  <2>1. PICK s : s = Skip(first)
    OBVIOUS
  <2>2. s \in Readers /\ s.fileOffset = Len(a) /\ s.back = a /\ s.bufferOffset = B
    <3>1. first.bufferOffset + B = B /\ B \in Int
      BY <1>1, <1>4
    <3>2. s = [first EXCEPT !.bufferOffset = first.bufferOffset + B]
      BY <2>1 DEF Skip
    <3> QED BY <1>4, <2>1, <3>1, <3>2, Moved
  <2>3. r = read_more(s)
    BY <1>4, <1>5, <1>7, <2>1
  <2>4. /\ r \in Readers /\ r.fileOffset = Len(a) + Len(b) /\ (r.eof <=> Len(b) < B)
        /\ r.front = a /\ r.back = b /\ r.bufferOffset = 0
    <3>1. B - B = 0
      BY <1>1
    <3> QED BY <1>2, <2>2, <2>3, <3>1, ReadMoreIs
  <2>5. /\ Len(a) + Len(b) = 0 + Len(a) + Len(b) /\ 0 \in Nat
        /\ Len(a) = B /\ Len(a) <= B /\ Len(b) <= B
        /\ ~(Len(b) < B) => Len(b) = B
        /\ 0 + Len(a) = Len(a)
    BY <1>1, <1>2, <1>3, <1>7
  <2>6. Base(r) = 0
    BY <1>2, <1>3, <2>4 DEF Base
  <2>7. Buffered(content, r)
    BY <1>2, <1>3, <2>4, <2>5, <2>6 DEF Buffered
  <2> QED BY <2>4, <2>6, <2>7
<1> QED BY <1>6, <1>7


-----------------------------------------------------------------------------
(* One line.                                                               *)

LEMMA RestIs ==
  ASSUME NEW c \in Seq(Byte), NEW r, Buffered(c, r), InFront(r)
  PROVE  /\ Rest(r) \in Seq(Byte) /\ Len(Rest(r)) = Len(r.front) - r.bufferOffset
         /\ Len(Rest(r)) \in Nat
         /\ \A i \in 1 .. Len(Rest(r)) : Rest(r)[i] = c[NextAt(r) + i - 1]
<1>1. PICK x \in Seq(Byte), o \in Nat, n \in Nat, f \in Nat :
        x = r.front /\ o = r.bufferOffset /\ n = Base(r) /\ f = Len(x) /\ o <= f
  BY BufferedTypes DEF InFront
<1>2. o <= f
  BY <1>1
<1>3. /\ o + 1 \in Int /\ f \in Int
      /\ f - (o + 1) + 1 = f - o /\ f - o \in Nat
      /\ (IF o + 1 <= f THEN f - (o + 1) + 1 ELSE 0) = f - o
  BY <1>2
<1>4. \A i \in o + 1 .. f : x[i] \in Byte
  BY <1>1
<1>5. Rest(r) = SubSeq(x, o + 1, f)
  BY <1>1 DEF Rest
<1>6. /\ Rest(r) \in Seq(Byte) /\ Len(Rest(r)) = f - o
      /\ \A i \in 1 .. f - o : Rest(r)[i] = x[o + 1 + i - 1]
  <2>1. /\ SubSeq(x, o + 1, f) \in Seq(Byte)
        /\ Len(SubSeq(x, o + 1, f)) = IF o + 1 <= f THEN f - (o + 1) + 1 ELSE 0
        /\ \A i \in 1 .. f - (o + 1) + 1 : SubSeq(x, o + 1, f)[i] = x[o + 1 + i - 1]
    BY <1>3, <1>4, SubSeqProperties
  <2> QED BY <1>3, <1>5, <2>1
<1>7. ASSUME NEW i \in 1 .. f - o PROVE Rest(r)[i] = c[NextAt(r) + i - 1]
  <2>1. o + 1 + i - 1 \in 1 .. f
    BY <1>2
  <2>2. n + (o + 1 + i - 1) = n + o + 1 + i - 1
    OBVIOUS
  <2>3. x[o + 1 + i - 1] = c[n + (o + 1 + i - 1)]
    BY <1>1, <2>1 DEF Buffered
  <2>4. NextAt(r) = n + o + 1
    BY <1>1 DEF NextAt
  <2> QED BY <1>6, <2>2, <2>3, <2>4
<1> QED BY <1>1, <1>3, <1>6, <1>7

\* The beginning of a sequence that is part of the file.
LEMMA PrefixIs ==
  ASSUME NEW s \in Seq(Byte), NEW n \in 0 .. Len(s)
  PROVE  /\ SubSeq(s, 1, n) \in Seq(Byte) /\ Len(SubSeq(s, 1, n)) = n
         /\ \A i \in 1 .. n : SubSeq(s, 1, n)[i] = s[i]
<1>1. Len(s) \in Nat /\ n \in Nat /\ n - 1 + 1 = n /\ \A i \in 1 .. n : s[i] \in Byte /\ 1 + i - 1 = i
  OBVIOUS
<1>2. (IF 1 <= n THEN n - 1 + 1 ELSE 0) = n
  BY <1>1
<1>3. /\ SubSeq(s, 1, n) \in Seq(Byte)
      /\ Len(SubSeq(s, 1, n)) = IF 1 <= n THEN n - 1 + 1 ELSE 0
      /\ \A i \in 1 .. n - 1 + 1 : SubSeq(s, 1, n)[i] = s[1 + i - 1]
  BY <1>1, SubSeqProperties
<1> QED BY <1>1, <1>2, <1>3

\* A sequence whose bytes are those of the file from p on is that part of it.
LEMMA PartIs ==
  ASSUME NEW c \in Seq(Byte), NEW s \in Seq(Byte), NEW p \in 1 .. Len(c) + 1, NEW q \in p .. Len(c) + 1,
         Len(s) = q - p, \A i \in 1 .. Len(s) : s[i] = c[p + i - 1]
  PROVE  s = SubSeq(c, p, q - 1)
<1>1. /\ Len(c) \in Nat /\ q - 1 - p + 1 = q - p /\ p \in Int /\ q - 1 \in Int
      /\ (IF p <= q - 1 THEN q - 1 - p + 1 ELSE 0) = q - p
      /\ \A i \in p .. q - 1 : c[i] \in Byte
  OBVIOUS
<1>2. /\ SubSeq(c, p, q - 1) \in Seq(Byte)
      /\ Len(SubSeq(c, p, q - 1)) = IF p <= q - 1 THEN q - 1 - p + 1 ELSE 0
      /\ \A i \in 1 .. q - 1 - p + 1 : SubSeq(c, p, q - 1)[i] = c[p + i - 1]
  BY <1>1, SubSeqProperties
<1> PICK t \in Seq(Byte) : t = SubSeq(c, p, q - 1)
  BY <1>2
<1>3. Len(s) = Len(t) /\ \A i \in 1 .. Len(s) : s[i] = t[i]
  BY <1>1, <1>2
<1>4. s = t
  BY <1>3, SeqEqual
<1> QED BY <1>4

\* Where the buffers and the next line lie in the file.
LEMMA Places ==
  ASSUME NEW c \in Seq(Byte), NEW r, Buffered(c, r), InFront(r)
  PROVE  \E b \in Nat, o \in Nat, f \in Nat, g \in Nat, l \in Nat, p \in Nat :
           /\ b = Base(r) /\ o = r.bufferOffset /\ f = Len(r.front) /\ g = Len(r.back) /\ l = Len(c)
           /\ p = NextAt(r) /\ p = b + o + 1 /\ b + f + g <= l /\ o <= f
           /\ r.fileOffset = b + f + g
<1>1. /\ Base(r) \in Nat /\ r.bufferOffset \in Nat /\ Len(r.front) \in Nat /\ Len(r.back) \in Nat
      /\ Len(c) \in Nat /\ NextAt(r) = Base(r) + r.bufferOffset + 1
      /\ Base(r) + Len(r.front) + Len(r.back) = r.fileOffset
      /\ r.bufferOffset <= Len(r.front) /\ r.fileOffset <= Len(c)
  BY BufferedTypes DEF InFront, NextAt, Buffered
<1>2. NextAt(r) \in Nat
  BY <1>1
<1>3. Base(r) + Len(r.front) + Len(r.back) <= Len(c)
  BY <1>1
<1> QED BY <1>1, <1>2, <1>3

\* A line that ends in the front buffer.
LEMMA LineInFront ==
  ASSUME NEW c \in Seq(Byte), NEW r, Buffered(c, r), InFront(r), ~Spans(r)
  PROVE  \E q \in Nat :
           /\ Stops(c, NextAt(r), q) /\ NextLine(r) = SubSeq(c, NextAt(r), q - 1)
           /\ Len(NextLine(r)) = q - NextAt(r) /\ NextLine(r) \in Seq(Byte)
           /\ q <= Len(c) /\ q - Base(r) \in 0 .. Len(r.front)
<1>1. PICK b \in Nat, o \in Nat, f \in Nat, g \in Nat, l \in Nat, p \in Nat :
        /\ b = Base(r) /\ o = r.bufferOffset /\ f = Len(r.front) /\ g = Len(r.back) /\ l = Len(c)
        /\ p = NextAt(r) /\ p = b + o + 1 /\ b + f + g <= l /\ o <= f
        /\ r.fileOffset = b + f + g
  BY Places
<1>2. PICK k \in Nat : k = f - o
  BY <1>1
<1>3. PICK s \in Seq(Byte) :
        s = Rest(r) /\ Len(s) = k /\ \A i \in 1 .. k : s[i] = c[p + i - 1]
  <2>1. /\ Rest(r) \in Seq(Byte) /\ Len(Rest(r)) = Len(r.front) - r.bufferOffset
        /\ \A i \in 1 .. Len(Rest(r)) : Rest(r)[i] = c[NextAt(r) + i - 1]
    BY RestIs
  <2>2. Len(Rest(r)) = k
    BY <1>1, <1>2, <2>1
  <2>3. \A i \in 1 .. k : Rest(r)[i] = c[p + i - 1]
    BY <1>1, <2>1, <2>2
  <2> Rest(r) \in Seq(Byte)
    BY <2>1
  <2> WITNESS Rest(r) \in Seq(Byte)
  <2> QED BY <2>2, <2>3
<1>4. PICK n \in Nat :
        /\ n < k /\ s[n + 1] = "LF" /\ NextLine(r) = SubSeq(s, 1, n)
        /\ \A i \in 1 .. n : s[i] # "LF"
  <2>1. HasLF(s) /\ NextLine(r) = UpToLF(s)
    BY <1>3 DEF Spans, NextLine
  <2>2. \A n \in 0 .. Len(s) : n \in Nat
    OBVIOUS
  <2> QED BY <1>3, <2>1, <2>2, UpToLFStops
<1>5. PICK q \in Nat : q = p + n
  OBVIOUS
<1>a. p = b + o + 1 /\ b + f + g <= l /\ o <= f /\ k = f - o /\ n < k /\ q = p + n
  BY <1>1, <1>2, <1>4, <1>5
<1>6. /\ p \in 1 .. l + 1 /\ q \in p .. l + 1 /\ q <= l /\ q - p = n
      /\ q - b \in 0 .. f /\ n + 1 \in 1 .. k /\ p + (n + 1) - 1 = q /\ n \in 0 .. k
  BY <1>a
<1>7. \A i \in p .. q - 1 : i - p + 1 \in 1 .. n /\ p + (i - p + 1) - 1 = i /\ i - p + 1 \in 1 .. k
  BY <1>a
<1>8. \A i \in 1 .. n : i \in 1 .. k
  BY <1>a
<1>9. PICK t \in Seq(Byte) : t = SubSeq(s, 1, n) /\ Len(t) = n /\ \A i \in 1 .. n : t[i] = s[i]
  <2>1. n \in 0 .. Len(s)
    BY <1>3, <1>6
  <2> QED BY <2>1, PrefixIs
<1>10. t = SubSeq(c, p, q - 1)
  <2>1. ASSUME NEW i \in 1 .. n PROVE t[i] = c[p + i - 1]
    BY <1>3, <1>8, <1>9
  <2>2. /\ p \in 1 .. Len(c) + 1 /\ q \in p .. Len(c) + 1 /\ Len(t) = q - p
        /\ \A i \in 1 .. Len(t) : t[i] = c[p + i - 1]
    BY <1>1, <1>6, <1>9, <2>1
  <2> QED BY <2>2, PartIs
<1>11. Stops(c, p, q)
  <2>1. ASSUME NEW i \in p .. q - 1 PROVE c[i] # "LF"
    <3>1. s[i - p + 1] = c[p + (i - p + 1) - 1] /\ s[i - p + 1] # "LF" /\ p + (i - p + 1) - 1 = i
      BY <1>3, <1>4, <1>7
    <3> QED BY <3>1
  <2>2. c[q] = "LF"
    <3>1. s[n + 1] = c[p + (n + 1) - 1]
      BY <1>3, <1>6
    <3> QED BY <1>4, <1>6, <3>1
  <2> QED BY <1>1, <1>6, <2>1, <2>2 DEF Stops
<1>12. NextLine(r) = t
  BY <1>4, <1>9
<1> QED BY <1>1, <1>6, <1>9, <1>10, <1>11, <1>12

\* A line that goes on in the back buffer, and may end with the file.
LEMMA LineAcross ==
  ASSUME NEW c \in Seq(Byte), NEW r, Buffered(c, r), InFront(r), Spans(r), ~TooLong(r)
  PROVE  \E q \in Nat :
           /\ Stops(c, NextAt(r), q) /\ NextLine(r) = SubSeq(c, NextAt(r), q - 1)
           /\ Len(NextLine(r)) = q - NextAt(r) /\ NextLine(r) \in Seq(Byte)
           /\ q - Base(r) - Len(r.front) \in 1 .. Len(r.back) + 1
           /\ q - Base(r) - Len(r.front) = Len(r.back) + 1 => r.eof
<1>1. PICK b \in Nat, o \in Nat, f \in Nat, g \in Nat, l \in Nat, p \in Nat :
        /\ b = Base(r) /\ o = r.bufferOffset /\ f = Len(r.front) /\ g = Len(r.back) /\ l = Len(c)
        /\ p = NextAt(r) /\ p = b + o + 1 /\ b + f + g <= l /\ o <= f
        /\ r.fileOffset = b + f + g
  BY Places
<1>2. PICK k \in Nat : k = f - o
  BY <1>1
<1>3. PICK s \in Seq(Byte) :
        s = Rest(r) /\ Len(s) = k /\ \A i \in 1 .. k : s[i] = c[p + i - 1]
  <2>1. /\ Rest(r) \in Seq(Byte) /\ Len(Rest(r)) = Len(r.front) - r.bufferOffset
        /\ \A i \in 1 .. Len(Rest(r)) : Rest(r)[i] = c[NextAt(r) + i - 1]
    BY RestIs
  <2>2. Len(Rest(r)) = k
    BY <1>1, <1>2, <2>1
  <2>3. \A i \in 1 .. k : Rest(r)[i] = c[p + i - 1]
    BY <1>1, <2>1, <2>2
  <2> Rest(r) \in Seq(Byte)
    BY <2>1
  <2> WITNESS Rest(r) \in Seq(Byte)
  <2> QED BY <2>2, <2>3
<1>4. PICK u \in Seq(Byte) : u = r.back /\ Len(u) = g /\ \A i \in 1 .. g : u[i] = c[b + f + i]
  BY <1>1, BufferedTypes DEF Buffered
<1>5. /\ NextLine(r) = s \o UpToLF(u) /\ (HasLF(u) \/ r.eof)
      /\ \A i \in 1 .. k : s[i] # "LF"
  BY <1>3, <1>4 DEF Spans, NextLine, TooLong, HasLF, Contains
<1>6. PICK n \in Nat :
        /\ n <= g /\ UpToLF(u) = SubSeq(u, 1, n)
        /\ \A i \in 1 .. n : u[i] # "LF"
        /\ n < g => u[n + 1] = "LF"
        /\ n = g => r.eof
  <2>1. \A n \in 0 .. Len(u) : n \in Nat /\ n <= g
    BY <1>1, <1>4
  <2>2. PICK n \in 0 .. Len(u) :
          /\ UpToLF(u) = SubSeq(u, 1, n)
          /\ \A i \in 1 .. n : u[i] # "LF"
          /\ IF HasLF(u) THEN n < Len(u) /\ u[n + 1] = "LF" ELSE n = Len(u)
    BY UpToLFStops
  <2>3. n = g => r.eof
    BY <1>4, <1>5, <2>1, <2>2
  <2>4. n \in Nat /\ n <= g /\ (n < g => u[n + 1] = "LF")
    BY <1>4, <2>1, <2>2
  <2> QED BY <2>2, <2>3, <2>4
<1>7. PICK q \in Nat : q = b + f + n + 1
  OBVIOUS
<1>a. p = b + o + 1 /\ b + f + g <= l /\ o <= f /\ k = f - o /\ n <= g /\ q = b + f + n + 1
  BY <1>1, <1>2, <1>6, <1>7
<1>8. /\ p \in 1 .. l + 1 /\ q \in p .. l + 1 /\ q - p = k + n /\ k + n \in Nat
      /\ q - b - f = n + 1 /\ n + 1 \in 1 .. g + 1 /\ n \in 0 .. g /\ (n + 1 = g + 1 => n = g)
  BY <1>a
<1>9. /\ \A i \in p .. q - 1 :
           /\ i <= b + f => i - p + 1 \in 1 .. k /\ p + (i - p + 1) - 1 = i
           /\ ~(i <= b + f) => i - b - f \in 1 .. n /\ i - b - f \in 1 .. g /\ b + f + (i - b - f) = i
      /\ n < g => n + 1 \in 1 .. g /\ b + f + (n + 1) = q
      /\ q <= l /\ (n = g => l = b + f + g) => n < g
  <2>1. ASSUME NEW i \in p .. q - 1, i <= b + f
        PROVE  i - p + 1 \in 1 .. k /\ p + (i - p + 1) - 1 = i
    BY <1>a, <2>1
  <2>2. ASSUME NEW i \in p .. q - 1, ~(i <= b + f)
        PROVE  i - b - f \in 1 .. n /\ i - b - f \in 1 .. g /\ b + f + (i - b - f) = i
    BY <1>a, <2>2
  <2>3. n < g => n + 1 \in 1 .. g /\ b + f + (n + 1) = q
    BY <1>a
  <2>4. q <= l /\ (n = g => l = b + f + g) => n < g
    BY <1>a
  <2> QED BY <2>1, <2>2, <2>3, <2>4
<1>10. \A i \in 1 .. k + n :
         /\ i <= k => i \in 1 .. k
         /\ ~(i <= k) => i - k \in 1 .. n /\ i - k \in 1 .. g /\ b + f + (i - k) = p + i - 1
  <2>1. ASSUME NEW i \in 1 .. k + n, ~(i <= k)
        PROVE  i - k \in 1 .. n /\ i - k \in 1 .. g /\ b + f + (i - k) = p + i - 1
    BY <1>a, <2>1
  <2>2. \A i \in 1 .. k + n : i <= k => i \in 1 .. k
    BY <1>a
  <2> QED BY <2>1, <2>2
<1>11. Stops(c, p, q)
  <2>1. ASSUME NEW i \in p .. q - 1 PROVE c[i] # "LF"
    <3>1. CASE i <= b + f
      <4>1. i - p + 1 \in 1 .. k /\ p + (i - p + 1) - 1 = i
        BY <1>9, <3>1
      <4>2. s[i - p + 1] = c[p + (i - p + 1) - 1] /\ s[i - p + 1] # "LF"
        BY <1>3, <1>5, <4>1
      <4> QED BY <4>1, <4>2
    <3>2. CASE ~(i <= b + f)
      <4>1. i - b - f \in 1 .. n /\ i - b - f \in 1 .. g /\ b + f + (i - b - f) = i
        BY <1>9, <3>2
      <4>2. u[i - b - f] = c[b + f + (i - b - f)] /\ u[i - b - f] # "LF"
        BY <1>4, <1>6, <4>1
      <4> QED BY <4>1, <4>2
    <3> QED BY <3>1, <3>2
  <2>2. ASSUME q <= l PROVE c[q] = "LF"
    <3>1. n = g => l = b + f + g
      BY <1>1, <1>6 DEF Buffered
    <3>2. n < g
      BY <1>9, <2>2, <3>1
    <3>3. u[n + 1] = c[b + f + (n + 1)] /\ b + f + (n + 1) = q
      BY <1>4, <1>9, <3>2
    <3> QED BY <1>6, <3>2, <3>3
  <2> QED BY <1>1, <1>8, <2>1, <2>2 DEF Stops
<1>12. PICK v \in Seq(Byte) : v = SubSeq(u, 1, n) /\ Len(v) = n /\ \A i \in 1 .. n : v[i] = u[i]
  <2>1. n \in 0 .. Len(u)
    BY <1>4, <1>8
  <2> QED BY <2>1, PrefixIs
<1>13. PICK t \in Seq(Byte) :
         /\ t = s \o v /\ Len(t) = k + n
         /\ \A i \in 1 .. k + n : t[i] = IF i <= k THEN s[i] ELSE v[i - k]
  <2>1. /\ s \o v \in Seq(Byte) /\ Len(s \o v) = Len(s) + Len(v)
        /\ \A i \in 1 .. Len(s) + Len(v) : (s \o v)[i] = IF i <= Len(s) THEN s[i] ELSE v[i - Len(s)]
    BY ConcatProperties
  <2>2. /\ Len(s \o v) = k + n
        /\ \A i \in 1 .. k + n : (s \o v)[i] = IF i <= k THEN s[i] ELSE v[i - k]
    BY <1>3, <1>12, <2>1
  <2> WITNESS s \o v \in Seq(Byte)
  <2> QED BY <2>2
<1>14. ASSUME NEW i \in 1 .. k + n PROVE t[i] = c[p + i - 1]
  <2>1. CASE i <= k
    <3>1. i \in 1 .. k
      BY <1>10, <2>1
    <3> QED BY <1>3, <1>13, <2>1, <3>1
  <2>2. CASE ~(i <= k)
    <3>1. i - k \in 1 .. n /\ i - k \in 1 .. g /\ b + f + (i - k) = p + i - 1
      BY <1>10, <2>2
    <3>2. t[i] = v[i - k]
      BY <1>13, <2>2
    <3>3. v[i - k] = u[i - k] /\ u[i - k] = c[b + f + (i - k)]
      BY <1>4, <1>12, <3>1
    <3> QED BY <3>1, <3>2, <3>3
  <2> QED BY <2>1, <2>2
<1>15. t = SubSeq(c, p, q - 1)
  <2>1. /\ p \in 1 .. Len(c) + 1 /\ q \in p .. Len(c) + 1 /\ Len(t) = q - p
        /\ \A i \in 1 .. Len(t) : t[i] = c[p + i - 1]
    BY <1>1, <1>8, <1>13, <1>14
  <2> QED BY <2>1, PartIs
<1>16. NextLine(r) = t
  BY <1>5, <1>6, <1>12, <1>13
<1>17. q - b - f = g + 1 => r.eof
  BY <1>6, <1>8
<1> QED BY <1>1, <1>8, <1>11, <1>13, <1>15, <1>16, <1>17

\* The line that is returned, as a part of the file, and where it ends in the buffers.
LEMMA NextLineIs ==
  ASSUME NEW c \in Seq(Byte), NEW r, Buffered(c, r), InFront(r), ~TooLong(r)
  PROVE  \E q \in Nat :
           /\ Stops(c, NextAt(r), q) /\ NextLine(r) = SubSeq(c, NextAt(r), q - 1)
           /\ Len(NextLine(r)) = q - NextAt(r) /\ NextLine(r) \in Seq(Byte)
           /\ ~Spans(r) => q <= Len(c) /\ q - Base(r) \in 0 .. Len(r.front)
           /\ Spans(r) => /\ q - Base(r) - Len(r.front) \in 1 .. Len(r.back) + 1
                          /\ q - Base(r) - Len(r.front) = Len(r.back) + 1 => r.eof
<1>1. CASE Spans(r)
  BY <1>1, LineAcross
<1>2. CASE ~Spans(r)
  BY <1>2, LineInFront
<1> QED BY <1>1, <1>2

\* Where the reader moves to is behind the line feed, in the terms of its buffers.
LEMMA PastTheLine ==
  ASSUME NEW c \in Seq(Byte), NEW r, Buffered(c, r), InFront(r), NEW q \in Nat,
         Len(NextLine(r)) = q - NextAt(r)
  PROVE  r.bufferOffset + Len(NextLine(r)) + 1 = q - Base(r)
<1>1. PICK b \in Nat, o \in Nat, f \in Nat, g \in Nat, l \in Nat, p \in Nat :
        /\ b = Base(r) /\ o = r.bufferOffset /\ f = Len(r.front) /\ g = Len(r.back) /\ l = Len(c)
        /\ p = NextAt(r) /\ p = b + o + 1 /\ b + f + g <= l /\ o <= f
        /\ r.fileOffset = b + f + g
  BY Places
<1>2. PICK m \in Int : m = Len(NextLine(r)) /\ m = q - p
  BY <1>1
<1>3. o + m + 1 = q - b
  <2>1. p = b + o + 1 /\ m = q - p
    BY <1>1, <1>2
  <2> QED BY <2>1
<1> QED BY <1>1, <1>2, <1>3

\* The line ended in the front buffer.
LEMMA BehindInFront ==
  ASSUME NEW c \in Seq(Byte), NEW r, Buffered(c, r), InFront(r), ~Spans(r), NEW q \in Nat,
         Len(NextLine(r)) = q - NextAt(r), q - Base(r) \in 0 .. Len(r.front)
  PROVE  Buffered(c, Behind(r)) /\ InFront(Behind(r)) /\ NextAt(Behind(r)) = q + 1
         /\ Behind(r).fileOffset = r.fileOffset
<1>1. PICK s : s = Behind(r)
  OBVIOUS
<1>2. s = [r EXCEPT !.bufferOffset = q - Base(r)]
  BY <1>1, PastTheLine DEF Behind
<1>3. q - Base(r) \in Int /\ Base(r) \in Nat /\ r \in Readers
  BY BufferedTypes DEF Buffered
<1>4. /\ s \in Readers /\ s.fileOffset = r.fileOffset /\ (s.eof <=> r.eof)
      /\ s.front = r.front /\ s.back = r.back /\ s.bufferOffset = q - Base(r)
  BY <1>2, <1>3, Moved
<1>5. Base(s) = Base(r)
  BY <1>4 DEF Base
<1>6. Buffered(c, s)
  BY <1>4, <1>5 DEF Buffered
<1>7. InFront(s) /\ NextAt(s) = q + 1
  <2>1. Base(r) + (q - Base(r)) + 1 = q + 1
    BY <1>3
  <2> QED BY <1>4, <1>5, <2>1 DEF InFront, NextAt
<1> QED BY <1>1, <1>4, <1>6, <1>7

\* The line ended in the back buffer, and there is more to read.
LEMMA BehindReadsMore ==
  ASSUME content \in Seq(Byte), NEW r, Buffered(content, r), InFront(r), Spans(r), ~r.eof, NEW q \in Nat,
         Len(NextLine(r)) = q - NextAt(r), q - Base(r) - Len(r.front) \in 1 .. Len(r.back)
  PROVE  Buffered(content, Behind(r)) /\ InFront(Behind(r)) /\ NextAt(Behind(r)) = q + 1
         /\ q <= Len(content) /\ Behind(r).fileOffset >= r.fileOffset
<1>1. PICK b \in Nat, o \in Nat, f \in Nat, g \in Nat, l \in Nat, p \in Nat :
        /\ b = Base(r) /\ o = r.bufferOffset /\ f = Len(r.front) /\ g = Len(r.back) /\ l = Len(content)
        /\ p = NextAt(r) /\ p = b + o + 1 /\ b + f + g <= l /\ o <= f
        /\ r.fileOffset = b + f + g
  BY Places
<1>2. f = READ_BUFFER_SIZE /\ g = READ_BUFFER_SIZE
  BY <1>1 DEF Buffered
<1>3. PICK d : d = [r EXCEPT !.bufferOffset = q - b]
  OBVIOUS
<1>4. PICK s : s = Behind(r) /\ s = read_more(d)
  BY <1>1, <1>3, PastTheLine DEF Behind
<1>5. q - b \in Int /\ r \in Readers
  BY DEF Buffered
<1>6. /\ d \in Readers /\ d.fileOffset = b + f + g /\ d.back = r.back /\ d.bufferOffset = q - b
  BY <1>1, <1>3, <1>5, Moved
<1>a. b + f + g \in 0 .. Len(content)
  <2>1. b + f + g <= l
    BY <1>1
  <2>2. b + f + g \in 0 .. l
    BY <2>1
  <2> QED BY <1>1, <2>2
<1>7. PICK h \in Seq(Byte) : h = Chunk(b + f + g)
  BY <1>a, ChunkIs
<1>8. PICK k \in Nat :
        /\ k = Len(h) /\ k <= f /\ b + f + g + k <= l
        /\ k < f => b + f + g + k = l
        /\ \A i \in 1 .. k : h[i] = content[b + f + g + i]
  <2>2. /\ Len(h) \in 0 .. f /\ b + f + g + Len(h) <= l
        /\ Len(h) < f => b + f + g + Len(h) = l
        /\ \A i \in 1 .. Len(h) : h[i] = content[b + f + g + i]
    BY <1>1, <1>2, <1>7, <1>a, ChunkIs
  <2>3. Len(h) \in Nat /\ Len(h) <= f
    BY <2>2
  <2> WITNESS Len(h) \in Nat
  <2> QED BY <2>2, <2>3
<1>9. /\ s \in Readers /\ s.fileOffset = b + f + g + k /\ (s.eof <=> k < f)
      /\ s.front = r.back /\ s.back = h /\ s.bufferOffset = q - b - f
  <2>1. d.fileOffset <= Len(content) /\ Chunk(d.fileOffset) = h
    BY <1>1, <1>6, <1>7
  <2>2. /\ s \in Readers /\ s.fileOffset = d.fileOffset + Len(Chunk(d.fileOffset))
        /\ s.eof <=> Len(Chunk(d.fileOffset)) < READ_BUFFER_SIZE
        /\ s.front = d.back /\ s.back = Chunk(d.fileOffset)
        /\ s.bufferOffset = d.bufferOffset - READ_BUFFER_SIZE
    BY <1>4, <1>6, <2>1, ReadMoreIs
  <2> QED BY <1>2, <1>6, <1>8, <2>1, <2>2
<1>10. Base(s) = b + f
  <2>1. b + f + g + k - k - g = b + f
    OBVIOUS
  <2>2. Base(s) = b + f + g + k - k - g
    <3>1. Base(s) = s.fileOffset - Len(s.back) - Len(s.front)
      BY DEF Base
    <3>2. s.fileOffset = b + f + g + k /\ Len(s.back) = k /\ Len(s.front) = g
      BY <1>1, <1>8, <1>9
    <3> QED BY <3>1, <3>2
  <2> QED BY <2>1, <2>2
<1>11. Buffered(content, s)
  <2>1. s.fileOffset <= Len(content) /\ (s.eof => s.fileOffset = Len(content))
    BY <1>1, <1>8, <1>9
  <2>2. /\ Len(s.front) = READ_BUFFER_SIZE /\ Len(s.front) <= READ_BUFFER_SIZE
        /\ Len(s.back) <= READ_BUFFER_SIZE /\ (~s.eof => Len(s.back) = READ_BUFFER_SIZE)
    <3>1. Len(s.front) = g /\ Len(s.back) = k
      BY <1>1, <1>8, <1>9
    <3>2. ~s.eof => k = f
      BY <1>8, <1>9
    <3>3. g = READ_BUFFER_SIZE /\ g <= READ_BUFFER_SIZE /\ k <= READ_BUFFER_SIZE /\ f = READ_BUFFER_SIZE
      BY <1>2, <1>8
    <3> QED BY <3>1, <3>2, <3>3
  <2>3. \A i \in 1 .. Len(s.front) : s.front[i] = content[Base(s) + i]
    BY <1>1, <1>9, <1>10 DEF Buffered
  <2>4. \A i \in 1 .. Len(s.back) : s.back[i] = content[Base(s) + Len(s.front) + i]
    BY <1>1, <1>8, <1>9, <1>10
  <2>5. Base(s) >= 0
    BY <1>10
  <2> QED BY <1>9, <2>1, <2>2, <2>3, <2>4, <2>5 DEF Buffered
<1>12. q - b - f \in 1 .. g
  BY <1>1
<1>13. InFront(s)
  <2>1. q - b - f \in 0 .. g
    BY <1>12
  <2> QED BY <1>1, <1>9, <2>1 DEF InFront
<1>14. NextAt(s) = q + 1
  <2>1. b + f + (q - b - f) + 1 = q + 1
    OBVIOUS
  <2> QED BY <1>9, <1>10, <2>1 DEF NextAt
<1>15. q <= l
  <2>1. b + f + g <= l
    BY <1>1
  <2> QED BY <1>12, <2>1
<1>16. b + f + g + k >= b + f + g
  OBVIOUS
<1> QED BY <1>1, <1>4, <1>9, <1>11, <1>13, <1>14, <1>15, <1>16

\* The line ended with the file, in the front buffer.
LEMMA BehindTheFile ==
  ASSUME NEW c \in Seq(Byte), NEW r, Buffered(c, r), InFront(r), Spans(r), r.eof, r.back = <<>>, NEW q \in Nat,
         Len(NextLine(r)) = q - NextAt(r), q - Base(r) - Len(r.front) \in 1 .. Len(r.back) + 1
  PROVE  Buffered(c, Behind(r)) /\ Ended(Behind(r)) /\ q = Len(c) + 1
         /\ Behind(r).fileOffset = r.fileOffset
<1>1. PICK b \in Nat, o \in Nat, f \in Nat, g \in Nat, l \in Nat, p \in Nat :
        /\ b = Base(r) /\ o = r.bufferOffset /\ f = Len(r.front) /\ g = Len(r.back) /\ l = Len(c)
        /\ p = NextAt(r) /\ p = b + o + 1 /\ b + f + g <= l /\ o <= f
        /\ r.fileOffset = b + f + g
  BY Places
<1>2. g = 0 /\ b + f + g = l
  BY <1>1 DEF Buffered
<1>3. q - b = f + 1 /\ q = l + 1
  <2>1. q - b - f \in 1 .. 1
    BY <1>1, <1>2
  <2>2. b + f = l
    BY <1>2
  <2> QED BY <2>1, <2>2
<1>4. PICK s : s = Behind(r)
  OBVIOUS
<1>5. s = [r EXCEPT !.bufferOffset = q - b]
  BY <1>1, <1>4, PastTheLine DEF Behind
<1>6. /\ s \in Readers /\ s.fileOffset = r.fileOffset /\ (s.eof <=> r.eof)
      /\ s.front = r.front /\ s.back = r.back /\ s.bufferOffset = q - b
  <2>1. r \in Readers /\ q - b \in Int
    BY DEF Buffered
  <2> QED BY <1>5, <2>1, Moved
<1>7. Base(s) = Base(r)
  BY <1>6 DEF Base
<1>8. Buffered(c, s)
  BY <1>6, <1>7 DEF Buffered
<1>9. Ended(s)
  BY <1>1, <1>3, <1>6 DEF Ended
<1> QED BY <1>1, <1>3, <1>4, <1>6, <1>8, <1>9

\* The line ended in the back buffer, and all of the file is read.
LEMMA BehindSwapped ==
  ASSUME NEW c \in Seq(Byte), NEW r, Buffered(c, r), InFront(r), Spans(r), r.eof, r.back # <<>>, NEW q \in Nat,
         Len(NextLine(r)) = q - NextAt(r), q - Base(r) - Len(r.front) \in 1 .. Len(r.back) + 1
  PROVE  /\ Buffered(c, Behind(r)) /\ Behind(r).fileOffset = r.fileOffset
         /\ IF q <= Len(c) THEN InFront(Behind(r)) /\ NextAt(Behind(r)) = q + 1
                           ELSE Ended(Behind(r)) /\ q = Len(c) + 1
<1>1. PICK b \in Nat, o \in Nat, f \in Nat, g \in Nat, l \in Nat, p \in Nat :
        /\ b = Base(r) /\ o = r.bufferOffset /\ f = Len(r.front) /\ g = Len(r.back) /\ l = Len(c)
        /\ p = NextAt(r) /\ p = b + o + 1 /\ b + f + g <= l /\ o <= f
        /\ r.fileOffset = b + f + g
  BY Places
<1>2. b + f + g = l /\ f = READ_BUFFER_SIZE /\ g <= READ_BUFFER_SIZE
  <2>1. g # 0
    BY <1>1, BufferedTypes
  <2>2. Len(r.back) > 0
    BY <1>1, <2>1
  <2> QED BY <1>1, <2>2 DEF Buffered
<1>3. q - b - f \in 1 .. g + 1
  BY <1>1
<1>4. PICK d : d = [r EXCEPT !.bufferOffset = q - b]
  OBVIOUS
<1>5. r \in Readers /\ q - b \in Int
  BY DEF Buffered
<1>6. PICK s : s = Behind(r)
  OBVIOUS
<1>7. PICK z \in Seq(Byte) : z = <<>> /\ Len(z) = 0
  <2> <<>> \in Seq(Byte) /\ Len(<<>>) = 0
    OBVIOUS
  <2> WITNESS <<>> \in Seq(Byte)
  <2> QED OBVIOUS
<1>8. s = [d EXCEPT !.front = r.back, !.back = z, !.bufferOffset = d.bufferOffset - f]
  <2>1. r.bufferOffset + Len(NextLine(r)) + 1 = q - b
    BY <1>1, PastTheLine
  <2>2. s = [d EXCEPT !.front = r.back, !.back = <<>>, !.bufferOffset = d.bufferOffset - READ_BUFFER_SIZE]
    BY <1>4, <1>6, <2>1 DEF Behind
  <2> QED BY <1>2, <1>7, <2>2
<1>9. /\ d \in Readers /\ d.fileOffset = b + f + g /\ (d.eof <=> r.eof) /\ d.bufferOffset = q - b
  BY <1>1, <1>4, <1>5, Moved
<1>10. /\ s \in Readers /\ s.fileOffset = b + f + g /\ s.eof
       /\ s.front = r.back /\ s.back = z /\ s.bufferOffset = q - b - f
  <2>1. r.back \in Seq(Byte) /\ q - b - f \in Int
    BY BufferedTypes
  <2>2. s = [d EXCEPT !.front = r.back, !.back = z, !.bufferOffset = q - b - f]
    BY <1>8, <1>9
  <2>3. /\ s \in Readers /\ s.fileOffset = d.fileOffset /\ (s.eof <=> d.eof)
        /\ s.front = r.back /\ s.back = z /\ s.bufferOffset = q - b - f
    BY <1>9, <2>1, <2>2 DEF Readers
  <2> QED BY <1>9, <2>3
<1>11. Base(s) = b + f
  <2>1. Base(s) = s.fileOffset - Len(s.back) - Len(s.front)
    BY DEF Base
  <2>2. s.fileOffset = b + f + g /\ Len(s.back) = 0 /\ Len(s.front) = g
    BY <1>1, <1>7, <1>10
  <2> QED BY <2>1, <2>2
<1>12. Buffered(c, s)
  <2>1. s.fileOffset <= Len(c) /\ s.fileOffset = Len(c)
    BY <1>1, <1>2, <1>10
  <2>2. Len(s.front) <= READ_BUFFER_SIZE /\ Len(s.back) <= READ_BUFFER_SIZE /\ ~(Len(s.back) > 0)
    BY <1>1, <1>2, <1>7, <1>10, ReaderAssumption
  <2>3. \A i \in 1 .. Len(s.front) : s.front[i] = c[Base(s) + i]
    BY <1>1, <1>10, <1>11 DEF Buffered
  <2>4. \A i \in 1 .. Len(s.back) : s.back[i] = c[Base(s) + Len(s.front) + i]
    BY <1>7, <1>10
  <2>5. Base(s) >= 0
    BY <1>11
  <2> QED BY <1>10, <2>1, <2>2, <2>3, <2>4, <2>5 DEF Buffered
<1>13. CASE q <= l
  <2>1. q - b - f \in 0 .. g /\ b + f + (q - b - f) + 1 = q + 1
    <3>1. q <= b + f + g
      BY <1>2, <1>13
    <3>2. q - b - f \in 0 .. g
      BY <1>3, <3>1
    <3>3. b + f + (q - b - f) + 1 = q + 1
      OBVIOUS
    <3> QED BY <3>2, <3>3
  <2> QED BY <1>1, <1>6, <1>10, <1>11, <1>12, <1>13, <2>1 DEF InFront, NextAt
<1>14. CASE ~(q <= l)
  <2>1. q - b - f = g + 1 /\ q = l + 1
    BY <1>2, <1>3, <1>14
  <2> QED BY <1>1, <1>6, <1>7, <1>10, <1>12, <1>14, <2>1 DEF Ended
<1> QED BY <1>13, <1>14

\* The reader behind a line stands where the next one begins, or is done.
LEMMA BehindIs ==
  ASSUME content \in Seq(Byte), NEW r, Buffered(content, r), InFront(r), ~TooLong(r)
  PROVE  \E q \in Nat :
           /\ Stops(content, NextAt(r), q) /\ NextLine(r) = SubSeq(content, NextAt(r), q - 1)
           /\ NextLine(r) \in Seq(Byte)
           /\ Buffered(content, Behind(r)) /\ Behind(r).fileOffset >= r.fileOffset
           /\ IF q <= Len(content) THEN InFront(Behind(r)) /\ NextAt(Behind(r)) = q + 1
                                   ELSE Ended(Behind(r)) /\ q = Len(content) + 1
<1>1. PICK q \in Nat :
        /\ Stops(content, NextAt(r), q) /\ NextLine(r) = SubSeq(content, NextAt(r), q - 1)
        /\ Len(NextLine(r)) = q - NextAt(r) /\ NextLine(r) \in Seq(Byte)
        /\ ~Spans(r) => q <= Len(content) /\ q - Base(r) \in 0 .. Len(r.front)
        /\ Spans(r) => /\ q - Base(r) - Len(r.front) \in 1 .. Len(r.back) + 1
                       /\ q - Base(r) - Len(r.front) = Len(r.back) + 1 => r.eof
  BY NextLineIs
<1>2. /\ Buffered(content, Behind(r)) /\ Behind(r).fileOffset >= r.fileOffset
      /\ IF q <= Len(content) THEN InFront(Behind(r)) /\ NextAt(Behind(r)) = q + 1
                              ELSE Ended(Behind(r)) /\ q = Len(content) + 1
  <2>0. r.fileOffset \in Nat /\ Len(content) \in Nat /\ Len(r.back) \in Nat
    BY BufferedTypes
  <2>1. r.fileOffset >= r.fileOffset /\ ~(Len(content) + 1 <= Len(content))
    BY <2>0
  <2>2. CASE ~Spans(r)
    <3>1. /\ Len(NextLine(r)) = q - NextAt(r) /\ q <= Len(content) /\ q - Base(r) \in 0 .. Len(r.front)
      BY <1>1, <2>2
    <3>2. Buffered(content, Behind(r)) /\ InFront(Behind(r)) /\ NextAt(Behind(r)) = q + 1
          /\ Behind(r).fileOffset = r.fileOffset
      BY <2>2, <3>1, BehindInFront
    <3> QED BY <2>1, <3>1, <3>2
  <2>3. CASE Spans(r) /\ ~r.eof
    <3>1. q - Base(r) - Len(r.front) \in 1 .. Len(r.back)
      <4>1. q - Base(r) - Len(r.front) \in 1 .. Len(r.back) + 1
            /\ q - Base(r) - Len(r.front) # Len(r.back) + 1
        BY <1>1, <2>3
      <4> QED BY <2>0, <4>1
    <3>2. Len(NextLine(r)) = q - NextAt(r)
      BY <1>1
    <3> QED BY <2>3, <3>1, <3>2, BehindReadsMore
  <2>4. CASE Spans(r) /\ r.eof /\ r.back = <<>>
    <3>1. Len(NextLine(r)) = q - NextAt(r) /\ q - Base(r) - Len(r.front) \in 1 .. Len(r.back) + 1
      BY <1>1, <2>4
    <3>2. Buffered(content, Behind(r)) /\ Ended(Behind(r)) /\ q = Len(content) + 1
          /\ Behind(r).fileOffset = r.fileOffset
      BY <2>4, <3>1, BehindTheFile
    <3> QED BY <2>1, <3>2
  <2>5. CASE Spans(r) /\ r.eof /\ r.back # <<>>
    <3>1. Len(NextLine(r)) = q - NextAt(r) /\ q - Base(r) - Len(r.front) \in 1 .. Len(r.back) + 1
      BY <1>1, <2>5
    <3>2. /\ Buffered(content, Behind(r)) /\ Behind(r).fileOffset = r.fileOffset
          /\ IF q <= Len(content) THEN InFront(Behind(r)) /\ NextAt(Behind(r)) = q + 1
                                  ELSE Ended(Behind(r)) /\ q = Len(content) + 1
      BY <2>5, <3>1, BehindSwapped
    <3> QED BY <2>1, <3>2
  <2> QED BY <2>2, <2>3, <2>4, <2>5
<1> QED BY <1>1, <1>2

\* A line whose end is in neither buffer fills one of them at least.
LEMMA TooLongIs ==
  ASSUME NEW c \in Seq(Byte), NEW r, Buffered(c, r), InFront(r), TooLong(r), NEW q, Stops(c, NextAt(r), q)
  PROVE  q - NextAt(r) >= READ_BUFFER_SIZE
<1>1. PICK b \in Nat, o \in Nat, f \in Nat, g \in Nat, l \in Nat, p \in Nat :
        /\ b = Base(r) /\ o = r.bufferOffset /\ f = Len(r.front) /\ g = Len(r.back) /\ l = Len(c)
        /\ p = NextAt(r) /\ p = b + o + 1 /\ b + f + g <= l /\ o <= f
        /\ r.fileOffset = b + f + g
  BY Places
<1>2. q \in Nat /\ q >= p /\ (q <= l => c[q] = "LF")
  BY <1>1 DEF Stops
<1>3. f = READ_BUFFER_SIZE /\ g = READ_BUFFER_SIZE
  BY <1>1 DEF Buffered, TooLong
<1>4. \A i \in 1 .. f - o : c[p + i - 1] # "LF"
  <2>1. /\ Len(Rest(r)) = f - o
        /\ \A i \in 1 .. Len(Rest(r)) : Rest(r)[i] = c[p + i - 1]
    <3>1. /\ Len(Rest(r)) = Len(r.front) - r.bufferOffset
          /\ \A i \in 1 .. Len(Rest(r)) : Rest(r)[i] = c[NextAt(r) + i - 1]
      BY RestIs
    <3> QED BY <1>1, <3>1
  <2>2. \A i \in 1 .. Len(Rest(r)) : Rest(r)[i] # "LF"
    BY DEF TooLong, Spans, HasLF, Contains
  <2> QED BY <2>1, <2>2
<1>5. \A i \in 1 .. g : c[b + f + i] # "LF"
  <2>1. \A i \in 1 .. g : r.back[i] = c[b + f + i]
    BY <1>1 DEF Buffered
  <2>2. \A i \in 1 .. g : r.back[i] # "LF"
    BY <1>1 DEF TooLong, HasLF, Contains
  <2> QED BY <2>1, <2>2
<1>a. p = b + o + 1 /\ b + f + g <= l /\ o <= f
  BY <1>1
<1>6. ASSUME q <= b + f + g PROVE FALSE
  <2>1. c[q] = "LF"
    BY <1>2, <1>6, <1>a
  <2>2. CASE q <= b + f
    <3>1. q - p + 1 \in 1 .. f - o /\ p + (q - p + 1) - 1 = q
      BY <1>2, <1>a, <2>2
    <3>2. c[p + (q - p + 1) - 1] # "LF"
      BY <1>4, <3>1
    <3> QED BY <2>1, <3>1, <3>2
  <2>3. CASE ~(q <= b + f)
    <3>1. q - b - f \in 1 .. g /\ b + f + (q - b - f) = q
      BY <1>2, <1>6, <2>3
    <3>2. c[b + f + (q - b - f)] # "LF"
      BY <1>5, <3>1
    <3> QED BY <2>1, <3>1, <3>2
  <2> QED BY <2>2, <2>3
<1>7. q - p >= g
  BY <1>2, <1>6, <1>a
<1> QED BY <1>1, <1>3, <1>7

-----------------------------------------------------------------------------
(* The invariant.                                                          *)

AtStart == reader = NewReader /\ lines = <<>>
AtLine ==
  /\ Buffered(content, reader) /\ reader.fileOffset > 0 /\ InFront(reader)
  /\ Begins(content, Len(lines) + 1, NextAt(reader))
AtEnd == Buffered(content, reader) /\ Ended(reader) /\ Len(lines) = NumLines

\* After a failure too, the buffers hold a part of the file.
BuffersInv ==
  \/ reader = NewReader
  \/ Buffered(content, reader) /\ reader.bufferOffset \in 0 .. READ_BUFFER_SIZE + 1

LinesInv == Len(lines) <= NumLines /\ \A k \in DOMAIN lines : lines[k] = WithoutCR(RawLine(k))

TypesInv ==
  /\ content \in Seq(Byte) /\ lines \in Seq(Seq(Byte))
  /\ outcome \in {"none", "ParserError", "FileIO"}

ReaderInv ==
  /\ TypesInv /\ BuffersInv /\ LinesInv /\ RejectsForAReason
  /\ outcome = "none" => AtStart \/ AtLine \/ AtEnd

LEMMA WithoutCRIsBytes ==
  ASSUME NEW l \in Seq(Byte)
  PROVE  WithoutCR(l) \in Seq(Byte)
<1>1. Len(l) \in Nat
  OBVIOUS
<1>2. CASE l = <<>>
  BY <1>2 DEF WithoutCR
<1>3. CASE l # <<>>
  <2>1. Len(l) - 1 \in 0 .. Len(l)
    BY <1>1, <1>3, EmptySeq
  <2>2. Front(l) \in Seq(Byte)
    BY <2>1, PrefixIs DEF Front
  <2> QED BY <2>2 DEF WithoutCR
<1> QED BY <1>2, <1>3

\* Something has been read of a file that is not empty.
LEMMA SomethingIsRead ==
  ASSUME NEW c \in Seq(Byte), NEW r, Buffered(c, r), Len(c) > 0
  PROVE  r.fileOffset > 0
<1>1. PICK b \in Nat, f \in Nat, g \in Nat, n \in Nat :
        /\ b = Base(r) /\ f = Len(r.front) /\ g = Len(r.back) /\ n = r.fileOffset
        /\ b + f + g = n
  BY BufferedTypes
<1>2. CASE r.eof
  BY <1>2 DEF Buffered
<1>3. CASE ~r.eof
  <2>1. f > 0
    BY <1>1, <1>3, ReaderAssumption DEF Buffered
  <2>2. b + f + g = n
    BY <1>1
  <2>3. n > 0
    BY <2>1, <2>2
  <2> QED BY <1>1, <2>3
<1> QED BY <1>2, <1>3

\* A call begins with the next line in the front buffer.
LEMMA StandsAtLine ==
  ASSUME ReaderInv, Reading
  PROVE  /\ Buffered(content, Filled) /\ InFront(Filled)
         /\ Begins(content, Len(lines) + 1, NextAt(Filled))
<1>1. outcome = "none" /\ ~done /\ content \in Seq(Byte)
  BY DEF Reading, ReaderInv, TypesInv
<1>2. CASE AtStart
  <2>1. Buffered(content, Filled) /\ Base(Filled) = 0 /\ Filled.bufferOffset = 0
    BY <1>1, <1>2, FirstFill DEF AtStart
  <2>2. NextAt(Filled) = 1
    BY <2>1 DEF NextAt
  <2>3. InFront(Filled)
    <3>1. Len(Filled.front) \in Nat
      BY <1>1, <2>1, BufferedTypes
    <3> QED BY <2>1, <3>1 DEF InFront
  <2>4. Cardinality(Upto(content, 0)) = 0
    BY <1>1, UptoIsFinite
  <2>5. Len(lines) + 1 = 1
    BY <1>2 DEF AtStart
  <2>6. 1 \in 1 .. Len(content) + 1
    BY <1>1
  <2>7. Begins(content, 1, 1)
    BY <2>4, <2>6 DEF Begins
  <2> QED BY <2>1, <2>2, <2>3, <2>5, <2>7
<1>3. CASE AtLine
  <2>1. reader.fileOffset # 0
    BY <1>1, <1>3, BufferedTypes DEF AtLine
  <2>2. Filled = reader
    BY <2>1 DEF Filled
  <2> QED BY <1>3, <2>2 DEF AtLine
<1>4. ~AtEnd
  BY <1>1 DEF AtEnd, Ended, done
<1> QED BY <1>1, <1>2, <1>3, <1>4 DEF ReaderInv

\* The lines of a file do not change while it is read.
LEMMA LinesStay ==
  ASSUME content' = content
  PROVE  NumLines' = NumLines /\ \A k : RawLine(k)' = RawLine(k)
<1> DEFINE Feeds(c) == {i \in 1 .. Len(c) : c[i] = "LF"}
           Num(c) == Cardinality(Feeds(c)) + 1
           EndOf(c, k) == CHOOSE i \in Feeds(c) : Cardinality({j \in Feeds(c) : j <= i}) = k
           Line(c, k) == LET from == IF k = 1 THEN 1 ELSE EndOf(c, k - 1) + 1
                             to   == IF k = Num(c) THEN Len(c) ELSE EndOf(c, k) - 1
                         IN SubSeq(c, from, to)
<1>1. NumLines = Num(content) /\ NumLines' = Num(content')
  BY DEF NumLines, LineFeeds
<1>2. \A k : RawLine(k) = Line(content, k)
  BY DEF RawLine, LineEnd, NumLines, LineFeeds
<1>3. \A k : RawLine(k)' = Line(content', k)
  BY DEF RawLine, LineEnd, NumLines, LineFeeds
<1> HIDE DEF Feeds, Num, EndOf, Line
<1> QED BY <1>1, <1>2, <1>3

LEMMA InvInit == Init => ReaderInv
<1> SUFFICES ASSUME Init PROVE ReaderInv
  OBVIOUS
<1>1. content \in Seq(Byte)
  BY DEF Init
<1>2. reader = NewReader /\ lines = <<>> /\ outcome = "none"
  BY DEF Init, NewReader
<1>3. TypesInv /\ BuffersInv /\ AtStart
  BY <1>1, <1>2 DEF TypesInv, BuffersInv, AtStart
<1>4. LinesInv
  <2>1. Cardinality(LineFeeds) \in Nat
    BY <1>1, LineFeedsUpto, UptoIsFinite
  <2>2. Len(lines) = 0 /\ DOMAIN lines = {}
    BY <1>2
  <2> QED BY <2>1, <2>2 DEF LinesInv, NumLines
<1>5. RejectsForAReason
  BY <1>2 DEF RejectsForAReason
<1> QED BY <1>3, <1>4, <1>5 DEF ReaderInv

\* The reader stays where its offset has its type.
LEMMA OffsetIsSmall ==
  ASSUME NEW c \in Seq(Byte), NEW r, Buffered(c, r), InFront(r) \/ Ended(r)
  PROVE  r.bufferOffset \in 0 .. READ_BUFFER_SIZE + 1
<1>1. PICK f \in Nat, n \in Nat : f = Len(r.front) /\ n = READ_BUFFER_SIZE /\ f <= n
  BY BufferedTypes DEF Buffered
<1>2. r.bufferOffset \in 0 .. f \/ r.bufferOffset = f + 1
  BY <1>1 DEF InFront, Ended
<1>3. r.bufferOffset \in 0 .. n + 1
  BY <1>1, <1>2
<1> QED BY <1>1, <1>3

LEMMA InvReadLine == ReaderInv /\ ReadLine => ReaderInv'
<1> SUFFICES ASSUME ReaderInv, ReadLine PROVE ReaderInv'
  OBVIOUS
<1> PICK r : r = Filled
  OBVIOUS
<1> PICK k \in Nat : k = Len(lines) + 1
  BY DEF ReaderInv, TypesInv
<1>1. /\ Reading /\ ~TooLong(r) /\ reader' = Behind(r) /\ content' = content
      /\ IF Contains(NextLine(r), "invalid")
           THEN outcome' = "ParserError" /\ lines' = lines
           ELSE lines' = Append(lines, WithoutCR(NextLine(r))) /\ outcome' = outcome
  BY DEF ReadLine
<1>2. content \in Seq(Byte) /\ lines \in Seq(Seq(Byte)) /\ outcome = "none"
  BY <1>1 DEF ReaderInv, TypesInv, Reading
<1>3. Buffered(content, r) /\ InFront(r) /\ Begins(content, k, NextAt(r))
  BY <1>1, StandsAtLine
<1>4. PICK q \in Nat :
        /\ Stops(content, NextAt(r), q) /\ NextLine(r) = SubSeq(content, NextAt(r), q - 1)
        /\ NextLine(r) \in Seq(Byte)
        /\ Buffered(content, reader') /\ reader'.fileOffset >= r.fileOffset
        /\ IF q <= Len(content) THEN InFront(reader') /\ NextAt(reader') = q + 1
                                ELSE Ended(reader') /\ q = Len(content) + 1
  BY <1>1, <1>2, <1>3, BehindIs
<1>5. /\ k >= 1 /\ RawLine(k) = NextLine(r) /\ k <= NumLines
      /\ k = NumLines <=> q = Len(content) + 1
  BY <1>2, <1>3, <1>4, RawLineIs
<1>6. NumLines' = NumLines /\ \A n : RawLine(n)' = RawLine(n)
  BY <1>1, LinesStay
<1>7. BuffersInv'
  <2>1. reader'.bufferOffset \in 0 .. READ_BUFFER_SIZE + 1
    BY <1>2, <1>4, OffsetIsSmall
  <2> QED BY <1>1, <1>4, <2>1 DEF BuffersInv
<1>8. CASE Contains(NextLine(r), "invalid")
  <2>1. outcome' = "ParserError" /\ lines' = lines
    BY <1>1, <1>8
  <2>2. TypesInv'
    BY <1>1, <1>2, <2>1 DEF TypesInv
  <2>3. LinesInv'
    BY <1>6, <2>1 DEF LinesInv, ReaderInv
  <2>4. RejectsForAReason'
    BY <1>5, <1>6, <1>8, <2>1 DEF RejectsForAReason
  <2> QED BY <1>7, <2>1, <2>2, <2>3, <2>4 DEF ReaderInv
<1>9. CASE ~Contains(NextLine(r), "invalid")
  <2> PICK l \in Seq(Byte) : l = WithoutCR(NextLine(r))
    BY <1>4, WithoutCRIsBytes
  <2>1. lines' = Append(lines, l) /\ outcome' = "none"
    BY <1>1, <1>2, <1>9
  <2>2. TypesInv'
    BY <1>1, <1>2, <2>1 DEF TypesInv
  <2>3. /\ Len(lines') = k /\ DOMAIN lines' = 1 .. k /\ lines'[k] = l
        /\ \A i \in 1 .. k - 1 : lines'[i] = lines[i] /\ i \in DOMAIN lines
    BY <1>2, <2>1
  <2>4. LinesInv'
    <3>1. ASSUME NEW i \in 1 .. k PROVE lines'[i] = WithoutCR(RawLine(i))
      <4>1. CASE i = k
        BY <1>5, <2>3, <4>1
      <4>2. CASE i # k
        <5>1. i \in 1 .. k - 1
          BY <4>2
        <5> QED BY <2>3, <5>1 DEF ReaderInv, LinesInv
      <4> QED BY <4>1, <4>2
    <3>2. ASSUME NEW i \in DOMAIN lines' PROVE lines'[i] = WithoutCR(RawLine(i)')
      BY <1>6, <2>3, <3>1
    <3>3. Len(lines') <= NumLines'
      BY <1>5, <1>6, <2>3
    <3> QED BY <3>2, <3>3 DEF LinesInv
  <2>5. RejectsForAReason'
    BY <2>1 DEF RejectsForAReason
  <2>6. CASE q <= Len(content)
    <3>1. Begins(content, k + 1, q + 1)
      BY <1>2, <1>3, <1>4, <2>6, NextCount
    <3>2. InFront(reader') /\ NextAt(reader') = q + 1
      BY <1>4, <2>6
    <3>3. Begins(content', Len(lines') + 1, NextAt(reader'))
      BY <1>1, <2>3, <3>1, <3>2
    <3>4. reader'.fileOffset > 0
      <4>1. Len(content) > 0
        <5>1. NextAt(r) \in 1 .. Len(content) + 1 /\ q \in NextAt(r) .. Len(content) + 1
          BY <1>3, <1>4 DEF Begins, Stops
        <5> QED BY <1>2, <2>6, <5>1
      <4> QED BY <1>2, <1>4, <4>1, SomethingIsRead
    <3>5. AtLine'
      BY <1>1, <1>4, <3>2, <3>3, <3>4 DEF AtLine
    <3> QED BY <1>7, <2>2, <2>4, <2>5, <3>5 DEF ReaderInv
  <2>7. CASE ~(q <= Len(content))
    <3>1. Ended(reader') /\ q = Len(content) + 1
      BY <1>4, <2>7
    <3>2. AtEnd'
      BY <1>1, <1>4, <1>5, <1>6, <2>3, <3>1 DEF AtEnd
    <3> QED BY <1>7, <2>2, <2>4, <2>5, <3>2 DEF ReaderInv
  <2> QED BY <2>6, <2>7
<1> QED BY <1>8, <1>9

LEMMA InvLineTooLong == ReaderInv /\ LineTooLong => ReaderInv'
<1> SUFFICES ASSUME ReaderInv, LineTooLong PROVE ReaderInv'
  OBVIOUS
<1> PICK r : r = Filled
  OBVIOUS
<1> PICK k \in Nat : k = Len(lines) + 1
  BY DEF ReaderInv, TypesInv
<1>1. /\ Reading /\ TooLong(r) /\ reader' = r /\ outcome' = "ParserError"
      /\ content' = content /\ lines' = lines
  BY DEF LineTooLong
<1>2. content \in Seq(Byte) /\ lines \in Seq(Seq(Byte))
  BY DEF ReaderInv, TypesInv
<1>3. Buffered(content, r) /\ InFront(r) /\ Begins(content, k, NextAt(r))
  BY <1>1, StandsAtLine
<1>4. NumLines' = NumLines /\ \A n : RawLine(n)' = RawLine(n)
  BY <1>1, LinesStay
<1>5. PICK q : Stops(content, NextAt(r), q)
  BY <1>2, <1>3, LineStops DEF Begins
<1>6. Len(RawLine(k)) >= READ_BUFFER_SIZE
  <2>1. RawLine(k) = SubSeq(content, NextAt(r), q - 1)
    BY <1>2, <1>3, <1>5, RawLineIs
  <2>2. q - NextAt(r) >= READ_BUFFER_SIZE
    BY <1>1, <1>2, <1>3, <1>5, TooLongIs
  <2>3. PICK p \in Nat, j \in Nat, l \in Nat :
          p = NextAt(r) /\ j = q /\ l = Len(content) /\ p \in 1 .. l + 1 /\ j \in p .. l + 1
    <3>1. /\ Len(content) \in Nat /\ NextAt(r) \in 1 .. Len(content) + 1
          /\ q \in NextAt(r) .. Len(content) + 1
      BY <1>2, <1>3, <1>5 DEF Begins, Stops
    <3>2. NextAt(r) \in Nat
      BY <3>1
    <3>3. q \in Nat
      BY <3>1, <3>2
    <3> QED BY <3>1, <3>2, <3>3
  <2>4. Len(SubSeq(content, p, j - 1)) = IF p <= j - 1 THEN j - 1 - p + 1 ELSE 0
    <3>1. \A i \in p .. j - 1 : content[i] \in Byte
      BY <1>2, <2>3
    <3>2. p \in Int /\ j - 1 \in Int
      OBVIOUS
    <3> QED BY <3>1, <3>2, SubSeqProperties
  <2>5. Len(SubSeq(content, p, j - 1)) = j - p
    BY <2>3, <2>4
  <2> QED BY <2>1, <2>2, <2>3, <2>5
<1>7. TypesInv'
  BY <1>1, <1>2 DEF TypesInv
<1>8. BuffersInv'
  BY <1>1, <1>2, <1>3, OffsetIsSmall DEF BuffersInv
<1>9. LinesInv'
  BY <1>1, <1>4 DEF LinesInv, ReaderInv
<1>10. RejectsForAReason'
  BY <1>1, <1>4, <1>6 DEF RejectsForAReason
<1> QED BY <1>1, <1>7, <1>8, <1>9, <1>10 DEF ReaderInv

LEMMA InvReadFails == ReaderInv /\ ReadFails => ReaderInv'
<1> SUFFICES ASSUME ReaderInv, ReadFails PROVE ReaderInv'
  OBVIOUS
<1>1. content' = content /\ reader' = reader /\ lines' = lines /\ outcome' = "FileIO"
  BY DEF ReadFails
<1>2. NumLines' = NumLines /\ \A n : RawLine(n)' = RawLine(n)
  BY <1>1, LinesStay
<1>3. TypesInv' /\ BuffersInv'
  BY <1>1 DEF ReaderInv, TypesInv, BuffersInv
<1>4. LinesInv'
  BY <1>1, <1>2 DEF LinesInv, ReaderInv
<1>5. RejectsForAReason'
  BY <1>1 DEF RejectsForAReason
<1> QED BY <1>1, <1>3, <1>4, <1>5 DEF ReaderInv

LEMMA InvStutter == ReaderInv /\ UNCHANGED vars => ReaderInv'
<1> SUFFICES ASSUME ReaderInv, UNCHANGED vars PROVE ReaderInv'
  OBVIOUS
<1>1. content' = content /\ reader' = reader /\ lines' = lines /\ outcome' = outcome
  BY DEF vars
<1>2. NumLines' = NumLines /\ \A n : RawLine(n)' = RawLine(n)
  BY <1>1, LinesStay
<1>3. TypesInv' /\ BuffersInv' /\ (AtStart => AtStart') /\ (AtLine => AtLine')
  BY <1>1 DEF ReaderInv, TypesInv, BuffersInv, AtStart, AtLine
<1>4. LinesInv' /\ (AtEnd => AtEnd')
  BY <1>1, <1>2 DEF LinesInv, ReaderInv, AtEnd
<1>5. RejectsForAReason'
  BY <1>1, <1>2 DEF RejectsForAReason, ReaderInv
<1> QED BY <1>1, <1>3, <1>4, <1>5 DEF ReaderInv

LEMMA InvHolds == Spec => []ReaderInv
<1>1. ReaderInv /\ [Next]_vars => ReaderInv'
  BY InvReadLine, InvLineTooLong, InvReadFails, InvStutter DEF Next
<1> QED BY <1>1, InvInit, PTL DEF Spec

-----------------------------------------------------------------------------

\* Types: the reader never reads behind the file, a line begins in the front buffer,
\* and both buffers are full until the end of the file is seen.
THEOREM ReaderTypeCorrect == Spec => []ReaderTypeOK
<1>1. ReaderInv => ReaderTypeOK
  <2> SUFFICES ASSUME ReaderInv PROVE ReaderTypeOK
    OBVIOUS
  <2>1. content \in Seq(Byte) /\ lines \in Seq(Seq(Byte)) /\ outcome \in {"none", "ParserError", "FileIO"}
    BY DEF ReaderInv, TypesInv
  <2>2. reader \in [fileOffset : 0 .. Len(content), eof : BOOLEAN, front : Seq(Byte), back : Seq(Byte),
                    bufferOffset : 0 .. READ_BUFFER_SIZE + 1]
    <3>1. CASE reader = NewReader
      <4>1. 0 \in 0 .. Len(content) /\ 0 \in 0 .. READ_BUFFER_SIZE + 1 /\ <<>> \in Seq(Byte)
        BY <2>1, ReaderAssumption
      <4> QED BY <3>1, <4>1 DEF NewReader
    <3>2. CASE Buffered(content, reader) /\ reader.bufferOffset \in 0 .. READ_BUFFER_SIZE + 1
      <4>1. reader.fileOffset \in 0 .. Len(content)
        BY <2>1, <3>2, BufferedTypes DEF Buffered
      <4> QED BY <3>2, <4>1 DEF Buffered, Readers
    <3> QED BY <3>1, <3>2 DEF ReaderInv, BuffersInv
  <2>3. ASSUME Reading, reader.fileOffset > 0
        PROVE  /\ reader.bufferOffset <= Len(reader.front)
               /\ ~reader.eof => Len(reader.front) = READ_BUFFER_SIZE /\ Len(reader.back) = READ_BUFFER_SIZE
    <3>1. ~AtStart
      BY <2>3 DEF AtStart, NewReader
    <3>2. ~AtEnd
      BY <2>3 DEF Reading, done, AtEnd, Ended
    <3>3. AtLine
      BY <2>3, <3>1, <3>2 DEF ReaderInv, Reading
    <3> QED BY <3>3 DEF AtLine, Buffered, InFront
  <2> QED BY <2>1, <2>2, <2>3 DEF ReaderTypeOK
<1> QED BY <1>1, InvHolds, PTL

\* For every file and every size of the buffers, the lines come out as they are in
\* the file: never more than it has, each one whole, and all of them when done.
THEOREM LinesAreOfTheFile == Spec => []LinesOfTheFile
<1>1. ReaderInv => LinesOfTheFile
  <2> SUFFICES ASSUME ReaderInv PROVE LinesOfTheFile
    OBVIOUS
  <2>1. ASSUME done, outcome = "none" PROVE Len(lines) = NumLines
    <3>1. ~AtStart
      BY <2>1 DEF AtStart, NewReader, done
    <3>2. ~AtLine
      <4>1. ASSUME AtLine PROVE FALSE
        <5>1. reader.bufferOffset \in 0 .. Len(reader.front) /\ Len(reader.front) \in Nat
          BY <4>1, BufferedTypes DEF AtLine, InFront, ReaderInv, TypesInv
        <5>2. reader.bufferOffset = Len(reader.front) + 1
          BY <2>1 DEF done
        <5> QED BY <5>1, <5>2
      <4> QED BY <4>1
    <3> QED BY <2>1, <3>1, <3>2 DEF ReaderInv, AtEnd
  <2> QED BY <2>1 DEF ReaderInv, LinesInv, LinesOfTheFile
<1> QED BY <1>1, InvHolds, PTL

\* A file is only rejected for a line that is not UTF-8, or that does not fit a buffer
\* with its line feed.
THEOREM RejectionsHaveAReason == Spec => []RejectsForAReason
<1>1. ReaderInv => RejectsForAReason
  BY DEF ReaderInv
<1> QED BY <1>1, InvHolds, PTL
=============================================================================
