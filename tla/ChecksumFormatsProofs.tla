----------------------- MODULE ChecksumFormatsProofs ------------------------
(***************************************************************************)
(* Theorems about ChecksumFormats for every length of digests, paths and   *)
(* lines: a line that is written for an entry whose path the format has a  *)
(* place for is read as that entry, what is read at all has such a path,   *)
(* and so a whole file comes back, however far it was written.             *)
(***************************************************************************)
EXTENDS ChecksumFormats, FiniteSetTheorems, TLAPS

-----------------------------------------------------------------------------
(* The first and the last of some numbers, and sequences.                  *)

LEMMA UpToN ==
  ASSUME NEW n \in Nat
  PROVE  /\ IsFiniteSet(1 .. n) /\ Cardinality(1 .. n) = n
         /\ IsFiniteSet(0 .. n - 1) /\ Cardinality(0 .. n - 1) = n
<1>1. IsFiniteSet(1 .. n) /\ Cardinality(1 .. n) = IF 1 > n THEN 0 ELSE n - 1 + 1
  BY FS_Interval
<1>2. IsFiniteSet(0 .. n - 1) /\ Cardinality(0 .. n - 1) = IF 0 > n - 1 THEN 0 ELSE n - 1 - 0 + 1
  <2>1. 0 \in Int /\ n - 1 \in Int
    OBVIOUS
  <2> QED BY <2>1, FS_Interval
<1> QED BY <1>1, <1>2

\* By the number of those before each of them: one has none before it.
LEMMA FirstExists ==
  ASSUME NEW n \in Nat, NEW S \in SUBSET (1 .. n), S # {}
  PROVE  \E x \in S : \A y \in S : x <= y
<1> DEFINE Below(x) == {y \in S : y < x}
           rank == [x \in S |-> Cardinality(Below(x))]
           m == Cardinality(S)
<1>1. IsFiniteSet(S) /\ m \in Nat /\ m # 0
  BY UpToN, FS_Subset, FS_CardinalityType, FS_EmptySet
<1>2. \A x \in S : x \in Int
  OBVIOUS
<1>3. ASSUME NEW x \in S
      PROVE  IsFiniteSet(Below(x)) /\ rank[x] \in Nat /\ rank[x] < m
  <2>1. Below(x) \in SUBSET S /\ Below(x) # S
    BY <1>2
  <2>2. IsFiniteSet(Below(x)) /\ Cardinality(Below(x)) \in Nat
    BY <1>1, <2>1, FS_Subset, FS_CardinalityType
  <2>3. Cardinality(Below(x)) <= m /\ Cardinality(Below(x)) # m
    BY <1>1, <2>1, FS_Subset
  <2> QED BY <1>1, <2>2, <2>3
<1>4. ASSUME NEW x \in S, NEW y \in S, x < y PROVE rank[x] # rank[y]
  <2>1. \A z \in S : z < x => z < y
    BY <1>2, <1>4
  <2>2. Below(x) \in SUBSET Below(y)
    BY <2>1
  <2>3. x \in Below(y) /\ x \notin Below(x)
    BY <1>2, <1>4
  <2> QED BY <1>3, <2>2, <2>3, FS_Subset
<1>5. rank \in Injection(S, 0 .. m - 1)
  <2>1. ASSUME NEW x \in S PROVE rank[x] \in 0 .. m - 1
    <3>1. ASSUME NEW r \in Nat, r < m PROVE r \in 0 .. m - 1
      BY <1>1, <3>1
    <3> QED BY <1>3, <3>1
  <2>2. rank \in [S -> 0 .. m - 1]
    BY <2>1
  <2>3. ASSUME NEW x \in S, NEW y \in S, rank[x] = rank[y] PROVE x = y
    <3>1. ~(x < y) /\ ~(y < x)
      BY <1>4, <2>3
    <3> QED BY <1>2, <3>1
  <2> QED BY <2>2, <2>3 DEF Injection, IsInjective
<1>6. rank \in Surjection(S, 0 .. m - 1)
  <2>1. IsFiniteSet(0 .. m - 1) /\ Cardinality(0 .. m - 1) = m
    BY <1>1, UpToN
  <2> QED BY <1>1, <1>5, <2>1, FS_Injection
<1>7. PICK x \in S : rank[x] = 0
  <2>1. 0 \in 0 .. m - 1
    BY <1>1
  <2> QED BY <1>6, <2>1 DEF Surjection
<1>8. Below(x) = {}
  BY <1>3, <1>7, FS_EmptySet
<1> QED BY <1>2, <1>8

LEMMA IsSequence ==
  ASSUME NEW n \in Nat, NEW S, NEW f \in [1 .. n -> S]
  PROVE  f \in Seq(S) /\ Len(f) = n
OBVIOUS


LEMMA SameSequence ==
  ASSUME NEW T, NEW s \in Seq(T), NEW t \in Seq(T), Len(s) = Len(t),
         \A i \in 1 .. Len(s) : s[i] = t[i]
  PROVE  s = t
OBVIOUS

LEMMA ElementIn == ASSUME NEW T, NEW s \in Seq(T), NEW i \in DOMAIN s PROVE s[i] \in T
OBVIOUS

LEMMA Part ==
  ASSUME NEW T, NEW s \in Seq(T), NEW f \in Nat \ {0}, NEW g \in Nat, g <= Len(s)
  PROVE  /\ SubSeq(s, f, g) \in Seq(T)
         /\ Len(SubSeq(s, f, g)) = IF f <= g THEN g - f + 1 ELSE 0
         /\ \A i \in 1 .. Len(SubSeq(s, f, g)) : SubSeq(s, f, g)[i] = s[f + i - 1]
OBVIOUS

\* l is s, m and t in a row.
Row(T, l, s, m, t) ==
  /\ l \in Seq(T) /\ Len(l) = Len(s) + Len(m) + Len(t)
  /\ \A i \in 1 .. Len(s) : l[i] = s[i]
  /\ \A i \in 1 .. Len(m) : l[Len(s) + i] = m[i]
  /\ \A i \in 1 .. Len(t) : l[Len(s) + Len(m) + i] = t[i]
  /\ SubSeq(l, 1, Len(s)) = s /\ SubSeq(l, Len(s) + Len(m) + 1, Len(l)) = t

LEMMA Joined ==
  ASSUME NEW T, NEW s \in Seq(T), NEW m \in Seq(T), NEW t \in Seq(T)
  PROVE  Row(T, s \o m \o t, s, m, t)
<1> DEFINE l == s \o m \o t
<1>1. Len(s) \in Nat /\ Len(m) \in Nat /\ Len(t) \in Nat
  OBVIOUS
<1>2. s \o m \in Seq(T) /\ Len(s \o m) = Len(s) + Len(m)
  OBVIOUS
<1>3. /\ \A i \in 1 .. Len(s) : (s \o m)[i] = s[i]
      /\ \A i \in 1 .. Len(m) : (s \o m)[Len(s) + i] = m[i]
  BY <1>1
<1>4. l \in Seq(T) /\ Len(l) = Len(s) + Len(m) + Len(t)
  BY <1>2
<1>5. /\ \A i \in 1 .. Len(s) + Len(m) : l[i] = (s \o m)[i]
      /\ \A i \in 1 .. Len(t) : l[Len(s) + Len(m) + i] = t[i]
  BY <1>1, <1>2
<1>6. /\ \A i \in 1 .. Len(s) : l[i] = s[i]
      /\ \A i \in 1 .. Len(m) : l[Len(s) + i] = m[i]
  BY <1>1, <1>3, <1>5
<1> HIDE DEF l
<1>7. SubSeq(l, 1, Len(s)) = s
  <2> DEFINE r == SubSeq(l, 1, Len(s))
  <2>1. r \in Seq(T) /\ Len(r) = Len(s) /\ \A i \in 1 .. Len(s) : r[i] = s[i]
    BY <1>1, <1>4, <1>6, Part
  <2> HIDE DEF r
  <2>2. r = s
    BY <2>1, SameSequence
  <2> QED BY <2>2 DEF r
<1>8. SubSeq(l, Len(s) + Len(m) + 1, Len(l)) = t
  <2> DEFINE r == SubSeq(l, Len(s) + Len(m) + 1, Len(l))
  <2>1. /\ r \in Seq(T) /\ Len(r) = Len(t)
        /\ \A i \in 1 .. Len(r) : r[i] = l[Len(s) + Len(m) + 1 + i - 1]
    BY <1>1, <1>4, Part
  <2>2. ASSUME NEW i \in 1 .. Len(r) PROVE r[i] = t[i]
    BY <1>1, <1>5, <2>1
  <2> HIDE DEF r
  <2>3. r = t
    BY <2>1, <2>2, SameSequence
  <2> QED BY <2>3 DEF r
<1>9. Row(T, l, s, m, t)
  BY <1>4, <1>5, <1>6, <1>7, <1>8 DEF Row
<1> QED BY <1>9 DEF l

-----------------------------------------------------------------------------
(* Characters and trimming                                                 *)

\* What is in a file: of the digits, the one that is written in lower case, too.
Letters == Char \cup HexChar

LEMMA Characters ==
  /\ Blank \notin HexChar /\ Semicolon \notin HexChar /\ Asterisk \notin HexChar
  /\ Blank # Asterisk /\ Blank # Semicolon /\ Semicolon # Asterisk
  BY Zenon DEF Blank, Semicolon, Asterisk, HexChar

LEMMA LastExists ==
  ASSUME NEW n \in Nat, NEW S \in SUBSET (1 .. n), S # {}
  PROVE  \E x \in S : \A y \in S : x >= y
<1> DEFINE T == {z \in 1 .. n : n + 1 - z \in S}
<1>1. \A x \in S : x \in 1 .. n /\ n + 1 - x \in T
  <2>1. ASSUME NEW x \in S PROVE x \in 1 .. n /\ n + 1 - x \in 1 .. n /\ n + 1 - (n + 1 - x) = x
    OBVIOUS
  <2> QED BY <2>1
<1>2. T \in SUBSET (1 .. n) /\ T # {}
  BY <1>1
<1>p. PICK z \in T : \A y \in T : z <= y
  BY <1>2, FirstExists
<1>3. ASSUME NEW y \in S PROVE n + 1 - z >= y
  BY <1>1, <1>p
<1> QED BY <1>3

LEMMA Trimming ==
  ASSUME NEW s \in Seq(Letters)
  PROVE  \/ trim(s) = <<>> /\ \A j \in 1 .. Len(s) : s[j] = Blank
         \/ \E f, g \in 1 .. Len(s) :
              /\ f <= g /\ s[f] # Blank /\ s[g] # Blank
              /\ \A j \in 1 .. Len(s) : s[j] # Blank => f <= j /\ j <= g
              /\ trim(s) = SubSeq(s, f, g)
<1> DEFINE I == {i \in 1 .. Len(s) : NotBlank(s[i])}
<1>0. Len(s) \in Nat /\ I \in SUBSET (1 .. Len(s))
  OBVIOUS
<1>1. SelectInSeq(s, NotBlank) = IF I # {} THEN Min(I) ELSE 0
  BY DEF SelectInSeq
<1>2. SelectLastInSeq(s, NotBlank) = IF I # {} THEN Max(I) ELSE 0
  BY DEF SelectLastInSeq
<1>3. CASE I = {}
  BY <1>1, <1>3 DEF trim, NotBlank
<1>4. CASE I # {}
  <2>1. Min(I) \in I /\ \A y \in I : Min(I) <= y
    BY <1>0, <1>4, FirstExists DEF Min
  <2>2. Max(I) \in I /\ \A y \in I : Max(I) >= y
    BY <1>0, <1>4, LastExists DEF Max
  <2>3. /\ Min(I) \in 1 .. Len(s) /\ Max(I) \in 1 .. Len(s) /\ Min(I) <= Max(I)
        /\ s[Min(I)] # Blank /\ s[Max(I)] # Blank
    BY <1>0, <2>1, <2>2 DEF NotBlank
  <2>4. Min(I) # 0 /\ SelectInSeq(s, NotBlank) = Min(I) /\ SelectLastInSeq(s, NotBlank) = Max(I)
    BY <1>1, <1>2, <1>4, <2>3
  <2>6. trim(s) = SubSeq(s, Min(I), Max(I))
    BY <2>4 DEF trim
  <2>5. \A j \in 1 .. Len(s) : s[j] # Blank => Min(I) <= j /\ j <= Max(I)
    BY <1>0, <2>1, <2>2 DEF NotBlank
  <2> QED BY <2>3, <2>5, <2>6
<1> QED BY <1>3, <1>4

LEMMA TrimmedEnds ==
  ASSUME NEW s \in Seq(Letters)
  PROVE  /\ trim(s) \in Seq(Letters)
         /\ trim(s) # <<>> => trim(s)[1] # Blank /\ trim(s)[Len(trim(s))] # Blank
<1>1. CASE trim(s) = <<>>
  BY <1>1
<1>2. ASSUME NEW f \in 1 .. Len(s), NEW g \in 1 .. Len(s),
             f <= g, s[f] # Blank, s[g] # Blank, trim(s) = SubSeq(s, f, g)
      PROVE  /\ trim(s) \in Seq(Letters)
             /\ trim(s)[1] # Blank /\ trim(s)[Len(trim(s))] # Blank
  <2>1. trim(s) \in Seq(Letters) /\ Len(trim(s)) = g - f + 1
    BY <1>2
  <2>2. trim(s)[1] = s[f] /\ trim(s)[g - f + 1] = s[g]
    BY <1>2
  <2> QED BY <1>2, <2>1, <2>2
<1> QED BY <1>1, <1>2, Trimming

LEMMA TrimKeeps ==
  ASSUME NEW s \in Seq(Letters), s # <<>> => s[1] # Blank /\ s[Len(s)] # Blank
  PROVE  trim(s) = s
<1>1. CASE s = <<>>
  <2>1. Len(s) = 0 /\ 1 .. Len(s) = {}
    BY <1>1
  <2> QED BY <1>1, <2>1, Trimming
<1>2. CASE s # <<>>
  <2>1. Len(s) \in Nat \ {0} /\ 1 \in 1 .. Len(s) /\ Len(s) \in 1 .. Len(s)
    BY <1>2
  <2>2. PICK f \in 1 .. Len(s), g \in 1 .. Len(s) :
          /\ \A j \in 1 .. Len(s) : s[j] # Blank => f <= j /\ j <= g
          /\ trim(s) = SubSeq(s, f, g)
    BY <1>2, <2>1, Trimming
  <2>3. f = 1 /\ g = Len(s)
    BY <1>2, <2>1, <2>2
  <2> QED BY <2>2, <2>3
<1> QED BY <1>1, <1>2

LEMMA TrimBegins ==
  ASSUME NEW s \in Seq(Letters), s # <<>>, s[1] # Blank
  PROVE  trim(s) # <<>> /\ trim(s)[1] = s[1]
<1>1. Len(s) \in Nat \ {0} /\ 1 \in 1 .. Len(s)
  OBVIOUS
<1>2. PICK f \in 1 .. Len(s), g \in 1 .. Len(s) :
        /\ f <= g
        /\ \A j \in 1 .. Len(s) : s[j] # Blank => f <= j /\ j <= g
        /\ trim(s) = SubSeq(s, f, g)
  BY <1>1, Trimming
<1>3. f = 1
  BY <1>1, <1>2
<1> QED BY <1>2, <1>3

LEMMA FirstStar ==
  ASSUME NEW l \in Seq(Letters)
  PROVE  \/ Star(l) = 0 /\ \A j \in 1 .. Len(l) : l[j] # Asterisk
         \/ /\ Star(l) \in 1 .. Len(l) /\ l[Star(l)] = Asterisk
            /\ \A j \in 1 .. Len(l) : l[j] = Asterisk => Star(l) <= j
<1> DEFINE I == {i \in 1 .. Len(l) : l[i] = Asterisk}
<1>1. Star(l) = IF I # {} THEN Min(I) ELSE 0
  BY DEF Star, SelectInSeq
<1>2. Len(l) \in Nat /\ I \in SUBSET (1 .. Len(l))
  OBVIOUS
<1>3. CASE I = {}
  BY <1>1, <1>3
<1>4. CASE I # {}
  <2>1. Min(I) \in I /\ \A y \in I : Min(I) <= y
    BY <1>2, <1>4, FirstExists DEF Min
  <2> QED BY <1>1, <1>4, <2>1
<1> QED BY <1>3, <1>4

-----------------------------------------------------------------------------
(* Lines                                                                   *)

LEMMA DigestText ==
  ASSUME FormatConstants, NEW d \in Digests
  PROVE  /\ d \in Seq(Letters) /\ Len(d) = DigestLength /\ Value(d) = d /\ IsHex(d)
         /\ \A j \in 1 .. DigestLength : d[j] \notin {Blank, Semicolon, Asterisk}
<1>1. DigestLength \in Nat /\ d \in [1 .. DigestLength -> {"0", "f"}]
  BY DEF FormatConstants, Digests
<1>2. \A j \in 1 .. DigestLength : d[j] \in HexChar /\ d[j] # "F"
  BY <1>1 DEF HexChar
<1>3. d \in [1 .. DigestLength -> Letters]
  BY <1>1, <1>2 DEF Letters
<1>4. d \in Seq(Letters) /\ Len(d) = DigestLength
  BY <1>1, <1>3, IsSequence
<1>5. Value(d) = d
  BY <1>1, <1>2 DEF Value
<1> QED BY <1>1, <1>2, <1>4, <1>5, Characters DEF IsHex, ToSet

\* What a checksum file holds, and the paths that a format gives back.
Entries == [path : Seq(Letters), digest : Digests]
Good == {p \in Seq(Letters) : Plain(p) /\ (format # "md5" => p # <<>>)}

LEMMA SfvReadsBack ==
  ASSUME FormatConstants, format = "sfv", NEW p \in Good, NEW d \in Digests,
         NEW l \in Seq(Letters), Len(l) = Len(p) + 1 + DigestLength,
         \A i \in 1 .. Len(p) : l[i] = p[i], l[Len(p) + 1] = Blank,
         \A i \in 1 .. DigestLength : l[Len(p) + 1 + i] = d[i],
         SubSeq(l, 1, Len(p)) = p, SubSeq(l, Len(p) + 2, Len(l)) = d
  PROVE  /\ ~Comment(trim(l)) /\ SfvValid(l)
         /\ SfvPath(l) = p /\ SfvDigest(l) = d
<1>1. /\ p \in Seq(Letters) /\ p # <<>> /\ trim(p) = p /\ p[1] # Semicolon
      /\ p[1] # Blank
  BY TrimmedEnds DEF Good, Plain
<1>2. DigestLength \in Nat \ {0} /\ d[DigestLength] # Blank
  BY DigestText DEF FormatConstants
<1>3. Len(p) \in Nat \ {0}
  BY <1>1
<1>4. l[1] = p[1] /\ l[Len(l)] = d[DigestLength] /\ l # <<>>
  BY <1>2, <1>3
<1>5. trim(l) = l
  BY <1>1, <1>2, <1>4, TrimKeeps
<1>6. /\ Len(l) - DigestLength - 1 = Len(p) /\ Len(l) - DigestLength + 1 = Len(p) + 2
      /\ Len(l) - DigestLength = Len(p) + 1 /\ Len(l) >= DigestLength + 2
  BY <1>2, <1>3
<1>7. SfvPath(l) = p
  BY <1>1, <1>5, <1>6 DEF SfvPath
<1>8. SfvDigest(l) = d
  BY <1>5, <1>6 DEF SfvDigest
<1>9. SfvValid(l)
  BY <1>1, <1>5, <1>6, <1>7 DEF SfvValid
<1>10. ~Comment(l)
  BY <1>1, <1>3, <1>4 DEF Comment, IsPrefix
<1> QED BY <1>5, <1>7, <1>8, <1>9, <1>10

LEMMA Md5ReadsBack ==
  ASSUME FormatConstants, format = "md5", NEW p \in Good, NEW d \in Digests,
         NEW l \in Seq(Letters), Len(l) = DigestLength + 2 + Len(p),
         \A i \in 1 .. DigestLength : l[i] = d[i],
         l[DigestLength + 1] = Blank, l[DigestLength + 2] = Asterisk,
         SubSeq(l, 1, DigestLength) = d, SubSeq(l, DigestLength + 3, Len(l)) = p
  PROVE  /\ ~Comment(l) /\ Md5Valid(l)
         /\ Md5Path(l) = p /\ Md5Digest(l) = d
<1>1. p \in Seq(Letters) /\ trim(p) = p /\ ~Contains(p, Asterisk)
  BY DEF Good, Plain
<1>2. /\ DigestLength \in Nat \ {0} /\ d \in Seq(Letters) /\ Len(d) = DigestLength
      /\ \A j \in 1 .. DigestLength : d[j] \notin {Blank, Semicolon, Asterisk}
  BY DigestText DEF FormatConstants
<1>3. Len(p) \in Nat
  BY <1>1
<1>4. Star(l) = DigestLength + 2
  <2>1. ASSUME NEW j \in 1 .. DigestLength + 1 PROVE l[j] # Asterisk
    <3>1. j \in 1 .. DigestLength \/ j = DigestLength + 1
      BY <1>2
    <3>2. j \in 1 .. DigestLength => l[j] = d[j]
      OBVIOUS
    <3> QED BY <1>2, <3>1, <3>2, Characters
  <2>2. DigestLength + 2 \in 1 .. Len(l)
    BY <1>2, <1>3
  <2>3. Star(l) \in 1 .. Len(l) /\ l[Star(l)] = Asterisk /\ Star(l) <= DigestLength + 2
    BY <2>2, FirstStar
  <2> QED BY <1>2, <2>1, <2>3
<1>5. d # <<>> /\ d[1] # Blank /\ d[Len(d)] # Blank
  BY <1>2
<1>6. trim(d) = d
  BY <1>2, <1>5, TrimKeeps
<1>7. Star(l) - 2 = DigestLength /\ Star(l) + 1 = DigestLength + 3
    /\ Star(l) - 1 = DigestLength + 1
  BY <1>2, <1>4
<1>8. Md5Path(l) = p
  BY <1>1, <1>7 DEF Md5Path
<1>9. Md5Digest(l) = d
  BY <1>6, <1>7 DEF Md5Digest
<1>10. Md5Valid(l)
  BY <1>1, <1>2, <1>4, <1>7, <1>8, <1>9 DEF Md5Valid
<1>11. l[1] # Semicolon /\ l # <<>>
  BY <1>2, <1>3
<1>12. ~Comment(l)
  BY <1>11 DEF Comment, IsPrefix
<1> QED BY <1>8, <1>9, <1>10, <1>12

LEMMA Sha1ReadsBack ==
  ASSUME FormatConstants, format = "sha1", NEW p \in Good, NEW d \in Digests,
         NEW l \in Seq(Letters), Len(l) = DigestLength + 2 + Len(p),
         \A i \in 1 .. DigestLength : l[i] = d[i],
         l[DigestLength + 1] = Blank, l[DigestLength + 2] = Asterisk,
         SubSeq(l, 1, DigestLength) = d, SubSeq(l, DigestLength + 3, Len(l)) = p
  PROVE  /\ ~Comment(l) /\ Sha1Valid(l)
         /\ Sha1Path(l) = p /\ Sha1Digest(l) = d
<1>1. p \in Seq(Letters) /\ p # <<>> /\ Len(p) \in Nat \ {0}
  BY DEF Good
<1>2. /\ DigestLength \in Nat \ {0}
      /\ \A j \in 1 .. DigestLength : d[j] \notin {Blank, Semicolon, Asterisk}
  BY DigestText DEF FormatConstants
<1>3. Sha1Valid(l)
  BY <1>1, <1>2 DEF Sha1Valid
<1>4. Sha1Path(l) = p /\ Sha1Digest(l) = d
  BY DEF Sha1Path, Sha1Digest
<1>5. l[1] # Semicolon /\ l # <<>>
  BY <1>1, <1>2
<1>6. ~Comment(l)
  BY <1>5 DEF Comment, IsPrefix
<1> QED BY <1>3, <1>4, <1>6

LEMMA LineReadsBack ==
  ASSUME FormatConstants, format \in {"sfv", "md5", "sha1"},
         NEW e \in Entries, e.path \in Good
  PROVE  /\ ~Skipped(Line(e)) /\ Valid(Line(e))
         /\ [Fields(Line(e)) EXCEPT !.digest = Value(@)] = e
<1> DEFINE l == Line(e)
           p == e.path
           d == e.digest
           sep == <<Blank, Asterisk>>
<1>0. p \in Good /\ d \in Digests /\ e = [path |-> p, digest |-> d]
  BY DEF Entries
<1>1. /\ IsHex(d) /\ Value(d) = d /\ d \in Seq(Letters) /\ Len(d) = DigestLength
      /\ p \in Seq(Letters) /\ Len(p) \in Nat /\ DigestLength \in Nat
  BY <1>0, DigestText DEF Good, FormatConstants
<1>2. e.path = p /\ e.digest = d
  OBVIOUS
<1> HIDE DEF p, d
<1>3. Fields(l) = e => [Fields(l) EXCEPT !.digest = Value(@)] = e
  BY <1>0, <1>1, <1>2
<1>4. CASE format = "sfv"
  <2> DEFINE one == <<Blank>>
             k == p \o one \o d
  <2>1. l = k
    BY <1>2, <1>4 DEF Line
  <2>2. one \in Seq(Letters) /\ Len(one) = 1 /\ one[1] = Blank
    BY DEF Letters, Char
  <2> HIDE DEF one
  <2>3. Row(Letters, k, p, one, d)
    BY <1>1, <2>2, Joined
  <2> HIDE DEF k, l
  <2>4. /\ k \in Seq(Letters) /\ Len(k) = Len(p) + 1 + DigestLength
        /\ \A i \in 1 .. Len(p) : k[i] = p[i]
        /\ k[Len(p) + 1] = Blank
        /\ \A i \in 1 .. DigestLength : k[Len(p) + 1 + i] = d[i]
        /\ SubSeq(k, 1, Len(p)) = p /\ SubSeq(k, Len(p) + 2, Len(k)) = d
    BY <1>1, <2>2, <2>3 DEF Row
  <2>5. ~Comment(trim(l)) /\ SfvValid(l) /\ SfvPath(l) = p /\ SfvDigest(l) = d
    BY <1>0, <1>4, <2>1, <2>4, SfvReadsBack
  <2>6. Fields(l) = e
    BY <1>0, <1>4, <2>5 DEF Fields
  <2>7. ~Skipped(l) /\ Valid(l)
    BY <1>1, <1>2, <1>4, <2>5, <2>6 DEF Skipped, Valid
  <2> QED BY <1>3, <2>6, <2>7 DEF l
<1>5. ASSUME format # "sfv"
      PROVE  /\ l \in Seq(Letters) /\ Len(l) = DigestLength + 2 + Len(p)
             /\ \A i \in 1 .. DigestLength : l[i] = d[i]
             /\ l[DigestLength + 1] = Blank /\ l[DigestLength + 2] = Asterisk
             /\ SubSeq(l, 1, DigestLength) = d /\ SubSeq(l, DigestLength + 3, Len(l)) = p
             /\ Skipped(l) <=> Comment(l)
  <2> DEFINE k == d \o sep \o p
  <2>1. l = k
    BY <1>2, <1>5 DEF Line
  <2>2. sep \in Seq(Letters) /\ Len(sep) = 2 /\ sep[1] = Blank /\ sep[2] = Asterisk
    BY DEF Letters, Char
  <2> HIDE DEF sep
  <2>3. Row(Letters, k, d, sep, p)
    BY <1>1, <2>2, Joined
  <2> HIDE DEF k, l
  <2>4. /\ k \in Seq(Letters) /\ Len(k) = DigestLength + 2 + Len(p)
        /\ \A i \in 1 .. DigestLength : k[i] = d[i]
        /\ k[DigestLength + 1] = Blank /\ k[DigestLength + 2] = Asterisk
        /\ SubSeq(k, 1, DigestLength) = d /\ SubSeq(k, DigestLength + 3, Len(k)) = p
    BY <1>1, <2>2, <2>3 DEF Row
  <2>5. Skipped(l) <=> Comment(l)
    BY <1>5 DEF Skipped
  <2> QED BY <2>1, <2>4, <2>5
<1> HIDE DEF l
<1>6. CASE format = "md5"
  <2>1. ~Comment(l) /\ Md5Valid(l) /\ Md5Path(l) = p /\ Md5Digest(l) = d
    BY <1>0, <1>5, <1>6, Md5ReadsBack
  <2>2. Fields(l) = e
    BY <1>0, <1>6, <2>1 DEF Fields
  <2>3. ~Skipped(l) /\ Valid(l)
    BY <1>1, <1>2, <1>5, <1>6, <2>1, <2>2 DEF Valid
  <2> QED BY <1>3, <2>2, <2>3 DEF l
<1>7. CASE format = "sha1"
  <2>1. ~Comment(l) /\ Sha1Valid(l) /\ Sha1Path(l) = p /\ Sha1Digest(l) = d
    BY <1>0, <1>5, <1>7, Sha1ReadsBack
  <2>2. Fields(l) = e
    BY <1>0, <1>7, <2>1 DEF Fields
  <2>3. ~Skipped(l) /\ Valid(l)
    BY <1>1, <1>2, <1>5, <1>7, <2>1, <2>2 DEF Valid
  <2> QED BY <1>3, <2>2, <2>3 DEF l
<1> QED BY <1>4, <1>6, <1>7

LEMMA HexValue ==
  ASSUME FormatConstants, NEW x \in Seq(Letters), Len(x) = DigestLength, IsHex(x)
  PROVE  Value(x) \in Digests
<1>1. DigestLength \in Nat /\ DOMAIN x = 1 .. DigestLength
  BY DEF FormatConstants
<1>2. \A i \in DOMAIN x : x[i] \in HexChar
  BY DEF IsHex, ToSet
<1>3. \A i \in DOMAIN x : (IF x[i] = "F" THEN "f" ELSE x[i]) \in {"0", "f"}
  BY <1>2 DEF HexChar
<1> QED BY <1>1, <1>3 DEF Value, Digests

\* What can be read at all has a path that the format gives back.
LEMMA ReadIsGood ==
  ASSUME FormatConstants, format \in {"sfv", "md5", "sha1"},
         NEW l \in Seq(Letters), ~Skipped(l), Valid(l)
  PROVE  [Fields(l) EXCEPT !.digest = Value(@)] \in [path : Good, digest : Digests]
<1>0. DigestLength \in Nat \ {0} /\ Len(l) \in Nat
  BY DEF FormatConstants
<1>1. SUFFICES \E p \in Good, x \in Seq(Letters) :
                 Len(x) = DigestLength /\ IsHex(x) /\ Fields(l) = [path |-> p, digest |-> x]
  BY HexValue
<1>2. CASE format = "sfv"
  <2> DEFINE t == trim(l)
             u == SubSeq(t, 1, Len(t) - DigestLength - 1)
  <2>1. ~Comment(t) /\ SfvValid(l) /\ IsHex(SfvDigest(l))
        /\ Fields(l) = [path |-> SfvPath(l), digest |-> SfvDigest(l)]
    BY <1>2 DEF Skipped, Valid, Fields
  <2>2. t \in Seq(Letters) /\ t # <<>> /\ t[1] # Blank /\ Len(t) \in Nat
    BY <2>1, TrimmedEnds DEF Comment
  <2>3. t[1] # Semicolon
    <3>1. SUFFICES ASSUME t[1] = Semicolon PROVE FALSE
      OBVIOUS
    <3>2. IsPrefix(<<Semicolon>>, t)
      BY <2>2, <3>1 DEF IsPrefix
    <3> QED BY <2>1, <3>2 DEF Comment
  <2>4. Len(t) >= DigestLength + 2
    BY <2>1 DEF SfvValid
  <2> HIDE DEF t
  <2>5. u \in Seq(Letters) /\ u # <<>> /\ u[1] = t[1]
    <3> DEFINE k == Len(t) - DigestLength - 1
    <3>1. k \in Nat \ {0} /\ k <= Len(t) /\ 1 \in Nat \ {0} /\ 1 <= k /\ k - 1 + 1 = k
      BY <1>0, <2>2, <2>4
    <3> HIDE DEF k
    <3>2. /\ SubSeq(t, 1, k) \in Seq(Letters) /\ Len(SubSeq(t, 1, k)) = k
          /\ \A j \in 1 .. k : SubSeq(t, 1, k)[j] = t[1 + j - 1]
      BY <2>2, <3>1, Part
    <3>3. 1 \in 1 .. k /\ 1 + 1 - 1 = 1
      BY <3>1
    <3>4. SubSeq(t, 1, k) # <<>> /\ SubSeq(t, 1, k)[1] = t[1]
      BY <3>1, <3>2, <3>3
    <3> QED BY <3>2, <3>4 DEF k
  <2> HIDE DEF u
  <2>6. trim(u) \in Seq(Letters) /\ trim(u) # <<>> /\ trim(u)[1] = t[1]
      /\ trim(trim(u)) = trim(u)
    BY <2>2, <2>5, TrimBegins, TrimmedEnds, TrimKeeps
  <2>7. trim(u) \in Good
    BY <1>2, <2>3, <2>6 DEF Good, Plain
  <2>8. SfvPath(l) = trim(u)
    BY DEF SfvPath, t, u
  <2>9. SfvDigest(l) \in Seq(Letters) /\ Len(SfvDigest(l)) = DigestLength
    BY <1>0, <2>2, <2>4 DEF SfvDigest, t
  <2> QED BY <2>1, <2>7, <2>8, <2>9
<1>3. CASE format = "md5"
  <2> DEFINE u == SubSeq(l, Star(l) + 1, Len(l))
             w == SubSeq(l, 1, Star(l) - 2)
  <2>1. Md5Valid(l) /\ IsHex(Md5Digest(l))
        /\ Fields(l) = [path |-> Md5Path(l), digest |-> Md5Digest(l)]
    BY <1>3 DEF Valid, Fields
  <2>2. Star(l) \in 2 .. Len(l) /\ ~Contains(Md5Path(l), Asterisk)
      /\ Len(Md5Digest(l)) = DigestLength
    BY <2>1, FirstStar DEF Md5Valid
  <2>3. u \in Seq(Letters) /\ w \in Seq(Letters)
    BY <1>0, <2>2
  <2>4. Md5Path(l) = trim(u) /\ Md5Digest(l) = trim(w)
    BY DEF Md5Path, Md5Digest
  <2> HIDE DEF u, w
  <2>5. trim(u) \in Seq(Letters) /\ trim(w) \in Seq(Letters) /\ trim(trim(u)) = trim(u)
    BY <2>3, TrimmedEnds, TrimKeeps
  <2>6. trim(u) \in Good
    BY <1>3, <2>2, <2>4, <2>5 DEF Good, Plain
  <2> QED BY <2>1, <2>2, <2>4, <2>5, <2>6
<1>4. CASE format = "sha1"
  <2>1. Len(l) >= DigestLength + 3 /\ IsHex(Sha1Digest(l))
        /\ Fields(l) = [path |-> Sha1Path(l), digest |-> Sha1Digest(l)]
    BY <1>4 DEF Valid, Sha1Valid, Fields
  <2>2. Sha1Path(l) \in Seq(Letters) /\ Sha1Path(l) # <<>>
    <3> DEFINE h == DigestLength + 3
               r == SubSeq(l, h, Len(l))
    <3>1. h \in Nat \ {0} /\ h <= Len(l)
      BY <1>0, <2>1
    <3> HIDE DEF h
    <3>2. r \in Seq(Letters) /\ Len(r) = Len(l) - h + 1
      BY <1>0, <3>1, Part
    <3> HIDE DEF r
    <3>3. r # <<>>
      <4>1. Len(r) # 0
        BY <1>0, <3>1, <3>2
      <4> QED BY <4>1
    <3> QED BY <3>2, <3>3 DEF Sha1Path, h, r
  <2>3. Sha1Digest(l) \in Seq(Letters) /\ Len(Sha1Digest(l)) = DigestLength
    BY <1>0, <2>1 DEF Sha1Digest
  <2>4. Sha1Path(l) \in Good
    BY <1>4, <2>2 DEF Good, Plain
  <2> QED BY <2>1, <2>3, <2>4
<1> QED BY <1>2, <1>3, <1>4

LEMMA LineIsText ==
  ASSUME FormatConstants, format \in {"sfv", "md5", "sha1"}, NEW e \in Entries
  PROVE  Line(e) \in Seq(Letters)
<1>1. e.path \in Seq(Letters) /\ e.digest \in Seq(Letters)
  BY DigestText DEF Entries
<1>2. <<Blank>> \in Seq(Letters) /\ <<Blank, Asterisk>> \in Seq(Letters)
  BY DEF Letters, Char
<1> QED BY <1>1, <1>2 DEF Line

-----------------------------------------------------------------------------
(* The life of a file                                                      *)

LineOf == [e \in Entries |-> Line(e)]
AllGood == \A k \in DOMAIN entries : entries[k].path \in Good

\* Nothing that is written or read has a path that its format has no place for.
EntriesFit ==
  /\ format \in {"sfv", "md5", "sha1"} /\ phase \in {"import", "write", "read", "done"}
  /\ entries \in Seq(Entries) /\ parsed \in Seq(Entries)
  /\ lines \in Seq(Seq(Letters)) /\ at \in 0 .. Len(lines)
  /\ \A k \in DOMAIN entries : format # "md5" => entries[k].path # <<>>
  /\ \A k \in DOMAIN parsed : parsed[k].path \in Good
  /\ imported => AllGood

\* The lines are those of the first entries, and of all of them without an error.
LinesAreWritten ==
  /\ phase # "import" =>
       Len(lines) <= Len(entries) /\ \A k \in 1 .. Len(lines) : lines[k] = LineOf[entries[k]]
  /\ phase \in {"import", "write"} => writeError = "none"
  /\ phase = "write" => at = 0 /\ parsed = <<>> /\ readError = "none"
  /\ phase \in {"read", "done"} /\ writeError = "none" => Len(lines) = Len(entries)
  /\ phase = "done" => at = Len(lines)

\* If all paths are good, every line that has been read gave its entry.
LinesAreRead ==
  phase \in {"read", "done"} /\ AllGood =>
    readError = "none" /\ Len(parsed) = at /\ \A k \in 1 .. at : parsed[k] = entries[k]

FormatsInv == EntriesFit /\ LinesAreWritten /\ LinesAreRead

LEMMA SameFormat == format' = format => Good' = Good /\ LineOf' = LineOf
<1>1. ASSUME format' = format PROVE \A p : Plain(p)' <=> Plain(p)
  BY <1>1 DEF Plain
<1>2. ASSUME format' = format PROVE \A e \in Entries : Line(e)' = Line(e)
  BY <1>2 DEF Line
<1> QED BY <1>1, <1>2 DEF Good, LineOf

LEMMA FormatsInit == ASSUME FormatConstants PROVE Init => FormatsInv
<1> SUFFICES ASSUME Init PROVE FormatsInv
  OBVIOUS
<1>1. /\ format \in {"sfv", "md5", "sha1"} /\ at = 0 /\ parsed = <<>>
      /\ writeError = "none" /\ readError = "none"
  BY DEF Init
<1>2. ASSUME NEW n \in Nat, NEW s \in Strings(n) PROVE s \in Seq(Letters)
  <2>1. PICK k \in 0 .. n : s \in [1 .. k -> Char]
    BY <1>2 DEF Strings
  <2>2. s \in [1 .. k -> Letters] /\ k \in Nat
    BY <2>1 DEF Letters
  <2> QED BY <2>2, IsSequence
<1>3. CASE /\ phase = "write" /\ imported = FALSE /\ lines = <<>>
           /\ entries \in UNION {[1 .. n -> [path : Paths, digest : Digests]] : n \in 0 .. 2}
  <2>1. PICK n \in 0 .. 2 : entries \in [1 .. n -> [path : Paths, digest : Digests]]
    BY <1>3
  <2>2. \A p \in Paths : p \in Seq(Letters) /\ p # <<>>
    BY <1>2 DEF Paths, FormatConstants
  <2>3. ASSUME NEW k \in 1 .. n PROVE entries[k] \in Entries /\ entries[k].path # <<>>
    <3>1. entries[k] \in [path : Paths, digest : Digests]
      BY <2>1
    <3> QED BY <2>2, <3>1 DEF Entries
  <2>4. entries \in [1 .. n -> Entries] /\ n \in Nat
    BY <2>1, <2>3
  <2>5. entries \in Seq(Entries) /\ Len(entries) = n /\ DOMAIN entries = 1 .. n
    BY <2>4, IsSequence
  <2>6. parsed \in Seq(Entries) /\ lines \in Seq(Seq(Letters)) /\ Len(lines) = 0
      /\ DOMAIN parsed = {}
    BY <1>1, <1>3
  <2>7. EntriesFit
    BY <1>1, <1>3, <2>3, <2>5, <2>6 DEF EntriesFit
  <2>8. LinesAreWritten /\ LinesAreRead
    BY <1>1, <1>3, <2>5, <2>6 DEF LinesAreWritten, LinesAreRead
  <2> QED BY <2>7, <2>8 DEF FormatsInv
<1>4. CASE /\ phase = "import" /\ imported = TRUE /\ entries = <<>>
           /\ lines \in {<<l>> : l \in Strings(MaxLine)}
  <2>1. PICK l \in Strings(MaxLine) : lines = <<l>>
    BY <1>4
  <2>2. l \in Seq(Letters)
    BY <1>2 DEF FormatConstants
  <2>3. lines \in Seq(Seq(Letters)) /\ Len(lines) = 1
    BY <2>1, <2>2
  <2>4. parsed \in Seq(Entries) /\ entries \in Seq(Entries) /\ DOMAIN parsed = {}
      /\ DOMAIN entries = {}
    BY <1>1, <1>4
  <2>5. EntriesFit
    BY <1>1, <1>4, <2>3, <2>4 DEF EntriesFit, AllGood
  <2>6. LinesAreWritten /\ LinesAreRead
    BY <1>1, <1>4 DEF LinesAreWritten, LinesAreRead
  <2> QED BY <2>5, <2>6 DEF FormatsInv
<1> QED BY <1>3, <1>4 DEF Init

LEMMA WriteNextStep ==
  ASSUME FormatConstants, FormatsInv, WriteNext PROVE FormatsInv'
<1>1. /\ phase = "write" /\ Len(lines) < Len(entries)
      /\ lines' = Append(lines, Line(entries[Len(lines) + 1]))
      /\ UNCHANGED <<format, phase, entries, at, parsed, writeError, readError, imported>>
  BY DEF WriteNext
<1>2. EntriesFit /\ LinesAreWritten /\ LinesAreRead
  BY DEF FormatsInv
<1>3. Good' = Good /\ LineOf' = LineOf
  BY <1>1, SameFormat
<1> DEFINE e == entries[Len(lines) + 1]
<1>4. /\ lines \in Seq(Seq(Letters)) /\ Len(lines) \in Nat /\ entries \in Seq(Entries)
      /\ format \in {"sfv", "md5", "sha1"}
  BY <1>2 DEF EntriesFit
<1>5. e \in Entries
  BY <1>1, <1>4
<1>6. Line(e) \in Seq(Letters) /\ Line(e) = LineOf[e]
  BY <1>4, <1>5, LineIsText DEF LineOf
<1>7. /\ lines' \in Seq(Seq(Letters)) /\ Len(lines') = Len(lines) + 1
      /\ \A k \in 1 .. Len(lines) : lines'[k] = lines[k]
      /\ lines'[Len(lines) + 1] = Line(e)
  BY <1>1, <1>4, <1>6
<1>8. EntriesFit'
  BY <1>1, <1>2, <1>3, <1>4, <1>7 DEF EntriesFit, AllGood
<1>9. \A k \in 1 .. Len(lines') : lines'[k] = LineOf'[entries'[k]]
  <2>1. ASSUME NEW k \in 1 .. Len(lines') PROVE k \in 1 .. Len(lines) \/ k = Len(lines) + 1
    BY <1>4, <1>7
  <2>2. \A k \in 1 .. Len(lines) : lines[k] = LineOf[entries[k]]
    BY <1>1, <1>2 DEF LinesAreWritten
  <2> QED BY <1>1, <1>3, <1>6, <1>7, <2>1, <2>2
<1>10. Len(entries) \in Nat /\ Len(lines') <= Len(entries')
  BY <1>1, <1>4, <1>7
<1>11. LinesAreWritten'
  BY <1>1, <1>2, <1>9, <1>10 DEF LinesAreWritten
<1>12. LinesAreRead'
  BY <1>1 DEF LinesAreRead
<1> QED BY <1>8, <1>11, <1>12 DEF FormatsInv

LEMMA WriteEnds ==
  ASSUME FormatConstants, FormatsInv, Written \/ WriteFails PROVE FormatsInv'
<1>1. /\ phase = "write" /\ phase' = "read"
      /\ writeError' # "none" \/ (Len(lines) = Len(entries) /\ writeError' = writeError)
      /\ UNCHANGED <<format, entries, lines, at, parsed, readError, imported>>
  BY DEF Written, WriteFails
<1>2. EntriesFit /\ LinesAreWritten /\ LinesAreRead
  BY DEF FormatsInv
<1>3. Good' = Good /\ LineOf' = LineOf
  BY <1>1, SameFormat
<1>4. EntriesFit'
  BY <1>1, <1>2, <1>3 DEF EntriesFit, AllGood
<1>5. LinesAreWritten'
  BY <1>1, <1>2, <1>3 DEF LinesAreWritten
<1>6. LinesAreRead'
  BY <1>1, <1>2 DEF LinesAreRead, LinesAreWritten
<1> QED BY <1>4, <1>5, <1>6 DEF FormatsInv

LEMMA ReadLineStep ==
  ASSUME FormatConstants, FormatsInv, ReadLine PROVE FormatsInv'
<1> DEFINE l == lines[at + 1]
           read == [Fields(l) EXCEPT !.digest = Value(@)]
<1>1. /\ phase \in {"import", "read"} /\ readError = "none" /\ at < Len(lines) /\ at' = at + 1
      /\ \/ Skipped(l) /\ UNCHANGED <<parsed, readError>>
         \/ ~Skipped(l) /\ Valid(l) /\ parsed' = Append(parsed, read) /\ UNCHANGED readError
         \/ ~Skipped(l) /\ ~Valid(l) /\ UNCHANGED parsed
      /\ UNCHANGED <<format, phase, entries, lines, writeError, imported>>
  BY DEF ReadLine, Reading, addEntry
<1>2. EntriesFit /\ LinesAreWritten /\ LinesAreRead
  BY DEF FormatsInv
<1>3. Good' = Good /\ LineOf' = LineOf
  BY <1>1, SameFormat
<1>4. /\ format \in {"sfv", "md5", "sha1"} /\ lines \in Seq(Seq(Letters)) /\ at \in Nat
      /\ at + 1 \in 1 .. Len(lines) /\ parsed \in Seq(Entries) /\ entries \in Seq(Entries)
      /\ Len(lines) \in Nat /\ Len(parsed) \in Nat
  BY <1>1, <1>2 DEF EntriesFit
<1>5. l \in Seq(Letters)
  BY <1>4
<1>6. ~Skipped(l) /\ Valid(l) => read \in Entries /\ read.path \in Good
  <2>1. ~Skipped(l) /\ Valid(l) => read \in [path : Good, digest : Digests]
    BY <1>4, <1>5, ReadIsGood
  <2>2. Good \subseteq Seq(Letters)
    BY DEF Good
  <2> HIDE DEF read
  <2> QED BY <2>1, <2>2 DEF Entries
<1>7. ASSUME phase = "read", AllGood
      PROVE  /\ ~Skipped(l) /\ Valid(l) /\ read = entries[at + 1] /\ readError' = "none"
             /\ Len(parsed) = at /\ \A k \in 1 .. at : parsed[k] = entries[k]
  <2>1. Len(entries) \in Nat /\ Len(lines) <= Len(entries) /\ l = LineOf[entries[at + 1]]
    BY <1>2, <1>4, <1>7 DEF LinesAreWritten
  <2>2. at + 1 \in DOMAIN entries
    BY <1>4, <2>1
  <2>3. entries[at + 1] \in Entries /\ entries[at + 1].path \in Good
    BY <1>4, <1>7, <2>2, ElementIn DEF AllGood
  <2>4. l = Line(entries[at + 1])
    BY <2>1, <2>3 DEF LineOf
  <2>5. ~Skipped(l) /\ Valid(l) /\ read = entries[at + 1]
    BY <1>4, <2>3, <2>4, LineReadsBack
  <2> QED BY <1>1, <1>2, <1>7, <2>5 DEF LinesAreRead
<1> HIDE DEF l, read
<1>8. parsed' \in Seq(Entries) /\ \A k \in DOMAIN parsed' : parsed'[k].path \in Good
  <2>0. \A k \in DOMAIN parsed : parsed[k].path \in Good
    BY <1>2 DEF EntriesFit
  <2>1. CASE UNCHANGED parsed
    BY <1>4, <2>0, <2>1
  <2>2. CASE read \in Entries /\ read.path \in Good /\ parsed' = Append(parsed, read)
    <3>1. ASSUME NEW k \in 1 .. Len(parsed) + 1
          PROVE  k \in DOMAIN parsed \/ k = Len(parsed) + 1
      BY <1>4
    <3>2. /\ Append(parsed, read) \in Seq(Entries)
               /\ DOMAIN Append(parsed, read) = 1 .. Len(parsed) + 1
          /\ \A k \in DOMAIN parsed : Append(parsed, read)[k] = parsed[k]
          /\ Append(parsed, read)[Len(parsed) + 1] = read
      BY <1>4, <2>2
    <3> QED BY <2>0, <2>2, <3>1, <3>2
  <2> QED BY <1>1, <1>6, <2>1, <2>2
<1>9. at' \in 0 .. Len(lines')
  BY <1>1, <1>4
<1>10. EntriesFit'
  BY <1>1, <1>2, <1>3, <1>8, <1>9 DEF EntriesFit, AllGood
<1>11. LinesAreWritten'
  BY <1>1, <1>2, <1>3 DEF LinesAreWritten
<1>12. LinesAreRead'
  <2>1. SUFFICES ASSUME phase = "read", AllGood
                 PROVE  /\ readError' = "none" /\ Len(parsed') = at'
                        /\ \A k \in 1 .. at' : parsed'[k] = entries'[k]
    BY <1>1, <1>3 DEF LinesAreRead, AllGood
  <2>2. parsed' = Append(parsed, entries[at + 1])
    BY <1>1, <1>7, <2>1
  <2>3. ASSUME NEW k \in 1 .. at + 1 PROVE k \in 1 .. at \/ k = at + 1
    BY <1>4
  <2>4. /\ Len(parsed') = at + 1 /\ parsed'[at + 1] = entries[at + 1]
        /\ \A k \in 1 .. at : parsed'[k] = parsed[k]
    BY <1>4, <1>7, <2>1, <2>2
  <2> QED BY <1>1, <1>7, <2>1, <2>3, <2>4
<1> QED BY <1>10, <1>11, <1>12 DEF FormatsInv

LEMMA EndOfFileStep ==
  ASSUME FormatConstants, FormatsInv, EndOfFile PROVE FormatsInv'
<1>1. /\ phase \in {"import", "read"} /\ readError = "none" /\ at = Len(lines)
      /\ UNCHANGED <<format, writeError, readError, imported>>
  BY DEF EndOfFile, Reading
<1>2. EntriesFit /\ LinesAreWritten /\ LinesAreRead
  BY DEF FormatsInv
<1>3. Good' = Good /\ LineOf' = LineOf
  BY <1>1, SameFormat
<1>4. CASE phase = "import"
  <2>1. phase' = "write" /\ entries' = parsed /\ lines' = <<>> /\ at' = 0 /\ parsed' = <<>>
    BY <1>4 DEF EndOfFile
  <2>2. lines' \in Seq(Seq(Letters)) /\ Len(lines') = 0 /\ parsed' \in Seq(Entries)
      /\ DOMAIN parsed' = {}
    BY <2>1
  <2>3. /\ entries' \in Seq(Entries) /\ Len(entries') \in Nat
        /\ \A k \in DOMAIN entries' : entries'[k].path \in Good'
    BY <1>2, <1>3, <2>1 DEF EntriesFit
  <2>4. \A p \in Good' : format' # "md5" => p # <<>>
    BY DEF Good
  <2>5. EntriesFit'
    BY <1>1, <1>2, <2>1, <2>2, <2>3, <2>4 DEF EntriesFit, AllGood
  <2>6. LinesAreWritten' /\ LinesAreRead'
    BY <1>1, <1>2, <1>4, <2>1, <2>2, <2>3 DEF LinesAreWritten, LinesAreRead
  <2> QED BY <2>5, <2>6 DEF FormatsInv
<1>5. CASE phase = "read"
  <2>1. phase' = "done" /\ UNCHANGED <<entries, lines, at, parsed>>
    BY <1>5 DEF EndOfFile
  <2>2. EntriesFit'
    BY <1>1, <1>2, <1>3, <2>1 DEF EntriesFit, AllGood
  <2>3. LinesAreWritten'
    BY <1>1, <1>2, <1>3, <1>5, <2>1 DEF LinesAreWritten
  <2>4. LinesAreRead'
    BY <1>1, <1>2, <1>3, <1>5, <2>1 DEF LinesAreRead, AllGood
  <2> QED BY <2>2, <2>3, <2>4 DEF FormatsInv
<1> QED BY <1>1, <1>4, <1>5

LEMMA FormatsStep ==
  ASSUME FormatConstants PROVE FormatsInv /\ [Next]_vars => FormatsInv'
<1>1. ASSUME FormatsInv, UNCHANGED vars PROVE FormatsInv'
  <2>1. Good' = Good /\ LineOf' = LineOf
    BY <1>1, SameFormat DEF vars
  <2> QED BY <1>1, <2>1 DEF vars, FormatsInv, EntriesFit, AllGood, LinesAreWritten, LinesAreRead
<1> QED BY <1>1, WriteNextStep, WriteEnds, ReadLineStep, EndOfFileStep DEF Next

LEMMA FormatsInvariant == ASSUME FormatConstants PROVE Spec => []FormatsInv
BY FormatsInit, FormatsStep, PTL DEF Spec

\* Digests keep their form, plain paths are read back, and so is what was read.
LEMMA FormatsRead ==
  ASSUME FormatConstants, FormatsInv
  PROVE  FormatTypeOK /\ PlainPathsReadBack /\ ImportedReadsBack
<1>1. EntriesFit /\ LinesAreWritten /\ LinesAreRead
  BY DEF FormatsInv
<1>2. /\ entries \in Seq(Entries) /\ parsed \in Seq(Entries)
      /\ lines \in Seq(Seq(Letters)) /\ at \in 0 .. Len(lines)
  BY <1>1 DEF EntriesFit
<1>3. \A e \in Entries : e.digest \in Digests /\ e.path \in Seq(Letters)
  BY DEF Entries
<1>4. FormatTypeOK
  BY <1>2, <1>3, ElementIn DEF FormatTypeOK
<1>5. ASSUME AllGood PROVE ReadsBack
  <2>1. SUFFICES ASSUME phase \in {"read", "done"}
                 PROVE  /\ IsPrefix(parsed, entries) /\ readError = "none"
                        /\ phase = "done" /\ writeError = "none" => parsed = entries
    BY DEF ReadsBack
  <2>2. readError = "none" /\ Len(parsed) = at /\ \A k \in 1 .. at : parsed[k] = entries[k]
    BY <1>1, <1>5, <2>1 DEF LinesAreRead
  <2>3. /\ Len(lines) <= Len(entries) /\ Len(lines) \in Nat /\ Len(entries) \in Nat
        /\ phase = "done" /\ writeError = "none" => at = Len(entries)
    BY <1>1, <1>2, <2>1 DEF LinesAreWritten
  <2>4. Len(parsed) <= Len(entries) /\ Len(parsed) \in Nat
    BY <1>2, <2>2, <2>3
  <2>5. IsPrefix(parsed, entries)
    <3> DEFINE first == SubSeq(entries, 1, Len(parsed))
    <3>1. /\ first \in Seq(Entries) /\ Len(first) = Len(parsed)
          /\ \A k \in 1 .. Len(parsed) : first[k] = entries[k]
      BY <1>2, <2>4
    <3> HIDE DEF first
    <3>2. first = parsed
      BY <1>2, <2>2, <3>1, SameSequence
    <3>3. SubSeq(parsed, 1, Len(parsed)) = parsed
      BY <1>2
    <3> QED BY <2>4, <3>2, <3>3 DEF IsPrefix, first
  <2>6. phase = "done" /\ writeError = "none" => parsed = entries
    BY <1>2, <2>2, <2>3, SameSequence
  <2> QED BY <2>2, <2>5, <2>6
<1>6. (\A k \in DOMAIN entries : Plain(entries[k].path)) => AllGood
  BY <1>1, <1>2, <1>3, ElementIn DEF AllGood, Good, EntriesFit
<1>7. imported => AllGood
  BY <1>1 DEF EntriesFit
<1> QED BY <1>4, <1>5, <1>6, <1>7 DEF PlainPathsReadBack, ImportedReadsBack

\* Whatever is written, whatever a file from elsewhere says, and wherever writing
\* fails: if its format has a place for every path, a file is read back as it was
\* written, and what was read itself has such paths only.
THEOREM FormatsReadBack ==
  ASSUME FormatConstants
  PROVE  Spec => [](FormatTypeOK /\ PlainPathsReadBack /\ ImportedReadsBack)
BY FormatsInvariant, FormatsRead, PTL
=============================================================================
