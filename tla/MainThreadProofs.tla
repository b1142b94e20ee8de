-------------------------- MODULE MainThreadProofs --------------------------
(***************************************************************************)
(* For any number of files, with any names: the numbers above the list of  *)
(* results are those of its entries, its original order can be had back,   *)
(* "All files OK" is said of nothing else, one marked entry is deleted and *)
(* no other, and what is copied fits its buffer.  These rest on what a     *)
(* stable sort is, a rearrangement by the rank of the entries, and on the  *)
(* rounds of the loops over the selected ones.                             *)
(* For any plugins, windows and machines: an operation has the format that *)
(* was chosen for it, and the options of a user are kept only if asked     *)
(* for, used only where the machine can, and restored from a save and not  *)
(* from anything else, however windows cross each other and crash.         *)
(***************************************************************************)
EXTENDS MainThread, FiniteSetTheorems, TLAPS

-----------------------------------------------------------------------------
(* Intervals.                                                              *)

LEMMA UpToN ==
  ASSUME NEW n \in Nat
  PROVE  /\ IsFiniteSet(1 .. n) /\ Cardinality(1 .. n) = n
         /\ IsFiniteSet(0 .. n - 1) /\ Cardinality(0 .. n - 1) = n
<1>1. IsFiniteSet(1 .. n) /\ Cardinality(1 .. n) = IF 1 > n THEN 0 ELSE n - 1 + 1
  BY FS_Interval
<1>2. IsFiniteSet(0 .. n - 1) /\ Cardinality(0 .. n - 1) = IF 0 > n - 1 THEN 0 ELSE n - 1 - 0 + 1
  <2>1. 0 \in Int /\ n - 1 \in Int
    OBVIOUS
  <2> QED BY <2>1, FS_Interval
<1> QED BY <1>1, <1>2

-----------------------------------------------------------------------------
(* ResultsList                                                             *)

Entries == [name : Names \cup {MessageName}, checksum : {NoChecksum, SomeChecksum},
            status : 0 .. 5, original_position : Nat]
Sorts == [column : 0 .. 2, order : {"Original", "Ascending", "Descending"}]

-----------------------------------------------------------------------------
(* The stable sort.                                                        *)

LEMMA KeyIsNatural ==
  ASSUME NEW e \in Entries, NEW sort \in Sorts PROVE Key(e, sort) \in Nat
<1>1. e.name \in Nat /\ e.checksum \in Nat /\ e.status \in Nat /\ e.original_position \in Nat
  BY ListConstants DEF Entries, Names, NoChecksum, SomeChecksum
<1>2. /\ sort.order = "Original" \/ sort.order # "Original"
      /\ sort.column = 0 \/ sort.column = 1 \/ sort.column = 2
  BY DEF Sorts
<1> QED BY <1>1, <1>2 DEF Key

\* Of two entries one comes first.
LEMMA BeforeIsStrictOrder ==
  ASSUME NEW rows \in Seq(Entries), NEW sort \in Sorts,
         NEW i \in DOMAIN rows, NEW j \in DOMAIN rows
  PROVE  /\ ~Before(rows, sort, i, i)
         /\ i # j => Before(rows, sort, i, j) \/ Before(rows, sort, j, i)
         /\ \A k \in DOMAIN rows :
              Before(rows, sort, i, j) /\ Before(rows, sort, j, k) => Before(rows, sort, i, k)
<1>1. \A k \in DOMAIN rows : k \in Nat /\ Key(rows[k], sort) \in Nat
  BY KeyIsNatural
<1>2. ASSUME NEW a \in Nat, NEW b \in Nat, NEW c \in Nat, NEW x \in Nat, NEW y \in Nat, NEW z \in Nat,
             NEW down \in BOOLEAN
      PROVE  LET before(k, l, u, v) == IF k = l THEN u < v ELSE IF down THEN k > l ELSE k < l
             IN  /\ ~before(a, a, x, x)
                 /\ x # y => before(a, b, x, y) \/ before(b, a, y, x)
                 /\ before(a, b, x, y) /\ before(b, c, y, z) => before(a, c, x, z)
  OBVIOUS
<1>3. (sort.order = "Descending") \in BOOLEAN
  OBVIOUS
<1>4. ~Before(rows, sort, i, i)
  BY <1>1 DEF Before
<1>5. i # j => Before(rows, sort, i, j) \/ Before(rows, sort, j, i)
  BY <1>1, <1>2, <1>3 DEF Before
<1>6. ASSUME NEW k \in DOMAIN rows, Before(rows, sort, i, j), Before(rows, sort, j, k)
      PROVE  Before(rows, sort, i, k)
  BY <1>1, <1>2, <1>3, <1>6 DEF Before
<1> QED BY <1>4, <1>5, <1>6

\* Each entry has a place of its own.
LEMMA RanksAreDistinct ==
  ASSUME NEW rows \in Seq(Entries), NEW sort \in Sorts
  PROVE  /\ \A i \in DOMAIN rows : Rank(rows, sort, i) \in 0 .. Len(rows) - 1
         /\ \A i, j \in DOMAIN rows :
              i # j => Rank(rows, sort, i) # Rank(rows, sort, j)
<1> DEFINE D == DOMAIN rows
           Below(i) == {j \in D : Before(rows, sort, j, i)}
<1>1. D = 1 .. Len(rows) /\ Len(rows) \in Nat /\ IsFiniteSet(D) /\ Cardinality(D) = Len(rows)
  <2>1. D = 1 .. Len(rows) /\ Len(rows) \in Nat
    OBVIOUS
  <2> QED BY <2>1, UpToN
<1>2. ASSUME NEW i \in D
      PROVE  /\ IsFiniteSet(Below(i)) /\ Rank(rows, sort, i) \in Nat
             /\ Rank(rows, sort, i) = Cardinality(Below(i)) /\ Rank(rows, sort, i) < Len(rows)
  <2>1. IsFiniteSet(Below(i)) /\ Cardinality(Below(i)) \in Nat
    BY <1>1, FS_Subset, FS_CardinalityType
  <2>2. Cardinality(Below(i)) <= Len(rows) /\ Cardinality(Below(i)) # Len(rows)
    <3>1. i \notin Below(i)
      BY BeforeIsStrictOrder
    <3>2. Below(i) \in SUBSET D /\ Below(i) # D
      BY <3>1
    <3>3. Cardinality(Below(i)) <= Cardinality(D) /\ Cardinality(Below(i)) # Cardinality(D)
      BY <1>1, <3>2, FS_Subset
    <3> QED BY <1>1, <3>3
  <2>3. Rank(rows, sort, i) = Cardinality(Below(i))
    BY DEF Rank
  <2> QED BY <1>1, <2>1, <2>2, <2>3
<1>3. ASSUME NEW i \in D, NEW j \in D, Before(rows, sort, i, j)
      PROVE  Rank(rows, sort, i) # Rank(rows, sort, j)
  <2>1. Below(i) \subseteq Below(j)
    BY <1>3, BeforeIsStrictOrder
  <2>2. i \in Below(j) /\ i \notin Below(i)
    BY <1>3, BeforeIsStrictOrder
  <2>3. Below(i) \in SUBSET Below(j)
    BY <2>1
  <2> QED BY <1>2, <2>2, <2>3, FS_Subset
<1>4. ASSUME NEW i \in D, NEW j \in D, i # j
      PROVE  Rank(rows, sort, i) # Rank(rows, sort, j)
  BY <1>3, <1>4, BeforeIsStrictOrder
<1>5. ASSUME NEW i \in D PROVE Rank(rows, sort, i) \in 0 .. Len(rows) - 1
  <2>1. ASSUME NEW r \in Nat, NEW n \in Nat, r < n PROVE r \in 0 .. n - 1
    BY <2>1
  <2> QED BY <1>1, <1>2, <2>1
<1> QED BY <1>4, <1>5


\* What of the order StableSort() takes: a rearrangement, by rank.
Rearranges(p, rows, sort) ==
  /\ p \in Bijection(DOMAIN rows, DOMAIN rows)
  /\ \A k \in DOMAIN rows : Rank(rows, sort, p[k]) = k - 1
  /\ StableSort(rows, sort) = [k \in DOMAIN rows |-> rows[p[k]]]

LEMMA StableSortRearranges ==
  ASSUME NEW rows \in Seq(Entries), NEW sort \in Sorts
  PROVE  \E p : Rearranges(p, rows, sort)
<1> DEFINE D == DOMAIN rows
           place == [i \in D |-> Rank(rows, sort, i) + 1]
           p == [k \in D |-> CHOOSE i \in D : Rank(rows, sort, i) = k - 1]
<1>1. D = 1 .. Len(rows) /\ Len(rows) \in Nat /\ IsFiniteSet(D)
  <2>1. D = 1 .. Len(rows) /\ Len(rows) \in Nat
    OBVIOUS
  <2> QED BY <2>1, UpToN
<1>2. place \in Injection(D, D)
  <2>1. ASSUME NEW i \in D PROVE Rank(rows, sort, i) \in Nat /\ place[i] \in D
    <3>1. ASSUME NEW n \in Nat, NEW r \in 0 .. n - 1 PROVE r \in Nat /\ r + 1 \in 1 .. n
      OBVIOUS
    <3> QED BY <1>1, <3>1, RanksAreDistinct
  <2>2. ASSUME NEW i \in D, NEW j \in D, place[i] = place[j] PROVE i = j
    <3>1. Rank(rows, sort, i) + 1 = Rank(rows, sort, j) + 1
      BY <2>2
    <3>2. Rank(rows, sort, i) = Rank(rows, sort, j)
      BY <2>1, <3>1
    <3> QED BY <3>2, RanksAreDistinct
  <2>3. place \in [D -> D]
    BY <2>1
  <2> QED BY <2>2, <2>3 DEF Injection, IsInjective
<1>3. place \in Surjection(D, D)
  BY <1>1, <1>2, FS_Injection
<1>4. ASSUME NEW k \in D PROVE p[k] \in D /\ Rank(rows, sort, p[k]) = k - 1
  <2>1. PICK i \in D : place[i] = k
    BY <1>3 DEF Surjection
  <2>2. Rank(rows, sort, i) = k - 1
    <3>1. Rank(rows, sort, i) \in Int /\ k \in Int
      BY <1>1, RanksAreDistinct
    <3> QED BY <2>1, <3>1
  <2> QED BY <2>2
<1>5. p \in Injection(D, D)
  <2>1. ASSUME NEW k \in D, NEW l \in D, p[k] = p[l] PROVE k = l
    <3>1. k - 1 = l - 1
      BY <1>4, <2>1
    <3> QED BY <1>1, <3>1
  <2> QED BY <1>4, <2>1 DEF Injection, IsInjective
<1>6. p \in Bijection(D, D)
  BY <1>1, <1>5, FS_Injection DEF Bijection
<1>7. StableSort(rows, sort) = [k \in D |-> rows[p[k]]]
  BY DEF StableSort
<1> QED BY <1>4, <1>6, <1>7 DEF Rearranges


-----------------------------------------------------------------------------
(* The entries with a status.                                              *)

With(rows, status) == {i \in DOMAIN rows : rows[i].status = status}

LEMMA WithIsFinite ==
  ASSUME NEW rows \in Seq(Entries), NEW status
  PROVE  IsFiniteSet(With(rows, status)) /\ Cardinality(With(rows, status)) \in Nat
<1>1. DOMAIN rows = 1 .. Len(rows) /\ Len(rows) \in Nat
  OBVIOUS
<1>2. IsFiniteSet(With(rows, status))
  BY <1>1, UpToN, FS_Subset DEF With
<1> QED BY <1>2, FS_CardinalityType

\* Sorting takes none away and adds none.
LEMMA SortKeepsCounts ==
  ASSUME NEW rows \in Seq(Entries), NEW sort \in Sorts, NEW status
  PROVE  Cardinality(With(StableSort(rows, sort), status)) = Cardinality(With(rows, status))
<1>1. PICK p : Rearranges(p, rows, sort)
  BY StableSortRearranges
<1> DEFINE sorted == StableSort(rows, sort)
           D == DOMAIN rows
           f == [k \in With(sorted, status) |-> p[k]]
<1>2. sorted = [k \in D |-> rows[p[k]]] /\ DOMAIN sorted = D
  BY <1>1 DEF Rearranges
<1>3. p \in [D -> D] /\ IsInjective(p) /\ \A i \in D : \E k \in D : p[k] = i
  BY <1>1 DEF Rearranges, Bijection, Injection, Surjection
<1> HIDE DEF sorted, D
<1>4. \A k \in D : sorted[k] = rows[p[k]]
  BY <1>2
<1>5. f \in [With(sorted, status) -> With(rows, status)]
  BY <1>2, <1>3, <1>4 DEF With, D
<1>6. f \in Injection(With(sorted, status), With(rows, status))
  BY <1>2, <1>3, <1>5 DEF Injection, IsInjective, With
<1>7. ASSUME NEW i \in With(rows, status) PROVE \E k \in With(sorted, status) : f[k] = i
  <2>1. i \in D /\ rows[i].status = status
    BY DEF With, D
  <2>2. PICK k \in D : p[k] = i
    BY <1>3, <2>1
  <2>3. k \in With(sorted, status)
    BY <1>2, <1>4, <2>1, <2>2 DEF With
  <2> QED BY <2>2, <2>3
<1>8. f \in Surjection(With(sorted, status), With(rows, status))
  BY <1>5, <1>7 DEF Surjection
<1>9. IsFiniteSet(With(rows, status))
  BY WithIsFinite
<1>10. IsFiniteSet(With(sorted, status))
  BY <1>6, <1>9, FS_Injection
<1>11. Cardinality(With(sorted, status)) = Cardinality(With(rows, status))
  BY <1>6, <1>8, <1>9, FS_Injection
<1> QED BY <1>11 DEF sorted

\* An entry that is added counts for its status alone.
LEMMA AppendCounts ==
  ASSUME NEW rows \in Seq(Entries), NEW e \in Entries, NEW status
  PROVE  /\ e.status = status =>
              Cardinality(With(Append(rows, e), status)) = Cardinality(With(rows, status)) + 1
         /\ e.status # status =>
              Cardinality(With(Append(rows, e), status)) = Cardinality(With(rows, status))
<1>1. /\ Len(rows) \in Nat /\ DOMAIN rows = 1 .. Len(rows)
      /\ DOMAIN Append(rows, e) = 1 .. Len(rows) + 1
      /\ Append(rows, e)[Len(rows) + 1] = e
      /\ \A i \in 1 .. Len(rows) : Append(rows, e)[i] = rows[i]
  OBVIOUS
<1>2. CASE e.status = status
  <2>1. With(Append(rows, e), status) = With(rows, status) \cup {Len(rows) + 1}
    BY <1>1, <1>2 DEF With
  <2>2. Len(rows) + 1 \notin With(rows, status)
    BY <1>1 DEF With
  <2>3. Cardinality(With(rows, status) \cup {Len(rows) + 1}) = Cardinality(With(rows, status)) + 1
    BY <2>2, WithIsFinite, FS_AddElement
  <2> QED BY <1>2, <2>1, <2>3
<1>3. CASE e.status # status
  <2>1. With(Append(rows, e), status) = With(rows, status)
    BY <1>1, <1>3 DEF With
  <2> QED BY <1>3, <2>1
<1> QED BY <1>2, <1>3

LEMMA NoneWithout ==
  ASSUME NEW rows, NEW status, \A i \in DOMAIN rows : rows[i].status # status
  PROVE  Cardinality(With(rows, status)) = 0
<1>1. With(rows, status) = {}
  BY DEF With
<1> QED BY <1>1, FS_EmptySet

-----------------------------------------------------------------------------
(* The original positions.                                                 *)

\* Those of n entries are the first n, each once.
Positions(rows) ==
  /\ \A i \in DOMAIN rows : rows[i].original_position \in 0 .. Len(rows) - 1
  /\ \A i, j \in DOMAIN rows :
       i # j => rows[i].original_position # rows[j].original_position

LEMMA SortedIsList ==
  ASSUME NEW rows \in Seq(Entries), NEW sort \in Sorts
  PROVE  StableSort(rows, sort) \in Seq(Entries) /\ Len(StableSort(rows, sort)) = Len(rows)
<1>1. PICK p : Rearranges(p, rows, sort)
  BY StableSortRearranges
<1>2. DOMAIN rows = 1 .. Len(rows) /\ Len(rows) \in Nat
  OBVIOUS
<1>3. p \in [1 .. Len(rows) -> 1 .. Len(rows)]
  BY <1>1, <1>2 DEF Rearranges, Bijection, Injection
<1>4. StableSort(rows, sort) = [k \in 1 .. Len(rows) |-> rows[p[k]]]
  BY <1>1, <1>2 DEF Rearranges
<1>5. \A k \in 1 .. Len(rows) : rows[p[k]] \in Entries
  BY <1>3
<1>6. StableSort(rows, sort) \in [1 .. Len(rows) -> Entries]
  BY <1>4, <1>5
<1> QED BY <1>2, <1>6

LEMMA SortKeepsPositions ==
  ASSUME NEW rows \in Seq(Entries), NEW sort \in Sorts, Positions(rows)
  PROVE  Positions(StableSort(rows, sort))
<1>1. PICK p : Rearranges(p, rows, sort)
  BY StableSortRearranges
<1> DEFINE sorted == StableSort(rows, sort)
<1>2. sorted = [k \in DOMAIN rows |-> rows[p[k]]] /\ DOMAIN sorted = DOMAIN rows
  BY <1>1 DEF Rearranges
<1>3. p \in [DOMAIN rows -> DOMAIN rows] /\ IsInjective(p)
  BY <1>1 DEF Rearranges, Bijection, Injection
<1>4. Len(sorted) = Len(rows)
  BY SortedIsList
<1> HIDE DEF sorted
<1>5. ASSUME NEW k \in DOMAIN rows
      PROVE  p[k] \in DOMAIN rows /\ sorted[k].original_position = rows[p[k]].original_position
  BY <1>2, <1>3
<1>6. \A k \in DOMAIN sorted : sorted[k].original_position \in 0 .. Len(sorted) - 1
  BY <1>2, <1>4, <1>5 DEF Positions
<1>7. ASSUME NEW k \in DOMAIN sorted, NEW l \in DOMAIN sorted, k # l
      PROVE  sorted[k].original_position # sorted[l].original_position
  <2>1. p[k] # p[l]
    BY <1>2, <1>3, <1>7 DEF IsInjective
  <2> QED BY <1>2, <1>5, <2>1 DEF Positions
<1> QED BY <1>6, <1>7 DEF Positions, sorted

LEMMA AppendKeepsPositions ==
  ASSUME NEW rows \in Seq(Entries), NEW e \in Entries, e.original_position = Len(rows),
         Positions(rows)
  PROVE  Positions(Append(rows, e))
<1>1. PICK n \in Nat : n = Len(rows)
  OBVIOUS
<1>2. PICK longer : longer = Append(rows, e)
  OBVIOUS
<1>3. /\ DOMAIN rows = 1 .. n /\ Len(longer) = n + 1 /\ DOMAIN longer = 1 .. n + 1
      /\ longer[n + 1] = e
      /\ \A i \in 1 .. n : longer[i] = rows[i]
  BY <1>1, <1>2
<1>4. \A i \in 1 .. n : rows[i].original_position \in 0 .. n - 1
  BY <1>1, <1>3 DEF Positions
<1>5. \A i \in 1 .. n + 1 : i = n + 1 \/ i \in 1 .. n
  OBVIOUS
<1>6. n \notin 0 .. n - 1 /\ n \in 0 .. n /\ \A r \in 0 .. n - 1 : r \in 0 .. n
  OBVIOUS
<1>7. \A i \in 1 .. n + 1 : longer[i].original_position \in 0 .. n
  BY <1>1, <1>3, <1>4, <1>5, <1>6
<1>8. ASSUME NEW i \in 1 .. n + 1, NEW j \in 1 .. n + 1, i # j
      PROVE  longer[i].original_position # longer[j].original_position
  <2>1. CASE i \in 1 .. n /\ j \in 1 .. n
    BY <1>3, <1>8, <2>1 DEF Positions
  <2>2. CASE i = n + 1 /\ j \in 1 .. n
    BY <1>1, <1>3, <1>4, <1>6, <2>2
  <2>3. CASE j = n + 1 /\ i \in 1 .. n
    BY <1>1, <1>3, <1>4, <1>6, <2>3
  <2> QED BY <1>5, <1>8, <2>1, <2>2, <2>3
<1>9. n + 1 - 1 = n
  OBVIOUS
<1> QED BY <1>2, <1>3, <1>7, <1>8, <1>9 DEF Positions

\* By original position, the rank of an entry is its position.
LEMMA RankIsPosition ==
  ASSUME NEW rows \in Seq(Entries), NEW sort \in Sorts, sort.order = "Original",
         Positions(rows), NEW i \in DOMAIN rows
  PROVE  Rank(rows, sort, i) = rows[i].original_position
<1> DEFINE D == DOMAIN rows
           n == Len(rows)
           pos == [j \in D |-> rows[j].original_position]
           Below == {j \in D : Before(rows, sort, j, i)}
           g == [j \in Below |-> pos[j]]
<1>1. D = 1 .. n /\ n \in Nat /\ i \in D
  OBVIOUS
<1> HIDE DEF D, n
<1>2. pos \in Injection(D, 0 .. n - 1)
  BY DEF Positions, Injection, IsInjective, D, n
<1>3. pos \in Surjection(D, 0 .. n - 1)
  <2>1. IsFiniteSet(0 .. n - 1) /\ Cardinality(D) = Cardinality(0 .. n - 1)
    BY <1>1, UpToN
  <2> QED BY <1>2, <2>1, FS_Injection
<1>4. PICK m \in 0 .. n - 1 : m = pos[i]
  BY <1>1, <1>2 DEF Injection
<1>5. ASSUME NEW j \in D PROVE Before(rows, sort, j, i) <=> pos[j] < m
  <2>1. Key(rows[j], sort) = pos[j] /\ Key(rows[i], sort) = m
    BY <1>1, <1>4 DEF Key
  <2>2. pos[j] = m => j = i
    BY <1>1, <1>2, <1>4 DEF Injection, IsInjective
  <2>3. pos[j] \in Int /\ m \in Int /\ i \in Int /\ pos[j] \in 0 .. n - 1
    BY <1>1, <1>2 DEF Injection
  <2>4. Before(rows, sort, j, i) <=> IF pos[j] = m THEN j < i ELSE pos[j] < m
    BY <2>1 DEF Before
  <2> QED BY <2>2, <2>3, <2>4
<1> HIDE DEF pos
<1>6. g \in [Below -> 0 .. m - 1]
  <2>1. ASSUME NEW j \in Below PROVE g[j] \in 0 .. m - 1
    <3>1. pos[j] \in 0 .. n - 1 /\ pos[j] < m
      BY <1>2, <1>5 DEF Injection
    <3>2. pos[j] \in Int /\ 0 <= pos[j]
      BY <1>1, <3>1
    <3>3. ASSUME NEW a \in Int, NEW b \in Int, 0 <= a, a < b PROVE a \in 0 .. b - 1
      BY <3>3
    <3> QED BY <1>1, <3>1, <3>2, <3>3
  <2> QED BY <2>1
<1>7. g \in Injection(Below, 0 .. m - 1)
  BY <1>2, <1>6 DEF Injection, IsInjective
<1>8. ASSUME NEW r \in 0 .. m - 1 PROVE \E j \in Below : g[j] = r
  <2>1. r \in 0 .. n - 1 /\ r < m
    BY <1>1
  <2>2. PICK j \in D : pos[j] = r
    BY <1>3, <2>1 DEF Surjection
  <2> QED BY <1>5, <2>1, <2>2
<1>9. g \in Surjection(Below, 0 .. m - 1)
  BY <1>6, <1>8 DEF Surjection
<1>10. m \in Nat /\ IsFiniteSet(0 .. m - 1) /\ Cardinality(0 .. m - 1) = m
  <2>1. m \in Nat
    BY <1>1
  <2> QED BY <2>1, UpToN
<1>11. Cardinality(Below) = m
  BY <1>7, <1>9, <1>10, FS_Injection
<1> QED BY <1>1, <1>4, <1>11 DEF Rank, D, pos

\* The entries in the order they came in.
InOrder(rows) == \A i \in DOMAIN rows : rows[i].original_position = i - 1

LEMMA OriginalSortIsInOrder ==
  ASSUME NEW rows \in Seq(Entries), NEW sort \in Sorts, sort.order = "Original",
         Positions(rows)
  PROVE  InOrder(StableSort(rows, sort))
<1>1. PICK p : Rearranges(p, rows, sort)
  BY StableSortRearranges
<1>2. StableSort(rows, sort) = [k \in DOMAIN rows |-> rows[p[k]]]
  BY <1>1 DEF Rearranges
<1>3. ASSUME NEW k \in DOMAIN rows PROVE rows[p[k]].original_position = k - 1
  <2>1. p[k] \in DOMAIN rows
    BY <1>1 DEF Rearranges, Bijection, Injection
  <2>2. Rank(rows, sort, p[k]) = k - 1
    BY <1>1 DEF Rearranges
  <2> QED BY <2>1, <2>2, RankIsPosition
<1> QED BY <1>2, <1>3 DEF InOrder


-----------------------------------------------------------------------------
(* The invariant.                                                          *)

Phases == {"Idle", "Started", "InFile", "Canceled", "Completed", "Failed"}
Running == shown.phase \in {"Started", "InFile", "Canceled"}

StatsRecords == [total : Nat, completed : Nat, ok : Nat, bad : Nat, missing : Nat]
Showns == [phase : Phases, n_files : Nat, file : 0 .. MaxFiles,
           ok : Nat, bad : Nat, missing : Nat, was_canceled : BOOLEAN]

ShownInv ==
  /\ reported \in Seq(Verifies \cup Creates)
  /\ shown \in Showns
  /\ shown.phase = "InFile" => shown.file # 0

\* The numbers count what is in the list and, until the end of the operation,
\* what its callbacks have shown: onOperationCompleted() then changes nothing.
StatsInv ==
  /\ m_stats \in StatsRecords
  /\ Running => /\ m_stats.ok = shown.ok /\ m_stats.bad = shown.bad
                /\ m_stats.missing = shown.missing

Counts(rows, stats) ==
  /\ stats.ok = Cardinality(With(rows, Ok))
  /\ stats.bad = Cardinality(With(rows, FailedMismatch))
  /\ stats.missing = Cardinality(With(rows, FailedMissing))

Sound(rows, sort, stats) ==
  /\ rows \in Seq(Entries) /\ Positions(rows) /\ Counts(rows, stats)
  /\ sort.order = "Original" => InOrder(rows)

ListInv ==
  /\ ShownInv /\ StatsInv
  /\ m_listSort \in Sorts /\ pristine \in BOOLEAN
  /\ pristine => Sound(m_listEntries, m_listSort, m_stats)


\* What the entries and messages look like.
LEMMA EntryIsEntry ==
  ASSUME NEW rows \in Seq(Entries), NEW name \in Names, NEW checksum \in {NoChecksum, SomeChecksum},
         NEW status \in 0 .. 5
  PROVE  /\ Entry(rows, name, checksum, status) \in Entries
         /\ Message(rows, status) \in Entries
         /\ Entry(rows, name, checksum, status).status = status
         /\ Message(rows, status).status = status
         /\ Entry(rows, name, checksum, status).original_position = Len(rows)
         /\ Message(rows, status).original_position = Len(rows)
  BY DEF Entry, Message, Entries

LEMMA MessageIsEntry ==
  ASSUME NEW rows \in Seq(Entries), NEW status \in 0 .. 5
  PROVE  /\ Message(rows, status) \in Entries
         /\ Message(rows, status).status = status
         /\ Message(rows, status).original_position = Len(rows)
  BY DEF Entry, Message, Entries

\* An entry that is added keeps the list sound if it is counted.
LEMMA AddedStaysSound ==
  ASSUME NEW rows, NEW sort, NEW stats, Sound(rows, sort, stats), NEW e \in Entries,
         e.original_position = Len(rows), NEW after,
         after.ok = IF e.status = Ok THEN stats.ok + 1 ELSE stats.ok,
         after.bad = IF e.status = FailedMismatch THEN stats.bad + 1 ELSE stats.bad,
         after.missing = IF e.status = FailedMissing THEN stats.missing + 1 ELSE stats.missing
  PROVE  Sound(Append(rows, e), sort, after)
<1>1. rows \in Seq(Entries) /\ Positions(rows) /\ Counts(rows, stats)
  BY DEF Sound
<1>2. Append(rows, e) \in Seq(Entries) /\ Positions(Append(rows, e))
  BY <1>1, AppendKeepsPositions
<1>3. Counts(Append(rows, e), after)
  BY <1>1, AppendCounts DEF Counts
<1>4. ASSUME sort.order = "Original" PROVE InOrder(Append(rows, e))
  <2>1. PICK n \in Nat : n = Len(rows)
    BY <1>1
  <2>2. /\ DOMAIN rows = 1 .. n /\ DOMAIN Append(rows, e) = 1 .. n + 1
        /\ Append(rows, e)[n + 1] = e /\ \A i \in 1 .. n : Append(rows, e)[i] = rows[i]
    BY <1>1, <2>1
  <2>3. \A i \in 1 .. n + 1 : i = n + 1 \/ i \in 1 .. n
    OBVIOUS
  <2>4. n + 1 - 1 = n
    OBVIOUS
  <2>5. InOrder(rows)
    BY <1>4 DEF Sound
  <2> QED BY <2>1, <2>2, <2>3, <2>4, <2>5 DEF InOrder
<1> QED BY <1>2, <1>3, <1>4 DEF Sound

LEMMA MessageStaysSound ==
  ASSUME NEW rows, NEW sort, NEW stats, Sound(rows, sort, stats), NEW status \in 3 .. 5,
         NEW after, after.ok = stats.ok, after.bad = stats.bad, after.missing = stats.missing
  PROVE  Sound(Append(rows, Message(rows, status)), sort, after)
<1>1. rows \in Seq(Entries) /\ status \in 0 .. 5
  BY DEF Sound
<1>2. /\ Message(rows, status) \in Entries /\ Message(rows, status).status = status
      /\ Message(rows, status).original_position = Len(rows)
  BY <1>1, MessageIsEntry
<1>3. status # Ok /\ status # FailedMismatch /\ status # FailedMissing
  BY DEF Ok, FailedMismatch, FailedMissing
<1> QED BY <1>2, <1>3, AddedStaysSound

\* The list of an operation that starts.
LEMMA FirstIsSound ==
  ASSUME NEW sort, NEW stats, stats.ok = 0, stats.bad = 0, stats.missing = 0
  PROVE  Sound(<<>>, sort, stats) /\ Sound(<<Message(<<>>, Information)>>, sort, stats)
<1>1. Sound(<<>>, sort, stats)
  <2>1. <<>> \in Seq(Entries) /\ DOMAIN <<>> = {}
    OBVIOUS
  <2>2. \A status : Cardinality(With(<<>>, status)) = 0
    BY <2>1, NoneWithout
  <2> QED BY <2>1, <2>2 DEF Sound, Positions, Counts, InOrder
<1>2. Append(<<>>, Message(<<>>, Information)) = <<Message(<<>>, Information)>>
  BY DEF Message, Entry
<1>3. Information \in 3 .. 5
  BY DEF Information
<1> QED BY <1>1, <1>2, <1>3, MessageStaysSound

\* A click on a column.
LEMMA SortedStaysSound ==
  ASSUME NEW rows, NEW sort, NEW stats, Sound(rows, sort, stats), NEW by \in Sorts
  PROVE  Sound(StableSort(rows, by), by, stats)
<1>1. rows \in Seq(Entries) /\ Positions(rows) /\ Counts(rows, stats)
  BY DEF Sound
<1>2. StableSort(rows, by) \in Seq(Entries) /\ Positions(StableSort(rows, by))
  BY <1>1, SortedIsList, SortKeepsPositions
<1>3. Counts(StableSort(rows, by), stats)
  BY <1>1, SortKeepsCounts DEF Counts
<1>4. by.order = "Original" => InOrder(StableSort(rows, by))
  BY <1>1, OriginalSortIsInOrder
<1> QED BY <1>2, <1>3, <1>4 DEF Sound

LEMMA ClickedIsSort ==
  ASSUME m_listSort \in Sorts, NEW column \in 0 .. 2 PROVE Clicked(column) \in Sorts
  BY DEF Sorts, Clicked, NextOrder


-----------------------------------------------------------------------------
(* Every step keeps the invariant.                                         *)

LEMMA InitList == Init => ListInv
<1> SUFFICES ASSUME Init PROVE ListInv
  OBVIOUS
<1>1. ShownInv
  BY ListConstants DEF Init, EventHandler!Init, ShownInv, Showns, Phases
<1>2. StatsInv
  BY DEF Init, EventHandler!Init, StatsInv, StatsRecords, NoStats, Running
<1>3. m_listSort \in Sorts /\ pristine \in BOOLEAN
  BY DEF Init, Sorts
<1>4. Sound(m_listEntries, m_listSort, m_stats)
  BY FirstIsSound DEF Init, NoStats
<1> QED BY <1>1, <1>2, <1>3, <1>4 DEF ListInv

\* An operation that is reported for the first time is heard of.
LEMMA AnotherIsHeard ==
  ASSUME ShownInv, NEW op \in Verifies \cup Creates, EventHandler!Another(op)
  PROVE  reported' \in Seq(Verifies \cup Creates)
<1>1. Append(reported, op) \in Seq(Verifies \cup Creates)
  BY DEF ShownInv
<1> QED BY <1>1 DEF EventHandler!Another

LEMMA StartedStep ==
  ASSUME ListInv, NEW op \in Verifies \cup Creates, NEW n \in 0 .. MaxFiles,
         onOperationStarted(op, n)
  PROVE  ListInv'
<1>1. ShownInv'
  <2>1. reported' \in Seq(Verifies \cup Creates)
    BY AnotherIsHeard DEF ListInv, onOperationStarted, EventHandler!onOperationStarted
  <2>2. 0 \in 0 .. MaxFiles /\ n \in Nat
    BY ListConstants
  <2> QED BY <2>1, <2>2 DEF onOperationStarted, EventHandler!onOperationStarted, ShownInv, Showns, Phases
<1>2. StatsInv'
  <2>1. m_stats' = [total |-> n, completed |-> 0, ok |-> 0, bad |-> 0, missing |-> 0]
    BY DEF onOperationStarted, NoStats
  <2>2. shown'.ok = 0 /\ shown'.bad = 0 /\ shown'.missing = 0
    BY DEF onOperationStarted, EventHandler!onOperationStarted
  <2> QED BY <2>1, <2>2 DEF StatsInv, StatsRecords
<1>3. m_listSort' \in Sorts /\ pristine' \in BOOLEAN
  BY DEF ListInv, onOperationStarted
<1>4. Sound(m_listEntries', m_listSort', m_stats')
  <2>1. m_listEntries' = <<Message(<<>>, Information)>>
    BY DEF onOperationStarted, Show
  <2>2. m_stats'.ok = 0 /\ m_stats'.bad = 0 /\ m_stats'.missing = 0
    BY DEF onOperationStarted, NoStats
  <2> QED BY <2>1, <2>2, FirstIsSound
<1> QED BY <1>1, <1>2, <1>3, <1>4 DEF ListInv, Sound

\* A callback that shows nothing in the list.
LEMMA QuietStep ==
  ASSUME ListInv, ShownInv', UNCHANGED <<m_listEntries, m_listSort, m_stats, pristine>>,
         Running', Running, shown'.ok = shown.ok, shown'.bad = shown.bad,
         shown'.missing = shown.missing
  PROVE  ListInv'
  BY DEF ListInv, StatsInv, Sound, Positions, Counts, InOrder

LEMMA FileStartedStep ==
  ASSUME ListInv, shown.file < MaxFiles, onFileStarted
  PROVE  ListInv'
<1>1. /\ shown.phase = "Started" /\ UNCHANGED reported
      /\ shown' = [shown EXCEPT !.phase = "InFile", !.file = @ + 1]
  BY DEF onFileStarted, EventHandler!onFileStarted, EventHandler!In
<1>2. ShownInv'
  <2>1. ASSUME NEW f \in 0 .. MaxFiles, f < MaxFiles PROVE f + 1 \in 0 .. MaxFiles /\ f + 1 # 0
    BY <2>1, ListConstants
  <2>2. shown.file + 1 \in 0 .. MaxFiles /\ shown.file + 1 # 0
    BY <2>1 DEF ListInv, ShownInv, Showns
  <2> QED BY <1>1, <2>2 DEF ListInv, ShownInv, Showns, Phases
<1>3. /\ shown'.phase = "InFile" /\ shown'.ok = shown.ok /\ shown'.bad = shown.bad
      /\ shown'.missing = shown.missing
  BY <1>1 DEF ListInv, ShownInv, Showns
<1> QED BY <1>1, <1>2, <1>3, QuietStep DEF onFileStarted, Running

LEMMA CanceledStep == ASSUME ListInv, onCanceled PROVE ListInv'
<1>1. /\ shown.phase = "InFile" /\ UNCHANGED reported
      /\ shown' = [shown EXCEPT !.phase = "Canceled"]
  BY DEF onCanceled, EventHandler!onCanceled, EventHandler!In, EventHandler!Continue
<1>2. ShownInv'
  BY <1>1 DEF ListInv, ShownInv, Showns, Phases
<1>3. /\ shown'.phase = "Canceled" /\ shown'.ok = shown.ok /\ shown'.bad = shown.bad
      /\ shown'.missing = shown.missing
  BY <1>1 DEF ListInv, ShownInv, Showns
<1> QED BY <1>1, <1>2, <1>3, QuietStep DEF onCanceled, Running

\* The name of the file that was being checked.
LEMMA FileHasName ==
  ASSUME ShownInv, shown.phase = "InFile" PROVE FileName[shown.file] \in Names
<1>1. shown.file \in 1 .. MaxFiles
  BY ListConstants DEF ShownInv, Showns
<1> QED BY <1>1 DEF Names

\* One more file with a status.
Counted(s, status) == [s EXCEPT !.completed = @ + 1, ![status] = @ + 1]
Told(s, status) == [s EXCEPT !.phase = "Started", ![status] = @ + 1]

LEMMA OneMoreCounted ==
  ASSUME NEW s \in StatsRecords, NEW status \in {"ok", "bad", "missing"}, NEW t,
         t = Counted(s, status)
  PROVE  /\ t \in StatsRecords
         /\ t.ok = IF status = "ok" THEN s.ok + 1 ELSE s.ok
         /\ t.bad = IF status = "bad" THEN s.bad + 1 ELSE s.bad
         /\ t.missing = IF status = "missing" THEN s.missing + 1 ELSE s.missing
<1>0. s.completed + 1 \in Nat /\ s.ok + 1 \in Nat /\ s.bad + 1 \in Nat /\ s.missing + 1 \in Nat
  BY DEF StatsRecords
<1>1. CASE status = "ok"
  <2>1. t = [s EXCEPT !.completed = @ + 1, !.ok = @ + 1]
    BY <1>1 DEF Counted
  <2>2. t \in StatsRecords
    BY <1>0, <2>1 DEF StatsRecords
  <2>3. t.ok = s.ok + 1
    BY <2>1 DEF StatsRecords
  <2>4. t.bad = s.bad
    BY <2>1 DEF StatsRecords
  <2>5. t.missing = s.missing
    BY <2>1 DEF StatsRecords
  <2> QED BY <1>1, <2>2, <2>3, <2>4, <2>5
<1>2. CASE status = "bad"
  <2>1. t = [s EXCEPT !.completed = @ + 1, !.bad = @ + 1]
    BY <1>2 DEF Counted
  <2>2. t \in StatsRecords
    BY <1>0, <2>1 DEF StatsRecords
  <2>3. t.ok = s.ok
    BY <2>1 DEF StatsRecords
  <2>4. t.bad = s.bad + 1
    BY <2>1 DEF StatsRecords
  <2>5. t.missing = s.missing
    BY <2>1 DEF StatsRecords
  <2> QED BY <1>2, <2>2, <2>3, <2>4, <2>5
<1>3. CASE status = "missing"
  <2>1. t = [s EXCEPT !.completed = @ + 1, !.missing = @ + 1]
    BY <1>3 DEF Counted
  <2>2. t \in StatsRecords
    BY <1>0, <2>1 DEF StatsRecords
  <2>3. t.ok = s.ok
    BY <2>1 DEF StatsRecords
  <2>4. t.bad = s.bad
    BY <2>1 DEF StatsRecords
  <2>5. t.missing = s.missing + 1
    BY <2>1 DEF StatsRecords
  <2> QED BY <1>3, <2>2, <2>3, <2>4, <2>5
<1> QED BY <1>1, <1>2, <1>3

LEMMA OneMoreShown ==
  ASSUME NEW s \in Showns, NEW status \in {"ok", "bad", "missing"}, NEW t,
         t = Told(s, status)
  PROVE  /\ t \in Showns /\ t.phase = "Started"
         /\ t.ok = IF status = "ok" THEN s.ok + 1 ELSE s.ok
         /\ t.bad = IF status = "bad" THEN s.bad + 1 ELSE s.bad
         /\ t.missing = IF status = "missing" THEN s.missing + 1 ELSE s.missing
<1>0. s.ok + 1 \in Nat /\ s.bad + 1 \in Nat /\ s.missing + 1 \in Nat
  BY DEF Showns
<1>1. CASE status = "ok"
  <2>1. t = [s EXCEPT !.phase = "Started", !.ok = @ + 1]
    BY <1>1 DEF Told
  <2>2. t \in Showns
    BY <1>0, <2>1 DEF Showns, Phases
  <2>3. t.ok = s.ok + 1
    BY <2>1 DEF Showns
  <2>4. t.bad = s.bad
    BY <2>1 DEF Showns
  <2>5. t.missing = s.missing
    BY <2>1 DEF Showns
  <2>6. t.phase = "Started"
    BY <2>1 DEF Showns
  <2> QED BY <1>1, <2>2, <2>3, <2>4, <2>5, <2>6
<1>2. CASE status = "bad"
  <2>1. t = [s EXCEPT !.phase = "Started", !.bad = @ + 1]
    BY <1>2 DEF Told
  <2>2. t \in Showns
    BY <1>0, <2>1 DEF Showns, Phases
  <2>3. t.ok = s.ok
    BY <2>1 DEF Showns
  <2>4. t.bad = s.bad + 1
    BY <2>1 DEF Showns
  <2>5. t.missing = s.missing
    BY <2>1 DEF Showns
  <2>6. t.phase = "Started"
    BY <2>1 DEF Showns
  <2> QED BY <1>2, <2>2, <2>3, <2>4, <2>5, <2>6
<1>3. CASE status = "missing"
  <2>1. t = [s EXCEPT !.phase = "Started", !.missing = @ + 1]
    BY <1>3 DEF Told
  <2>2. t \in Showns
    BY <1>0, <2>1 DEF Showns, Phases
  <2>3. t.ok = s.ok
    BY <2>1 DEF Showns
  <2>4. t.bad = s.bad
    BY <2>1 DEF Showns
  <2>5. t.missing = s.missing + 1
    BY <2>1 DEF Showns
  <2>6. t.phase = "Started"
    BY <2>1 DEF Showns
  <2> QED BY <1>3, <2>2, <2>3, <2>4, <2>5, <2>6
<1> QED BY <1>1, <1>2, <1>3

LEMMA FileCompletedStep ==
  ASSUME ListInv, NEW status \in DOMAIN EntryStatus, onFileCompleted(status)
  PROVE  ListInv'
<1>1. status \in {"ok", "bad", "missing"}
  BY DEF EntryStatus
<1>2. /\ shown.phase = "InFile" /\ UNCHANGED reported
      /\ shown' = Told(shown, status)
  BY DEF onFileCompleted, EventHandler!onFileCompleted, EventHandler!In, Told
<1>3. ShownInv'
  <2>1. shown' \in Showns /\ shown'.phase = "Started"
    <3>1. shown \in Showns
      BY DEF ListInv, ShownInv
    <3> QED BY <1>1, <1>2, <3>1, OneMoreShown
  <2> QED BY <1>2, <2>1 DEF ListInv, ShownInv
<1>4. m_stats' = Counted(m_stats, status)
  BY DEF onFileCompleted, Counted
<1>5. /\ m_stats'.ok = IF status = "ok" THEN m_stats.ok + 1 ELSE m_stats.ok
      /\ m_stats'.bad = IF status = "bad" THEN m_stats.bad + 1 ELSE m_stats.bad
      /\ m_stats'.missing = IF status = "missing" THEN m_stats.missing + 1 ELSE m_stats.missing
      /\ m_stats' \in StatsRecords
  <2>1. m_stats \in StatsRecords
    BY DEF ListInv, StatsInv
  <2> QED BY <1>1, <1>4, <2>1, OneMoreCounted
<1>6. /\ shown'.ok = IF status = "ok" THEN shown.ok + 1 ELSE shown.ok
      /\ shown'.bad = IF status = "bad" THEN shown.bad + 1 ELSE shown.bad
      /\ shown'.missing = IF status = "missing" THEN shown.missing + 1 ELSE shown.missing
  <2>1. shown \in Showns
    BY DEF ListInv, ShownInv
  <2> QED BY <1>1, <1>2, <2>1, OneMoreShown
<1>7. StatsInv'
  BY <1>2, <1>5, <1>6 DEF ListInv, StatsInv, Running
<1>8. pristine' = pristine /\ m_listSort' = m_listSort
  BY DEF onFileCompleted
<1>9. ASSUME pristine PROVE Sound(m_listEntries', m_listSort', m_stats')
  <2>1. PICK checksum \in {NoChecksum, SomeChecksum} :
          m_listEntries' = Append(m_listEntries,
            Entry(m_listEntries, FileName[shown.file], checksum, EntryStatus[status]))
    BY <1>1 DEF onFileCompleted, Show
  <2>2. Sound(m_listEntries, m_listSort, m_stats)
    BY <1>9 DEF ListInv
  <2>3. FileName[shown.file] \in Names
    BY <1>2, FileHasName DEF ListInv
  <2>4. /\ EntryStatus[status] \in 0 .. 5
        /\ EntryStatus[status] = Ok <=> status = "ok"
        /\ EntryStatus[status] = FailedMismatch <=> status = "bad"
        /\ EntryStatus[status] = FailedMissing <=> status = "missing"
    BY <1>1 DEF EntryStatus, Ok, FailedMismatch, FailedMissing
  <2>5. PICK e \in Entries :
          /\ e = Entry(m_listEntries, FileName[shown.file], checksum, EntryStatus[status])
          /\ e.status = EntryStatus[status] /\ e.original_position = Len(m_listEntries)
    BY <2>2, <2>3, <2>4, EntryIsEntry DEF Sound
  <2>6. /\ m_stats'.ok = IF e.status = Ok THEN m_stats.ok + 1 ELSE m_stats.ok
        /\ m_stats'.bad = IF e.status = FailedMismatch THEN m_stats.bad + 1 ELSE m_stats.bad
        /\ m_stats'.missing = IF e.status = FailedMissing THEN m_stats.missing + 1
                              ELSE m_stats.missing
    BY <1>5, <2>4, <2>5
  <2>7. Sound(Append(m_listEntries, e), m_listSort, m_stats')
    BY <2>2, <2>5, <2>6, AddedStaysSound
  <2> QED BY <1>8, <2>1, <2>5, <2>7
<1> QED BY <1>3, <1>7, <1>8, <1>9 DEF ListInv, Sound

\* The numbers of the result take the place of those that were counted.
Final(s, r) ==
  [s EXCEPT !.ok = r.ok, !.bad = r.bad, !.missing = r.missing,
            !.completed = r.ok + r.bad + r.missing]

LEMMA FinalStats ==
  ASSUME NEW s \in StatsRecords, NEW r \in Showns
  PROVE  /\ Final(s, r) \in StatsRecords /\ Final(s, r).ok = r.ok /\ Final(s, r).bad = r.bad
         /\ Final(s, r).missing = r.missing
<1>1. /\ r.ok \in Nat /\ r.bad \in Nat /\ r.missing \in Nat
      /\ r.ok + r.bad + r.missing \in Nat
  BY DEF Showns
<1>2. PICK t : t = Final(s, r)
  OBVIOUS
<1>3. t = [s EXCEPT !.ok = r.ok, !.bad = r.bad, !.missing = r.missing,
                    !.completed = r.ok + r.bad + r.missing]
  BY <1>2 DEF Final
<1>4. t \in StatsRecords
  BY <1>1, <1>3 DEF StatsRecords
<1>5. t.ok = r.ok /\ t.bad = r.bad /\ t.missing = r.missing
  BY <1>3 DEF StatsRecords
<1> QED BY <1>2, <1>4, <1>5

LEMMA CompletedStep == ASSUME ListInv, onOperationCompleted PROVE ListInv'
<1>1. /\ UNCHANGED <<reported, m_listSort, pristine>> /\ shown'.phase = "Completed"
      /\ shown.phase \in {"Started", "Canceled"}
      /\ shown' \in {[shown EXCEPT !.phase = "Completed"],
                     [shown EXCEPT !.phase = "Completed", !.was_canceled = TRUE]}
  <2>1. /\ shown' \in {[shown EXCEPT !.phase = "Completed"],
                       [shown EXCEPT !.phase = "Completed", !.was_canceled = TRUE]}
        /\ shown.phase \in {"Started", "Canceled"}
        /\ UNCHANGED <<reported, m_listSort, pristine>>
    BY DEF onOperationCompleted, EventHandler!onOperationCompleted, EventHandler!In,
           EventHandler!Continue
  <2> QED BY <2>1 DEF ListInv, ShownInv, Showns
<1>2. ShownInv'
  BY <1>1 DEF ListInv, ShownInv, Showns, Phases
<1>3. /\ m_stats'.ok = m_stats.ok /\ m_stats'.bad = m_stats.bad
      /\ m_stats'.missing = m_stats.missing
      /\ m_stats' \in StatsRecords
  <2>1. shown \in Showns
    BY DEF ListInv, ShownInv
  <2>2. /\ shown.ok = m_stats.ok /\ shown.bad = m_stats.bad /\ shown.missing = m_stats.missing
        /\ m_stats \in StatsRecords
    BY <1>1 DEF ListInv, StatsInv, Running
  <2>3. m_stats' = Final(m_stats, shown)
    BY DEF onOperationCompleted, Final
  <2> QED BY <2>1, <2>2, <2>3, FinalStats
<1>4. StatsInv'
  BY <1>1, <1>3 DEF StatsInv, Running
<1>5. ASSUME pristine PROVE Sound(m_listEntries', m_listSort', m_stats')
  <2>1. Sound(m_listEntries, m_listSort, m_stats)
    BY <1>5 DEF ListInv
  <2>2. PICK counted : counted = Append(m_listEntries, Message(m_listEntries, Information))
    OBVIOUS
  <2>3. Information \in 3 .. 5 /\ Verdict(shown) \in 3 .. 5
    BY DEF Information, Verdict, MessageOk, MessageBad
  <2>4. Sound(counted, m_listSort, m_stats)
    BY <2>1, <2>2, <2>3, MessageStaysSound
  <2>5. Sound(Append(counted, Message(counted, Verdict(shown))), m_listSort, m_stats')
    BY <1>3, <2>3, <2>4, MessageStaysSound
  <2> QED BY <1>1, <2>2, <2>5 DEF onOperationCompleted, Show
<1> QED BY <1>1, <1>2, <1>4, <1>5 DEF ListInv, Sound

LEMMA ErrorStep ==
  ASSUME ListInv, NEW op \in Verifies \cup Creates, onError(op)
  PROVE  ListInv'
<1>1. /\ shown' = [shown EXCEPT !.phase = "Failed"]
      /\ reported' \in Seq(Verifies \cup Creates)
  <2>1. CASE (EventHandler!In("Started") \/ EventHandler!In("InFile"))
             /\ EventHandler!Continue("Failed")
    BY <2>1 DEF EventHandler!Continue, ListInv, ShownInv, Showns
  <2>2. CASE EventHandler!Another(op) /\ shown' = [shown EXCEPT !.phase = "Failed"]
    BY <2>2, AnotherIsHeard DEF ListInv
  <2> QED BY <2>1, <2>2 DEF onError, EventHandler!onError
<1>2. ShownInv'
  BY <1>1 DEF ListInv, ShownInv, Showns, Phases
<1>3. StatsInv'
  BY <1>1 DEF onError, ListInv, ShownInv, Showns, StatsInv, Running
<1>4. ASSUME pristine PROVE Sound(m_listEntries', m_listSort', m_stats')
  <2>1. MessageBad \in 3 .. 5
    BY DEF MessageBad
  <2>2. Sound(Append(m_listEntries, Message(m_listEntries, MessageBad)), m_listSort, m_stats)
    BY <1>4, <2>1, MessageStaysSound DEF ListInv
  <2> QED BY <2>2 DEF onError, Show
<1> QED BY <1>2, <1>3, <1>4 DEF onError, ListInv, Sound

\* The user.
LEMMA UserStep ==
  ASSUME ListInv, UNCHANGED <<protocol, m_stats>>, m_listSort' \in Sorts, pristine' \in BOOLEAN,
         pristine' => Sound(m_listEntries', m_listSort', m_stats)
  PROVE  ListInv'
<1>1. ShownInv'
  BY DEF ListInv, ShownInv, protocol
<1>2. StatsInv'
  BY DEF ListInv, StatsInv, Running, protocol
<1> QED BY <1>1, <1>2 DEF ListInv

LEMMA NextKeepsList == ASSUME ListInv, [Next]_vars PROVE ListInv'
<1>1. ASSUME UNCHANGED <<protocol, m_stats, m_listEntries, m_listSort, pristine>> PROVE ListInv'
  BY <1>1, UserStep DEF ListInv
<1>2. ASSUME NEW op \in Verifies \cup Creates PROVE onError(op) => ListInv'
  BY ErrorStep
<1>3. ASSUME NEW op \in Verifies \cup Creates, NEW n \in 0 .. MaxFiles
      PROVE  onOperationStarted(op, n) => ListInv'
  BY StartedStep
<1>4. ASSUME NEW items PROVE Select(items) => ListInv'
  BY <1>1 DEF Select
<1>5. doMarkBadFiles => ListInv'
  BY <1>4 DEF doMarkBadFiles
<1>6. ASSUME NEW column \in 0 .. 2, ColumnClick(column) PROVE ListInv'
  <2>1. m_listSort' = Clicked(column) /\ Clicked(column) \in Sorts
    BY <1>6, ClickedIsSort DEF ColumnClick, ListInv
  <2>2. pristine => Sound(m_listEntries', m_listSort', m_stats)
    BY <1>6, <2>1, SortedStaysSound DEF ColumnClick, ListInv
  <2> QED BY <1>6, <2>1, <2>2, UserStep DEF ColumnClick, ListInv
<1>7. ASSUME NEW locked, doDeleteMarkedFiles(locked) PROVE ListInv'
  <2>1. pristine' \in BOOLEAN /\ (pristine' => pristine /\ m_listEntries' = m_listEntries)
    BY <1>7 DEF doDeleteMarkedFiles, Show
  <2> QED BY <1>7, <2>1, UserStep DEF doDeleteMarkedFiles, ListInv
<1>8. CASE UNCHANGED vars
  BY <1>1, <1>8 DEF vars, protocol
<1> QED BY <1>2, <1>3, <1>4, <1>5, <1>6, <1>7, <1>8, FileStartedStep, FileCompletedStep,
           CanceledStep, CompletedStep DEF Next

LEMMA ListInvariant == Spec => []ListInv
<1>1. ListInv /\ [Next]_vars => ListInv'
  BY NextKeepsList
<1> QED BY InitList, <1>1, PTL DEF Spec

-----------------------------------------------------------------------------
(* Theorems                                                                *)

\* The numbers above the list are those of the entries in it, for any number of
\* files, in any sort order and at any time, until the user deletes entries.
THEOREM CountsAlwaysMatch == Spec => []CountsMatchList
<1>1. ListInv => CountsMatchList
  BY DEF ListInv, Sound, Counts, CountsMatchList, EntriesWith, With
<1> QED BY <1>1, ListInvariant, PTL

\* The original order can always be had back, with the entries in it that came
\* while the list was sorted by something else, until the user deletes entries.
THEOREM OriginalOrderReturns == Spec => []OriginalOrder
<1>1. ListInv => OriginalOrder
  BY DEF ListInv, Sound, InOrder, OriginalOrder
<1> QED BY <1>1, ListInvariant, PTL

-----------------------------------------------------------------------------
(* The least of some numbers, and sequences.                               *)

\* By the number of those before each of them: one has none before it.
LEMMA FirstExists ==
  ASSUME NEW n \in Nat, NEW S \in SUBSET (1 .. n), S # {}
  PROVE  \E x \in S : \A y \in S : x <= y
<1> DEFINE Below(x) == {y \in S : y < x}
           rank == [x \in S |-> Cardinality(Below(x))]
           m == Cardinality(S)
<1>1. IsFiniteSet(S) /\ m \in Nat /\ m # 0
  BY UpToN, FS_Subset, FS_CardinalityType, FS_EmptySet
<1>2. \A x \in S : x \in Int
  OBVIOUS
<1>3. ASSUME NEW x \in S
      PROVE  IsFiniteSet(Below(x)) /\ rank[x] \in Nat /\ rank[x] < m
  <2>1. Below(x) \in SUBSET S /\ Below(x) # S
    BY <1>2
  <2>2. IsFiniteSet(Below(x)) /\ Cardinality(Below(x)) \in Nat
    BY <1>1, <2>1, FS_Subset, FS_CardinalityType
  <2>3. Cardinality(Below(x)) <= m /\ Cardinality(Below(x)) # m
    BY <1>1, <2>1, FS_Subset
  <2> QED BY <1>1, <2>2, <2>3
<1>4. ASSUME NEW x \in S, NEW y \in S, x < y PROVE rank[x] # rank[y]
  <2>1. \A z \in S : z < x => z < y
    BY <1>2, <1>4
  <2>2. Below(x) \in SUBSET Below(y)
    BY <2>1
  <2>3. x \in Below(y) /\ x \notin Below(x)
    BY <1>2, <1>4
  <2> QED BY <1>3, <2>2, <2>3, FS_Subset
<1>5. rank \in Injection(S, 0 .. m - 1)
  <2>1. ASSUME NEW x \in S PROVE rank[x] \in 0 .. m - 1
    <3>1. ASSUME NEW r \in Nat, r < m PROVE r \in 0 .. m - 1
      BY <1>1, <3>1
    <3> QED BY <1>3, <3>1
  <2>2. rank \in [S -> 0 .. m - 1]
    BY <2>1
  <2>3. ASSUME NEW x \in S, NEW y \in S, rank[x] = rank[y] PROVE x = y
    <3>1. ~(x < y) /\ ~(y < x)
      BY <1>4, <2>3
    <3> QED BY <1>2, <3>1
  <2> QED BY <2>2, <2>3 DEF Injection, IsInjective
<1>6. rank \in Surjection(S, 0 .. m - 1)
  <2>1. IsFiniteSet(0 .. m - 1) /\ Cardinality(0 .. m - 1) = m
    BY <1>1, UpToN
  <2> QED BY <1>1, <1>5, <2>1, FS_Injection
<1>7. PICK x \in S : rank[x] = 0
  <2>1. 0 \in 0 .. m - 1
    BY <1>1
  <2> QED BY <1>6, <2>1 DEF Surjection
<1>8. Below(x) = {}
  BY <1>3, <1>7, FS_EmptySet
<1> QED BY <1>2, <1>8

LEMMA IsSequence ==
  ASSUME NEW n \in Nat, NEW S, NEW f \in [1 .. n -> S]
  PROVE  f \in Seq(S) /\ Len(f) = n
OBVIOUS

LEMMA SequenceGrows ==
  ASSUME NEW S, NEW T, S \subseteq T, NEW s \in Seq(S)
  PROVE  s \in Seq(T)
OBVIOUS

LEMMA Framed ==
  ASSUME NEW R, NEW a \in R, NEW b \in R, NEW f \in Seq(R), NEW s, s = <<a>> \o f \o <<b>>
  PROVE  /\ DOMAIN s = 1 .. Len(f) + 2 /\ s[1] = a /\ s[Len(f) + 2] = b
         /\ \A i \in 1 .. Len(f) : s[i + 1] = f[i]
<1> PICK t : t = <<a>> \o f
  OBVIOUS
<1>1. /\ t \in Seq(R) /\ Len(t) = Len(f) + 1 /\ t[1] = a
      /\ \A i \in 1 .. Len(f) : t[i + 1] = f[i]
  OBVIOUS
<1>2. s = t \o <<b>>
  OBVIOUS
<1>3. /\ s \in Seq(R) /\ Len(s) = Len(f) + 2 /\ s[Len(f) + 2] = b
      /\ \A i \in 1 .. Len(f) + 1 : s[i] = t[i]
  BY <1>1, <1>2
<1> QED BY <1>1, <1>3

-----------------------------------------------------------------------------
(* Induction over an interval, and loops over the list.                    *)

\* What holds at 0, and at each number up to n if at the one before it, holds up
\* to n.
LEMMA UpTo ==
  ASSUME NEW n \in Nat, NEW S, 0 \in S, \A i \in 1 .. n : i - 1 \in S => i \in S
  PROVE  0 .. n \subseteq S
<1> DEFINE Bad == {i \in 1 .. n : i \notin S}
<1>1. ASSUME Bad # {} PROVE FALSE
  <2>1. PICK i \in Bad : \A j \in Bad : i <= j
    <3>1. Bad \in SUBSET (1 .. n)
      OBVIOUS
    <3> HIDE DEF Bad
    <3> QED BY <1>1, <3>1, FirstExists
  <2>2. i \in 1 .. n /\ i \notin S
    OBVIOUS
  <2>3. i - 1 = 0 \/ (i - 1 \in 1 .. n /\ ~(i <= i - 1))
    BY <2>2
  <2>4. i - 1 \in S
    BY <2>1, <2>3
  <2> QED BY <2>2, <2>4
<1>2. ASSUME NEW i \in 0 .. n PROVE i \in S
  <2>1. i = 0 \/ i \in 1 .. n
    OBVIOUS
  <2> QED BY <1>1, <2>1
<1> QED BY <1>2

\* The results of the rounds of a loop, the first being r.
Rounds(n, r, step, f) == f[0] = r /\ \A i \in 1 .. n : f[i] = step[i][f[i - 1]]

LEMMA RoundsExist ==
  ASSUME NEW n \in Nat, NEW R, NEW r \in R, NEW step \in [1 .. n -> [R -> R]]
  PROVE  \E f \in [0 .. n -> R] : Rounds(n, r, step, f)
<1> DEFINE Good == {k \in 0 .. n : \E f \in [0 .. k -> R] : Rounds(k, r, step, f)}
<1>1. 0 \in Good
  <2>1. [i \in 0 .. 0 |-> r] \in [0 .. 0 -> R] /\ Rounds(0, r, step, [i \in 0 .. 0 |-> r])
    BY DEF Rounds
  <2>2. 0 \in 0 .. n
    OBVIOUS
  <2> QED BY <2>1, <2>2
<1>2. ASSUME NEW k \in 1 .. n, k - 1 \in Good PROVE k \in Good
  <2>1. PICK f \in [0 .. k - 1 -> R] : Rounds(k - 1, r, step, f)
    BY <1>2
  <2> DEFINE newest == step[k][f[k - 1]]
             g == [i \in 0 .. k |-> IF i = k THEN newest ELSE f[i]]
  <2>2. k - 1 \in 0 .. k - 1 /\ k \in 0 .. k
    OBVIOUS
  <2>3. newest \in R
    <3>1. step[k] \in [R -> R] /\ f[k - 1] \in R
      BY <2>1, <2>2
    <3> QED BY <3>1
  <2>4. \A i \in 0 .. k : i = k \/ i \in 0 .. k - 1
    OBVIOUS
  <2> HIDE DEF newest
  <2>5. g \in [0 .. k -> R]
    BY <2>1, <2>3, <2>4
  <2>6. \A i \in 0 .. k - 1 : g[i] = f[i] /\ i \in 0 .. k
    OBVIOUS
  <2>7. g[k] = newest
    BY <2>2
  <2> HIDE DEF g
  <2>8. ASSUME NEW i \in 1 .. k PROVE g[i] = step[i][g[i - 1]]
    <3>1. i - 1 \in 0 .. k - 1 /\ (i = k \/ (i \in 0 .. k - 1 /\ i \in 1 .. k - 1))
      OBVIOUS
    <3>2. CASE i = k
      BY <2>6, <2>7, <3>1, <3>2 DEF newest
    <3>3. CASE i \in 0 .. k - 1 /\ i \in 1 .. k - 1
      <4>1. f[i] = step[i][f[i - 1]]
        BY <2>1, <3>3 DEF Rounds
      <4> QED BY <2>6, <3>1, <3>3, <4>1
    <3> QED BY <3>1, <3>2, <3>3
  <2>9. g[0] = r
    <3>1. 0 \in 0 .. k - 1
      OBVIOUS
    <3> QED BY <2>1, <2>6, <3>1 DEF Rounds
  <2>10. Rounds(k, r, step, g)
    BY <2>8, <2>9 DEF Rounds
  <2>11. k \in 0 .. n
    OBVIOUS
  <2> QED BY <2>5, <2>10, <2>11
<1>3. n \in 0 .. n
  OBVIOUS
<1>4. n \in Good
  <2> HIDE DEF Good
  <2> QED BY <1>1, <1>2, <1>3, UpTo
<1> QED BY <1>4

LEMMA RemoveAtIs ==
  ASSUME NEW S, NEW s \in Seq(S), NEW k \in 0 .. Len(s)
  PROVE  RemoveAt(s, k) \in Seq(S)
<1>1. Len(s) \in Nat /\ k \in Int
  OBVIOUS
<1> DEFINE a == SubSeq(s, 1, k - 1)
           b == SubSeq(s, k + 1, Len(s))
<1>2. a \in Seq(S)
  <2>1. \A i \in 1 .. k - 1 : s[i] \in S
    BY <1>1
  <2> QED BY <1>1, <2>1
<1>3. b \in Seq(S)
  <2>1. \A i \in k + 1 .. Len(s) : s[i] \in S
    BY <1>1
  <2> QED BY <1>1, <2>1
<1>4. RemoveAt(s, k) = a \o b
  BY DEF RemoveAt
<1> HIDE DEF a, b
<1> QED BY <1>2, <1>3, <1>4

\* The entry at a position of the original order
LEMMA FoundIsThere ==
  ASSUME NEW S, NEW s \in Seq(S), NEW p
  PROVE  /\ Found(s, p) \in 0 .. Len(s)
         /\ (\E i \in 1 .. Len(s) : s[i].original_position = p)
              => Found(s, p) # 0 /\ s[Found(s, p)].original_position = p
<1> DEFINE I == {i \in 1 .. Len(s) : s[i].original_position = p}
<1>1. Found(s, p) = IF I # {} THEN Min(I) ELSE 0
  BY DEF SelectInSeq, Found
<1>2. Len(s) \in Nat
  OBVIOUS
<1>3. CASE I = {}
  BY <1>1, <1>2, <1>3
<1>4. CASE I # {}
  <2>1. I \in SUBSET (1 .. Len(s))
    OBVIOUS
  <2>2. \E x \in I : \A y \in I : x <= y
    <3> HIDE DEF I
    <3> QED BY <1>2, <1>4, <2>1, FirstExists
  <2>3. Min(I) \in I
    BY <2>2 DEF Min
  <2> QED BY <1>1, <1>2, <1>4, <2>3
<1> QED BY <1>3, <1>4

\* The rounds of the deletion, and that nothing comes to the list or to the
\* disk by it.
Left(locked, f) ==
  /\ f[0] = [list |-> m_listEntries, disk |-> disk]
  /\ \A i \in 1 .. Len(m_listEntries) :
       f[i] = IF i \in Marked THEN DeleteOne(f[i - 1], i, locked) ELSE f[i - 1]
  /\ Remaining(locked) = f[Len(m_listEntries)]

LEMMA DeletionIs ==
  ASSUME m_listEntries \in Seq(Entries), NEW locked
  PROVE  LET S == {m_listEntries[i] : i \in DOMAIN m_listEntries}
         IN \E f \in [0 .. Len(m_listEntries) -> [list : Seq(S), disk : SUBSET disk]] : Left(locked, f)
<1> DEFINE n == Len(m_listEntries)
           S == {m_listEntries[i] : i \in DOMAIN m_listEntries}
           R == [list : Seq(S), disk : SUBSET disk]
           r == [list |-> m_listEntries, disk |-> disk]
           One(x, i) == IF i \in Marked THEN DeleteOne(x, i, locked) ELSE x
           step == [i \in 1 .. n |-> [x \in R |-> One(x, i)]]
           g == CHOOSE g : g = [i \in 0 .. n |-> IF i = 0 THEN r
                                  ELSE IF i \in Marked THEN DeleteOne(g[i - 1], i, locked) ELSE g[i - 1]]
<1>1. Remaining(locked) = g[n]
  BY Zenon DEF Remaining, InTurn
<1>2. n \in Nat /\ r \in R
  BY IsSequence
<1>3. ASSUME NEW x \in R, NEW i \in 1 .. n PROVE One(x, i) \in R
  <2>1. CASE i \in Marked /\ DeleteOne(x, i, locked) # x
    <3> DEFINE it == Found(x.list, x.list[i].original_position)
    <3>1. it \in 0 .. Len(x.list) /\ x.list \in Seq(S) /\ x.disk \subseteq disk
      BY FoundIsThere
    <3>2. DeleteOne(x, i, locked) = [list |-> RemoveAt(x.list, it), disk |-> x.disk \ Path(x.list[i])]
      BY <2>1 DEF DeleteOne
    <3> HIDE DEF it, S
    <3>3. RemoveAt(x.list, it) \in Seq(S)
      BY <3>1, RemoveAtIs
    <3> QED BY <2>1, <3>1, <3>2, <3>3
  <2>2. CASE ~(i \in Marked /\ DeleteOne(x, i, locked) # x)
    BY <2>2
  <2> QED BY <2>1, <2>2
<1> HIDE DEF R, r
<1>4. step \in [1 .. n -> [R -> R]]
  <2> HIDE DEF One
  <2> QED BY <1>3
<1>5. \A x \in R : \A i \in 1 .. n : step[i][x] = One(x, i)
  <2> HIDE DEF One
  <2> QED OBVIOUS
<1> HIDE DEF step, n
<1>6. PICK f \in [0 .. n -> R] : Rounds(n, r, step, f)
  BY <1>2, <1>4, RoundsExist
<1>7. ASSUME NEW i \in 1 .. n PROVE i - 1 \in 0 .. n /\ i \in 0 .. n /\ i # 0 /\ f[i] = One(f[i - 1], i)
  <2>1. i - 1 \in 0 .. n /\ i \in 0 .. n /\ i # 0
    BY <1>2
  <2>2. f[i] = step[i][f[i - 1]]
    BY <1>6 DEF Rounds
  <2>3. f[i - 1] \in R
    BY <1>6, <2>1
  <2> HIDE DEF One
  <2> QED BY <1>5, <2>1, <2>2, <2>3
<1>8. f = [i \in 0 .. n |-> IF i = 0 THEN r
                          ELSE IF i \in Marked THEN DeleteOne(f[i - 1], i, locked) ELSE f[i - 1]]
  <2>1. ASSUME NEW i \in 0 .. n
        PROVE  f[i] = IF i = 0 THEN r
                      ELSE IF i \in Marked THEN DeleteOne(f[i - 1], i, locked) ELSE f[i - 1]
    <3>1. i = 0 \/ i \in 1 .. n
      BY <1>2
    <3>2. f[0] = r
      BY <1>6 DEF Rounds
    <3> QED BY <1>7, <3>1, <3>2
  <2> QED BY <1>6, <2>1
<1>9. g = [i \in 0 .. n |-> IF i = 0 THEN r
                          ELSE IF i \in Marked THEN DeleteOne(g[i - 1], i, locked) ELSE g[i - 1]]
  BY <1>8, Zenon
<1> HIDE DEF g
<1>10. 0 \in 0 .. n /\ \A i \in 1 .. n : i \in 0 .. n /\ i - 1 \in 0 .. n /\ i # 0
  BY <1>2
<1>11. g[0] = r
  BY <1>9, <1>10
<1>12. \A i \in 1 .. n : g[i] = IF i \in Marked THEN DeleteOne(g[i - 1], i, locked) ELSE g[i - 1]
  BY <1>9, <1>10
<1>13. \A i \in 0 .. n : g[i] \in R
  <2> DEFINE T == {i \in 0 .. n : g[i] \in R}
  <2>1. 0 \in T
    BY <1>2, <1>10, <1>11
  <2>2. ASSUME NEW i \in 1 .. n, i - 1 \in T PROVE i \in T
    BY <1>3, <1>10, <1>12, <2>2
  <2>3. 0 .. n \subseteq T
    <3> HIDE DEF T
    <3> QED BY <1>2, <2>1, <2>2, UpTo
  <2> QED BY <2>3
<1>14. g \in [0 .. n -> R]
  BY <1>9, <1>13
<1>15. Left(locked, g)
  BY <1>1, <1>11, <1>12 DEF Left, n, r
<1> QED BY <1>14, <1>15 DEF n, R

-----------------------------------------------------------------------------
(* The list at any time, deletions included.                               *)

NoOkMessage(rows) == \A i \in DOMAIN rows : rows[i].status # MessageOk

RowsInv ==
  /\ m_listEntries \in Seq(Entries) /\ itemCount = Len(m_listEntries)
  /\ selected \subseteq 1 .. itemCount /\ disk \subseteq Names

\* Before the end nothing says "All files OK"; then it is said by the result,
\* which has as many files as the operation began with.
VerdictInv ==
  /\ Running => NoOkMessage(m_listEntries) /\ m_stats.total = shown.n_files
  /\ shown.phase = "Completed" /\ EventHandler!ByVerify =>
       NoOkMessage(m_listEntries) \/ shown.was_canceled \/ m_stats.ok = m_stats.total

LEMMA RowsOf ==
  ASSUME NEW rows \in Seq(Entries)
  PROVE  DOMAIN rows = 1 .. Len(rows) /\ Len(rows) \in Nat /\ \A i \in DOMAIN rows : rows[i] \in Entries
OBVIOUS

LEMMA RowAdded ==
  ASSUME NEW rows \in Seq(Entries), NEW e \in Entries
  PROVE  /\ Append(rows, e) \in Seq(Entries) /\ Len(Append(rows, e)) = Len(rows) + 1
         /\ NoOkMessage(rows) /\ e.status # MessageOk => NoOkMessage(Append(rows, e))
<1>1. Append(rows, e) \in Seq(Entries) /\ Len(Append(rows, e)) = Len(rows) + 1
  OBVIOUS
<1>2. \A i \in DOMAIN Append(rows, e) :
        (i \in DOMAIN rows /\ Append(rows, e)[i] = rows[i]) \/ Append(rows, e)[i] = e
  OBVIOUS
<1> QED BY <1>1, <1>2 DEF NoOkMessage

\* A callback that adds a row leaves those that are selected where they are.
LEMMA RowsGrow ==
  ASSUME RowsInv, NEW e \in Entries, Show(Append(m_listEntries, e)), selected' = selected, disk' = disk
  PROVE  RowsInv'
<1>1. PICK n \in Nat : n = Len(m_listEntries)
  BY DEF RowsInv
<1>2. /\ m_listEntries' \in Seq(Entries) /\ Len(m_listEntries') = n + 1
      /\ itemCount' = Len(m_listEntries')
  BY <1>1, RowAdded DEF RowsInv, Show
<1>3. 1 .. n \subseteq 1 .. n + 1
  OBVIOUS
<1> QED BY <1>1, <1>2, <1>3 DEF RowsInv

LEMMA InitRows == Init => RowsInv /\ VerdictInv
<1> SUFFICES ASSUME Init PROVE RowsInv /\ VerdictInv
  OBVIOUS
<1>1. m_listEntries = <<>> /\ <<>> \in Seq(Entries) /\ itemCount = Len(m_listEntries)
  BY DEF Init
<1>2. selected = {} /\ disk \subseteq Names /\ shown.phase = "Idle"
  BY DEF Init, EventHandler!Init
<1> QED BY <1>1, <1>2 DEF RowsInv, VerdictInv, Running

LEMMA StartedRows ==
  ASSUME NEW op \in Verifies \cup Creates, NEW n \in 0 .. MaxFiles, onOperationStarted(op, n),
         RowsInv
  PROVE  RowsInv' /\ VerdictInv'
<1>1. /\ m_listEntries' = <<Message(<<>>, Information)>> /\ itemCount' = Len(m_listEntries')
      /\ selected' = {} /\ disk' = disk /\ m_stats'.total = n
      /\ shown'.phase = "Started" /\ shown'.n_files = n
  BY DEF onOperationStarted, Show, NoStats, EventHandler!onOperationStarted
<1>2. Message(<<>>, Information) \in Entries /\ Message(<<>>, Information).status # MessageOk
  <2>1. Information \in 0 .. 5 /\ Information # MessageOk /\ <<>> \in Seq(Entries)
    BY DEF Information, MessageOk
  <2> QED BY <2>1, MessageIsEntry
<1>3. m_listEntries' \in Seq(Entries) /\ NoOkMessage(m_listEntries')
  <2>1. \A e \in Entries : /\ <<e>> \in Seq(Entries) /\ DOMAIN <<e>> = {1} /\ <<e>>[1] = e
    OBVIOUS
  <2> QED BY <1>1, <1>2, <2>1 DEF NoOkMessage
<1>4. RowsInv'
  BY <1>1, <1>3 DEF RowsInv
<1> QED BY <1>1, <1>3, <1>4 DEF VerdictInv

LEMMA QuietRows ==
  ASSUME ListInv, RowsInv, VerdictInv, (shown.file < MaxFiles /\ onFileStarted) \/ onCanceled
  PROVE  RowsInv' /\ VerdictInv'
<1>1. /\ UNCHANGED <<m_listEntries, m_stats, itemCount, selected, disk>>
      /\ shown.phase \in {"Started", "InFile"}
      /\ shown' \in {[shown EXCEPT !.phase = "InFile", !.file = @ + 1],
                     [shown EXCEPT !.phase = "Canceled"]}
  BY DEF onFileStarted, onCanceled, EventHandler!onFileStarted, EventHandler!onCanceled,
         EventHandler!In, EventHandler!Continue, listView
<1>2. shown'.phase \in {"InFile", "Canceled"} /\ shown'.n_files = shown.n_files
  BY <1>1 DEF ListInv, ShownInv, Showns
<1>3. RowsInv'
  BY <1>1 DEF RowsInv
<1> QED BY <1>1, <1>2, <1>3 DEF VerdictInv, Running

LEMMA CompletedFileRows ==
  ASSUME ListInv, RowsInv, VerdictInv, NEW status \in DOMAIN EntryStatus, onFileCompleted(status)
  PROVE  RowsInv' /\ VerdictInv'
<1>1. status \in {"ok", "bad", "missing"}
  BY DEF EntryStatus
<1>2. shown.phase = "InFile" /\ shown' = Told(shown, status) /\ m_stats' = Counted(m_stats, status)
      /\ selected' = selected /\ disk' = disk
  BY DEF onFileCompleted, EventHandler!onFileCompleted, EventHandler!In, Told, Counted
<1>3. shown'.phase = "Started" /\ shown'.n_files = shown.n_files /\ m_stats'.total = m_stats.total
  <2>1. ASSUME NEW s \in StatsRecords PROVE Counted(s, status).total = s.total
    BY <1>1 DEF Counted, StatsRecords
  <2>2. ASSUME NEW s \in Showns
        PROVE  Told(s, status).phase = "Started" /\ Told(s, status).n_files = s.n_files
    BY <1>1 DEF Told, Showns
  <2> QED BY <1>2, <2>1, <2>2 DEF ListInv, ShownInv, StatsInv
<1>4. PICK checksum \in {NoChecksum, SomeChecksum} :
        Show(Append(m_listEntries,
          Entry(m_listEntries, FileName[shown.file], checksum, EntryStatus[status])))
  BY <1>1 DEF onFileCompleted
<1>5. PICK e \in Entries : /\ e.status # MessageOk
                           /\ e = Entry(m_listEntries, FileName[shown.file], checksum, EntryStatus[status])
  <2>1. FileName[shown.file] \in Names
    BY <1>2, FileHasName DEF ListInv
  <2>2. EntryStatus[status] \in 0 .. 5 /\ EntryStatus[status] # MessageOk
    BY <1>1 DEF EntryStatus, Ok, FailedMismatch, FailedMissing, MessageOk
  <2> QED BY <2>1, <2>2, EntryIsEntry DEF RowsInv
<1>6. RowsInv'
  BY <1>2, <1>4, <1>5, RowsGrow
<1>7. NoOkMessage(m_listEntries')
  <2>1. NoOkMessage(m_listEntries)
    BY <1>2 DEF VerdictInv, Running
  <2> QED BY <1>4, <1>5, <2>1, RowAdded DEF RowsInv, Show
<1> QED BY <1>2, <1>3, <1>6, <1>7 DEF VerdictInv, Running

\* Both messages of the end.
LEMMA VerdictRows ==
  ASSUME NEW rows \in Seq(Entries), NEW status \in {MessageOk, MessageBad}, NEW counted, NEW all,
         counted = Append(rows, Message(rows, Information)),
         all = Append(counted, Message(counted, status))
  PROVE  /\ all \in Seq(Entries) /\ Len(all) = Len(rows) + 2
         /\ NoOkMessage(rows) /\ status = MessageBad => NoOkMessage(all)
<1>1. Information \in 0 .. 5 /\ status \in 0 .. 5 /\ Information # MessageOk /\ MessageBad # MessageOk
  BY DEF Information, MessageOk, MessageBad
<1>2. /\ counted \in Seq(Entries) /\ Len(counted) = Len(rows) + 1
      /\ NoOkMessage(rows) => NoOkMessage(counted)
  BY <1>1, MessageIsEntry, RowAdded
<1>3. /\ all \in Seq(Entries) /\ Len(all) = Len(counted) + 1
      /\ NoOkMessage(counted) /\ status # MessageOk => NoOkMessage(all)
  BY <1>1, <1>2, MessageIsEntry, RowAdded
<1> QED BY <1>1, <1>2, <1>3

LEMMA CompletedRows ==
  ASSUME ListInv, RowsInv, VerdictInv, onOperationCompleted
  PROVE  RowsInv' /\ VerdictInv'
<1>1. shown \in Showns /\ m_stats \in StatsRecords
  BY DEF ListInv, ShownInv, StatsInv
<1>2. /\ shown.phase \in {"Started", "Canceled"} /\ reported' = reported /\ selected' = selected
      /\ disk' = disk /\ m_stats' = Final(m_stats, shown)
      /\ \/ /\ shown' = [shown EXCEPT !.phase = "Completed"]
            /\ shown.ok + shown.bad + shown.missing = shown.file
            /\ EventHandler!ByVerify => shown.file = shown.n_files
         \/ shown' = [shown EXCEPT !.phase = "Completed", !.was_canceled = TRUE]
  BY DEF onOperationCompleted, Final, EventHandler!onOperationCompleted, EventHandler!In,
         EventHandler!Continue, EventHandler!Reported
<1>3. PICK counted : counted = Append(m_listEntries, Message(m_listEntries, Information))
  OBVIOUS
<1>4. PICK all : all = Append(counted, Message(counted, Verdict(shown)))
  OBVIOUS
<1>5. m_listEntries' = all /\ itemCount' = Len(all)
  BY <1>3, <1>4 DEF onOperationCompleted, Show
<1>6. Verdict(shown) \in {MessageOk, MessageBad}
  BY DEF Verdict
<1>7. /\ all \in Seq(Entries) /\ Len(all) = Len(m_listEntries) + 2
      /\ NoOkMessage(m_listEntries) /\ Verdict(shown) = MessageBad => NoOkMessage(all)
  BY <1>3, <1>4, <1>6, VerdictRows DEF RowsInv
<1>8. RowsInv'
  <2>1. PICK n \in Nat : n = Len(m_listEntries)
    BY DEF RowsInv
  <2>2. 1 .. n \subseteq 1 .. n + 2
    OBVIOUS
  <2> QED BY <1>2, <1>5, <1>7, <2>1, <2>2 DEF RowsInv
<1>9. NoOkMessage(m_listEntries) /\ m_stats.total = shown.n_files
  BY <1>2 DEF VerdictInv, Running
<1>10. m_stats'.ok = shown.ok /\ m_stats'.total = m_stats.total
  <2>1. ASSUME NEW s \in StatsRecords, NEW r \in Showns PROVE Final(s, r).total = s.total
    BY DEF Final, StatsRecords
  <2> QED BY <1>1, <1>2, <2>1, FinalStats
<1>11. CASE Verdict(shown) = MessageBad
  <2>1. NoOkMessage(m_listEntries')
    BY <1>5, <1>7, <1>9, <1>11
  <2>2. shown'.phase = "Completed"
    BY <1>1, <1>2 DEF Showns
  <2> QED BY <1>8, <2>1, <2>2 DEF VerdictInv, Running
<1>12. CASE Verdict(shown) # MessageBad
  <2>1. shown.bad = 0 /\ shown.missing = 0
    BY <1>12 DEF Verdict
  <2>2. shown'.phase = "Completed"
        /\ (shown'.was_canceled \/ (EventHandler!ByVerify => shown.ok = shown.n_files))
    <3>1. shown.ok \in Nat /\ shown.ok + 0 + 0 = shown.ok
      BY <1>1 DEF Showns
    <3> QED BY <1>1, <1>2, <2>1, <3>1 DEF Showns
  <2>3. EventHandler!ByVerify' <=> EventHandler!ByVerify
    BY <1>2 DEF EventHandler!ByVerify
  <2> QED BY <1>8, <1>9, <1>10, <2>2, <2>3 DEF VerdictInv, Running
<1> QED BY <1>11, <1>12

LEMMA ErrorRows ==
  ASSUME ListInv, RowsInv, NEW op, onError(op)
  PROVE  RowsInv' /\ VerdictInv'
<1>1. shown'.phase = "Failed"
  BY DEF onError, EventHandler!onError, EventHandler!Continue, ListInv, ShownInv, Showns
<1>2. MessageBad \in 0 .. 5
  BY DEF MessageBad
<1>3. RowsInv'
  BY <1>2, MessageIsEntry, RowsGrow DEF onError, RowsInv
<1> QED BY <1>1, <1>3 DEF VerdictInv, Running

\* The user
LEMMA UserRows ==
  ASSUME VerdictInv, UNCHANGED <<protocol, m_stats>>,
         NoOkMessage(m_listEntries) => NoOkMessage(m_listEntries')
  PROVE  VerdictInv'
<1>1. reported' = reported /\ shown' = shown
  BY DEF protocol
<1>2. EventHandler!ByVerify' <=> EventHandler!ByVerify
  BY <1>1 DEF EventHandler!ByVerify
<1> QED BY <1>1, <1>2 DEF VerdictInv, Running

LEMMA SelectRows ==
  ASSUME RowsInv, VerdictInv, NEW items \in SUBSET (1 .. itemCount), Select(items)
  PROVE  RowsInv' /\ VerdictInv'
<1>1. RowsInv'
  BY DEF Select, RowsInv
<1> QED BY <1>1, UserRows DEF Select

LEMMA ClickRows ==
  ASSUME ListInv, RowsInv, VerdictInv, NEW column \in 0 .. 2, ColumnClick(column)
  PROVE  RowsInv' /\ VerdictInv'
<1>1. PICK by \in Sorts : by = Clicked(column)
  BY ClickedIsSort DEF ListInv
<1>2. /\ m_listEntries' = StableSort(m_listEntries, by)
      /\ UNCHANGED <<protocol, m_stats, itemCount, selected, disk>>
  BY <1>1 DEF ColumnClick, listView
<1>3. m_listEntries' \in Seq(Entries) /\ Len(m_listEntries') = Len(m_listEntries)
  BY <1>2, SortedIsList DEF RowsInv
<1>4. RowsInv'
  BY <1>2, <1>3 DEF RowsInv
<1>5. ASSUME NoOkMessage(m_listEntries) PROVE NoOkMessage(m_listEntries')
  <2>1. PICK p : Rearranges(p, m_listEntries, by)
    BY StableSortRearranges DEF RowsInv
  <2>2. p \in [DOMAIN m_listEntries -> DOMAIN m_listEntries]
    BY <2>1 DEF Rearranges, Bijection, Injection
  <2>3. m_listEntries' = [k \in DOMAIN m_listEntries |-> m_listEntries[p[k]]]
    BY <1>2, <2>1 DEF Rearranges
  <2> QED BY <1>5, <2>2, <2>3 DEF NoOkMessage
<1> QED BY <1>2, <1>4, <1>5, UserRows

LEMMA DeleteRows ==
  ASSUME RowsInv, VerdictInv, NEW locked, doDeleteMarkedFiles(locked)
  PROVE  RowsInv' /\ VerdictInv'
<1> DEFINE S == {m_listEntries[i] : i \in DOMAIN m_listEntries}
           n == Len(m_listEntries)
<1>1. /\ m_listEntries' = Remaining(locked).list /\ itemCount' = Len(m_listEntries')
      /\ disk' = Remaining(locked).disk /\ selected' = selected \cap DOMAIN m_listEntries'
      /\ UNCHANGED <<protocol, m_stats>>
  BY DEF doDeleteMarkedFiles, Show
<1>2. PICK f \in [0 .. n -> [list : Seq(S), disk : SUBSET disk]] : Left(locked, f)
  BY DeletionIs DEF RowsInv
<1>3. n \in 0 .. n
  BY DEF RowsInv
<1>4. Remaining(locked) \in [list : Seq(S), disk : SUBSET disk]
  <2> HIDE DEF S
  <2> QED BY <1>2, <1>3 DEF Left
<1>5. m_listEntries' \in Seq(S) /\ disk' \subseteq disk
  BY <1>1, <1>4
<1>6. S \subseteq Entries
  BY RowsOf DEF RowsInv
<1>7. m_listEntries' \in Seq(Entries)
  <2> HIDE DEF S
  <2> QED BY <1>5, <1>6, SequenceGrows
<1>8. RowsInv'
  BY <1>1, <1>5, <1>7, RowsOf DEF RowsInv
<1>9. ASSUME NoOkMessage(m_listEntries) PROVE NoOkMessage(m_listEntries')
  <2>1. \A e \in S : e.status # MessageOk
    BY <1>9 DEF NoOkMessage
  <2>2. \A i \in DOMAIN m_listEntries' : m_listEntries'[i] \in S
    <3> HIDE DEF S
    <3> QED BY <1>5
  <2> QED BY <2>1, <2>2 DEF NoOkMessage
<1> QED BY <1>1, <1>8, <1>9, UserRows

LEMMA NextKeepsRows ==
  ASSUME ListInv, RowsInv, VerdictInv, [Next]_vars PROVE RowsInv' /\ VerdictInv'
<1>1. ASSUME NEW op \in Verifies \cup Creates PROVE onError(op) => RowsInv' /\ VerdictInv'
  BY ErrorRows
<1>2. ASSUME NEW op \in Verifies \cup Creates, NEW n \in 0 .. MaxFiles
      PROVE  onOperationStarted(op, n) => RowsInv' /\ VerdictInv'
  BY StartedRows
<1>3. doMarkBadFiles => RowsInv' /\ VerdictInv'
  <2>1. {i \in DOMAIN m_listEntries : m_listEntries[i].status \in Failed} \in SUBSET (1 .. itemCount)
    BY RowsOf DEF RowsInv
  <2> QED BY <2>1, SelectRows DEF doMarkBadFiles
<1>4. CASE UNCHANGED vars
  <2>1. RowsInv'
    BY <1>4 DEF vars, RowsInv
  <2> QED BY <1>4, <2>1, UserRows DEF vars, protocol
<1> QED BY <1>1, <1>2, <1>3, <1>4, QuietRows, CompletedFileRows, CompletedRows, SelectRows,
           ClickRows, DeleteRows DEF Next

LEMMA RowsInvariant == Spec => [](ListInv /\ RowsInv /\ VerdictInv)
<1>1. Init => ListInv /\ RowsInv /\ VerdictInv
  BY InitList, InitRows
<1>2. ListInv /\ RowsInv /\ VerdictInv /\ [Next]_vars => (ListInv /\ RowsInv /\ VerdictInv)'
  BY NextKeepsList, NextKeepsRows
<1> QED BY <1>1, <1>2, PTL DEF Spec

\* "All files OK" is said of a verification only when each file it had was
\* reported Ok, for any number of files, and remains so whatever the user sorts
\* or deletes.
THEOREM OkIsSaidOfAll == Spec => []AllFilesOK
<1>1. VerdictInv => AllFilesOK
  BY DEF VerdictInv, AllFilesOK, NoOkMessage, EntriesWith, EventHandler!In
<1> QED BY <1>1, RowsInvariant, PTL

-----------------------------------------------------------------------------
(* A deletion of one entry, and only a deletion changes the disk.          *)

LEMMA OneRound ==
  ASSUME RowsInv, NEW k \in DOMAIN m_listEntries, Marked = {k}, NEW locked
  PROVE  Remaining(locked) = DeleteOne([list |-> m_listEntries, disk |-> disk], k, locked)
<1> DEFINE S == {m_listEntries[i] : i \in DOMAIN m_listEntries}
           n == Len(m_listEntries)
           r == [list |-> m_listEntries, disk |-> disk]
<1>1. PICK f \in [0 .. n -> [list : Seq(S), disk : SUBSET disk]] : Left(locked, f)
  BY DeletionIs DEF RowsInv
<1>2. n \in Nat /\ k \in 1 .. n
  BY DEF RowsInv
<1> DEFINE after == DeleteOne(r, k, locked)
           T == {i \in 0 .. n : f[i] = IF i < k THEN r ELSE after}
<1> HIDE DEF S, after
<1>3. f[0] = r /\ \A i \in 1 .. n : f[i] = IF i = k THEN DeleteOne(f[i - 1], i, locked) ELSE f[i - 1]
  BY <1>1 DEF Left
<1> HIDE DEF r
<1>4. 0 \in T
  BY <1>2, <1>3
<1>5. ASSUME NEW i \in 1 .. n, i - 1 \in T PROVE i \in T
  <2>1. f[i - 1] = IF i - 1 < k THEN r ELSE after
    BY <1>5
  <2>2. i \in 0 .. n /\ f[i] = IF i = k THEN DeleteOne(f[i - 1], i, locked) ELSE f[i - 1]
    BY <1>2, <1>3
  <2>3. CASE i < k
    BY <1>2, <2>1, <2>2, <2>3
  <2>4. CASE i = k
    BY <1>2, <2>1, <2>2, <2>4 DEF after
  <2>5. CASE i > k
    BY <1>2, <2>1, <2>2, <2>5
  <2> QED BY <1>2, <2>3, <2>4, <2>5
<1>6. n \in T
  <2>1. 0 .. n \subseteq T
    <3> HIDE DEF T
    <3> QED BY <1>2, <1>4, <1>5, UpTo
  <2> QED BY <1>2, <2>1
<1>7. f[n] = after
  BY <1>2, <1>6
<1> QED BY <1>1, <1>7 DEF Left, after, r

LEMMA FoundIsIt ==
  ASSUME RowsInv, DistinctPositions, NEW k \in DOMAIN m_listEntries
  PROVE  Found(m_listEntries, m_listEntries[k].original_position) = k
<1>1. PICK p : p = m_listEntries[k].original_position
  OBVIOUS
<1>2. /\ Found(m_listEntries, p) \in 0 .. Len(m_listEntries) /\ Found(m_listEntries, p) # 0
      /\ m_listEntries[Found(m_listEntries, p)].original_position = p
  BY <1>1, FoundIsThere DEF RowsInv
<1>3. Found(m_listEntries, p) \in DOMAIN m_listEntries
  BY <1>2 DEF RowsInv
<1> QED BY <1>1, <1>2, <1>3 DEF DistinctPositions

LEMMA SingleStep ==
  ASSUME RowsInv, [Next]_vars, disk' # disk, Cardinality(Marked) = 1, DistinctPositions,
         NEW k \in Marked
  PROVE  /\ m_listEntries' = RemoveAt(m_listEntries, k)
         /\ disk \ disk' = Path(m_listEntries[k])
<1>1. PICK locked : doDeleteMarkedFiles(locked)
  BY DEF Next, vars, onOperationStarted, onError, onFileStarted, onFileCompleted, onCanceled,
         onOperationCompleted, Select, doMarkBadFiles, ColumnClick
<1>2. k \in DOMAIN m_listEntries /\ k \in 1 .. Len(m_listEntries) /\ Len(m_listEntries) \in Nat
  BY DEF Marked, RowsInv
<1>3. Marked = {k}
  <2>1. IsFiniteSet(Marked)
    <3>1. IsFiniteSet(1 .. Len(m_listEntries)) /\ Marked \in SUBSET (1 .. Len(m_listEntries))
      BY <1>2, UpToN DEF Marked, RowsInv
    <3> QED BY <3>1, FS_Subset
  <2>2. IsFiniteSet(Marked \ {k}) /\ Cardinality(Marked \ {k}) = 0
    BY <2>1, FS_RemoveElement
  <2>3. Marked \ {k} = {}
    BY <2>2, FS_EmptySet
  <2> QED BY <2>3
<1> DEFINE r == [list |-> m_listEntries, disk |-> disk]
<1>4. r.list = m_listEntries /\ r.disk = disk
  OBVIOUS
<1>5. /\ m_listEntries' = DeleteOne(r, k, locked).list
      /\ disk' = DeleteOne(r, k, locked).disk
  BY <1>1, <1>2, <1>3, OneRound DEF doDeleteMarkedFiles, Show
<1> HIDE DEF r
<1>6. /\ Path(m_listEntries[k]) \cap (disk \ locked) # {}
      /\ DeleteOne(r, k, locked) =
           [list |-> RemoveAt(m_listEntries, k), disk |-> disk \ Path(m_listEntries[k])]
  <2>1. DeleteOne(r, k, locked) # r
    BY <1>4, <1>5
  <2>2. Found(m_listEntries, m_listEntries[k].original_position) = k
    BY <1>2, FoundIsIt
  <2> QED BY <1>4, <2>1, <2>2 DEF DeleteOne
<1>7. Path(m_listEntries[k]) \subseteq disk
  BY <1>6 DEF Path
<1> QED BY <1>5, <1>6, <1>7

\* For any list, in any order: whoever has marked one entry and deletes it loses
\* the file and the row of that entry, and nothing else.
THEOREM OneIsDeleted == Spec => SingleDeletion
<1>1. ASSUME RowsInv, [Next]_vars
      PROVE  [disk' # disk /\ Cardinality(Marked) = 1 /\ DistinctPositions
                => \A i \in Marked : /\ m_listEntries' = RemoveAt(m_listEntries, i)
                                     /\ disk \ disk' = Path(m_listEntries[i])]_vars
  BY <1>1, SingleStep
<1> QED BY <1>1, RowsInvariant, PTL DEF Spec, SingleDeletion

-----------------------------------------------------------------------------
(* The clipboard.                                                          *)

Texts ==
  [offset : Nat, names : Seq([name : Names \cup {MessageName}, from : Nat, to : Nat]), written : Nat]

LEMMA LengthOf == ASSUME NEW e \in Entries PROVE NameLength[e.name] \in Nat
<1>1. NameLength \in [Names \cup {MessageName} -> Nat]
  BY ListConstants DEF Names
<1> QED BY <1>1 DEF Entries

LEMMA OneCopied ==
  ASSUME NEW text \in Texts, NEW e \in Entries, NEW end, end = text.offset + NameLength[e.name],
         NEW stretch, stretch = [name |-> e.name, from |-> text.offset, to |-> end]
  PROVE  /\ CopyOne(text, e) \in Texts
         /\ CopyOne(text, e) = [offset |-> end + 1, names |-> Append(text.names, stretch),
                               written |-> end + 2]
<1>1. CopyOne(text, e) = [offset |-> end + 1, names |-> Append(text.names, stretch),
                          written |-> end + 2]
  BY DEF CopyOne
<1>2. text.offset \in Nat /\ end \in Nat /\ end + 1 \in Nat /\ end + 2 \in Nat
  BY LengthOf DEF Texts
<1>3. stretch \in [name : Names \cup {MessageName}, from : Nat, to : Nat]
  BY <1>2 DEF Texts, Entries
<1>4. Append(text.names, stretch) \in Seq([name : Names \cup {MessageName}, from : Nat, to : Nat])
  BY <1>3 DEF Texts
<1> QED BY <1>1, <1>2, <1>4 DEF Texts

\* The rounds of both loops.
Copied(f) ==
  /\ f[0] = [offset |-> 0, names |-> <<>>, written |-> 0]
  /\ \A i \in 1 .. Len(m_listEntries) :
       f[i] = IF i \in selected THEN CopyOne(f[i - 1], m_listEntries[i]) ELSE f[i - 1]
  /\ doCopySelectionToClipboard = f[Len(m_listEntries)]

Summed(f) ==
  /\ f[0] = 1
  /\ \A i \in 1 .. Len(m_listEntries) :
       f[i] = IF i \in selected THEN f[i - 1] + NameLength[m_listEntries[i].name] + 2 ELSE f[i - 1]
  /\ TotalLength = f[Len(m_listEntries)]

LEMMA CopiedExists ==
  ASSUME RowsInv
  PROVE  \E f \in [0 .. Len(m_listEntries) -> Texts] : Copied(f)
<1> DEFINE n == Len(m_listEntries)
           r == [offset |-> 0, names |-> <<>>, written |-> 0]
           One(x, i) == IF i \in selected THEN CopyOne(x, m_listEntries[i]) ELSE x
           step == [i \in 1 .. n |-> [x \in Texts |-> One(x, i)]]
           g == CHOOSE g : g = [i \in 0 .. n |-> IF i = 0 THEN r
                                  ELSE IF i \in selected THEN CopyOne(g[i - 1], m_listEntries[i]) ELSE g[i - 1]]
<1>1. doCopySelectionToClipboard = g[n]
  BY Zenon DEF doCopySelectionToClipboard, InTurn
<1>2. n \in Nat /\ r \in Texts
  BY DEF RowsInv, Texts
<1>3. ASSUME NEW x \in Texts, NEW i \in 1 .. n PROVE One(x, i) \in Texts
  <2>1. m_listEntries[i] \in Entries
    BY <1>2 DEF RowsInv
  <2> QED BY <2>1, LengthOf, OneCopied
<1> HIDE DEF r
<1>4. step \in [1 .. n -> [Texts -> Texts]]
  <2> HIDE DEF One
  <2> QED BY <1>3
<1>5. \A x \in Texts : \A i \in 1 .. n : step[i][x] = One(x, i)
  <2> HIDE DEF One
  <2> QED OBVIOUS
<1> HIDE DEF step, n
<1>6. PICK f \in [0 .. n -> Texts] : Rounds(n, r, step, f)
  BY <1>2, <1>4, RoundsExist
<1>7. ASSUME NEW i \in 1 .. n PROVE i - 1 \in 0 .. n /\ i \in 0 .. n /\ i # 0 /\ f[i] = One(f[i - 1], i)
  <2>1. i - 1 \in 0 .. n /\ i \in 0 .. n /\ i # 0
    BY <1>2
  <2>2. f[i] = step[i][f[i - 1]]
    BY <1>6 DEF Rounds
  <2>3. f[i - 1] \in Texts
    BY <1>6, <2>1
  <2> HIDE DEF One
  <2> QED BY <1>5, <2>1, <2>2, <2>3
<1>8. f = [i \in 0 .. n |-> IF i = 0 THEN r
                          ELSE IF i \in selected THEN CopyOne(f[i - 1], m_listEntries[i]) ELSE f[i - 1]]
  <2>1. ASSUME NEW i \in 0 .. n
        PROVE  f[i] = IF i = 0 THEN r ELSE IF i \in selected THEN CopyOne(f[i - 1], m_listEntries[i]) ELSE f[i - 1]
    <3>1. i = 0 \/ i \in 1 .. n
      BY <1>2
    <3>2. f[0] = r
      BY <1>6 DEF Rounds
    <3> QED BY <1>7, <3>1, <3>2
  <2> QED BY <1>6, <2>1
<1>9. g = [i \in 0 .. n |-> IF i = 0 THEN r
                          ELSE IF i \in selected THEN CopyOne(g[i - 1], m_listEntries[i]) ELSE g[i - 1]]
  BY <1>8, Zenon
<1> HIDE DEF g
<1>10. 0 \in 0 .. n /\ \A i \in 1 .. n : i \in 0 .. n /\ i - 1 \in 0 .. n /\ i # 0
  BY <1>2
<1>11. g[0] = r
  BY <1>9, <1>10
<1>12. \A i \in 1 .. n : g[i] = IF i \in selected THEN CopyOne(g[i - 1], m_listEntries[i]) ELSE g[i - 1]
  BY <1>9, <1>10
<1>13. \A i \in 0 .. n : g[i] \in Texts
  <2> DEFINE T == {i \in 0 .. n : g[i] \in Texts}
  <2>1. 0 \in T
    BY <1>2, <1>10, <1>11
  <2>2. ASSUME NEW i \in 1 .. n, i - 1 \in T PROVE i \in T
    BY <1>3, <1>10, <1>12, <2>2
  <2>3. 0 .. n \subseteq T
    <3> HIDE DEF T
    <3> QED BY <1>2, <2>1, <2>2, UpTo
  <2> QED BY <2>3
<1>14. g \in [0 .. n -> Texts]
  BY <1>9, <1>13
<1>15. Copied(g)
  BY <1>1, <1>11, <1>12 DEF Copied, n, r
<1> QED BY <1>14, <1>15 DEF n

LEMMA SummedExists ==
  ASSUME RowsInv
  PROVE  \E f \in [0 .. Len(m_listEntries) -> Nat] : Summed(f)
<1> DEFINE n == Len(m_listEntries)
           r == 1
           One(x, i) == IF i \in selected THEN x + NameLength[m_listEntries[i].name] + 2 ELSE x
           step == [i \in 1 .. n |-> [x \in Nat |-> One(x, i)]]
           g == CHOOSE g : g = [i \in 0 .. n |-> IF i = 0 THEN r
                                  ELSE IF i \in selected THEN g[i - 1] + NameLength[m_listEntries[i].name] + 2 ELSE g[i - 1]]
<1>1. TotalLength = g[n]
  BY Zenon DEF TotalLength, InTurn
<1>2. n \in Nat /\ r \in Nat
  BY DEF RowsInv
<1>3. ASSUME NEW x \in Nat, NEW i \in 1 .. n PROVE One(x, i) \in Nat
  <2>1. m_listEntries[i] \in Entries
    BY <1>2 DEF RowsInv
  <2> QED BY <2>1, LengthOf, OneCopied
<1> HIDE DEF r
<1>4. step \in [1 .. n -> [Nat -> Nat]]
  <2> HIDE DEF One
  <2> QED BY <1>3
<1>5. \A x \in Nat : \A i \in 1 .. n : step[i][x] = One(x, i)
  <2> HIDE DEF One
  <2> QED OBVIOUS
<1> HIDE DEF step, n
<1>6. PICK f \in [0 .. n -> Nat] : Rounds(n, r, step, f)
  BY <1>2, <1>4, RoundsExist
<1>7. ASSUME NEW i \in 1 .. n PROVE i - 1 \in 0 .. n /\ i \in 0 .. n /\ i # 0 /\ f[i] = One(f[i - 1], i)
  <2>1. i - 1 \in 0 .. n /\ i \in 0 .. n /\ i # 0
    BY <1>2
  <2>2. f[i] = step[i][f[i - 1]]
    BY <1>6 DEF Rounds
  <2>3. f[i - 1] \in Nat
    BY <1>6, <2>1
  <2> HIDE DEF One
  <2> QED BY <1>5, <2>1, <2>2, <2>3
<1>8. f = [i \in 0 .. n |-> IF i = 0 THEN r
                          ELSE IF i \in selected THEN f[i - 1] + NameLength[m_listEntries[i].name] + 2 ELSE f[i - 1]]
  <2>1. ASSUME NEW i \in 0 .. n
        PROVE  f[i] = IF i = 0 THEN r ELSE IF i \in selected THEN f[i - 1] + NameLength[m_listEntries[i].name] + 2 ELSE f[i - 1]
    <3>1. i = 0 \/ i \in 1 .. n
      BY <1>2
    <3>2. f[0] = r
      BY <1>6 DEF Rounds
    <3> QED BY <1>7, <3>1, <3>2
  <2> QED BY <1>6, <2>1
<1>9. g = [i \in 0 .. n |-> IF i = 0 THEN r
                          ELSE IF i \in selected THEN g[i - 1] + NameLength[m_listEntries[i].name] + 2 ELSE g[i - 1]]
  BY <1>8, Zenon
<1> HIDE DEF g
<1>10. 0 \in 0 .. n /\ \A i \in 1 .. n : i \in 0 .. n /\ i - 1 \in 0 .. n /\ i # 0
  BY <1>2
<1>11. g[0] = r
  BY <1>9, <1>10
<1>12. \A i \in 1 .. n : g[i] = IF i \in selected THEN g[i - 1] + NameLength[m_listEntries[i].name] + 2 ELSE g[i - 1]
  BY <1>9, <1>10
<1>13. \A i \in 0 .. n : g[i] \in Nat
  <2> DEFINE T == {i \in 0 .. n : g[i] \in Nat}
  <2>1. 0 \in T
    BY <1>2, <1>10, <1>11
  <2>2. ASSUME NEW i \in 1 .. n, i - 1 \in T PROVE i \in T
    BY <1>3, <1>10, <1>12, <2>2
  <2>3. 0 .. n \subseteq T
    <3> HIDE DEF T
    <3> QED BY <1>2, <2>1, <2>2, UpTo
  <2> QED BY <2>3
<1>14. g \in [0 .. n -> Nat]
  BY <1>9, <1>13
<1>15. Summed(g)
  BY <1>1, <1>11, <1>12 DEF Summed, n, r
<1> QED BY <1>14, <1>15 DEF n

\* The stretches lie behind each other, the last one before the offset, and the
\* length is ahead of both.
Placed(text, total) ==
  /\ text.offset < total /\ text.written < total
  /\ \A k \in 1 .. Len(text.names) - 1 : text.names[k].to < text.names[k + 1].from
  /\ Len(text.names) # 0 => text.names[Len(text.names)].to < text.offset

LEMMA OnePlaced ==
  ASSUME NEW text \in Texts, NEW total \in Nat, Placed(text, total), NEW e \in Entries
  PROVE  Placed(CopyOne(text, e), total + NameLength[e.name] + 2)
<1>1. PICK l \in Nat : l = NameLength[e.name]
  BY LengthOf
<1>2. PICK at \in Nat : at = text.offset
  BY DEF Texts
<1>3. PICK stretch : stretch = [name |-> e.name, from |-> at, to |-> at + l]
  OBVIOUS
<1>4. PICK after \in Texts :
        /\ after = CopyOne(text, e)
        /\ after = [offset |-> at + l + 1, names |-> Append(text.names, stretch), written |-> at + l + 2]
  BY <1>1, <1>2, <1>3, OneCopied
<1>5. after.offset = at + l + 1 /\ after.written = at + l + 2 /\ after.names = Append(text.names, stretch)
  BY <1>4
<1>6. PICK n \in Nat : n = Len(text.names)
  BY DEF Texts
<1>7. /\ Len(after.names) = n + 1 /\ after.names[n + 1] = stretch
      /\ \A k \in 1 .. n : after.names[k] = text.names[k]
  BY <1>5, <1>6 DEF Texts
<1>8. stretch.from = at /\ stretch.to = at + l
  BY <1>3
<1>9. ASSUME NEW k \in 1 .. n PROVE after.names[k].to < after.names[k + 1].from
  <2>1. CASE k = n
    <3>1. n # 0
      BY <2>1
    <3> QED BY <1>2, <1>6, <1>7, <1>8, <2>1, <3>1 DEF Placed
  <2>2. CASE k # n
    <3>1. k \in 1 .. n - 1 /\ k + 1 \in 1 .. n
      BY <1>6, <2>2
    <3> QED BY <1>6, <1>7, <3>1 DEF Placed
  <2> QED BY <2>1, <2>2
<1>10. at < total
  BY <1>2 DEF Placed
<1>11. at + l + 1 < total + l + 2 /\ at + l + 2 < total + l + 2 /\ at + l < at + l + 1 /\ n + 1 - 1 = n
  BY <1>10
<1>12. Placed(after, total + l + 2)
  BY <1>5, <1>7, <1>8, <1>9, <1>11 DEF Placed
<1> QED BY <1>1, <1>4, <1>12

LEMMA ClipboardIsEnough == ASSUME RowsInv PROVE ClipboardFits
<1>1. PICK n \in Nat : n = Len(m_listEntries)
  BY DEF RowsInv
<1>2. PICK f \in [0 .. n -> Texts] : Copied(f)
  BY <1>1, CopiedExists
<1>3. PICK g \in [0 .. n -> Nat] : Summed(g)
  BY <1>1, SummedExists
<1> DEFINE T == {i \in 0 .. n : Placed(f[i], g[i])}
<1>4. 0 \in T
  <2>1. f[0] = [offset |-> 0, names |-> <<>>, written |-> 0] /\ g[0] = 1 /\ 0 \in 0 .. n
    BY <1>1, <1>2, <1>3 DEF Copied, Summed
  <2>2. Len(<<>>) = 0 /\ 1 .. 0 - 1 = {}
    OBVIOUS
  <2> QED BY <2>1, <2>2 DEF Placed
<1>5. ASSUME NEW i \in 1 .. n, i - 1 \in T PROVE i \in T
  <2>1. i \in 0 .. n /\ i - 1 \in 0 .. n /\ Placed(f[i - 1], g[i - 1])
        /\ f[i - 1] \in Texts /\ g[i - 1] \in Nat
    BY <1>1, <1>5
  <2>2. m_listEntries[i] \in Entries
    BY <1>1 DEF RowsInv
  <2>3. CASE i \in selected
    <3>1. f[i] = CopyOne(f[i - 1], m_listEntries[i])
      BY <1>1, <1>2, <2>3 DEF Copied
    <3>2. g[i] = g[i - 1] + NameLength[m_listEntries[i].name] + 2
      BY <1>1, <1>3, <2>3 DEF Summed
    <3> QED BY <2>1, <2>2, <3>1, <3>2, OnePlaced
  <2>4. CASE i \notin selected
    <3>1. f[i] = f[i - 1] /\ g[i] = g[i - 1]
      BY <1>1, <1>2, <1>3, <2>4 DEF Copied, Summed
    <3> QED BY <2>1, <3>1
  <2> QED BY <2>3, <2>4
<1>6. n \in T
  <2>1. 0 .. n \subseteq T
    <3> HIDE DEF T
    <3> QED BY <1>1, <1>4, <1>5, UpTo
  <2> QED BY <1>1, <2>1
<1>7. Placed(doCopySelectionToClipboard, TotalLength)
  BY <1>1, <1>2, <1>3, <1>6 DEF Copied, Summed
<1> QED BY <1>7 DEF Placed, ClipboardFits

\* For any files and names of any length: the rows and what the list view is
\* told of them agree through every callback, sort and deletion, and whatever
\* is selected, its names fit into the buffer for the clipboard, apart.
THEOREM ListStaysInBounds == Spec => [](ListTypeOK /\ ClipboardFits)
<1>1. RowsInv => ListTypeOK
  BY RowsOf DEF RowsInv, ListTypeOK, Entries
<1>2. RowsInv => ClipboardFits
  BY ClipboardIsEnough
<1> QED BY <1>1, <1>2, RowsInvariant, PTL

-----------------------------------------------------------------------------
(* Formats.                                                                *)

Provider == Formats!ToSet(BuiltIn) \cup Plugins
PostedRecords ==
  [op : {"none", "Verify", "CreateFromFolder"}, row : Nat, name : FileNames \cup {""},
   provider : Nat]

\* The vectors are in step, and what can create is in the third.
VectorsInv ==
  /\ m_providers \in Seq(Provider)
  /\ m_fileTypesVerify \in Seq(DOMAIN m_providers)
  /\ m_fileTypesCreate \in Seq({i \in DOMAIN m_providers : m_providers[i].full})

LoadingInv ==
  /\ dlls \in Seq(Plugins) /\ app \in {"loading", "running", "exited", "terminated"}
  /\ Formats!Constructing => app = "loading"
  /\ app \in {"loading", "exited"} => posted = Formats!None

ChoiceInv ==
  /\ posted \in PostedRecords /\ posted.provider \in 0 .. Len(m_providers)
  /\ posted.op = "Verify" => posted.row \in {0} \cup DOMAIN Formats!VerifyRows
  /\ posted.op = "CreateFromFolder" => posted.row \in DOMAIN Formats!CreateRows
  /\ Formats!RowIsProvider /\ Formats!CreateHasProvider /\ Formats!FirstByName

FormatsInv == VectorsInv /\ LoadingInv /\ ChoiceInv

LEMMA RowsOfVerify ==
  ASSUME VectorsInv
  PROVE  /\ DOMAIN Formats!VerifyRows = 1 .. Len(m_fileTypesVerify) + 2
         /\ Formats!VerifyRows[1] = Formats!Row("catch_all", 0)
         /\ Formats!VerifyRows[Len(m_fileTypesVerify) + 2] = Formats!Row("all_files", 0)
         /\ \A i \in 1 .. Len(m_fileTypesVerify) :
               Formats!VerifyRows[i + 1] = Formats!Row("format", m_fileTypesVerify[i])
<1> DEFINE R == {Formats!Row("catch_all", 0), Formats!Row("all_files", 0)}
                  \cup {Formats!Row("format", i) : i \in DOMAIN m_providers}
<1> PICK n : n = Len(m_fileTypesVerify)
  OBVIOUS
<1>1. n \in Nat /\ DOMAIN m_fileTypesVerify = 1 .. n
  BY DEF VectorsInv
<1>2. \A i \in 1 .. n : m_fileTypesVerify[i] \in DOMAIN m_providers
  BY <1>1 DEF VectorsInv
<1> PICK f : f = [i \in 1 .. n |-> Formats!Row("format", m_fileTypesVerify[i])]
  OBVIOUS
<1>3. Formats!VerifyRows = <<Formats!Row("catch_all", 0)>> \o f \o <<Formats!Row("all_files", 0)>>
  BY <1>1 DEF Formats!VerifyRows
<1>4. f \in [1 .. n -> R] /\ \A i \in 1 .. n : f[i] = Formats!Row("format", m_fileTypesVerify[i])
  BY <1>2
<1>5. Formats!Row("catch_all", 0) \in R /\ Formats!Row("all_files", 0) \in R
  OBVIOUS
<1> HIDE DEF R
<1>6. f \in Seq(R) /\ Len(f) = n
  BY <1>1, <1>4, IsSequence
<1> PICK s : s = Formats!VerifyRows
  OBVIOUS
<1>7. /\ DOMAIN s = 1 .. n + 2 /\ s[1] = Formats!Row("catch_all", 0)
           /\ s[n + 2] = Formats!Row("all_files", 0)
      /\ \A i \in 1 .. n : s[i + 1] = f[i]
  <2>1. s = <<Formats!Row("catch_all", 0)>> \o f \o <<Formats!Row("all_files", 0)>>
    BY <1>3
  <2> PICK a \in R : a = Formats!Row("catch_all", 0)
    BY <1>5
  <2> PICK b \in R : b = Formats!Row("all_files", 0)
    BY <1>5
  <2>2. s = <<a>> \o f \o <<b>>
    BY <2>1
  <2> QED BY <1>6, <2>2, Framed
<1> QED BY <1>4, <1>7

LEMMA FirstIsFirst ==
  ASSUME NEW n \in Nat, NEW S \in SUBSET (1 .. n), S # {}
  PROVE  Formats!FirstDecision(S) \in S /\ \A j \in S : Formats!FirstDecision(S) <= j
BY FirstExists DEF Formats!FirstDecision

LEMMA DecisionIs ==
  ASSUME NEW i, NEW name, NEW create
  PROVE  \/ Formats!AtProvider(i, name, create) = "enforce"
         \/ Formats!AtProvider(i, name, create) = "next"
         \/ Formats!AtProvider(i, name, create) = "found"
<1>1. CASE m_providers[i].exts[1] = name /\ (~create \/ m_providers[i].full)
  BY <1>1 DEF Formats!AtProvider
<1>2. CASE ~(m_providers[i].exts[1] = name /\ (~create \/ m_providers[i].full))
  <2>1. CASE Len(m_providers[i].exts) > 1
    BY <1>2, <2>1 DEF Formats!AtProvider
  <2>2. CASE ~(Len(m_providers[i].exts) > 1)
    BY <1>2, <2>2 DEF Formats!AtProvider
  <2> QED BY <2>1, <2>2
<1> QED BY <1>1, <1>2

LEMMA FoundIs ==
  ASSUME NEW i, NEW name, NEW create, Formats!AtProvider(i, name, create) = "found"
  PROVE  m_providers[i].exts[1] = name /\ (create => m_providers[i].full)
<1>1. CASE m_providers[i].exts[1] = name /\ (~create \/ m_providers[i].full)
  BY <1>1
<1>2. CASE ~(m_providers[i].exts[1] = name /\ (~create \/ m_providers[i].full))
  <2>1. CASE Len(m_providers[i].exts) > 1
    BY <1>2, <2>1 DEF Formats!AtProvider
  <2>2. CASE ~(Len(m_providers[i].exts) > 1)
    BY <1>2, <2>2 DEF Formats!AtProvider
  <2> QED BY <2>1, <2>2
<1> QED BY <1>1, <1>2

LEMMA NextIs ==
  ASSUME NEW i, NEW name, Formats!AtProvider(i, name, FALSE) = "next"
  PROVE  m_providers[i].exts[1] # name
BY DEF Formats!AtProvider

LEMMA MatchingIs ==
  ASSUME Formats!ProviderConstants, VectorsInv, NEW name, NEW create \in BOOLEAN,
         NEW p, p = Formats!getMatchingProviderFor(name, create)
  PROVE  \/ p = 0 \/ p = -1
         \/ /\ p \in DOMAIN m_providers /\ m_providers[p].exts[1] = name
            /\ name \in Formats!ToSet(m_providers[p].exts)
            /\ create => m_providers[p].full
            /\ ~create => \A i \in 1 .. p - 1 : m_providers[i].exts[1] # name
<1> DEFINE decided == {i \in DOMAIN m_providers : Formats!AtProvider(i, name, create) # "next"}
<1>0. Len(m_providers) \in Nat /\ DOMAIN m_providers = 1 .. Len(m_providers)
  BY DEF VectorsInv
<1>1. CASE decided = {}
  BY <1>1 DEF Formats!getMatchingProviderFor
<1>2. CASE decided # {}
  <2> PICK d : d = Formats!FirstDecision(decided)
    OBVIOUS
  <2>1. d \in decided /\ \A j \in decided : d <= j
    BY <1>0, <1>2, FirstIsFirst
  <2>2. p = IF Formats!AtProvider(d, name, create) = "enforce" THEN -1 ELSE d
    BY <1>2 DEF Formats!getMatchingProviderFor
  <2>3. CASE Formats!AtProvider(d, name, create) = "enforce"
    BY <2>2, <2>3
  <2>4. CASE Formats!AtProvider(d, name, create) # "enforce"
    <3>1. p = d /\ p \in DOMAIN m_providers /\ Formats!AtProvider(p, name, create) = "found"
      BY <2>1, <2>2, <2>4, DecisionIs
    <3>2. m_providers[p].exts[1] = name /\ (create => m_providers[p].full)
      BY <3>1, FoundIs
    <3>3. m_providers[p] \in Provider
      BY <3>1 DEF VectorsInv
    <3>4. Formats!Strings(m_providers[p])
      BY <3>3 DEF Formats!ProviderConstants, Provider
    <3>5. name \in Formats!ToSet(m_providers[p].exts)
      BY <3>2, <3>4 DEF Formats!Strings, Formats!ToSet
    <3>6. ASSUME ~create, NEW i \in 1 .. p - 1 PROVE m_providers[i].exts[1] # name
      <4>1. p \in 1 .. Len(m_providers) /\ \A j \in decided : p <= j
        BY <1>0, <2>1, <3>1
      <4>2. i \in DOMAIN m_providers /\ ~(p <= i)
        BY <1>0, <4>1
      <4>3. i \notin decided
        BY <4>1, <4>2
      <4> QED BY <3>6, <4>2, <4>3, NextIs
    <3> QED BY <3>1, <3>2, <3>5, <3>6
  <2> QED BY <2>3, <2>4
<1> QED BY <1>1, <1>2

LEMMA ProviderAdded ==
  ASSUME VectorsInv, NEW p \in Provider, p.full \in BOOLEAN, Formats!addProvider(p)
  PROVE  VectorsInv' /\ Len(m_providers') = Len(m_providers) + 1
<1> DEFINE n == Len(m_providers)
           full == {i \in DOMAIN m_providers : m_providers[i].full}
<1>1. /\ m_providers' \in Seq(Provider) /\ Len(m_providers') = n + 1 /\ n \in Nat
      /\ DOMAIN m_providers = 1 .. n /\ DOMAIN m_providers' = 1 .. n + 1
      /\ m_providers'[n + 1] = p /\ \A i \in 1 .. n : m_providers'[i] = m_providers[i]
  BY DEF VectorsInv, Formats!addProvider
<1>2. m_fileTypesVerify' \in Seq(DOMAIN m_providers')
  <2>1. m_fileTypesVerify \in Seq(DOMAIN m_providers') /\ n + 1 \in DOMAIN m_providers'
    BY <1>1, SequenceGrows DEF VectorsInv
  <2> QED BY <2>1 DEF Formats!addProvider
<1>3. m_fileTypesCreate' \in Seq({i \in DOMAIN m_providers' : m_providers'[i].full})
  <2> PICK T : T = {i \in DOMAIN m_providers' : m_providers'[i].full}
    OBVIOUS
  <2>1. full \subseteq T /\ (p.full => n + 1 \in T)
    BY <1>1
  <2>2. m_fileTypesCreate \in Seq(T)
    BY <2>1, SequenceGrows DEF VectorsInv
  <2>3. CASE p.full
    BY <2>1, <2>2, <2>3 DEF Formats!addProvider
  <2>4. CASE ~p.full
    BY <2>2, <2>4 DEF Formats!addProvider
  <2> QED BY <2>3, <2>4
<1> QED BY <1>1, <1>2, <1>3 DEF VectorsInv

LEMMA RecordIs ==
  ASSUME NEW o \in {"none", "Verify", "CreateFromFolder"}, NEW r \in Nat, NEW n \in FileNames,
         NEW i \in Nat
  PROVE  [op |-> o, row |-> r, name |-> n, provider |-> i] \in PostedRecords
BY DEF PostedRecords

LEMMA OpenedByName ==
  ASSUME NEW chosen, NEW name, chosen = 0 \/ chosen - 1 >= Len(m_fileTypesVerify)
  PROVE  Formats!Opened(chosen, name) = Formats!getMatchingProviderFor(name, FALSE)
BY Zenon DEF Formats!Opened

LEMMA OpenedByRow ==
  ASSUME NEW chosen, NEW name, ~(chosen = 0 \/ chosen - 1 >= Len(m_fileTypesVerify))
  PROVE  Formats!Opened(chosen, name) = m_fileTypesVerify[chosen]
BY Zenon DEF Formats!Opened

LEMMA CreatedByRow ==
  ASSUME NEW chosen, NEW name, ~(chosen >= Len(m_fileTypesCreate))
  PROVE  Formats!Created(chosen, name) = m_fileTypesCreate[chosen + 1]
BY Zenon DEF Formats!Created

LEMMA NoProvider ==
  ASSUME NEW r, r = Formats!Row("catch_all", 0) \/ r = Formats!Row("all_files", 0)
  PROVE  r.provider = 0
BY DEF Formats!Row

LEMMA NoneIsRecord == Formats!None \in PostedRecords /\ Formats!None.provider = 0
    /\ Formats!None.op = "none"
BY DEF Formats!None, PostedRecords

\* Before the program runs, there is no operation.
LEMMA NoneIsSound == ASSUME VectorsInv, posted = Formats!None PROVE ChoiceInv
<1>1. posted \in PostedRecords /\ posted.provider = 0 /\ posted.op = "none"
  BY NoneIsRecord
<1>2. Len(m_providers) \in Nat
  BY DEF VectorsInv
<1> QED BY <1>1, <1>2 DEF ChoiceInv, Formats!RowIsProvider, Formats!CreateHasProvider,
                          Formats!FirstByName

LEMMA FullIsBoolean ==
  ASSUME Formats!ProviderConstants
  PROVE  /\ \A p \in Provider : p.full \in BOOLEAN
         /\ \A i \in DOMAIN BuiltIn : BuiltIn[i] \in Provider
         /\ Len(BuiltIn) \in Nat /\ DOMAIN BuiltIn = 1 .. Len(BuiltIn)
BY DEF Formats!ProviderConstants, Provider, Formats!ToSet

LEMMA InitFormats == ASSUME Formats!ProviderConstants, Formats!Init PROVE FormatsInv
<1>1. dlls \in Seq(Plugins)
  BY IsSequence DEF Formats!Init, Formats!ProviderConstants
<1>2. VectorsInv
  BY DEF Formats!Init, VectorsInv
<1>3. ChoiceInv
  BY <1>2, NoneIsSound DEF Formats!Init
<1> QED BY <1>1, <1>2, <1>3 DEF Formats!Init, FormatsInv, LoadingInv

LEMMA AddBuiltInKeeps == ASSUME Formats!ProviderConstants, FormatsInv, Formats!AddBuiltIn
    PROVE FormatsInv'
<1>1. Len(m_providers) \in Nat /\ Len(m_providers) + 1 \in DOMAIN BuiltIn
  BY FullIsBoolean DEF Formats!AddBuiltIn, Formats!Constructing, FormatsInv, VectorsInv
<1>2. VectorsInv'
  BY <1>1, ProviderAdded, FullIsBoolean DEF Formats!AddBuiltIn, FormatsInv
<1>3. /\ dlls' = dlls /\ app' = app /\ posted' = posted /\ app = "loading"
           /\ posted = Formats!None
      /\ dlls \in Seq(Plugins)
  BY DEF Formats!AddBuiltIn, FormatsInv, LoadingInv
<1>4. Formats!None' = Formats!None
  BY DEF Formats!None
<1>5. LoadingInv'
  BY <1>3, <1>4 DEF LoadingInv
<1>6. ChoiceInv'
  <2>1. posted' \in PostedRecords /\ posted'.provider = 0 /\ posted'.op = "none"
    BY <1>3, <1>4, NoneIsRecord
  <2>2. Len(m_providers') \in Nat
    BY <1>2 DEF VectorsInv
  <2> QED BY <2>1, <2>2 DEF ChoiceInv, Formats!RowIsProvider, Formats!CreateHasProvider,
                            Formats!FirstByName
<1> QED BY <1>2, <1>5, <1>6 DEF FormatsInv

LEMMA LoadPluginKeeps == ASSUME Formats!ProviderConstants, FormatsInv, Formats!LoadPlugin
    PROVE FormatsInv'
<1>1. /\ dlls \in Seq(Plugins) /\ dlls # <<>> /\ app = "loading" /\ posted = Formats!None
      /\ dlls' = Tail(dlls) /\ posted' = posted /\ ~Formats!Constructing
  BY DEF Formats!LoadPlugin, FormatsInv, LoadingInv
<1>2. Head(dlls) \in Provider /\ Head(dlls).full \in BOOLEAN /\ dlls' \in Seq(Plugins)
  BY <1>1, FullIsBoolean DEF Provider
<1>3. VectorsInv' /\ ~Formats!Constructing' /\ app' \in {"loading", "exited"}
  <2>1. CASE Formats!addProvider(Head(dlls)) /\ UNCHANGED app
    <3>1. VectorsInv' /\ Len(m_providers') = Len(m_providers) + 1 /\ Len(m_providers) \in Nat
      BY <1>2, <2>1, ProviderAdded DEF FormatsInv, VectorsInv
    <3> QED BY <1>1, <2>1, <3>1, FullIsBoolean DEF Formats!Constructing
  <2>2. CASE app' = "exited" /\ UNCHANGED <<m_providers, m_fileTypesVerify, m_fileTypesCreate>>
    BY <1>1, <2>2 DEF Formats!Constructing, FormatsInv, VectorsInv
  <2> QED BY <2>1, <2>2 DEF Formats!LoadPlugin
<1>4. posted' = Formats!None /\ Formats!None' = Formats!None
  BY <1>1 DEF Formats!None
<1>5. LoadingInv'
  BY <1>2, <1>3, <1>4 DEF LoadingInv
<1>6. ChoiceInv'
  <2>1. posted' \in PostedRecords /\ posted'.provider = 0 /\ posted'.op = "none"
    BY <1>3, <1>4, NoneIsRecord
  <2>2. Len(m_providers') \in Nat
    BY <1>3 DEF VectorsInv
  <2> QED BY <2>1, <2>2 DEF ChoiceInv, Formats!RowIsProvider, Formats!CreateHasProvider,
                            Formats!FirstByName
<1> QED BY <1>3, <1>5, <1>6 DEF FormatsInv

LEMMA SameIsSound ==
  ASSUME FormatsInv, UNCHANGED <<m_providers, m_fileTypesVerify, m_fileTypesCreate, posted>>
  PROVE  VectorsInv' /\ ChoiceInv'
<1>1. VectorsInv'
  BY DEF FormatsInv, VectorsInv
<1>2. Formats!VerifyRows' = Formats!VerifyRows /\ Formats!CreateRows' = Formats!CreateRows
  BY DEF Formats!VerifyRows, Formats!CreateRows
<1>3. Formats!RowIsProvider' /\ Formats!CreateHasProvider' /\ Formats!FirstByName'
  BY <1>2 DEF FormatsInv, ChoiceInv, Formats!RowIsProvider, Formats!CreateHasProvider,
              Formats!FirstByName
<1> QED BY <1>1, <1>2, <1>3 DEF FormatsInv, ChoiceInv

LEMMA LoadedKeeps == ASSUME FormatsInv, Formats!Loaded PROVE FormatsInv'
<1>1. VectorsInv' /\ ChoiceInv'
  BY SameIsSound DEF Formats!Loaded
<1>2. LoadingInv'
  BY DEF Formats!Loaded, FormatsInv, LoadingInv, Formats!Constructing
<1> QED BY <1>1, <1>2 DEF FormatsInv

\* An operation is sound if the provider is, which is chosen before the vectors
\* could change.
LEMMA PostedKeeps ==
  ASSUME FormatsInv, app = "running", NEW op \in {"none", "Verify", "CreateFromFolder"},
         NEW row \in Nat, NEW name \in FileNames, NEW p, Formats!Posted(op, row, name, p),
         p = -1 \/ p \in 0 .. Len(m_providers),
         op = "Verify" =>
           /\ row = 0
                \/ (row \in DOMAIN Formats!VerifyRows /\ Formats!VerifyRows[row].provider \in {0, p})
           /\ p # -1 /\ (row = 0 \/ Formats!VerifyRows[row].kind # "format") =>
                /\ name \in Formats!ToSet(m_providers[p].exts)
                /\ \A i \in 1 .. p - 1 : m_providers[i].exts[1] # name,
         op = "CreateFromFolder" =>
           /\ row \in DOMAIN Formats!CreateRows /\ Formats!CreateRows[row].provider = p
           /\ p # 0 /\ m_providers[p].full
  PROVE  FormatsInv'
<1>1. UNCHANGED <<m_providers, m_fileTypesVerify, m_fileTypesCreate, dlls>>
  BY DEF Formats!Posted
<1>2. LoadingInv'
  BY <1>1 DEF Formats!Posted, FormatsInv, LoadingInv, Formats!Constructing
<1>3. CASE p = -1
  <2>1. posted' = posted
    BY <1>3 DEF Formats!Posted
  <2> QED BY <1>1, <1>2, <2>1, SameIsSound DEF FormatsInv
<1>4. CASE p # -1
  <2>1. /\ posted' = [op |-> op, row |-> row, name |-> name, provider |-> p]
        /\ p \in 0 .. Len(m_providers) /\ Len(m_providers) \in Nat
    BY <1>4 DEF Formats!Posted, FormatsInv, VectorsInv
  <2>2. /\ posted' \in PostedRecords /\ posted'.op = op /\ posted'.row = row
             /\ posted'.name = name
        /\ posted'.provider = p
    <3>1. p \in Nat
      BY <2>1
    <3> QED BY <2>1, <3>1, RecordIs
  <2>3. VectorsInv' /\ Formats!VerifyRows' = Formats!VerifyRows
      /\ Formats!CreateRows' = Formats!CreateRows
    BY <1>1 DEF FormatsInv, VectorsInv, Formats!VerifyRows, Formats!CreateRows
  <2>4. Formats!RowIsProvider' /\ Formats!CreateHasProvider' /\ Formats!FirstByName'
    BY <1>1, <1>4, <2>2, <2>3 DEF Formats!RowIsProvider, Formats!CreateHasProvider,
                                  Formats!FirstByName
  <2>5. ChoiceInv'
    BY <1>1, <2>1, <2>2, <2>3, <2>4 DEF ChoiceInv
  <2> QED BY <1>2, <2>3, <2>5 DEF FormatsInv
<1> QED BY <1>3, <1>4

LEMMA CheckFileKeeps ==
  ASSUME Formats!ProviderConstants, FormatsInv, NEW name \in FileNames, Formats!CheckFile(name)
  PROVE  FormatsInv'
<1>p. PICK p : p = Formats!getMatchingProviderFor(name, FALSE)
  OBVIOUS
<1> PICK op : op = IF p = 0 THEN "none" ELSE "Verify"
  OBVIOUS
<1> PICK row \in Nat : row = 0
  OBVIOUS
<1>1. app = "running" /\ Formats!Posted(op, row, name, p) /\ op \in {"none", "Verify"}
  BY <1>p DEF Formats!CheckFile
<1>2. VectorsInv /\ Len(m_providers) \in Nat /\ DOMAIN m_providers = 1 .. Len(m_providers)
  BY DEF FormatsInv, VectorsInv
<1>3. \/ p = 0 \/ p = -1
      \/ /\ p \in DOMAIN m_providers /\ name \in Formats!ToSet(m_providers[p].exts)
         /\ \A i \in 1 .. p - 1 : m_providers[i].exts[1] # name
  BY <1>p, <1>2, MatchingIs
<1>4. op = "Verify" =>
         /\ p # -1 =>
              /\ name \in Formats!ToSet(m_providers[p].exts)
              /\ \A i \in 1 .. p - 1 : m_providers[i].exts[1] # name
  BY <1>3
<1>5. p = -1 \/ p \in 0 .. Len(m_providers)
  <2>1. p \in DOMAIN m_providers => p \in 0 .. Len(m_providers)
    BY <1>2
  <2> QED BY <1>2, <1>3, <2>1
<1>6. op \in {"none", "Verify", "CreateFromFolder"} /\ op # "CreateFromFolder"
  BY <1>1
<1>7. op = "Verify" =>
         /\ row = 0
              \/ (row \in DOMAIN Formats!VerifyRows /\ Formats!VerifyRows[row].provider \in {0, p})
         /\ p # -1 /\ (row = 0 \/ Formats!VerifyRows[row].kind # "format") =>
              /\ name \in Formats!ToSet(m_providers[p].exts)
              /\ \A i \in 1 .. p - 1 : m_providers[i].exts[1] # name
  BY <1>4
<1>8. op = "CreateFromFolder" =>
         /\ row \in DOMAIN Formats!CreateRows /\ Formats!CreateRows[row].provider = p
         /\ p # 0 /\ m_providers[p].full
  BY <1>6
<1> QED BY <1>1, <1>5, <1>6, <1>7, <1>8, PostedKeeps

LEMMA OpenFileKeeps ==
  ASSUME Formats!ProviderConstants, FormatsInv, NEW name \in FileNames, NEW row \in Formats!Rows,
         Formats!OpenFile(row, name)
  PROVE  FormatsInv'
<1> PICK p : p = Formats!Opened(row - 1, name)
  OBVIOUS
<1> PICK op : op = IF p = 0 THEN "none" ELSE "Verify"
  OBVIOUS
<1> DEFINE n == Len(m_fileTypesVerify)
<1>1. app = "running" /\ Formats!Posted(op, row, name, p) /\ op \in {"none", "Verify"}
  BY DEF Formats!OpenFile
<1>2. /\ VectorsInv /\ Len(m_providers) \in Nat /\ DOMAIN m_providers = 1 .. Len(m_providers)
      /\ n \in Nat /\ DOMAIN m_fileTypesVerify = 1 .. n
      /\ \A i \in 1 .. n : m_fileTypesVerify[i] \in DOMAIN m_providers
  BY DEF FormatsInv, VectorsInv
<1>3. row \in 1 .. n + 2 /\ row \in DOMAIN Formats!VerifyRows
  BY <1>2, RowsOfVerify DEF Formats!OpenFile
<1>4. CASE row = 1 \/ row = n + 2
  <2>1. p = Formats!getMatchingProviderFor(name, FALSE)
    <3>1. row - 1 = 0 \/ row - 1 - 1 >= n
      BY <1>2, <1>3, <1>4
    <3> QED BY <3>1, OpenedByName
  <2>2. \/ p = 0 \/ p = -1
        \/ /\ p \in DOMAIN m_providers /\ name \in Formats!ToSet(m_providers[p].exts)
           /\ \A i \in 1 .. p - 1 : m_providers[i].exts[1] # name
    BY <1>2, <2>1, MatchingIs
  <2>3. Formats!VerifyRows[row].provider = 0
    <3>1. Formats!VerifyRows[1] = Formats!Row("catch_all", 0)
        /\ Formats!VerifyRows[n + 2] = Formats!Row("all_files", 0)
      BY <1>2, RowsOfVerify
    <3>2. Formats!VerifyRows[row] = Formats!Row("catch_all", 0)
        \/ Formats!VerifyRows[row] = Formats!Row("all_files", 0)
      BY <1>4, <3>1
    <3> QED BY <3>2, NoProvider
  <2>4. op = "Verify" /\ p # -1 =>
          /\ name \in Formats!ToSet(m_providers[p].exts)
          /\ \A i \in 1 .. p - 1 : m_providers[i].exts[1] # name
    BY <2>2
  <2>5. (p = -1 \/ p \in 0 .. Len(m_providers)) /\ op # "CreateFromFolder" /\ row \in Nat
    BY <1>1, <1>2, <1>3, <2>2
  <2>6. op \in {"none", "Verify", "CreateFromFolder"}
    BY <1>1
  <2> QED BY <1>1, <1>3, <2>3, <2>4, <2>5, <2>6, PostedKeeps
<1>5. CASE ~(row = 1 \/ row = n + 2)
  <2>1. row - 1 \in 1 .. n /\ row - 1 + 1 = row
    BY <1>2, <1>3, <1>5
  <2>2. p = m_fileTypesVerify[row - 1] /\ p \in DOMAIN m_providers
    <3>1. ~(row - 1 = 0 \/ row - 1 - 1 >= n)
      BY <1>2, <1>3, <2>1
    <3>2. p = m_fileTypesVerify[row - 1]
      BY <3>1, OpenedByRow
    <3> QED BY <1>2, <2>1, <3>2
  <2>3. Formats!VerifyRows[row] = Formats!Row("format", p)
    BY <1>2, <2>1, <2>2, RowsOfVerify
  <2>4. Formats!VerifyRows[row].provider = p /\ Formats!VerifyRows[row].kind = "format"
    BY <2>3 DEF Formats!Row
  <2> QED BY <1>1, <1>2, <1>3, <2>2, <2>4, PostedKeeps
<1> QED BY <1>4, <1>5

LEMMA CreateFromFolderKeeps ==
  ASSUME Formats!ProviderConstants, FormatsInv, NEW name \in FileNames, NEW row \in Formats!Rows,
         Formats!CreateFromFolder(row, name)
  PROVE  FormatsInv'
<1> PICK p : p = Formats!Created(row - 1, name)
  OBVIOUS
<1>1. /\ app = "running" /\ Formats!Posted("CreateFromFolder", row, name, p)
      /\ row \in DOMAIN Formats!CreateRows
           /\ DOMAIN Formats!CreateRows = DOMAIN m_fileTypesCreate
  BY DEF Formats!CreateFromFolder, Formats!CreateRows
<1>2. /\ Len(m_providers) \in Nat /\ DOMAIN m_providers = 1 .. Len(m_providers)
      /\ Len(m_fileTypesCreate) \in Nat /\ row \in 1 .. Len(m_fileTypesCreate)
      /\ m_fileTypesCreate[row] \in DOMAIN m_providers
      /\ m_providers[m_fileTypesCreate[row]].full
  BY <1>1 DEF FormatsInv, VectorsInv
<1>3. p = m_fileTypesCreate[row]
  <2>1. ~(row - 1 >= Len(m_fileTypesCreate)) /\ row - 1 + 1 = row
    BY <1>2
  <2> QED BY <2>1, CreatedByRow
<1>4. Formats!CreateRows[row].provider = p
  BY <1>1, <1>3 DEF Formats!CreateRows, Formats!Row
<1> QED BY <1>1, <1>2, <1>3, <1>4, PostedKeeps

LEMMA FormatsStep == ASSUME Formats!ProviderConstants, FormatsInv, [Formats!Next]_(Formats!vars)
    PROVE FormatsInv'
<1>1. CASE UNCHANGED Formats!vars
  <2>1. VectorsInv' /\ ChoiceInv'
    BY <1>1, SameIsSound DEF Formats!vars
  <2> QED BY <1>1, <2>1 DEF Formats!vars, FormatsInv, LoadingInv, Formats!Constructing,
                            Formats!None
<1>2. CASE Formats!Next
  BY <1>2, AddBuiltInKeeps, LoadPluginKeeps, LoadedKeeps, CheckFileKeeps, OpenFileKeeps,
     CreateFromFolderKeeps
     DEF Formats!Next
<1> QED BY <1>1, <1>2

LEMMA FormatsInvariant == ASSUME Formats!ProviderConstants PROVE Formats!Spec => []FormatsInv
<1>1. Formats!Init => FormatsInv
  BY InitFormats
<1>2. FormatsInv /\ [Formats!Next]_(Formats!vars) => FormatsInv'
  BY FormatsStep
<1> QED BY <1>1, <1>2, PTL DEF Formats!Spec

LEMMA FormatsTyped == ASSUME FormatsInv PROVE Formats!ProvidersTypeOK
<1>1. \A i \in DOMAIN m_fileTypesVerify : m_fileTypesVerify[i] \in DOMAIN m_providers
  BY DEF FormatsInv, VectorsInv
<1>2. \A i \in DOMAIN m_fileTypesCreate : m_fileTypesCreate[i] \in DOMAIN m_providers
  BY DEF FormatsInv, VectorsInv
<1> QED BY <1>1, <1>2 DEF Formats!ProvidersTypeOK, FormatsInv, LoadingInv, ChoiceInv, Formats!Range

-----------------------------------------------------------------------------
(* Options.                                                                *)

Keys ==
  [no : Nat \ {0}, values : UNION {[S -> Placements \cup BOOLEAN] : S \in SUBSET Options!Values}]
OpenWindows ==
  [at : {"starting", "open", "placement", "avx"}, machine : Machines, has_avx512 : BOOLEAN,
   placement : Placements, save : BOOLEAN, reg_key : Nat]
WindowStates == {Options!Closed} \cup OpenWindows
Has(name) == name \in DOMAIN key.values

TypesInv ==
  /\ window \in [Windows -> WindowStates]
  /\ key = Options!NoKey \/ key \in Keys
  /\ keys \in 0 .. MaxKeys /\ asked \in BOOLEAN
  /\ key # Options!NoKey => /\ key.no = keys
                            /\ Has("WindowDimensions") =>
                                 key.values["WindowDimensions"] \in Placements
                            /\ Has("UseAvx") => key.values["UseAvx"] \in BOOLEAN

StartsInv ==
  \A w \in Windows : Options!Is(w, "starting") =>
      /\ window[w].has_avx512 = supportsAvx512[window[w].machine]
      /\ window[w].placement = NoPlacement

AskedInv ==
  /\ Options!KeptOnlyIfAsked
  /\ \A w \in Windows : ~Options!Is(w, "closed") /\ window[w].save => asked

\* What a window would find now was saved last.
LastInv ==
  /\ \E l \in last : Options!Saved("WindowDimensions", NoPlacement) = l.placement
  /\ \E l \in last : Options!Saved("UseAvx", TRUE) = l.has_avx512

\* What may still be written to the key is among it,
SavingInv ==
  \A w \in Windows : Options!Saving(w) =>
      /\ window[w].reg_key <= keys
      /\ key # Options!NoKey /\ key.no = window[w].reg_key => Options!Options(w) \in last

\* and nobody else has written what a window alone has, as far as it has come.
AloneInv ==
  \A w \in alone :
     /\ w \in Windows /\ Options!Saving(w) /\ \A v \in Windows \ {w} : ~Options!Saving(v)
     /\ key # Options!NoKey /\ key.no = window[w].reg_key
     /\ Options!Is(w, "avx") =>
          Has("WindowDimensions") /\ key.values["WindowDimensions"] = window[w].placement

KeptInv == LastInv /\ SavingInv /\ AloneInv

OptionsInv == TypesInv /\ StartsInv /\ Options!AvxIsSupported /\ AskedInv /\ KeptInv

-----------------------------------------------------------------------------

LEMMA NoKeyIsNone == Options!NoKey \notin Keys
BY DEF Options!NoKey, Keys

LEMMA NothingSaved ==
  ASSUME NEW r, NEW n, r = [no |-> n, values |-> <<>>], NEW name PROVE name \notin DOMAIN r.values
<1>1. r.values = <<>> /\ DOMAIN <<>> = {}
  OBVIOUS
<1> QED BY <1>1

\* One window changes, the others stay.
Becomes(w, r) ==
  /\ window' \in [Windows -> WindowStates] /\ window'[w] = r
  /\ \A v \in Windows \ {w} : window'[v] = window[v]

LEMMA WindowChanges ==
  ASSUME TypesInv, NEW w \in Windows, NEW r \in WindowStates, window' = [window EXCEPT ![w] = r]
  PROVE  Becomes(w, r)
BY DEF TypesInv, Becomes

LEMMA OpenWindow ==
  ASSUME TypesInv, NEW w \in Windows, ~Options!Is(w, "closed")
  PROVE  window[w] \in OpenWindows
BY DEF TypesInv, Options!Is, WindowStates, Options!Closed

LEMMA OpenIsOpen ==
  ASSUME NEW r \in OpenWindows
  PROVE  /\ r \in WindowStates /\ r.at # "closed" /\ Options!Closed.at = "closed"
              /\ Options!Closed \in WindowStates
         /\ r.machine \in Machines /\ r.has_avx512 \in BOOLEAN /\ r.placement \in Placements
         /\ r.save \in BOOLEAN
BY DEF OpenWindows, WindowStates, Options!Closed

LEMMA OthersStay ==
  ASSUME NEW w \in Windows, NEW r, Becomes(w, r), NEW v \in Windows
  PROVE  /\ v # w => window'[v] = window[v]
         /\ v # w => (Options!Saving(v)' <=> Options!Saving(v)) /\ \A x : Options!Is(v, x)' <=>
              Options!Is(v, x)
         /\ Options!Saving(w)' <=> r.at \in {"placement", "avx"}
         /\ \A x : Options!Is(w, x)' <=> r.at = x
BY DEF Becomes, Options!Saving, Options!Is

\* A window that does not save, or no longer, while the key stays.
LEMMA LastKept ==
  ASSUME KeptInv, NEW w \in Windows, NEW r, Becomes(w, r),
         r.at \notin {"placement", "avx"}, key' = key, keys' = keys, last' = last,
         alone' = alone \/ alone' = alone \ {w}, Options!Saving(w) => alone' = alone \ {w}
  PROVE  KeptInv'
<1>1. LastInv'
  BY DEF KeptInv, LastInv, Options!Saved
<1>2. ~Options!Saving(w)' /\ w \notin alone'
  BY OthersStay DEF KeptInv, AloneInv
<1>3. ASSUME NEW v \in Windows, v # w
      PROVE  /\ window'[v] = window[v] /\ Options!Options(v)' = Options!Options(v)
             /\ Options!Saving(v)' <=> Options!Saving(v)
             /\ Options!Is(v, "avx")' <=> Options!Is(v, "avx")
  BY <1>3 DEF Becomes, Options!Options, Options!Saving, Options!Is
<1>4. SavingInv'
  BY <1>2, <1>3 DEF KeptInv, SavingInv
<1>5. ASSUME NEW v \in alone'
      PROVE  /\ v \in Windows /\ Options!Saving(v)' /\ \A u \in Windows \ {v} : ~Options!Saving(u)'
             /\ key' # Options!NoKey /\ key'.no = window'[v].reg_key
             /\ Options!Is(v, "avx")' =>
                  Has("WindowDimensions")' /\ key'.values["WindowDimensions"] = window'[v].placement
  <2>1. v \in alone /\ v # w
    BY <1>2, <1>5
  <2> QED BY <1>2, <1>3, <2>1 DEF KeptInv, AloneInv, Has
<1> QED BY <1>1, <1>4, <1>5 DEF KeptInv, AloneInv

\* What a window becomes while the key, and what users have asked for, stay.
LEMMA WindowKept ==
  ASSUME TypesInv, StartsInv, Options!AvxIsSupported, AskedInv, NEW w \in Windows, NEW r,
         Becomes(w, r),
         r.at = "starting" =>
           r.has_avx512 = supportsAvx512[r.machine] /\ r.placement = NoPlacement,
         r.at # "closed" /\ r.has_avx512 => supportsAvx512[r.machine]
  PROVE  StartsInv' /\ Options!AvxIsSupported'
<1>1. ASSUME NEW v \in Windows, Options!Is(v, "starting")'
      PROVE  /\ window'[v].has_avx512 = supportsAvx512[window'[v].machine]
             /\ window'[v].placement = NoPlacement
  <2>1. CASE v = w
    BY <1>1, <2>1 DEF Becomes, Options!Is
  <2>2. CASE v # w
    BY <1>1, <2>2, OthersStay DEF StartsInv
  <2> QED BY <2>1, <2>2
<1>2. ASSUME NEW v \in Windows, ~Options!Is(v, "closed")', window'[v].has_avx512
      PROVE  supportsAvx512[window'[v].machine]
  <2>1. CASE v = w
    BY <1>2, <2>1 DEF Becomes, Options!Is
  <2>2. CASE v # w
    BY <1>2, <2>2, OthersStay DEF Options!AvxIsSupported
  <2> QED BY <2>1, <2>2
<1> QED BY <1>1, <1>2 DEF StartsInv, Options!AvxIsSupported

LEMMA AskedKept ==
  ASSUME AskedInv, NEW w \in Windows, NEW r, Becomes(w, r), asked => asked',
         key' # Options!NoKey => asked', r.at # "closed" /\ r.save => asked'
  PROVE  AskedInv'
<1>1. ASSUME NEW v \in Windows, ~Options!Is(v, "closed")', window'[v].save PROVE asked'
  <2>1. CASE v = w
    BY <1>1, <2>1 DEF Becomes, Options!Is
  <2>2. CASE v # w
    BY <1>1, <2>2, OthersStay DEF AskedInv
  <2> QED BY <2>1, <2>2
<1> QED BY <1>1 DEF AskedInv, Options!KeptOnlyIfAsked

-----------------------------------------------------------------------------
(* The steps.                                                              *)

LEMMA InitOptions == ASSUME Options!SettingsConstants, Options!Init PROVE OptionsInv
<1>1. Options!Closed \in WindowStates /\ Options!Closed.at = "closed"
  BY DEF WindowStates, Options!Closed
<1>2. \A w \in Windows : window[w] = Options!Closed /\ Options!Is(w, "closed")
  BY <1>1 DEF Options!Init, Options!Is
<1>3. \A w \in Windows : ~Options!Is(w, "starting")
  BY <1>1, <1>2 DEF Options!Is
<1>4. TypesInv
  <2>1. window \in [Windows -> WindowStates]
    BY <1>1 DEF Options!Init
  <2>2. keys \in 0 .. MaxKeys
    BY DEF Options!Init, Options!SettingsConstants
  <2> QED BY <2>1, <2>2 DEF Options!Init, TypesInv
<1>5. \A w \in Windows : ~Options!Saving(w)
  BY <1>1, <1>2 DEF Options!Saving
<1>6. KeptInv
  <2>1. /\ Options!Saved("WindowDimensions", NoPlacement) = Options!Defaults.placement
        /\ Options!Saved("UseAvx", TRUE) = Options!Defaults.has_avx512
    BY NothingSaved DEF Options!Init, Options!NoKey, Options!Saved, Options!Defaults
  <2> QED BY <1>5, <2>1 DEF Options!Init, KeptInv, LastInv, SavingInv, AloneInv
<1> QED BY <1>2, <1>3, <1>4, <1>6 DEF Options!Init, OptionsInv, StartsInv, Options!AvxIsSupported,
                                      AskedInv, Options!KeptOnlyIfAsked

LEMMA CreateKeeps ==
  ASSUME Options!SettingsConstants, OptionsInv, NEW w \in Windows, Options!createMainWindow(w)
  PROVE  OptionsInv'
<1> USE DEF OptionsInv
<1>1. PICK m \in Machines : window' = [window EXCEPT ![w] = Options!Started(m)]
  BY DEF Options!createMainWindow
<1> PICK r : r = Options!Started(m)
  OBVIOUS
<1>2. /\ r \in OpenWindows /\ r.at = "starting" /\ r.machine = m
           /\ r.has_avx512 = supportsAvx512[m]
      /\ r.save = FALSE /\ r.placement = NoPlacement
  BY DEF Options!Started, OpenWindows, Options!SettingsConstants
<1>3. Becomes(w, r)
  BY <1>1, <1>2, WindowChanges, OpenIsOpen
<1>4. key' = key /\ keys' = keys /\ asked' = asked /\ last' = last /\ alone' = alone
      /\ ~Options!Saving(w)
  BY DEF Options!Is, Options!Saving, Options!createMainWindow
<1>5. TypesInv'
  BY <1>3, <1>4 DEF TypesInv, Becomes, Has
<1>6. StartsInv' /\ Options!AvxIsSupported'
  BY <1>2, <1>3, WindowKept
<1>7. AskedInv'
  BY <1>2, <1>3, <1>4, AskedKept DEF AskedInv, Options!KeptOnlyIfAsked
<1>8. KeptInv'
  BY <1>2, <1>3, <1>4, LastKept
<1> QED BY <1>5, <1>6, <1>7, <1>8

\* A window that starts or is open becomes r, and the key stays.
LEMMA StepOfOpen ==
  ASSUME OptionsInv, NEW w \in Windows, NEW r \in WindowStates,
         window' = [window EXCEPT ![w] = r],
         ~Options!Is(w, "closed"), ~Options!Saving(w) \/ alone' = alone \ {w},
         r.at \in {"open", "closed"},
         r.at # "closed" /\ r.has_avx512 => supportsAvx512[r.machine],
         r.at # "closed" /\ r.save => asked',
         asked => asked', asked' \in BOOLEAN, key' = key, keys' = keys, last' = last,
         alone' = alone \/ alone' = alone \ {w}
  PROVE  OptionsInv'
<1> USE DEF OptionsInv
<1>1. Becomes(w, r)
  BY WindowChanges
<1>2. TypesInv'
  BY <1>1 DEF TypesInv, Becomes, Has
<1>3. StartsInv' /\ Options!AvxIsSupported'
  BY <1>1, WindowKept
<1>4. AskedInv'
  BY <1>1, AskedKept DEF AskedInv, Options!KeptOnlyIfAsked
<1>5. KeptInv'
  BY <1>1, LastKept
<1> QED BY <1>2, <1>3, <1>4, <1>5

\* What a window loads.
LEMMA ConfiguredIs ==
  ASSUME Options!SettingsConstants, TypesInv, NEW r \in OpenWindows
  PROVE  /\ Options!Configured(r) \in OpenWindows
         /\ Options!Configured(r).at = "open" /\ Options!Configured(r).machine = r.machine
         /\ key = Options!NoKey => /\ Options!Configured(r).has_avx512 = r.has_avx512
                                   /\ Options!Configured(r).placement = r.placement
                                   /\ Options!Configured(r).save = r.save
         /\ key # Options!NoKey =>
              Options!Configured(r).placement = Options!Saved("WindowDimensions", NoPlacement)
         /\ key # Options!NoKey =>
              (Options!Configured(r).has_avx512 <=> r.has_avx512 /\ Options!Saved("UseAvx", TRUE))
<1>1. CASE key = Options!NoKey
  BY <1>1 DEF Options!Configured, OpenWindows
<1>2. CASE key # Options!NoKey
  <2> PICK p : p = Options!Saved("WindowDimensions", NoPlacement)
    OBVIOUS
  <2> PICK a : a = (r.has_avx512 /\ Options!Saved("UseAvx", TRUE))
    OBVIOUS
  <2>1. p \in Placements
    BY <1>2 DEF Options!Saved, TypesInv, Has, Options!SettingsConstants
  <2>2. a \in BOOLEAN
    OBVIOUS
  <2>3. Options!Configured(r) = [r EXCEPT !.at = "open", !.save = TRUE, !.placement = p, !.has_avx512 = a]
    BY <1>2 DEF Options!Configured
  <2>4. /\ Options!Configured(r) \in OpenWindows /\ Options!Configured(r).at = "open"
        /\ Options!Configured(r).machine = r.machine
        /\ Options!Configured(r).placement = p /\ Options!Configured(r).has_avx512 = a
    BY <2>1, <2>2, <2>3 DEF OpenWindows
  <2> QED BY <1>2, <2>4
<1> QED BY <1>1, <1>2

LEMMA LoadKeeps ==
  ASSUME Options!SettingsConstants, OptionsInv, NEW w \in Windows,
         Options!loadConfigurationFromRegistry(w)
  PROVE  OptionsInv'
<1> PICK r : r = Options!Configured(window[w])
  OBVIOUS
<1>1. Options!Is(w, "starting") /\ ~Options!Is(w, "closed") /\ ~Options!Saving(w)
    /\ window' = [window EXCEPT ![w] = r]
  BY DEF Options!loadConfigurationFromRegistry, Options!Is, Options!Saving
<1>2. TypesInv /\ window[w] \in OpenWindows
  BY <1>1, OpenWindow DEF OptionsInv
<1>3. /\ r \in OpenWindows /\ r.at = "open" /\ r.machine = window[w].machine
      /\ key = Options!NoKey => r.has_avx512 = window[w].has_avx512 /\ r.save = window[w].save
      /\ key # Options!NoKey =>
           (r.has_avx512 <=> window[w].has_avx512 /\ Options!Saved("UseAvx", TRUE))
  BY <1>2, ConfiguredIs
<1>4. r.has_avx512 => supportsAvx512[r.machine]
  BY <1>1, <1>3 DEF OptionsInv, Options!AvxIsSupported
<1>5. asked' = asked /\ key' = key /\ keys' = keys /\ last' = last /\ alone' = alone
  BY DEF Options!loadConfigurationFromRegistry
<1>6. r.save => asked
  BY <1>1, <1>3 DEF OptionsInv, AskedInv, Options!KeptOnlyIfAsked
<1>7. r \in WindowStates /\ asked' \in BOOLEAN
  BY <1>2, <1>3, <1>5, OpenIsOpen DEF TypesInv
<1> QED BY <1>1, <1>3, <1>4, <1>5, <1>6, <1>7, StepOfOpen

LEMMA AvxKeeps ==
  ASSUME Options!SettingsConstants, OptionsInv, NEW w \in Windows, Options!setOptionUseAvx512(w)
  PROVE  OptionsInv'
<1> PICK a : a = ~window[w].has_avx512
  OBVIOUS
<1> PICK r : r = [window[w] EXCEPT !.has_avx512 = a]
  OBVIOUS
<1>1. Options!Is(w, "open") /\ ~Options!Is(w, "closed") /\ ~Options!Saving(w)
    /\ supportsAvx512[window[w].machine]
  BY DEF Options!setOptionUseAvx512, Options!Is, Options!Saving
<1>2. TypesInv /\ window[w] \in OpenWindows
  BY <1>1, OpenWindow DEF OptionsInv
<1>3. window' = [window EXCEPT ![w] = r]
  BY <1>2 DEF Options!setOptionUseAvx512, TypesInv, OpenWindows
<1>4. a \in BOOLEAN
  OBVIOUS
<1>5. /\ r \in OpenWindows /\ r.at = "open" /\ r.machine = window[w].machine
      /\ r.save = window[w].save
  BY <1>1, <1>2, <1>4 DEF OpenWindows, Options!Is
<1>6. asked' = asked /\ key' = key /\ keys' = keys /\ last' = last /\ alone' = alone
  BY DEF Options!setOptionUseAvx512
<1>7. r.save => asked
  BY <1>1, <1>5 DEF OptionsInv, AskedInv
<1>8. r \in WindowStates /\ asked' \in BOOLEAN
  BY <1>2, <1>5, <1>6, OpenIsOpen DEF TypesInv
<1> QED BY <1>1, <1>3, <1>5, <1>6, <1>7, <1>8, StepOfOpen

LEMMA PlaceKeeps ==
  ASSUME Options!SettingsConstants, OptionsInv, NEW w \in Windows, Options!Place(w)
  PROVE  OptionsInv'
<1> PICK p \in Placements : window' = [window EXCEPT ![w].placement = p]
  BY DEF Options!Place
<1> PICK r : r = [window[w] EXCEPT !.placement = p]
  OBVIOUS
<1>1. Options!Is(w, "open") /\ ~Options!Is(w, "closed") /\ ~Options!Saving(w)
    /\ window' = [window EXCEPT ![w] = r]
  BY DEF Options!Place, Options!Is, Options!Saving
<1>2. TypesInv /\ window[w] \in OpenWindows
  BY <1>1, OpenWindow DEF OptionsInv
<1>3. /\ r \in OpenWindows /\ r.at = "open" /\ r.machine = window[w].machine
      /\ r.save = window[w].save /\ r.has_avx512 = window[w].has_avx512
  BY <1>1, <1>2 DEF OpenWindows, Options!Is
<1>4. asked' = asked /\ key' = key /\ keys' = keys /\ last' = last /\ alone' = alone
  BY DEF Options!Place
<1>5. (r.save => asked) /\ (r.has_avx512 => supportsAvx512[r.machine])
  BY <1>1, <1>3 DEF OptionsInv, AskedInv, Options!AvxIsSupported
<1>6. r \in WindowStates /\ asked' \in BOOLEAN
  BY <1>2, <1>3, <1>4, OpenIsOpen DEF TypesInv
<1> QED BY <1>1, <1>3, <1>4, <1>5, <1>6, StepOfOpen

LEMMA SaveOnKeeps ==
  ASSUME Options!SettingsConstants, OptionsInv, NEW w \in Windows, Options!SaveOn(w)
  PROVE  OptionsInv'
<1> PICK r : r = [window[w] EXCEPT !.save = TRUE]
  OBVIOUS
<1>1. Options!Is(w, "open") /\ ~Options!Is(w, "closed") /\ ~Options!Saving(w)
    /\ window' = [window EXCEPT ![w] = r]
  BY DEF Options!SaveOn, Options!Is, Options!Saving
<1>2. TypesInv /\ window[w] \in OpenWindows
  BY <1>1, OpenWindow DEF OptionsInv
<1>3. /\ r \in OpenWindows /\ r.at = "open" /\ r.machine = window[w].machine
      /\ r.has_avx512 = window[w].has_avx512
  BY <1>1, <1>2 DEF OpenWindows, Options!Is
<1>4. asked' = TRUE /\ key' = key /\ keys' = keys /\ last' = last /\ alone' = alone
  BY DEF Options!SaveOn
<1>5. r.has_avx512 => supportsAvx512[r.machine]
  BY <1>1, <1>3 DEF OptionsInv, Options!AvxIsSupported
<1>6. r \in WindowStates /\ asked' \in BOOLEAN
  BY <1>3, <1>4, OpenIsOpen
<1> QED BY <1>1, <1>3, <1>4, <1>5, <1>6, StepOfOpen

LEMMA SaveOffKeeps ==
  ASSUME Options!SettingsConstants, OptionsInv, NEW w \in Windows, NEW remove \in BOOLEAN,
         Options!SaveOff(w, remove)
  PROVE  OptionsInv'
<1> PICK r : r = [window[w] EXCEPT !.save = FALSE]
  OBVIOUS
<1>1. Options!Is(w, "open") /\ ~Options!Is(w, "closed") /\ ~Options!Saving(w)
    /\ window' = [window EXCEPT ![w] = r]
  BY DEF Options!SaveOff, Options!Is, Options!Saving
<1>2. TypesInv /\ window[w] \in OpenWindows
  BY <1>1, OpenWindow DEF OptionsInv
<1>3. /\ r \in OpenWindows /\ r.at = "open" /\ r.machine = window[w].machine
      /\ r.has_avx512 = window[w].has_avx512 /\ r.save = FALSE
  BY <1>1, <1>2 DEF OpenWindows, Options!Is
<1>4. r.has_avx512 => supportsAvx512[r.machine]
  BY <1>1, <1>3 DEF OptionsInv, Options!AvxIsSupported
<1>5. r \in WindowStates
  BY <1>3, OpenIsOpen
<1>6. CASE ~remove
  <2>1. asked' = asked /\ key' = key /\ keys' = keys /\ last' = last /\ asked' \in BOOLEAN
        /\ alone' = alone
    BY <1>2, <1>6 DEF Options!SaveOff, TypesInv
  <2> QED BY <1>1, <1>3, <1>4, <1>5, <2>1, StepOfOpen
<1>7. CASE remove
  <2>1. /\ key' = Options!NoKey /\ last' = {Options!Defaults} /\ alone' = {} /\ keys' = keys
        /\ asked' = \E v \in Windows \ {w} : ~Options!Is(v, "closed") /\ window[v].save
    BY <1>7 DEF Options!SaveOff
  <2>2. Becomes(w, r)
    BY <1>1, <1>2, <1>5, WindowChanges
  <2>3. TypesInv'
    BY <1>2, <2>1, <2>2 DEF TypesInv, Becomes, Has
  <2>4. StartsInv' /\ Options!AvxIsSupported'
    BY <1>2, <1>3, <1>4, <2>2, WindowKept DEF OptionsInv
  <2>5. AskedInv'
    <3>1. ASSUME NEW v \in Windows, ~Options!Is(v, "closed")', window'[v].save PROVE asked'
      <4>1. v # w
        BY <1>3, <2>2, <3>1 DEF Becomes
      <4> QED BY <2>1, <2>2, <3>1, <4>1, OthersStay DEF Becomes
    <3> QED BY <2>1, <3>1 DEF AskedInv, Options!KeptOnlyIfAsked
  <2>6. LastInv'
    <3>1. /\ Options!Saved("WindowDimensions", NoPlacement)' = Options!Defaults.placement
          /\ Options!Saved("UseAvx", TRUE)' = Options!Defaults.has_avx512
      BY <2>1, NothingSaved DEF Options!NoKey, Options!Saved, Options!Defaults
    <3> QED BY <2>1, <3>1 DEF LastInv
  <2>7. SavingInv' /\ AloneInv'
    <3>1. ASSUME NEW v \in Windows, Options!Saving(v)' PROVE window'[v].reg_key <= keys'
      <4>1. v # w /\ window'[v] = window[v] /\ Options!Saving(v)
        BY <1>3, <2>2, <3>1 DEF Becomes, Options!Saving
      <4> QED BY <2>1, <4>1 DEF OptionsInv, KeptInv, SavingInv
    <3> QED BY <2>1, <3>1 DEF SavingInv, AloneInv
  <2> QED BY <2>3, <2>4, <2>5, <2>6, <2>7 DEF OptionsInv, KeptInv
<1> QED BY <1>6, <1>7

LEMMA CrashKeeps ==
  ASSUME Options!SettingsConstants, OptionsInv, NEW w \in Windows, Options!Crash(w)
  PROVE  OptionsInv'
<1>1. /\ ~Options!Is(w, "closed") /\ window' = [window EXCEPT ![w] = Options!Closed]
      /\ key' = key /\ keys' = keys /\ asked' = asked /\ last' = last /\ alone' = alone \ {w}
  BY DEF Options!Crash
<1>2. TypesInv /\ Options!Closed \in WindowStates /\ Options!Closed.at = "closed"
  BY DEF OptionsInv, WindowStates, Options!Closed
<1>3. asked' \in BOOLEAN
  BY <1>1, <1>2 DEF TypesInv
<1> QED BY <1>1, <1>2, <1>3, StepOfOpen

LEMMA DestroyKeeps ==
  ASSUME Options!SettingsConstants, OptionsInv, NEW w \in Windows, Options!Destroy(w)
  PROVE  OptionsInv'
<1>1. Options!Is(w, "open") /\ ~Options!Is(w, "closed") /\ ~Options!Saving(w) /\ asked' = asked
  BY DEF Options!Destroy, Options!Is, Options!Saving
<1>2. TypesInv /\ window[w] \in OpenWindows
  BY <1>1, OpenWindow DEF OptionsInv
<1>3. CASE ~window[w].save
  <2>1. window' = [window EXCEPT ![w] = Options!Closed] /\ key' = key /\ keys' = keys
      /\ last' = last /\ alone' = alone
    BY <1>3 DEF Options!Destroy
  <2>2. Options!Closed \in WindowStates /\ Options!Closed.at = "closed" /\ asked' \in BOOLEAN
    BY <1>1, <1>2 DEF WindowStates, Options!Closed, TypesInv
  <2> QED BY <1>1, <2>1, <2>2, StepOfOpen
<1>4. CASE window[w].save
  <2> PICK n : n = key'.no
    OBVIOUS
  <2> PICK r : r = [window[w] EXCEPT !.at = "placement", !.reg_key = n]
    OBVIOUS
  <2>1. /\ \/ key # Options!NoKey /\ key' = key /\ keys' = keys
           \/ /\ key = Options!NoKey /\ keys < MaxKeys
              /\ keys' = keys + 1 /\ key' = [no |-> keys', values |-> <<>>]
        /\ window' = [window EXCEPT ![w] = r]
        /\ last' = last \cup {Options!Options(w)}
        /\ alone' = IF \E v \in Windows \ {w} : Options!Saving(v) THEN {} ELSE {w}
    BY <1>4 DEF Options!Destroy, Options!SaveBegins
  <2>2. key' \in Keys /\ key' # Options!NoKey /\ key'.no = keys' /\ keys' \in 0 .. MaxKeys
      /\ n \in Nat
    <3>1. CASE key # Options!NoKey /\ key' = key /\ keys' = keys
      BY <1>2, <3>1 DEF TypesInv, Keys, Options!SettingsConstants
    <3>2. CASE /\ key = Options!NoKey /\ keys < MaxKeys
               /\ keys' = keys + 1 /\ key' = [no |-> keys', values |-> <<>>]
      <4>1. keys' \in 0 .. MaxKeys /\ keys' \in Nat \ {0}
        BY <1>2, <3>2 DEF TypesInv, Options!SettingsConstants
      <4>2. <<>> \in [{} -> Placements \cup BOOLEAN]
        OBVIOUS
      <4>3. <<>> \in UNION {[S -> Placements \cup BOOLEAN] : S \in SUBSET Options!Values}
        BY <4>2
      <4>4. key' \in Keys /\ key'.no = keys'
        BY <3>2, <4>1, <4>3 DEF Keys
      <4> QED BY <4>1, <4>4, NoKeyIsNone
    <3> QED BY <2>1, <3>1, <3>2
  <2>3. /\ r \in OpenWindows /\ r.at = "placement" /\ r.machine = window[w].machine
        /\ r.save = window[w].save /\ r.has_avx512 = window[w].has_avx512
        /\ r.placement = window[w].placement /\ r.reg_key = n
    BY <1>2, <2>2 DEF OpenWindows
  <2>4. Becomes(w, r)
    BY <1>2, <2>1, <2>3, OpenIsOpen, WindowChanges
  <2>5. asked' \in BOOLEAN
    BY <1>1, <1>2 DEF TypesInv
  <2>6. \/ key' = key
        \/ \A name \in Options!Values : name \notin DOMAIN key'.values
    BY <2>1
  <2>7. TypesInv'
    <3>1. window' \in [Windows -> WindowStates]
      BY <2>4 DEF Becomes
    <3>2. /\ Has("WindowDimensions")' => key'.values["WindowDimensions"] \in Placements
          /\ Has("UseAvx")' => key'.values["UseAvx"] \in BOOLEAN
      BY <1>2, <2>1, <2>6 DEF TypesInv, Has, Options!Values
    <3> QED BY <2>2, <2>5, <3>1, <3>2 DEF TypesInv
  <2>8. r.has_avx512 => supportsAvx512[r.machine]
    BY <1>1, <2>3 DEF OptionsInv, Options!AvxIsSupported
  <2>9. StartsInv' /\ Options!AvxIsSupported'
    BY <1>2, <2>3, <2>4, <2>8, WindowKept DEF OptionsInv
  <2>10. asked
    BY <1>1, <1>4 DEF OptionsInv, AskedInv
  <2>11. AskedInv'
    BY <1>1, <2>4, <2>10, AskedKept DEF OptionsInv
  <2>12. LastInv'
    <3>1. /\ Options!Saved("WindowDimensions", NoPlacement)' = Options!Saved("WindowDimensions", NoPlacement)
          /\ Options!Saved("UseAvx", TRUE)' = Options!Saved("UseAvx", TRUE)
      BY <2>1, NothingSaved DEF Options!Saved, Options!NoKey
    <3> QED BY <2>1, <3>1 DEF OptionsInv, KeptInv, LastInv
  <2>13. ASSUME NEW v \in Windows, v # w
         PROVE  /\ window'[v] = window[v] /\ Options!Options(v)' = Options!Options(v)
                /\ Options!Saving(v)' <=> Options!Saving(v)
    BY <2>4, <2>13 DEF Becomes, Options!Options, Options!Saving
  <2>14. Options!Options(w)' = Options!Options(w) /\ window'[w].reg_key = keys'
    BY <2>2, <2>3, <2>4 DEF Becomes, Options!Options
  <2>15. SavingInv'
    <3>1. ASSUME NEW v \in Windows, Options!Saving(v)'
          PROVE  /\ window'[v].reg_key <= keys'
                 /\ key'.no = window'[v].reg_key => Options!Options(v)' \in last'
      <4>1. CASE v = w
        BY <2>1, <2>2, <2>14, <4>1
      <4>2. CASE v # w
        <5>1. Options!Saving(v) /\ window'[v].reg_key = window[v].reg_key /\ window[v].reg_key <= keys
          BY <2>13, <3>1, <4>2 DEF OptionsInv, KeptInv, SavingInv
        <5>2. window[v].reg_key \in Nat /\ keys \in Nat
          <6>1. window[v].at # "closed"
            BY <5>1 DEF Options!Saving
          <6>2. window[v] \in OpenWindows
            BY <1>2, <6>1, OpenWindow DEF Options!Is
          <6> QED BY <1>2, <6>2 DEF OpenWindows, TypesInv, Options!SettingsConstants
        <5>3. CASE key # Options!NoKey /\ key' = key /\ keys' = keys
          BY <2>1, <2>13, <4>2, <5>1, <5>3 DEF OptionsInv, KeptInv, SavingInv
        <5>4. CASE keys' = keys + 1
          BY <2>2, <5>1, <5>2, <5>4
        <5> QED BY <2>1, <5>3, <5>4
      <4> QED BY <4>1, <4>2
    <3> QED BY <3>1 DEF SavingInv
  <2>16. AloneInv'
    <3> SUFFICES ASSUME alone' # {} PROVE AloneInv'
      BY DEF AloneInv
    <3>1. alone' = {w} /\ \A v \in Windows \ {w} : ~Options!Saving(v)
      BY <2>1
    <3>2. Options!Saving(w)' /\ ~Options!Is(w, "avx")'
      BY <2>3, <2>4 DEF Options!Saving, Options!Is, Becomes
    <3> QED BY <2>2, <2>13, <2>14, <3>1, <3>2 DEF AloneInv
  <2> QED BY <2>7, <2>9, <2>11, <2>12, <2>15, <2>16 DEF OptionsInv, KeptInv
<1> QED BY <1>3, <1>4

LEMMA SetsValue ==
  ASSUME Options!SettingsConstants, TypesInv, NEW w \in Windows, NEW name \in Options!Values,
         NEW v \in Placements \cup BOOLEAN, Options!Sets(w, name, v)
  PROVE  /\ key = Options!NoKey => key' = Options!NoKey
         /\ key # Options!NoKey =>
              /\ key' \in Keys /\ key' # Options!NoKey /\ key'.no = key.no
              /\ \A m \in Options!Values \ {name} :
                   (Has(m)' <=> Has(m)) /\ (Has(m) => key'.values[m] = key.values[m])
              /\ (key'.values[name] = v /\ Has(name)') \/ key' = key
              /\ key.no = window[w].reg_key => key'.values[name] = v /\ Has(name)'
<1>1. CASE key # Options!NoKey /\ key.no = window[w].reg_key
  <2>1. key \in Keys
    BY <1>1 DEF TypesInv
  <2>2. PICK S \in SUBSET Options!Values : key.values \in [S -> Placements \cup BOOLEAN]
    BY <2>1 DEF Keys
  <2> PICK f : f = Options!WithValue(key.values, name, v)
    OBVIOUS
  <2>3. /\ f \in [S \cup {name} -> Placements \cup BOOLEAN] /\ DOMAIN f = S \cup {name}
        /\ f[name] = v /\ \A m \in S : m # name => f[m] = key.values[m]
    <3> PICK g \in [S -> Placements \cup BOOLEAN] : g = key.values
      BY <2>2
    <3>1. f = Options!WithValue(g, name, v)
      OBVIOUS
    <3>2. /\ Options!WithValue(g, name, v) \in [S \cup {name} -> Placements \cup BOOLEAN]
          /\ DOMAIN Options!WithValue(g, name, v) = S \cup {name}
               /\ Options!WithValue(g, name, v)[name] = v
          /\ \A m \in S : m # name => Options!WithValue(g, name, v)[m] = g[m]
      BY DEF Options!WithValue
    <3> QED BY <3>1, <3>2
  <2>4. key' = [key EXCEPT !.values = f]
    BY <1>1, <2>1 DEF Options!Sets, Keys
  <2>5. f \in UNION {[T -> Placements \cup BOOLEAN] : T \in SUBSET Options!Values}
    BY <2>3
  <2>6. key' \in Keys /\ key'.no = key.no /\ key'.values = f
    BY <2>1, <2>4, <2>5 DEF Keys
  <2>7. DOMAIN key.values = S
    BY <2>2
  <2>8. key' # Options!NoKey
    BY <2>6, NoKeyIsNone
  <2> QED BY <1>1, <2>3, <2>6, <2>7, <2>8 DEF Has
<1>2. CASE ~(key # Options!NoKey /\ key.no = window[w].reg_key)
  <2>1. key' = key
    BY <1>2 DEF Options!Sets
  <2> QED BY <1>2, <2>1 DEF TypesInv, Has
<1> QED BY <1>1, <1>2

\* What a window finds of it then.
LEMMA SetsSaved ==
  ASSUME Options!SettingsConstants, TypesInv, NEW w \in Windows, NEW name \in Options!Values,
         NEW v \in Placements \cup BOOLEAN, Options!Sets(w, name, v)
  PROVE  /\ \A m \in Options!Values \ {name} : \A d : Options!Saved(m, d)' = Options!Saved(m, d)
         /\ \A d : \/ Options!Saved(name, d)' = Options!Saved(name, d)
                  \/ /\ Options!Saved(name, d)' = v
                     /\ key # Options!NoKey /\ key.no = window[w].reg_key
<1>1. CASE key # Options!NoKey /\ key.no = window[w].reg_key
  BY <1>1, SetsValue DEF Options!Saved, Has
<1>2. CASE ~(key # Options!NoKey /\ key.no = window[w].reg_key)
  <2>1. key' = key
    BY <1>2 DEF Options!Sets
  <2> QED BY <2>1 DEF Options!Saved
<1> QED BY <1>1, <1>2

\* The types after a value was set, whatever becomes of the window.
LEMMA SetsTypes ==
  ASSUME Options!SettingsConstants, TypesInv, NEW w \in Windows, NEW r \in WindowStates,
         Becomes(w, r),
         \/ Options!Sets(w, "WindowDimensions", window[w].placement)
         \/ Options!Sets(w, "UseAvx", window[w].has_avx512),
         ~Options!Is(w, "closed"), keys' = keys, asked' = asked
  PROVE  TypesInv'
<1>1. window[w] \in OpenWindows
  BY OpenWindow
<1>2. window[w].placement \in Placements /\ window[w].has_avx512 \in BOOLEAN
  BY <1>1, OpenIsOpen
<1>3. /\ (key' = Options!NoKey \/ key' \in Keys) /\ (key' # Options!NoKey => key'.no = keys)
      /\ key' # Options!NoKey /\ Has("WindowDimensions")' =>
           key'.values["WindowDimensions"] \in Placements
      /\ key' # Options!NoKey /\ Has("UseAvx")' => key'.values["UseAvx"] \in BOOLEAN
  <2>1. CASE Options!Sets(w, "WindowDimensions", window[w].placement)
    BY <1>2, <2>1, SetsValue DEF TypesInv, Options!Values, Has
  <2>2. CASE Options!Sets(w, "UseAvx", window[w].has_avx512)
    BY <1>2, <2>2, SetsValue DEF TypesInv, Options!Values, Has
  <2> QED BY <2>1, <2>2
<1> QED BY <1>3 DEF TypesInv, Becomes

LEMMA SavePlacementKeeps ==
  ASSUME Options!SettingsConstants, OptionsInv, NEW w \in Windows, Options!SavePlacement(w)
  PROVE  OptionsInv'
<1> PICK r : r = [window[w] EXCEPT !.at = "avx"]
  OBVIOUS
<1>1. /\ Options!Is(w, "placement") /\ ~Options!Is(w, "closed") /\ Options!Saving(w)
           /\ window' = [window EXCEPT ![w] = r]
      /\ keys' = keys /\ asked' = asked /\ last' = last /\ alone' = alone
      /\ Options!Sets(w, "WindowDimensions", window[w].placement)
  BY DEF Options!SavePlacement, Options!Is, Options!Saving
<1>2. TypesInv /\ window[w] \in OpenWindows
  BY <1>1, OpenWindow DEF OptionsInv
<1>3. /\ r \in OpenWindows /\ r.at = "avx" /\ r.machine = window[w].machine
      /\ r.save = window[w].save /\ r.has_avx512 = window[w].has_avx512
      /\ r.placement = window[w].placement /\ r.reg_key = window[w].reg_key
  BY <1>2 DEF OpenWindows
<1>4. Becomes(w, r) /\ r \in WindowStates
  BY <1>1, <1>2, <1>3, OpenIsOpen, WindowChanges
<1>5. TypesInv'
  BY <1>1, <1>2, <1>4, SetsTypes
<1>6. r.has_avx512 => supportsAvx512[r.machine]
  BY <1>1, <1>3 DEF OptionsInv, Options!AvxIsSupported
<1>7. StartsInv' /\ Options!AvxIsSupported'
  BY <1>2, <1>3, <1>4, <1>6, WindowKept DEF OptionsInv
<1>8. /\ key = Options!NoKey => key' = Options!NoKey
      /\ key # Options!NoKey => key' # Options!NoKey /\ key'.no = key.no
      /\ key # Options!NoKey /\ key.no = window[w].reg_key =>
           key'.values["WindowDimensions"] = window[w].placement /\ Has("WindowDimensions")'
  <2>1. window[w].placement \in Placements \cup BOOLEAN /\ "WindowDimensions" \in Options!Values
    BY <1>2, OpenIsOpen DEF Options!Values
  <2> QED BY <1>1, <1>2, <2>1, SetsValue
<1>9. AskedInv'
  <2>1. key' # Options!NoKey => asked'
    BY <1>1, <1>8 DEF OptionsInv, AskedInv, Options!KeptOnlyIfAsked
  <2>2. r.save => asked'
    BY <1>1, <1>3 DEF OptionsInv, AskedInv
  <2> QED BY <1>1, <1>4, <2>1, <2>2, AskedKept DEF OptionsInv
<1>10. LastInv'
  <2>1. window[w].placement \in Placements \cup BOOLEAN /\ "WindowDimensions" \in Options!Values
        /\ "UseAvx" \in Options!Values \ {"WindowDimensions"}
    BY <1>2, OpenIsOpen DEF Options!Values
  <2>2. Options!Saved("UseAvx", TRUE)' = Options!Saved("UseAvx", TRUE)
    BY <1>1, <1>2, <2>1, SetsSaved
  <2>3. \/ /\ Options!Saved("WindowDimensions", NoPlacement)' = window[w].placement
           /\ key # Options!NoKey /\ key.no = window[w].reg_key
        \/ Options!Saved("WindowDimensions", NoPlacement)'
             = Options!Saved("WindowDimensions", NoPlacement)
    BY <1>1, <1>2, <2>1, SetsSaved
  <2>4. key # Options!NoKey /\ key.no = window[w].reg_key =>
          \E l \in last : l.placement = window[w].placement
    BY <1>1 DEF OptionsInv, KeptInv, SavingInv, Options!Options
  <2> QED BY <1>1, <2>2, <2>3, <2>4 DEF OptionsInv, KeptInv, LastInv
<1>11. ASSUME NEW v \in Windows
       PROVE  /\ Options!Saving(v)' <=> Options!Saving(v)
              /\ window'[v].reg_key = window[v].reg_key /\ Options!Options(v)' = Options!Options(v)
              /\ window'[v].placement = window[v].placement
  BY <1>1, <1>3, <1>4, <1>11 DEF Becomes, Options!Options, Options!Saving
<1>12. SavingInv'
  <2>1. ASSUME NEW v \in Windows, Options!Saving(v)'
        PROVE  /\ window'[v].reg_key <= keys'
               /\ key' # Options!NoKey /\ key'.no = window'[v].reg_key =>
                    Options!Options(v)' \in last'
    BY <1>1, <1>8, <1>11, <2>1 DEF OptionsInv, KeptInv, SavingInv
  <2> QED BY <2>1 DEF SavingInv
<1>13. AloneInv'
  <2>1. ASSUME NEW v \in alone'
        PROVE  /\ v \in Windows /\ Options!Saving(v)'
               /\ \A u \in Windows \ {v} : ~Options!Saving(u)'
               /\ key' # Options!NoKey /\ key'.no = window'[v].reg_key
               /\ Has("WindowDimensions")' /\ key'.values["WindowDimensions"] = window'[v].placement
    <3>1. v \in alone /\ v = w
      BY <1>1, <2>1 DEF OptionsInv, KeptInv, AloneInv
    <3> QED BY <1>8, <1>11, <3>1 DEF OptionsInv, KeptInv, AloneInv
  <2> QED BY <2>1 DEF AloneInv
<1> QED BY <1>5, <1>7, <1>9, <1>10, <1>12, <1>13 DEF OptionsInv, KeptInv

LEMMA SaveAvxKeeps ==
  ASSUME Options!SettingsConstants, OptionsInv, NEW w \in Windows, Options!SaveAvx(w)
  PROVE  OptionsInv'
<1>1. /\ Options!Is(w, "avx") /\ ~Options!Is(w, "closed") /\ Options!Saving(w)
           /\ window' = [window EXCEPT ![w] = Options!Closed]
      /\ keys' = keys /\ asked' = asked /\ alone' = alone \ {w}
      /\ last' = IF w \in alone THEN {Options!Options(w)} ELSE last
      /\ Options!Sets(w, "UseAvx", window[w].has_avx512)
  BY DEF Options!SaveAvx, Options!SaveEnds, Options!Is, Options!Saving
<1>2. TypesInv /\ window[w] \in OpenWindows /\ Options!Closed \in WindowStates
    /\ Options!Closed.at = "closed"
  BY <1>1, OpenWindow DEF OptionsInv, WindowStates, Options!Closed
<1>4. Becomes(w, Options!Closed)
  BY <1>1, <1>2, WindowChanges
<1>5. TypesInv'
  BY <1>1, <1>2, <1>4, SetsTypes
<1>7. StartsInv' /\ Options!AvxIsSupported'
  BY <1>2, <1>4, WindowKept DEF OptionsInv
<1>8. /\ key = Options!NoKey => key' = Options!NoKey
      /\ key # Options!NoKey =>
           /\ key' # Options!NoKey /\ key'.no = key.no
           /\ Has("WindowDimensions")' <=> Has("WindowDimensions")
           /\ Has("WindowDimensions") =>
                key'.values["WindowDimensions"] = key.values["WindowDimensions"]
      /\ key # Options!NoKey /\ key.no = window[w].reg_key =>
           key'.values["UseAvx"] = window[w].has_avx512 /\ Has("UseAvx")'
  <2>1. /\ window[w].has_avx512 \in Placements \cup BOOLEAN
        /\ "UseAvx" \in Options!Values /\ "WindowDimensions" \in Options!Values \ {"UseAvx"}
    BY <1>2, OpenIsOpen DEF Options!Values
  <2> QED BY <1>1, <1>2, <2>1, SetsValue
<1>9. AskedInv'
  <2>1. key' # Options!NoKey => asked'
    BY <1>1, <1>8 DEF OptionsInv, AskedInv, Options!KeptOnlyIfAsked
  <2> QED BY <1>1, <1>2, <1>4, <2>1, AskedKept DEF OptionsInv
<1>10. ASSUME NEW v \in Windows, Options!Saving(v)'
       PROVE  /\ v # w /\ Options!Saving(v) /\ Options!Options(v)' = Options!Options(v)
              /\ window'[v].reg_key = window[v].reg_key
  <2>1. v # w
    BY <1>2, <1>4, <1>10 DEF Becomes, Options!Saving
  <2> QED BY <1>4, <1>10, <2>1 DEF Becomes, Options!Saving, Options!Options
<1>11. CASE w \in alone
  <2>1. /\ key # Options!NoKey /\ key.no = window[w].reg_key /\ \A v \in Windows \ {w} : ~Options!Saving(v)
        /\ Has("WindowDimensions") /\ key.values["WindowDimensions"] = window[w].placement
        /\ alone \subseteq {w}
    BY <1>1, <1>11 DEF OptionsInv, KeptInv, AloneInv
  <2>2. LastInv'
    <3>1. /\ Options!Saved("WindowDimensions", NoPlacement)' = window[w].placement
          /\ Options!Saved("UseAvx", TRUE)' = window[w].has_avx512
      BY <1>8, <2>1 DEF Options!Saved, Has
    <3> QED BY <1>1, <1>11, <3>1 DEF LastInv, Options!Options
  <2>3. SavingInv' /\ AloneInv'
    BY <1>1, <1>10, <2>1 DEF SavingInv, AloneInv
  <2> QED BY <1>5, <1>7, <1>9, <2>2, <2>3 DEF OptionsInv, KeptInv
<1>12. CASE w \notin alone
  <2>1. LastInv'
    <3>1. /\ window[w].has_avx512 \in Placements \cup BOOLEAN /\ "UseAvx" \in Options!Values
          /\ "WindowDimensions" \in Options!Values \ {"UseAvx"}
      BY <1>2, OpenIsOpen DEF Options!Values
    <3>2. Options!Saved("WindowDimensions", NoPlacement)'
            = Options!Saved("WindowDimensions", NoPlacement)
      BY <1>1, <1>2, <3>1, SetsSaved
    <3>3. \/ /\ Options!Saved("UseAvx", TRUE)' = window[w].has_avx512
             /\ key # Options!NoKey /\ key.no = window[w].reg_key
          \/ Options!Saved("UseAvx", TRUE)' = Options!Saved("UseAvx", TRUE)
      BY <1>1, <1>2, <3>1, SetsSaved
    <3>4. key # Options!NoKey /\ key.no = window[w].reg_key =>
            \E l \in last : l.has_avx512 = window[w].has_avx512
      BY <1>1 DEF OptionsInv, KeptInv, SavingInv, Options!Options
    <3> QED BY <1>1, <1>12, <3>2, <3>3, <3>4 DEF OptionsInv, KeptInv, LastInv
  <2>2. SavingInv'
    <3>1. ASSUME NEW v \in Windows, Options!Saving(v)'
          PROVE  /\ window'[v].reg_key <= keys'
                 /\ key' # Options!NoKey /\ key'.no = window'[v].reg_key =>
                      Options!Options(v)' \in last'
      <4>1. key' # Options!NoKey => key # Options!NoKey /\ key'.no = key.no
        BY <1>8
      <4> QED BY <1>1, <1>10, <1>12, <3>1, <4>1 DEF OptionsInv, KeptInv, SavingInv
    <3> QED BY <3>1 DEF SavingInv
  <2>3. alone' = {}
    BY <1>1 DEF OptionsInv, KeptInv, AloneInv
  <2> QED BY <1>5, <1>7, <1>9, <2>1, <2>2, <2>3 DEF OptionsInv, KeptInv, AloneInv
<1> QED BY <1>11, <1>12

LEMMA OptionsStep == ASSUME Options!SettingsConstants, OptionsInv, [Options!Next]_(Options!vars)
    PROVE OptionsInv'
<1>1. CASE UNCHANGED Options!vars
  BY <1>1 DEF Options!vars, OptionsInv, TypesInv, StartsInv, Options!AvxIsSupported, AskedInv,
              Options!KeptOnlyIfAsked,
              KeptInv, LastInv, SavingInv, AloneInv, Has, Options!Is, Options!Saving,
              Options!Options, Options!Saved
<1>2. CASE Options!Next
  <2>1. PICK w \in Windows :
          \/ Options!createMainWindow(w) \/ Options!loadConfigurationFromRegistry(w)
          \/ Options!setOptionUseAvx512(w) \/ Options!Place(w) \/ Options!SaveOn(w)
               \/ Options!SaveOff(w, TRUE) \/ Options!SaveOff(w, FALSE)
          \/ Options!Destroy(w) \/ Options!SavePlacement(w) \/ Options!SaveAvx(w)
               \/ Options!Crash(w)
    BY <1>2 DEF Options!Next
  <2> QED BY <2>1, CreateKeeps, LoadKeeps, AvxKeeps, PlaceKeeps, SaveOnKeeps, SaveOffKeeps,
             DestroyKeeps, SavePlacementKeeps, SaveAvxKeeps, CrashKeeps
<1> QED BY <1>1, <1>2

\* No other step starts a window.
LEMMA OnlyLoadOpens ==
  ASSUME Options!SettingsConstants, OptionsInv, [Options!Next]_(Options!vars),
         NEW w \in Windows, Options!Is(w, "starting"), window'[w].at = "open"
  PROVE  Options!loadConfigurationFromRegistry(w)
<1>1. TypesInv /\ window[w].at = "starting" /\ window'[w] # window[w]
  BY DEF OptionsInv, Options!Is
<1>2. PICK v \in Windows :
          \/ Options!createMainWindow(v) \/ Options!loadConfigurationFromRegistry(v)
          \/ Options!setOptionUseAvx512(v) \/ Options!Place(v) \/ Options!SaveOn(v)
               \/ Options!SaveOff(v, TRUE) \/ Options!SaveOff(v, FALSE)
          \/ Options!Destroy(v) \/ Options!SavePlacement(v) \/ Options!SaveAvx(v)
               \/ Options!Crash(v)
  BY <1>1 DEF Options!Next, Options!vars
<1>3. PICK r : window' = [window EXCEPT ![v] = r]
  BY <1>2 DEF Options!createMainWindow, Options!loadConfigurationFromRegistry,
              Options!setOptionUseAvx512, Options!Place, Options!SaveOn,
              Options!SaveOff, Options!Destroy, Options!SavePlacement, Options!SaveAvx,
                  Options!Crash
<1>4. v = w
  BY <1>1, <1>3 DEF TypesInv
<1>5. ~Options!Is(w, "closed") /\ ~Options!Is(w, "open") /\ ~Options!Is(w, "placement")
    /\ ~Options!Is(w, "avx")
  BY <1>1 DEF Options!Is
<1>6. Options!loadConfigurationFromRegistry(w) \/ Options!Crash(w)
  BY <1>2, <1>4, <1>5 DEF Options!createMainWindow, Options!setOptionUseAvx512, Options!Place,
                          Options!SaveOn, Options!SaveOff, Options!Destroy,
                          Options!SavePlacement, Options!SaveAvx
<1>7. ~Options!Crash(w)
  BY <1>1 DEF Options!Crash, TypesInv, Options!Closed
<1> QED BY <1>6, <1>7

LEMMA RestoresStep ==
  ASSUME Options!SettingsConstants, OptionsInv, [Options!Next]_(Options!vars),
         NEW w \in Windows, Options!Is(w, "starting"), window'[w].at = "open"
  PROVE  /\ \E l \in last : window'[w].placement = l.placement
         /\ \E l \in last :
              window'[w].has_avx512 = (supportsAvx512[window[w].machine] /\ l.has_avx512)
<1>1. Options!loadConfigurationFromRegistry(w)
  BY OnlyLoadOpens
<1>2. /\ TypesInv /\ LastInv /\ ~Options!Is(w, "closed")
      /\ window[w].has_avx512 = supportsAvx512[window[w].machine]
      /\ window[w].placement = NoPlacement
  BY DEF OptionsInv, KeptInv, StartsInv, Options!Is
<1>3. window[w] \in OpenWindows /\ window'[w] = Options!Configured(window[w])
  BY <1>1, <1>2, OpenWindow DEF Options!loadConfigurationFromRegistry, TypesInv
<1>4. /\ window'[w].placement = Options!Saved("WindowDimensions", NoPlacement)
      /\ window'[w].has_avx512 <=>
           window[w].has_avx512 /\ Options!Saved("UseAvx", TRUE)
  <2>1. CASE key = Options!NoKey
    <3>1. /\ Options!Saved("WindowDimensions", NoPlacement) = NoPlacement
          /\ Options!Saved("UseAvx", TRUE) = TRUE
      BY <2>1, NothingSaved DEF Options!Saved, Options!NoKey
    <3>2. /\ window'[w].placement = window[w].placement
          /\ window'[w].has_avx512 = window[w].has_avx512
      BY <1>2, <1>3, <2>1, ConfiguredIs
    <3> QED BY <1>2, <3>1, <3>2, Zenon
  <2>2. CASE key # Options!NoKey
    BY <1>2, <1>3, <2>2, ConfiguredIs
  <2> QED BY <2>1, <2>2
<1>5. window'[w].has_avx512 \in BOOLEAN
  BY <1>2, <1>3, ConfiguredIs, OpenIsOpen
<1>6. \E l \in last : window'[w].placement = l.placement
  BY <1>2, <1>4 DEF LastInv
<1>7. PICK l \in last : Options!Saved("UseAvx", TRUE) = l.has_avx512
  BY <1>2 DEF LastInv
<1>8. window'[w].has_avx512 = (supportsAvx512[window[w].machine] /\ l.has_avx512)
  BY <1>2, <1>4, <1>5, <1>7, Zenon
<1> QED BY <1>6, <1>7, <1>8

-----------------------------------------------------------------------------
LEMMA OptionsInvariant == ASSUME Options!SettingsConstants PROVE Options!Spec => []OptionsInv
<1>1. Options!Init => OptionsInv
  BY InitOptions
<1>2. OptionsInv /\ [Options!Next]_(Options!vars) => OptionsInv'
  BY OptionsStep
<1> QED BY <1>1, <1>2, PTL DEF Options!Spec

LEMMA OptionsTyped == ASSUME OptionsInv PROVE Options!SettingsTypeOK
<1>1. TypesInv
  BY DEF OptionsInv
<1>2. ASSUME key # Options!NoKey PROVE key.no = keys
    /\ DOMAIN key.values \subseteq Options!Values
  <2>1. key \in Keys /\ key.no = keys
    BY <1>1, <1>2 DEF TypesInv
  <2>2. PICK S \in SUBSET Options!Values : key.values \in [S -> Placements \cup BOOLEAN]
    BY <2>1 DEF Keys
  <2> QED BY <2>1, <2>2
<1>3. \A w \in Windows : window[w].at \in {"closed", "starting", "open", "placement", "avx"}
  BY <1>1 DEF TypesInv, WindowStates, OpenWindows, Options!Closed
<1> QED BY <1>1, <1>2, <1>3 DEF Options!SettingsTypeOK, TypesInv

LEMMA OptionsRestored == ASSUME Options!SettingsConstants PROVE Options!Spec => Options!Restores
<1>1. ASSUME OptionsInv, [Options!Next]_(Options!vars)
      PROVE  [\A w \in Windows : Options!Is(w, "starting") /\ window'[w].at = "open" =>
                /\ \E l \in last : window'[w].placement = l.placement
                /\ \E l \in last :
                     window'[w].has_avx512 = (supportsAvx512[window[w].machine] /\ l.has_avx512)
             ]_(Options!vars)
  BY <1>1, RestoresStep
<1> QED BY <1>1, OptionsInvariant, PTL DEF Options!Spec, Options!Restores

-----------------------------------------------------------------------------
(* Each part is the whole of its module, and takes no steps of another.    *)

LEMMA FormatsPart == MainSpec => Formats!Spec
<1>1. MainInit => Formats!Init
  BY DEF MainInit
<1>2. [MainNext]_mainVars => [Formats!Next]_(Formats!vars)
  BY DEF MainNext, mainVars, formatVars, Formats!vars
<1> QED BY <1>1, <1>2, PTL DEF MainSpec, Formats!Spec

LEMMA OptionsPart == MainSpec => Options!Spec
<1>1. MainInit => Options!Init
  BY DEF MainInit
<1>2. [MainNext]_mainVars => [Options!Next]_(Options!vars)
  BY DEF MainNext, mainVars, optionVars, Options!vars
<1> QED BY <1>1, <1>2, PTL DEF MainSpec, Options!Spec

\* The operation that a row of a dialog, or the name of a file, starts has the
\* provider of that row, or the first for that name, with any plugins.
THEOREM FormatIsChosenAlways == MainSpec => []FormatIsChosen
<1>1. Formats!ProviderConstants
  BY PartConstants
<1>2. FormatsInv => FormatIsChosen
  BY DEF FormatsInv, ChoiceInv, FormatIsChosen
<1> QED BY <1>1, <1>2, FormatsPart, FormatsInvariant, PTL

\* The vectors of the providers and what they say of each other are sound.
THEOREM ProvidersAreSound == MainSpec => []Formats!ProvidersTypeOK
<1>1. Formats!ProviderConstants
  BY PartConstants
<1> QED BY <1>1, FormatsTyped, FormatsPart, FormatsInvariant, PTL

\* With any windows on any machines, that may crash: options are not kept
\* without being asked for, nor used on a machine that cannot have them.
THEOREM OptionsAreAskedAlways == MainSpec => []OptionsAreAsked
<1>1. Options!SettingsConstants
  BY PartConstants
<1>2. OptionsInv => OptionsAreAsked
  BY DEF OptionsInv, AskedInv, OptionsAreAsked
<1> QED BY <1>1, <1>2, OptionsPart, OptionsInvariant, PTL

\* No key of the registry has a value that is no option, and no window stands
\* where none can.
THEOREM SettingsAreSound == MainSpec => []Options!SettingsTypeOK
<1>1. Options!SettingsConstants
  BY PartConstants
<1> QED BY <1>1, OptionsTyped, OptionsPart, OptionsInvariant, PTL

\* However windows overlap, save at the same time, crash in the middle of a save
\* or remove what is saved: each option that a window starts with is the one of
\* the last save that no other crossed, or of one begun since; without a save
\* since the last removal, its own.
THEOREM OptionsAreRestored == MainSpec => Restores
<1>1. Options!SettingsConstants
  BY PartConstants
<1> QED BY <1>1, OptionsPart, OptionsRestored, PTL DEF Restores
=============================================================================
