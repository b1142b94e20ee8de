------------------------- MODULE WorkerThreadProofs -------------------------
(***************************************************************************)
(* What the worker thread calls, for every file, span, folder and archive. *)
(* FileInput implements FileReader as long as its clients read to spans    *)
(* that are not empty and, at the end of a file, seek before they open     *)
(* another one.  No client in the repository opens another file; a read to *)
(* an empty span is only that of the rar provider, for a header of nothing *)
(* but its flags.  iterateFiles() finds every file of a folder once.  The  *)
(* rar provider finds the first signature of a file and reads the header   *)
(* behind it.  No index leaves a buffer.  The bandwidth is that of the     *)
(* last reads, wherever the ring of their times has come to.               *)
(***************************************************************************)
EXTENDS WorkerThread, FiniteSetTheorems, TLAPS

-----------------------------------------------------------------------------
(* The first of some numbers, and sequences.                               *)

LEMMA UpToN ==
  ASSUME NEW n \in Nat
  PROVE  /\ IsFiniteSet(1 .. n) /\ Cardinality(1 .. n) = n
         /\ IsFiniteSet(0 .. n - 1) /\ Cardinality(0 .. n - 1) = n
<1>1. IsFiniteSet(1 .. n) /\ Cardinality(1 .. n) = IF 1 > n THEN 0 ELSE n - 1 + 1
  BY FS_Interval
<1>2. IsFiniteSet(0 .. n - 1) /\ Cardinality(0 .. n - 1) = IF 0 > n - 1 THEN 0 ELSE n - 1 - 0 + 1
  <2>1. 0 \in Int /\ n - 1 \in Int
    OBVIOUS
  <2> QED BY <2>1, FS_Interval
<1> QED BY <1>1, <1>2

\* By the number of those before each of them: one has none before it.
LEMMA FirstExists ==
  ASSUME NEW n \in Nat, NEW S \in SUBSET (1 .. n), S # {}
  PROVE  \E x \in S : \A y \in S : x <= y
<1> DEFINE Below(x) == {y \in S : y < x}
           rank == [x \in S |-> Cardinality(Below(x))]
           m == Cardinality(S)
<1>1. IsFiniteSet(S) /\ m \in Nat /\ m # 0
  BY UpToN, FS_Subset, FS_CardinalityType, FS_EmptySet
<1>2. \A x \in S : x \in Int
  OBVIOUS
<1>3. ASSUME NEW x \in S
      PROVE  IsFiniteSet(Below(x)) /\ rank[x] \in Nat /\ rank[x] < m
  <2>1. Below(x) \in SUBSET S /\ Below(x) # S
    BY <1>2
  <2>2. IsFiniteSet(Below(x)) /\ Cardinality(Below(x)) \in Nat
    BY <1>1, <2>1, FS_Subset, FS_CardinalityType
  <2>3. Cardinality(Below(x)) <= m /\ Cardinality(Below(x)) # m
    BY <1>1, <2>1, FS_Subset
  <2> QED BY <1>1, <2>2, <2>3
<1>4. ASSUME NEW x \in S, NEW y \in S, x < y PROVE rank[x] # rank[y]
  <2>1. \A z \in S : z < x => z < y
    BY <1>2, <1>4
  <2>2. Below(x) \in SUBSET Below(y)
    BY <2>1
  <2>3. x \in Below(y) /\ x \notin Below(x)
    BY <1>2, <1>4
  <2> QED BY <1>3, <2>2, <2>3, FS_Subset
<1>5. rank \in Injection(S, 0 .. m - 1)
  <2>1. ASSUME NEW x \in S PROVE rank[x] \in 0 .. m - 1
    <3>1. ASSUME NEW r \in Nat, r < m PROVE r \in 0 .. m - 1
      BY <1>1, <3>1
    <3> QED BY <1>3, <3>1
  <2>2. rank \in [S -> 0 .. m - 1]
    BY <2>1
  <2>3. ASSUME NEW x \in S, NEW y \in S, rank[x] = rank[y] PROVE x = y
    <3>1. ~(x < y) /\ ~(y < x)
      BY <1>4, <2>3
    <3> QED BY <1>2, <3>1
  <2> QED BY <2>2, <2>3 DEF Injection, IsInjective
<1>6. rank \in Surjection(S, 0 .. m - 1)
  <2>1. IsFiniteSet(0 .. m - 1) /\ Cardinality(0 .. m - 1) = m
    BY <1>1, UpToN
  <2> QED BY <1>1, <1>5, <2>1, FS_Injection
<1>7. PICK x \in S : rank[x] = 0
  <2>1. 0 \in 0 .. m - 1
    BY <1>1
  <2> QED BY <1>6, <2>1 DEF Surjection
<1>8. Below(x) = {}
  BY <1>3, <1>7, FS_EmptySet
<1> QED BY <1>2, <1>8

\* What holds at 0, and at each number up to n if at the one before it, holds up
\* to n.
LEMMA UpTo ==
  ASSUME NEW n \in Nat, NEW S, 0 \in S, \A i \in 1 .. n : i - 1 \in S => i \in S
  PROVE  0 .. n \subseteq S
<1> DEFINE Bad == {i \in 1 .. n : i \notin S}
<1>1. ASSUME Bad # {} PROVE FALSE
  <2>1. PICK i \in Bad : \A j \in Bad : i <= j
    <3>1. Bad \in SUBSET (1 .. n)
      OBVIOUS
    <3> HIDE DEF Bad
    <3> QED BY <1>1, <3>1, FirstExists
  <2>2. i \in 1 .. n /\ i \notin S
    OBVIOUS
  <2>3. i - 1 = 0 \/ (i - 1 \in 1 .. n /\ ~(i <= i - 1))
    BY <2>2
  <2>4. i - 1 \in S
    BY <2>1, <2>3
  <2> QED BY <2>2, <2>4
<1>2. ASSUME NEW i \in 0 .. n PROVE i \in S
  <2>1. i = 0 \/ i \in 1 .. n
    OBVIOUS
  <2> QED BY <1>1, <2>1
<1> QED BY <1>2

LEMMA IsSequence ==
  ASSUME NEW n \in Nat, NEW S, NEW f \in [1 .. n -> S]
  PROVE  f \in Seq(S) /\ Len(f) = n
OBVIOUS

-----------------------------------------------------------------------------
(* FileInput                                                               *)

\* What a client has to keep to.
CarefulClient == OpenAtEnd = FALSE /\ 0 \notin ReadSizes

-----------------------------------------------------------------------------
(* The handle.                                                             *)

Opens == [file : Files, pointer : Nat]

HandleInv ==
  /\ m_fin \in {1, 2} /\ m_filename \in Files /\ m_eof \in BOOLEAN
  /\ handles \in [{m_fin} -> Opens]
  /\ handles[m_fin].file = m_filename

LEMMA UnusedHandle == ASSUME HandleInv PROVE Unused \in {1, 2} /\ Unused # m_fin
<1>1. DOMAIN handles = {m_fin}
  BY DEF HandleInv
<1>2. \E h \in {1, 2} : h \notin DOMAIN handles
  BY <1>1 DEF HandleInv
<1> QED BY <1>1, <1>2 DEF Unused

\* The pointer moves, the handle stays.
LEMMA MovedPointer ==
  ASSUME HandleInv, NEW p \in Nat, SetPointer(p)
  PROVE  /\ handles' \in [{m_fin} -> Opens]
         /\ handles'[m_fin].file = m_filename /\ handles'[m_fin].pointer = p
  BY DEF HandleInv, SetPointer, Opens

\* A file is opened at its start.
LEMMA OpenedHandle ==
  ASSUME HandleInv, NEW f \in Files, handles' = [h \in {Unused} |-> Handle(f)], m_fin' = Unused
  PROVE  /\ m_fin' \in {1, 2} /\ handles' \in [{m_fin'} -> Opens]
         /\ handles'[m_fin'].file = f /\ handles'[m_fin'].pointer = 0
<1>1. Unused \in {1, 2}
  BY UnusedHandle
<1> QED BY <1>1 DEF Handle, Opens

\* What read() finds.
LEMMA ReadBytes ==
  ASSUME HandleInv, NEW n \in ReadSizes, NEW count, NEW p,
         p = handles[m_fin].pointer, count = Reader!Least(n, Size[m_filename] - p)
  PROVE  /\ n \in Nat /\ count \in Int /\ p \in Nat /\ Size[m_filename] \in Nat
         /\ count > 0 => p < Size[m_filename]
         /\ count <= 0 /\ n # 0 => p >= Size[m_filename]
<1>1. n \in Nat /\ p \in Nat /\ Size[m_filename] \in Nat
  BY FileConstants DEF HandleInv, Opens
<1> QED BY <1>1 DEF Reader!Least

\* Where seek() goes.
LEMMA SeekPointer ==
  ASSUME HandleInv, NEW offset \in Int, NEW from \in Reader!Starts, NEW p,
         p = offset + CASE from = "CurrentPosition" -> handles[m_fin].pointer
                        [] from = "FileEnd" -> Size[handles[m_fin].file]
                        [] OTHER -> 0
  PROVE  /\ p \in Int
         /\ p = (CASE from = "CurrentPosition" -> handles[m_fin].pointer
                   [] from = "FileStart" -> 0
                   [] from = "FileEnd" -> Size[m_filename]) + offset
<1>1. handles[m_fin].pointer \in Nat /\ Size[m_filename] \in Nat /\ handles[m_fin].file = m_filename
  BY FileConstants DEF HandleInv, Opens
<1> QED BY <1>1 DEF Reader!Starts

LEMMA InitHandle == Init => HandleInv
<1> SUFFICES ASSUME Init PROVE HandleInv
  OBVIOUS
<1>1. m_fin = 1 /\ m_eof \in BOOLEAN /\ m_filename \in Files
  BY DEF Init
<1>2. handles \in [{m_fin} -> Opens] /\ handles[m_fin].file = m_filename
  BY <1>1 DEF Init, Handle, Opens
<1> QED BY <1>1, <1>2 DEF HandleInv

LEMMA NextHandle == ASSUME HandleInv, [Next]_vars PROVE HandleInv'
<1>1. ASSUME NEW n \in ReadSizes, read(n) PROVE HandleInv'
  <2> PICK p, count : p = handles[m_fin].pointer /\ count = Reader!Least(n, Size[m_filename] - p)
    OBVIOUS
  <2>1. p \in Nat /\ count \in Int /\ handles[m_fin].file = m_filename
    BY ReadBytes DEF HandleInv
  <2>2. m_fin' = m_fin /\ m_filename' = m_filename /\ m_eof' \in BOOLEAN
    BY <1>1 DEF read, HandleInv
  <2>3. UNCHANGED handles \/ (count > 0 /\ SetPointer(p + count))
    BY <1>1, <2>1 DEF read
  <2>4. count > 0 => p + count \in Nat
    BY <2>1
  <2>5. handles' \in [{m_fin} -> Opens] /\ handles'[m_fin].file = m_filename
    BY <2>3, <2>4, MovedPointer DEF HandleInv
  <2> QED BY <2>2, <2>5 DEF HandleInv
<1>2. ASSUME NEW o \in Int, NEW s \in Reader!Starts, seek(o, s) PROVE HandleInv'
  <2> PICK p : p = o + CASE s = "CurrentPosition" -> handles[m_fin].pointer
                         [] s = "FileEnd" -> Size[handles[m_fin].file]
                         [] OTHER -> 0
    OBVIOUS
  <2>1. p \in Int
    BY SeekPointer
  <2>2. m_fin' = m_fin /\ m_filename' = m_filename /\ m_eof' \in BOOLEAN
    BY <1>2 DEF seek, HandleInv
  <2>3. UNCHANGED handles \/ (p >= 0 /\ SetPointer(p))
    BY <1>2 DEF seek
  <2>4. handles' \in [{m_fin} -> Opens] /\ handles'[m_fin].file = m_filename
    BY <2>1, <2>3, MovedPointer DEF HandleInv
  <2> QED BY <2>2, <2>4 DEF HandleInv
<1>3. tell => HandleInv'
  BY <1>2 DEF tell, Reader!Starts
<1>4. ASSUME NEW f, open(f) PROVE HandleInv'
  <2>1. CASE /\ f \in Files
             /\ handles' = [h \in {Unused} |-> Handle(f)]
             /\ m_fin' = Unused /\ m_filename' = f
    BY <1>4, <2>1, OpenedHandle DEF open, HandleInv
  <2>2. CASE UNCHANGED <<handles, m_fin, m_filename>>
    BY <1>4, <2>2 DEF open, HandleInv
  <2> QED BY <1>4, <2>1, <2>2 DEF open
<1>5. ASSUME UNCHANGED vars PROVE HandleInv'
  BY <1>5 DEF vars, HandleInv
<1> QED BY <1>1, <1>2, <1>3, <1>4, <1>5, FileConstants DEF Next

LEMMA HandleInvariance == Spec => []HandleInv
  BY InitHandle, NextHandle, PTL DEF Spec

\* After any sequence of opens, failed ones among them, one handle is open, and
\* it is of the file that current_file() names.
THEOREM OneHandleIsOpen == Spec => []FileTypeOK
<1>1. HandleInv => FileTypeOK
  BY DEF HandleInv, Opens, FileTypeOK
<1> QED BY <1>1, HandleInvariance, PTL

-----------------------------------------------------------------------------
(* The end of the file.                                                    *)

AtEnd == handles[m_fin].pointer >= Size[m_filename]

\* The flag and the answer are only true of the file the flag was set for.
EndInv == HandleInv /\ (m_eof => AtEnd) /\ EndIsEnd

\* A step of the class is a step of FileReader on the file and the position.
LEMMA ReadStep ==
  ASSUME CarefulClient, EndInv, NEW n \in ReadSizes, read(n)
  PROVE  Reader!Read(n) /\ (m_eof => AtEnd)' /\ EndIsEnd'
<1> PICK p, count : p = handles[m_fin].pointer /\ count = Reader!Least(n, Size[m_filename] - p)
  OBVIOUS
<1>1. /\ n \in Nat /\ n # 0 /\ p \in Nat /\ count \in Int /\ Size[m_filename] \in Nat
      /\ (count > 0 => p < Size[m_filename]) /\ (count <= 0 => p >= Size[m_filename])
      /\ HandleInv /\ handles[m_fin].file = m_filename
  BY ReadBytes DEF CarefulClient, EndInv, HandleInv
<1>2. m_fin' = m_fin /\ m_filename' = m_filename
  BY DEF read
<1>3. CASE m_eof /\ answer' = Reader!EndOfFile /\ UNCHANGED <<handles, m_eof>>
  <2>1. p >= Size[m_filename]
    BY <1>3 DEF EndInv, AtEnd
  <2> QED BY <1>1, <1>2, <1>3, <2>1 DEF Reader!Read, AtEnd, EndIsEnd
<1>4. CASE ~m_eof /\ answer' = Reader!FileIO /\ UNCHANGED <<handles, m_eof>>
  <2>1. answer' # Reader!EndOfFile
    BY <1>4 DEF Reader!FileIO, Reader!EndOfFile
  <2> QED BY <1>1, <1>2, <1>4, <2>1 DEF Reader!Read, AtEnd, EndIsEnd
<1>5. CASE count <= 0 /\ m_eof' = TRUE /\ answer' = Reader!EndOfFile /\ UNCHANGED handles
  BY <1>1, <1>2, <1>5 DEF Reader!Read, AtEnd, EndIsEnd
<1>6. CASE /\ ~m_eof /\ count > 0 /\ SetPointer(p + count) /\ UNCHANGED m_eof
           /\ answer' = Reader!Data(m_filename, p, count)
  <2>1. p + count \in Nat
    BY <1>1, <1>6
  <2>2. handles'[m_fin].pointer = p + count
    BY <1>1, <1>6, <2>1, MovedPointer
  <2>3. answer' # Reader!EndOfFile
    BY <1>6 DEF Reader!Data, Reader!EndOfFile
  <2> QED BY <1>1, <1>2, <1>6, <2>2, <2>3 DEF Reader!Read, AtEnd, EndIsEnd
<1>7. \/ m_eof /\ answer' = Reader!EndOfFile /\ UNCHANGED <<handles, m_eof>>
      \/ ~m_eof /\ answer' = Reader!FileIO /\ UNCHANGED <<handles, m_eof>>
      \/ count <= 0 /\ m_eof' = TRUE /\ answer' = Reader!EndOfFile /\ UNCHANGED handles
      \/ /\ ~m_eof /\ count > 0 /\ SetPointer(p + count) /\ UNCHANGED m_eof
         /\ answer' = Reader!Data(m_filename, p, count)
  BY <1>1 DEF read
<1> QED BY <1>3, <1>4, <1>5, <1>6, <1>7

LEMMA SeekStep ==
  ASSUME EndInv, NEW o \in Int, NEW s \in Reader!Starts, seek(o, s)
  PROVE  Reader!Seek(o, s) /\ (m_eof => AtEnd)' /\ EndIsEnd'
<1> PICK p : p = o + CASE s = "CurrentPosition" -> handles[m_fin].pointer
                       [] s = "FileEnd" -> Size[handles[m_fin].file]
                       [] OTHER -> 0
  OBVIOUS
<1>1. /\ p \in Int /\ HandleInv
      /\ p = (CASE s = "CurrentPosition" -> handles[m_fin].pointer
                [] s = "FileStart" -> 0
                [] s = "FileEnd" -> Size[m_filename]) + o
  BY SeekPointer DEF EndInv
<1>2. /\ m_fin' = m_fin /\ m_filename' = m_filename /\ p <= MaxPosition
      /\ \/ p >= 0 /\ SetPointer(p) /\ m_eof' = FALSE /\ answer' = Reader!Position(p)
         \/ answer' = Reader!FileIO /\ UNCHANGED <<handles, m_eof>>
  BY DEF seek
<1>3. answer' # Reader!EndOfFile
  BY <1>2 DEF Reader!Position, Reader!FileIO, Reader!EndOfFile
<1>4. CASE p >= 0 /\ SetPointer(p) /\ m_eof' = FALSE /\ answer' = Reader!Position(p)
  <2>1. handles'[m_fin].pointer = p
    BY <1>1, <1>4, MovedPointer
  <2> QED BY <1>1, <1>2, <1>3, <1>4, <2>1 DEF Reader!Seek, EndIsEnd
<1>5. CASE answer' = Reader!FileIO /\ UNCHANGED <<handles, m_eof>>
  BY <1>1, <1>2, <1>3, <1>5 DEF Reader!Seek, EndInv, AtEnd, EndIsEnd
<1> QED BY <1>2, <1>4, <1>5

\* tell() is a seek() to where the pointer is.
LEMMA TellStep == ASSUME EndInv, tell PROVE Reader!Tell /\ (m_eof => AtEnd)' /\ EndIsEnd'
<1>1. /\ seek(0, "CurrentPosition") /\ "CurrentPosition" \in Reader!Starts
      /\ handles[m_fin].pointer \in Nat /\ HandleInv
  BY DEF tell, Reader!Starts, EndInv, HandleInv, Opens
<1>2. (m_eof => AtEnd)' /\ EndIsEnd'
  BY <1>1, SeekStep
<1> PICK p : p = handles[m_fin].pointer
  OBVIOUS
<1>3. /\ m_fin' = m_fin /\ m_filename' = m_filename /\ p \in Nat
      /\ \/ SetPointer(p) /\ answer' = Reader!Position(p)
         \/ answer' = Reader!FileIO /\ UNCHANGED handles
  BY <1>1 DEF seek
<1>4. handles'[m_fin].pointer = p
  BY <1>1, <1>3, MovedPointer
<1> QED BY <1>2, <1>3, <1>4 DEF Reader!Tell

LEMMA OpenStep ==
  ASSUME CarefulClient, EndInv, NEW f, open(f)
  PROVE  Reader!Open(f) /\ (m_eof => AtEnd)' /\ EndIsEnd'
<1>1. ~m_eof /\ m_eof' = m_eof /\ HandleInv
  BY DEF CarefulClient, open, EndInv
<1>2. answer' # Reader!EndOfFile
  BY DEF open, Reader!Opened, Reader!EndOfFile
<1>3. CASE /\ f \in Files
           /\ handles' = [h \in {Unused} |-> Handle(f)]
           /\ m_fin' = Unused /\ m_filename' = f /\ answer' = Reader!Opened(TRUE)
  <2>1. handles'[m_fin'].pointer = 0
    BY <1>1, <1>3, OpenedHandle
  <2> QED BY <1>1, <1>2, <1>3, <2>1 DEF Reader!Open, EndIsEnd
<1>4. CASE answer' = Reader!Opened(FALSE) /\ UNCHANGED <<handles, m_fin, m_filename>>
  BY <1>1, <1>2, <1>4 DEF Reader!Open, EndIsEnd
<1> QED BY <1>3, <1>4 DEF open

LEMMA NextEnd ==
  ASSUME CarefulClient, EndInv, [Next]_vars
  PROVE  EndInv' /\ [Reader!Next]_(Reader!vars)
<1>1. HandleInv'
  BY NextHandle DEF EndInv
<1>2. ASSUME NEW n \in ReadSizes, read(n) PROVE (m_eof => AtEnd)' /\ EndIsEnd' /\ Reader!Next
  BY <1>2, ReadStep DEF Reader!Next
<1>3. ASSUME NEW o \in Offsets, NEW s \in Reader!Starts, seek(o, s)
      PROVE  (m_eof => AtEnd)' /\ EndIsEnd' /\ Reader!Next
  BY <1>3, SeekStep, FileConstants DEF Reader!Next
<1>4. ASSUME tell PROVE (m_eof => AtEnd)' /\ EndIsEnd' /\ Reader!Next
  BY <1>4, TellStep DEF Reader!Next
<1>5. ASSUME NEW f \in Files \cup {NoFile}, open(f) PROVE (m_eof => AtEnd)' /\ EndIsEnd' /\ Reader!Next
  BY <1>5, OpenStep DEF Reader!Next
<1>6. ASSUME UNCHANGED vars PROVE (m_eof => AtEnd)' /\ EndIsEnd' /\ UNCHANGED (Reader!vars)
  BY <1>6 DEF vars, EndInv, AtEnd, EndIsEnd, Reader!vars
<1> QED BY <1>1, <1>2, <1>3, <1>4, <1>5, <1>6 DEF Next, EndInv

LEMMA EndInvariance == ASSUME CarefulClient PROVE Spec => []EndInv
<1>1. Init => EndInv
  BY InitHandle DEF Init, EndInv, EndIsEnd, Reader!Opened, Reader!EndOfFile
<1>2. EndInv /\ [Next]_vars => EndInv'
  BY NextEnd
<1> QED BY <1>1, <1>2, PTL DEF Spec

\* The two ways in which a client can be told of an end that is not there, a span
\* without room and an open() at the end of another file, are the only ones.
THEOREM EndIsEndForCarefulClients == ASSUME CarefulClient PROVE Spec => []EndIsEnd
<1>1. EndInv => EndIsEnd
  BY DEF EndInv
<1> QED BY <1>1, EndInvariance, PTL

\* What a careful client sees of the handle, the flag and the name is the file and
\* the position of FileReader: each byte once and in order, the end when there is
\* no more, what is there after a seek(), and another file from its start.
THEOREM FileInputIsFileReader == ASSUME CarefulClient PROVE Spec => ImplementsFileReader
<1>1. Init => Reader!Init
  <2> SUFFICES ASSUME Init PROVE Reader!Init
    OBVIOUS
  <2>1. handles[m_fin].pointer = 0
    BY DEF Init, Handle
  <2> QED BY <2>1 DEF Init, Reader!Init
<1>2. EndInv /\ [Next]_vars => [Reader!Next]_(Reader!vars)
  BY NextEnd
<1> QED BY <1>1, <1>2, EndInvariance, PTL DEF Spec, ImplementsFileReader, Reader!Spec
-----------------------------------------------------------------------------
All == Listing!ToSet(Base) \cup Names \cup Listing!Dots
Below == {Base \o p : p \in Seq(Names)}
Rel(path) == Listing!relativePathTo(path)
Before(a, b) == Len(a) <= Len(b) /\ \A i \in 1 .. Len(a) : a[i] = b[i]
Apart(a, b) == ~Before(a, b) /\ ~Before(b, a)

FolderTypes ==
  /\ folder \in Folders /\ unreadable \subseteq DOMAIN folder
  /\ directories \in Seq([path : Below, node : DOMAIN folder])
  /\ current_path \in Below /\ yielded \in Seq(Below)
  /\ found \subseteq [name : Names \cup Listing!Dots, leads : DOMAIN folder \cup {Listing!File}]
  /\ listed \in Seq([path : Seq(Names), of : Below])
  /\ result \in [ok : Nat, bad : Nat, total : Nat]
  /\ status \in {"listing", "file", "canceled", "FileIO", "written"}

\* The paths that are still to be searched, those still to be returned by the
\* open search and those yielded: none is at the beginning of another.
PathsApart ==
  /\ \A i, j \in DOMAIN directories : i # j => Apart(directories[i].path, directories[j].path)
  /\ \A i, j \in DOMAIN yielded : i # j => Apart(yielded[i], yielded[j])
  /\ \A i \in DOMAIN directories, j \in DOMAIN yielded : Apart(directories[i].path, yielded[j])
  /\ \A e \in found, i \in DOMAIN directories :
       Apart(Append(current_path, e.name), directories[i].path)
  /\ \A e \in found, j \in DOMAIN yielded : Apart(Append(current_path, e.name), yielded[j])
  /\ \A e1, e2 \in found : e1 # e2 => e1.name # e2.name

\* The open search is that of a directory that the file system has opened.
Searched(c) ==
  /\ c \in DOMAIN folder /\ Listing!Lead(folder, Rel(current_path), c) /\ c \notin unreadable
  /\ Len(Rel(current_path)) <= MaxDepth
  /\ \A e \in found : (e.name \in Listing!Dots /\ e.leads # Listing!File) \/ e \in folder[c]

PathsLead ==
  /\ \A i \in DOMAIN directories :
       Listing!Lead(folder, Rel(directories[i].path), directories[i].node)
  /\ found # {} => \E c : Searched(c)
  /\ \A j \in DOMAIN yielded :
       Listing!Lead(folder, Rel(yielded[j]), Listing!File)
           /\ Len(Rel(yielded[j])) \in 1 .. MaxDepth + 1

\* What is below the folder is found yet, or was.
Pending(p) == \E i \in DOMAIN directories : Before(Rel(directories[i].path), p)
Returned(p) == \E e \in found : Before(Append(Rel(current_path), e.name), p)
Listed(p, n) ==
  IF n = Listing!File THEN \E j \in DOMAIN yielded : Rel(yielded[j]) = p
  ELSE n \notin unreadable /\ Len(p) <= MaxDepth

NothingLost ==
  status # "FileIO" =>
    \A p \in Seq(Names) : \A n \in DOMAIN folder \cup {Listing!File} :
      Listing!Lead(folder, p, n) => Pending(p) \/ Returned(p) \/ Listed(p, n)

CountsYielded ==
  /\ Len(listed) = result.ok
  /\ status \in {"listing", "written"} => Len(yielded) = Len(listed) + result.bad
  /\ status = "file" => Len(yielded) = Len(listed) + result.bad + 1
  /\ status = "written" => found = {} /\ directories = <<>>

ListingInv ==
  FolderTypes /\ PathsApart /\ PathsLead /\ NothingLost /\ CountsYielded
      /\ Listing!EntriesResolve

LEMMA SameSequence ==
  ASSUME NEW T, NEW s \in Seq(T), NEW t \in Seq(T), Len(s) = Len(t),
         \A i \in 1 .. Len(s) : s[i] = t[i]
  PROVE  s = t
OBVIOUS

LEMMA ElementIn == ASSUME NEW T, NEW s \in Seq(T), NEW i \in DOMAIN s PROVE s[i] \in T
OBVIOUS

-----------------------------------------------------------------------------
(* Paths.                                                                  *)

LEMMA BelowIs ==
  ASSUME Listing!FolderConstants, NEW p \in Seq(Names)
  PROVE  /\ Base \o p \in Below /\ Rel(Base \o p) = p /\ Len(Base \o p) = Len(Base) + Len(p)
         /\ Base \o p \in Seq(All) /\ Listing!IsPrefix(Base, Base \o p)
<1>1. Base \in Seq(All) /\ p \in Seq(All)
  <2>1. Listing!ToSet(Base) \subseteq All /\ Names \subseteq All
      /\ Base \in Seq(Listing!ToSet(Base))
    BY DEF All, Listing!FolderConstants
  <2> QED BY <2>1
<1>2. Base \o p \in Seq(All) /\ Len(Base \o p) = Len(Base) + Len(p)
  BY <1>1
<1>3. Rel(Base \o p) = p
  <2> PICK s : s = Base \o p
    OBVIOUS
  <2>1. /\ s \in Seq(All) /\ Len(s) = Len(Base) + Len(p) /\ Len(Base) \in Nat /\ Len(p) \in Nat
        /\ \A i \in 1 .. Len(p) : s[Len(Base) + i] = p[i]
    BY <1>1
  <2> PICK k \in Nat, m \in Nat : k = Len(Base) /\ m = Len(p)
    BY <2>1
  <2> PICK r : r = SubSeq(s, k + 1, k + m)
    OBVIOUS
  <2>2. r \in Seq(All) /\ Len(r) = Len(p) /\ \A i \in 1 .. Len(p) : r[i] = p[i]
    <3>1. r \in Seq(All) /\ Len(r) = m /\ \A i \in 1 .. m : r[i] = s[k + i]
      BY <2>1
    <3> QED BY <2>1, <3>1
  <2>3. r = p
    BY <1>1, <2>2, SameSequence
  <2> QED BY <2>1, <2>3 DEF Rel, Listing!relativePathTo
<1>4. Listing!IsPrefix(Base, Base \o p)
  BY <1>1 DEF Listing!IsPrefix
<1> QED BY <1>2, <1>3, <1>4 DEF Below

LEMMA BelowSplit ==
  ASSUME Listing!FolderConstants, NEW path \in Below
  PROVE  /\ Rel(path) \in Seq(Names) /\ path = Base \o Rel(path) /\ path \in Seq(All)
         /\ Listing!IsPrefix(Base, path)
<1> PICK p \in Seq(Names) : path = Base \o p
  BY DEF Below
<1> QED BY BelowIs

LEMMA BelowAppend ==
  ASSUME Listing!FolderConstants, NEW path \in Below, NEW n \in Names
  PROVE  Append(path, n) \in Below /\ Rel(Append(path, n)) = Append(Rel(path), n)
<1> PICK p \in Seq(Names) : path = Base \o p
  BY DEF Below
<1>1. Append(p, n) \in Seq(Names)
  OBVIOUS
<1>2. Base \in Seq(Listing!ToSet(Base))
  BY DEF Listing!FolderConstants
<1>3. Append(Base \o p, n) = Base \o Append(p, n)
  <2>1. Base \in Seq(All) /\ p \in Seq(All) /\ n \in All
    <3>1. Listing!ToSet(Base) \subseteq All /\ Names \subseteq All
      BY DEF All
    <3> QED BY <1>2, <3>1
  <2> PICK s, t : s = Append(Base \o p, n) /\ t = Base \o Append(p, n)
    OBVIOUS
  <2> PICK r, q : r = Base \o p /\ q = Append(p, n)
    OBVIOUS
  <2> PICK k \in Nat, m \in Nat : k = Len(Base) /\ m = Len(p)
    BY <2>1
  <2>2. /\ r \in Seq(All) /\ Len(r) = k + m /\ \A i \in 1 .. k : r[i] = Base[i]
        /\ \A i \in k + 1 .. k + m : r[i] = p[i - k]
        /\ q \in Seq(All) /\ Len(q) = m + 1 /\ q[m + 1] = n /\ \A i \in 1 .. m : q[i] = p[i]
    BY <2>1
  <2>5. /\ s \in Seq(All) /\ Len(s) = k + m + 1 /\ s[k + m + 1] = n
        /\ \A i \in 1 .. k + m : s[i] = r[i]
    BY <2>1, <2>2
  <2>6. /\ t \in Seq(All) /\ Len(t) = k + m + 1 /\ \A i \in 1 .. k : t[i] = Base[i]
        /\ \A i \in k + 1 .. k + m + 1 : t[i] = q[i - k]
    BY <2>1, <2>2
  <2>3. ASSUME NEW i \in 1 .. k + m + 1 PROVE s[i] = t[i]
    <3>1. CASE i <= k
      <4>1. i \in 1 .. k /\ i \in 1 .. k + m
        BY <2>3, <3>1
      <4> QED BY <2>2, <2>5, <2>6, <4>1
    <3>2. CASE k < i /\ i <= k + m
      <4>1. /\ i \in k + 1 .. k + m /\ i \in k + 1 .. k + m + 1 /\ i \in 1 .. k + m
            /\ i - k \in 1 .. m
        BY <2>3, <3>2
      <4> QED BY <2>2, <2>5, <2>6, <4>1
    <3>3. CASE i = k + m + 1
      <4>1. i \in k + 1 .. k + m + 1 /\ i - k = m + 1
        BY <3>3
      <4> QED BY <2>2, <2>5, <2>6, <3>3, <4>1
    <3>4. i <= k \/ (k < i /\ i <= k + m) \/ i = k + m + 1
      BY <2>3
    <3> QED BY <3>1, <3>2, <3>3, <3>4
  <2>4. s = t
    <3>1. Len(s) = Len(t) /\ \A i \in 1 .. Len(s) : s[i] = t[i]
      BY <2>3, <2>5, <2>6
    <3>2. s \in Seq(All) /\ t \in Seq(All)
      BY <2>5, <2>6
    <3> QED BY <3>1, <3>2, SameSequence
  <2> QED BY <2>4
<1>4. Rel(path) = p
  BY BelowIs
<1> QED BY <1>1, <1>3, <1>4, BelowIs

LEMMA BaseIsBelow == ASSUME Listing!FolderConstants PROVE Base \in Below /\ Rel(Base) = <<>>
<1>1. Base \o <<>> = Base
  BY DEF Listing!FolderConstants
<1>2. <<>> \in Seq(Names)
  OBVIOUS
<1> QED BY <1>1, <1>2, BelowIs

LEMMA ApartExtends ==
  ASSUME NEW T, NEW d \in Seq(T), NEW x \in Seq(T), NEW n \in T, Apart(d, x)
  PROVE  Apart(Append(d, n), x)
<1> PICK s : s = Append(d, n)
  OBVIOUS
<1>1. /\ s \in Seq(T) /\ Len(s) = Len(d) + 1 /\ \A i \in 1 .. Len(d) : s[i] = d[i]
      /\ Len(d) \in Nat /\ Len(x) \in Nat
  OBVIOUS
<1>2. ASSUME Before(s, x) PROVE FALSE
  BY <1>1, <1>2 DEF Before, Apart
<1>3. ASSUME Before(x, s) PROVE FALSE
  <2>1. Len(x) <= Len(d) + 1 /\ \A i \in 1 .. Len(x) : x[i] = s[i]
    BY <1>1, <1>3 DEF Before
  <2>2. CASE Len(x) <= Len(d)
    BY <1>1, <2>1, <2>2 DEF Before, Apart
  <2>3. CASE Len(x) = Len(d) + 1
    BY <1>1, <2>1, <2>3 DEF Before, Apart
  <2> QED BY <1>1, <2>1, <2>2, <2>3
<1> QED BY <1>2, <1>3 DEF Apart

LEMMA ApartNames ==
  ASSUME NEW T, NEW d \in Seq(T), NEW m \in T, NEW n \in T, m # n
  PROVE  Apart(Append(d, m), Append(d, n))
<1> PICK s, t : s = Append(d, m) /\ t = Append(d, n)
  OBVIOUS
<1>1. /\ Len(s) = Len(d) + 1 /\ Len(t) = Len(d) + 1 /\ Len(d) \in Nat
      /\ s[Len(d) + 1] = m /\ t[Len(d) + 1] = n
  OBVIOUS
<1> QED BY <1>1 DEF Apart, Before

LEMMA ApartIsSymmetric == ASSUME NEW a, NEW b, Apart(a, b) PROVE Apart(b, a)
BY DEF Apart

-----------------------------------------------------------------------------
(* Where names lead.                                                       *)

UniqueNames ==
  /\ Listing!Root \in DOMAIN folder /\ Listing!File \notin DOMAIN folder
  /\ \A d \in DOMAIN folder :
       /\ folder[d] \subseteq [name : Names, leads : DOMAIN folder \cup {Listing!File}]
       /\ \A e1, e2 \in folder[d] : e1.name = e2.name => e1 = e2

LEMMA FolderHasUniqueNames ==
  ASSUME Listing!FolderConstants, folder \in Folders PROVE UniqueNames
BY DEF Listing!FolderConstants, UniqueNames

LEMMA RootLeads == Listing!Lead(folder, <<>>, Listing!Root) <=>
    Listing!Root \in DOMAIN folder \cup {Listing!File}
<1>1. Len(<<>>) = 0 /\ 1 .. 0 = {} /\ 0 .. 0 = {0}
  OBVIOUS
<1>2. ASSUME Listing!Root \in DOMAIN folder \cup {Listing!File}
    PROVE Listing!Lead(folder, <<>>, Listing!Root)
  <2> PICK w : w = [i \in {0} |-> Listing!Root]
    OBVIOUS
  <2>1. w \in [0 .. Len(<<>>) -> DOMAIN folder \cup {Listing!File}]
      /\ Listing!Way(folder, <<>>, w) /\ w[Len(<<>>)] = Listing!Root
    BY <1>1, <1>2 DEF Listing!Way
  <2> QED BY <2>1 DEF Listing!Lead
<1>3. ASSUME Listing!Lead(folder, <<>>, Listing!Root)
    PROVE Listing!Root \in DOMAIN folder \cup {Listing!File}
  BY <1>1, <1>3 DEF Listing!Lead
<1> QED BY <1>2, <1>3

\* Two ways along one path, or along the first names of one, are the same.
LEMMA WaysAgree ==
  ASSUME UniqueNames, NEW p \in Seq(Names), NEW q \in Seq(Names), Before(p, q),
         NEW v \in [0 .. Len(p) -> DOMAIN folder \cup {Listing!File}], Listing!Way(folder, p, v),
         NEW w \in [0 .. Len(q) -> DOMAIN folder \cup {Listing!File}], Listing!Way(folder, q, w),
         NEW k \in 0 .. Len(p)
  PROVE  v[k] = w[k]
<1>1. Len(p) \in Nat /\ Len(q) \in Nat /\ Len(p) <= Len(q) /\ \A i \in 1 .. Len(p) : p[i] = q[i]
  BY DEF Before
<1> DEFINE D == {i \in 1 .. Len(p) : v[i] # w[i]}
<1>2. CASE D = {}
  <2>1. CASE k = 0
    BY <2>1 DEF Listing!Way
  <2>2. CASE k # 0
    BY <1>1, <1>2, <2>2
  <2> QED BY <2>1, <2>2
<1>3. CASE D # {}
  <2>1. PICK x \in D : \A y \in D : x <= y
    BY <1>1, <1>3, FirstExists
  <2>2. x \in 1 .. Len(p) /\ x \in 1 .. Len(q) /\ x - 1 \in 0 .. Len(p) /\ x - 1 \notin D
    <3>1. x \in 1 .. Len(p)
      BY <2>1
    <3>2. x \in 1 .. Len(q) /\ x - 1 \in 0 .. Len(p) /\ ~(x <= x - 1)
      BY <1>1, <3>1
    <3> QED BY <2>1, <3>1, <3>2
  <2>3. v[x - 1] = w[x - 1]
    <3>1. CASE x = 1
      BY <3>1 DEF Listing!Way
    <3>2. CASE x # 1
      BY <1>1, <2>2, <3>2
    <3> QED BY <3>1, <3>2
  <2>4. /\ v[x - 1] \in DOMAIN folder
        /\ [name |-> p[x], leads |-> v[x]] \in folder[v[x - 1]]
        /\ [name |-> p[x], leads |-> w[x]] \in folder[v[x - 1]]
    BY <1>1, <2>2, <2>3 DEF Listing!Way
  <2>5. v[x] = w[x]
    <3> PICK e, f : e = [name |-> p[x], leads |-> v[x]] /\ f = [name |-> p[x], leads |-> w[x]]
      OBVIOUS
    <3>1. e = f
      BY <2>4 DEF UniqueNames
    <3>2. e.leads = v[x] /\ f.leads = w[x]
      OBVIOUS
    <3> QED BY <3>1, <3>2
  <2> QED BY <2>1, <2>5
<1> QED BY <1>2, <1>3

LEMMA LeadIsUnique ==
  ASSUME UniqueNames, NEW p \in Seq(Names), NEW m, NEW n, Listing!Lead(folder, p, m),
         Listing!Lead(folder, p, n)
  PROVE  m = n
<1>1. PICK v \in [0 .. Len(p) -> DOMAIN folder \cup {Listing!File}] : Listing!Way(folder, p, v)
    /\ v[Len(p)] = m
  BY DEF Listing!Lead
<1>2. PICK w \in [0 .. Len(p) -> DOMAIN folder \cup {Listing!File}] : Listing!Way(folder, p, w)
    /\ w[Len(p)] = n
  BY DEF Listing!Lead
<1>3. Before(p, p) /\ Len(p) \in 0 .. Len(p)
  BY DEF Before
<1> QED BY <1>1, <1>2, <1>3, WaysAgree

LEMMA LeadExtends ==
  ASSUME UniqueNames, NEW p \in Seq(Names), NEW c \in DOMAIN folder, Listing!Lead(folder, p, c),
         NEW e \in folder[c]
  PROVE  /\ e.name \in Names /\ e.leads \in DOMAIN folder \cup {Listing!File}
         /\ Listing!Lead(folder, Append(p, e.name), e.leads)
<1>1. /\ e \in [name : Names, leads : DOMAIN folder \cup {Listing!File}]
      /\ e.name \in Names /\ e.leads \in DOMAIN folder \cup {Listing!File}
      /\ e = [name |-> e.name, leads |-> e.leads]
  BY DEF UniqueNames
<1>2. PICK v \in [0 .. Len(p) -> DOMAIN folder \cup {Listing!File}] : Listing!Way(folder, p, v)
    /\ v[Len(p)] = c
  BY DEF Listing!Lead
<1> PICK q : q = Append(p, e.name)
  OBVIOUS
<1> PICK k \in Nat : k = Len(p)
  OBVIOUS
<1>3. q \in Seq(Names) /\ Len(q) = k + 1 /\ q[k + 1] = e.name /\ \A i \in 1 .. k : q[i] = p[i]
  BY <1>1
<1> PICK w : w = [i \in 0 .. k + 1 |-> IF i <= k THEN v[i] ELSE e.leads]
  OBVIOUS
<1>4. /\ w \in [0 .. Len(q) -> DOMAIN folder \cup {Listing!File}] /\ w[k + 1] = e.leads
      /\ \A i \in 0 .. k : w[i] = v[i]
  BY <1>1, <1>3
<1>5. ASSUME NEW i \in 1 .. k + 1
      PROVE  w[i - 1] \in DOMAIN folder /\ [name |-> q[i], leads |-> w[i]] \in folder[w[i - 1]]
  <2>1. CASE i <= k
    <3>1. i \in 1 .. k /\ i - 1 \in 0 .. k /\ i \in 0 .. k
      BY <1>5, <2>1
    <3> QED BY <1>2, <1>3, <1>4, <3>1 DEF Listing!Way
  <2>2. CASE i = k + 1
    <3>1. i - 1 = k /\ k \in 0 .. k
      BY <2>2
    <3> QED BY <1>1, <1>2, <1>3, <1>4, <2>2, <3>1
  <2> QED BY <1>5, <2>1, <2>2
<1>6. Listing!Way(folder, q, w)
  <2>1. 0 \in 0 .. k
    OBVIOUS
  <2>2. w[0] = Listing!Root
    BY <1>2, <1>4, <2>1 DEF Listing!Way
  <2> QED BY <1>3, <1>5, <2>2 DEF Listing!Way
<1> QED BY <1>1, <1>3, <1>4, <1>6 DEF Listing!Lead

\* A path that goes on behind a directory goes on with one of its entries.
LEMMA LeadGoesThrough ==
  ASSUME UniqueNames, NEW p \in Seq(Names), NEW c, Listing!Lead(folder, p, c),
         NEW q \in Seq(Names), NEW n,
         Listing!Lead(folder, q, n), Before(p, q), Len(p) < Len(q)
  PROVE  /\ c \in DOMAIN folder
         /\ \E e \in folder[c] : Before(Append(p, e.name), q)
<1>1. PICK v \in [0 .. Len(p) -> DOMAIN folder \cup {Listing!File}] : Listing!Way(folder, p, v)
    /\ v[Len(p)] = c
  BY DEF Listing!Lead
<1>2. PICK w \in [0 .. Len(q) -> DOMAIN folder \cup {Listing!File}] : Listing!Way(folder, q, w)
    /\ w[Len(q)] = n
  BY DEF Listing!Lead
<1> PICK k \in Nat : k = Len(p)
  OBVIOUS
<1>3. Len(q) \in Nat /\ k + 1 \in 1 .. Len(q) /\ k + 1 - 1 = k /\ k \in 0 .. k
  OBVIOUS
<1>4. w[k] = c
  BY <1>1, <1>2, <1>3, WaysAgree
<1>5. c \in DOMAIN folder /\ [name |-> q[k + 1], leads |-> w[k + 1]] \in folder[c]
  BY <1>2, <1>3, <1>4 DEF Listing!Way
<1> PICK e : e = [name |-> q[k + 1], leads |-> w[k + 1]]
  OBVIOUS
<1> PICK r : r = Append(p, e.name)
  OBVIOUS
<1>6. Len(r) = k + 1 /\ r[k + 1] = q[k + 1] /\ \A i \in 1 .. k : r[i] = p[i]
  OBVIOUS
<1>7. Before(r, q)
  BY <1>3, <1>6 DEF Before
<1> QED BY <1>5, <1>7

-----------------------------------------------------------------------------
(* Stacks and lists.                                                       *)

LEMMA Popped ==
  ASSUME NEW S, NEW s \in Seq(S), s # <<>>
  PROVE  /\ Len(s) \in DOMAIN s /\ Listing!Last(s) = s[Len(s)] /\ Listing!Last(s) \in S
         /\ Listing!Front(s) \in Seq(S)
         /\ \A i \in DOMAIN Listing!Front(s) : i \in DOMAIN s /\ i # Len(s)
              /\ Listing!Front(s)[i] = s[i]
         /\ \A i \in DOMAIN s : i = Len(s) \/ i \in DOMAIN Listing!Front(s)
<1>1. Len(s) \in Nat /\ Len(s) # 0 /\ DOMAIN s = 1 .. Len(s)
  OBVIOUS
<1> PICK f : f = SubSeq(s, 1, Len(s) - 1)
  OBVIOUS
<1>2. f \in Seq(S) /\ Len(f) = Len(s) - 1 /\ DOMAIN f = 1 .. Len(s) - 1
      /\ \A i \in 1 .. Len(s) - 1 : f[i] = s[i]
  BY <1>1
<1>3. Listing!Front(s) = f
  BY DEF Listing!Front
<1> QED BY <1>1, <1>2, <1>3 DEF Listing!Last

LEMMA Pushed ==
  ASSUME NEW S, NEW s \in Seq(S), NEW x \in S
  PROVE  /\ Append(s, x) \in Seq(S) /\ Len(Append(s, x)) = Len(s) + 1
         /\ Len(s) + 1 \in DOMAIN Append(s, x) /\ Append(s, x)[Len(s) + 1] = x
         /\ Listing!Last(Append(s, x)) = x
         /\ \A i \in DOMAIN s :
              i \in DOMAIN Append(s, x) /\ i # Len(s) + 1 /\ Append(s, x)[i] = s[i]
         /\ \A i \in DOMAIN Append(s, x) : i = Len(s) + 1 \/ i \in DOMAIN s
<1>1. Len(s) \in Nat /\ DOMAIN s = 1 .. Len(s)
  OBVIOUS
<1> PICK t : t = Append(s, x)
  OBVIOUS
<1>2. /\ t \in Seq(S) /\ Len(t) = Len(s) + 1 /\ DOMAIN t = 1 .. Len(s) + 1
      /\ t[Len(s) + 1] = x /\ \A i \in 1 .. Len(s) : t[i] = s[i]
  BY <1>1
<1>3. Listing!Last(t) = x
  BY <1>2 DEF Listing!Last
<1> QED BY <1>1, <1>2, <1>3

\* A path that is not longer than one that it is at the beginning of is that one.
LEMMA BeforeOrSame ==
  ASSUME NEW T, NEW a \in Seq(T), NEW b \in Seq(T), Before(a, b)
  PROVE  a = b \/ Len(a) < Len(b)
<1>1. /\ Len(a) \in Nat /\ Len(b) \in Nat /\ Len(a) <= Len(b)
      /\ \A i \in 1 .. Len(a) : a[i] = b[i]
  BY DEF Before
<1>2. CASE Len(a) = Len(b)
  <2>1. Len(a) = Len(b) /\ \A i \in 1 .. Len(a) : a[i] = b[i]
    BY <1>1, <1>2
  <2>2. a = b
    BY <2>1
  <2> QED BY <2>2
<1> QED BY <1>1, <1>2

-----------------------------------------------------------------------------
(* ListingInv is inductive.                                                *)

LEMMA ListingBegins == ASSUME Listing!FolderConstants, Listing!Init PROVE ListingInv
<1>1. folder \in Folders /\ UniqueNames /\ Base \in Below /\ Rel(Base) = <<>>
  BY FolderHasUniqueNames, BaseIsBelow DEF Listing!Init
<1> PICK d : d = Listing!Directory(Base, Listing!Root)
  OBVIOUS
<1>2. /\ d \in [path : Below, node : DOMAIN folder] /\ d.path = Base /\ d.node = Listing!Root
  BY <1>1 DEF Listing!Directory, UniqueNames
<1>3. /\ directories \in Seq([path : Below, node : DOMAIN folder])
      /\ DOMAIN directories = {1} /\ directories[1] = d
  BY <1>2 DEF Listing!Init
<1>4. /\ found = {} /\ yielded = <<>> /\ listed = <<>> /\ DOMAIN yielded = {}
      /\ DOMAIN listed = {} /\ Len(listed) = 0 /\ Len(yielded) = 0
  BY DEF Listing!Init
<1>5. FolderTypes
  <2>1. yielded \in Seq(Below) /\ listed \in Seq([path : Seq(Names), of : Below])
    BY <1>4
  <2> QED BY <1>1, <1>3, <1>4, <2>1 DEF FolderTypes, Listing!Init
<1>6. PathsApart
  BY <1>3, <1>4 DEF PathsApart
<1>7. PathsLead
  <2>1. Listing!Lead(folder, <<>>, Listing!Root)
    BY <1>1, RootLeads DEF UniqueNames
  <2> QED BY <1>1, <1>2, <1>3, <1>4, <2>1 DEF PathsLead
<1>8. NothingLost
  <2>1. ASSUME NEW p \in Seq(Names) PROVE Pending(p)
    <3>1. Before(<<>>, p)
      BY DEF Before
    <3> QED BY <1>1, <1>2, <1>3, <3>1 DEF Pending
  <2> QED BY <2>1 DEF NothingLost
<1>9. CountsYielded /\ Listing!EntriesResolve
  BY <1>4 DEF Listing!Init, CountsYielded, Listing!EntriesResolve
<1> QED BY <1>5, <1>6, <1>7, <1>8, <1>9 DEF ListingInv

LEMMA FindFirstKeeps ==
  ASSUME Listing!FolderConstants, ListingInv, Listing!FindFirstFileEx PROVE ListingInv'
<1> PICK d, k : d = Listing!Last(directories) /\ k = Len(directories)
  OBVIOUS
<1> PICK R : R = [path : Below, node : DOMAIN folder]
  OBVIOUS
<1>1. /\ UniqueNames /\ FolderTypes /\ PathsApart /\ PathsLead /\ NothingLost /\ CountsYielded
      /\ folder \in Folders
  BY FolderHasUniqueNames DEF ListingInv, FolderTypes
<1>2. /\ status = "listing" /\ found = {} /\ directories # <<>>
      /\ directories' = Listing!Front(directories) /\ current_path' = d.path
      /\ folder' = folder /\ unreadable' = unreadable /\ yielded' = yielded
      /\ listed' = listed /\ result' = result
  BY DEF Listing!FindFirstFileEx
<1>3. /\ k \in DOMAIN directories /\ d = directories[k] /\ d \in R /\ directories' \in Seq(R)
      /\ \A i \in DOMAIN directories' :
           i \in DOMAIN directories /\ i # k /\ directories'[i] = directories[i]
      /\ \A i \in DOMAIN directories : i = k \/ i \in DOMAIN directories'
  <2>1. directories \in Seq(R)
    BY <1>1 DEF FolderTypes
  <2> QED BY <1>2, <2>1, Popped
<1>4. /\ d.path \in Below /\ d.node \in DOMAIN folder /\ d.path \in Seq(All)
      /\ Rel(d.path) \in Seq(Names) /\ Len(d.path) = Len(Base) + Len(Rel(d.path))
      /\ Listing!Lead(folder, Rel(d.path), d.node)
  <2>1. d.path \in Below /\ d.node \in DOMAIN folder
    BY <1>3
  <2>2. Listing!Lead(folder, Rel(d.path), d.node)
    BY <1>1, <1>3 DEF PathsLead
  <2>3. d.path = Base \o Rel(d.path) /\ Rel(d.path) \in Seq(Names) /\ d.path \in Seq(All)
    BY <2>1, BelowSplit
  <2> QED BY <2>1, <2>2, <2>3, BelowIs
<1>5. /\ \A i \in DOMAIN directories : directories[i].path \in Seq(All)
      /\ \A j \in DOMAIN yielded : yielded[j] \in Seq(All)
  <2>1. ASSUME NEW i \in DOMAIN directories PROVE directories[i].path \in Below
    <3>1. directories[i] \in [path : Below, node : DOMAIN folder]
      BY <1>1, ElementIn DEF FolderTypes
    <3> QED BY <3>1
  <2>2. ASSUME NEW j \in DOMAIN yielded PROVE yielded[j] \in Below
    BY <1>1 DEF FolderTypes
  <2> QED BY <2>1, <2>2, BelowSplit
<1>6. Listing!EntriesResolve'
  BY <1>2 DEF ListingInv, Listing!EntriesResolve
<1>7. ASSUME Listing!Opens(d), status' = status,
             found' = folder[d.node] \cup {[name |-> n, leads |-> d.node] : n \in Listing!Dots}
      PROVE  ListingInv'
  <2>1. /\ d.node \notin unreadable /\ Len(Rel(d.path)) <= MaxDepth
    <3>1. Len(Base) \in Nat /\ Len(Rel(d.path)) \in Nat /\ MaxDepth \in Nat
      BY <1>4 DEF Listing!FolderConstants
    <3> QED BY <1>4, <1>7, <3>1 DEF Listing!Opens
  <2>2. ASSUME NEW e \in found'
        PROVE  /\ e \in [name : Names \cup Listing!Dots, leads : DOMAIN folder \cup {Listing!File}]
               /\ (e.name \in Listing!Dots /\ e.leads # Listing!File)
                    \/ (e \in folder[d.node] /\ e.name \in Names)
               /\ e.name \in Listing!Dots => e.leads = d.node
    <3>1. CASE e \in folder[d.node]
      BY <1>1, <1>4, <3>1 DEF UniqueNames, Listing!FolderConstants
    <3>2. CASE e \notin folder[d.node]
      <4>1. PICK n \in Listing!Dots : e = [name |-> n, leads |-> d.node]
        BY <1>7, <2>2, <3>2
      <4>2. d.node # Listing!File
        BY <1>1, <1>4 DEF UniqueNames
      <4> QED BY <1>4, <4>1, <4>2
    <3> QED BY <3>1, <3>2
  <2>3. ASSUME NEW e \in found' PROVE e.name \in All
    BY <2>2, <2>3 DEF All
  <2>4. FolderTypes'
    BY <1>1, <1>2, <1>3, <1>4, <1>7, <2>2 DEF FolderTypes
  <2>5. PathsApart'
    <3>1. \A i, j \in DOMAIN directories' :
            i # j => Apart(directories'[i].path, directories'[j].path)
      BY <1>1, <1>3 DEF PathsApart
    <3>2. \A i, j \in DOMAIN yielded : i # j => Apart(yielded[i], yielded[j])
      BY <1>1 DEF PathsApart
    <3>3. \A i \in DOMAIN directories', j \in DOMAIN yielded :
            Apart(directories'[i].path, yielded[j])
      BY <1>1, <1>3 DEF PathsApart
    <3>4. ASSUME NEW e \in found', NEW i \in DOMAIN directories'
          PROVE  Apart(Append(d.path, e.name), directories'[i].path)
      <4>1. i \in DOMAIN directories /\ i # k /\ directories'[i] = directories[i]
        BY <1>3
      <4>2. Apart(d.path, directories[i].path)
        BY <1>1, <1>3, <4>1 DEF PathsApart
      <4> QED BY <1>4, <1>5, <2>3, <4>1, <4>2, ApartExtends
    <3>5. ASSUME NEW e \in found', NEW j \in DOMAIN yielded
          PROVE  Apart(Append(d.path, e.name), yielded[j])
      <4>1. Apart(d.path, yielded[j])
        BY <1>1, <1>3 DEF PathsApart
      <4> QED BY <1>4, <1>5, <2>3, <4>1, ApartExtends
    <3>6. ASSUME NEW e1 \in found', NEW e2 \in found', e1.name = e2.name PROVE e1 = e2
      <4>1. CASE e1.name \in Listing!Dots
        <5>1. e1.leads = d.node /\ e2.leads = d.node
          BY <2>2, <3>6, <4>1
        <5> QED BY <2>2, <3>6, <5>1
      <4>2. CASE e1.name \notin Listing!Dots
        <5>1. e1 \in folder[d.node] /\ e2 \in folder[d.node]
          BY <2>2, <3>6, <4>2
        <5> QED BY <1>1, <1>4, <3>6, <5>1 DEF UniqueNames
      <4> QED BY <4>1, <4>2
    <3> QED BY <1>2, <3>1, <3>2, <3>3, <3>4, <3>5, <3>6 DEF PathsApart
  <2>6. PathsLead'
    <3>1. ASSUME NEW i \in DOMAIN directories'
          PROVE  Listing!Lead(folder, Rel(directories'[i].path), directories'[i].node)
      <4>1. Listing!Lead(folder, Rel(directories[i].path), directories[i].node)
        BY <1>1, <1>3 DEF PathsLead
      <4> QED BY <1>2, <1>3, <4>1
    <3>2. Searched(d.node)'
      <4>1. Listing!Lead(folder, Rel(d.path), d.node)
        BY <1>2, <1>4
      <4> QED BY <1>2, <1>4, <2>1, <2>2, <4>1 DEF Searched
    <3>3. ASSUME NEW j \in DOMAIN yielded
          PROVE  Listing!Lead(folder, Rel(yielded[j]), Listing!File)
              /\ Len(Rel(yielded[j])) \in 1 .. MaxDepth + 1
      BY <1>1, <1>2 DEF PathsLead
    <3> QED BY <1>2, <3>1, <3>2, <3>3 DEF PathsLead
  <2>7. ASSUME NEW p \in Seq(Names), NEW n \in DOMAIN folder \cup {Listing!File},
      Listing!Lead(folder, p, n)
        PROVE  Pending(p)' \/ Returned(p)' \/ Listed(p, n)'
    <3>1. Pending(p) \/ Listed(p, n)
      BY <1>1, <1>2, <2>7 DEF NothingLost, Returned
    <3>2. CASE Listed(p, n)
      BY <1>2, <3>2 DEF Listed
    <3>3. CASE Pending(p)
      <4>1. PICK i \in DOMAIN directories : Before(Rel(directories[i].path), p)
        BY <3>3 DEF Pending
      <4>2. CASE i # k
        BY <1>3, <4>1, <4>2 DEF Pending
      <4>3. CASE i = k
        <5>1. Before(Rel(d.path), p)
          BY <1>3, <4>1, <4>3
        <5>2. CASE Rel(d.path) = p
          <6>1. n = d.node /\ n # Listing!File
            BY <1>1, <1>4, <2>7, <5>2, LeadIsUnique DEF UniqueNames
          <6> QED BY <1>2, <2>1, <5>2, <6>1 DEF Listed
        <5>3. CASE Len(Rel(d.path)) < Len(p)
          <6>1. PICK e \in folder[d.node] : Before(Append(Rel(d.path), e.name), p)
            BY <1>1, <1>4, <2>7, <5>1, <5>3, LeadGoesThrough
          <6> QED BY <1>2, <1>7, <6>1 DEF Returned
        <5> QED BY <1>4, <5>1, <5>2, <5>3, BeforeOrSame
      <4> QED BY <4>2, <4>3
    <3> QED BY <3>1, <3>2, <3>3
  <2>8. NothingLost'
    BY <1>2, <2>7 DEF NothingLost
  <2>9. CountsYielded'
    BY <1>1, <1>2, <1>7 DEF CountsYielded
  <2> QED BY <1>6, <2>4, <2>5, <2>6, <2>8, <2>9 DEF ListingInv
<1>8. ASSUME status' = "FileIO", found' = found PROVE ListingInv'
  <2>1. FolderTypes'
    BY <1>1, <1>2, <1>3, <1>4, <1>8 DEF FolderTypes
  <2>2. PathsApart'
    <3>1. \A i, j \in DOMAIN directories' :
            i # j => Apart(directories'[i].path, directories'[j].path)
      BY <1>1, <1>3 DEF PathsApart
    <3>2. \A i \in DOMAIN directories', j \in DOMAIN yielded :
            Apart(directories'[i].path, yielded[j])
      BY <1>1, <1>3 DEF PathsApart
    <3> QED BY <1>1, <1>2, <1>8, <3>1, <3>2 DEF PathsApart
  <2>3. PathsLead'
    <3>1. ASSUME NEW i \in DOMAIN directories'
          PROVE  Listing!Lead(folder, Rel(directories'[i].path), directories'[i].node)
      <4>1. Listing!Lead(folder, Rel(directories[i].path), directories[i].node)
        BY <1>1, <1>3 DEF PathsLead
      <4> QED BY <1>2, <1>3, <4>1
    <3>2. ASSUME NEW j \in DOMAIN yielded
          PROVE  Listing!Lead(folder, Rel(yielded[j]), Listing!File)
              /\ Len(Rel(yielded[j])) \in 1 .. MaxDepth + 1
      BY <1>1, <1>2 DEF PathsLead
    <3> QED BY <1>2, <1>8, <3>1, <3>2 DEF PathsLead
  <2>4. NothingLost' /\ CountsYielded'
    BY <1>1, <1>2, <1>8 DEF NothingLost, CountsYielded
  <2> QED BY <1>6, <2>1, <2>2, <2>3, <2>4 DEF ListingInv
<1> QED BY <1>7, <1>8 DEF Listing!FindFirstFileEx

LEMMA FindNextKeeps ==
  ASSUME Listing!FolderConstants, ListingInv, Listing!FindNextFile PROVE ListingInv'
<1> PICK R : R = [path : Below, node : DOMAIN folder]
  OBVIOUS
<1>1. /\ UniqueNames /\ FolderTypes /\ PathsApart /\ PathsLead /\ NothingLost /\ CountsYielded
      /\ folder \in Folders
  BY FolderHasUniqueNames DEF ListingInv, FolderTypes
<1>2. /\ status = "listing" /\ folder' = folder /\ unreadable' = unreadable
      /\ current_path' = current_path /\ listed' = listed /\ result' = result
  BY DEF Listing!FindNextFile
<1>3. PICK e \in found : found' = found \ {e}
    /\ (Listing!Skip(e) \/ Listing!Descend(e) \/ Listing!Yield(e))
  BY DEF Listing!FindNextFile
<1>4. /\ e \in [name : Names \cup Listing!Dots, leads : DOMAIN folder \cup {Listing!File}]
      /\ directories \in Seq(R) /\ yielded \in Seq(Below) /\ current_path \in Below
      /\ current_path \in Seq(All) /\ Rel(current_path) \in Seq(Names)
      /\ found' \subseteq found /\ e \notin found'
  BY <1>1, <1>3, BelowSplit DEF FolderTypes
<1>5. PICK c : Searched(c)
  BY <1>1, <1>3 DEF PathsLead
<1>6. /\ c \in DOMAIN folder /\ Listing!Lead(folder, Rel(current_path), c)
      /\ (e.name \in Listing!Dots /\ e.leads # Listing!File) \/ e \in folder[c]
      /\ Len(Rel(current_path)) <= MaxDepth
  BY <1>3, <1>5 DEF Searched
<1>7. Searched(c)'
  BY <1>2, <1>4, <1>5 DEF Searched
<1>8. Listing!EntriesResolve'
  BY <1>2 DEF ListingInv, Listing!EntriesResolve
<1>9. \A x \in found : x.name \in All
  BY <1>1 DEF FolderTypes, All
<1>10. CASE Listing!Skip(e)
  <2>1. /\ directories' = directories /\ yielded' = yielded /\ status' = status
             /\ e.name \in Listing!Dots
    BY <1>10 DEF Listing!Skip
  <2>2. FolderTypes'
    BY <1>1, <1>2, <1>4, <2>1 DEF FolderTypes
  <2>3. PathsApart'
    BY <1>1, <1>2, <1>4, <2>1 DEF PathsApart
  <2>4. PathsLead'
    BY <1>1, <1>2, <1>7, <2>1 DEF PathsLead
  <2>5. ASSUME NEW p \in Seq(Names) PROVE ~Before(Append(Rel(current_path), e.name), p)
    <3> PICK r, s : r = Rel(current_path) /\ s = Append(r, e.name)
      OBVIOUS
    <3>1. Len(r) \in Nat /\ Len(s) = Len(r) + 1 /\ s[Len(r) + 1] = e.name
      BY <1>4
    <3>2. ASSUME Before(s, p) PROVE FALSE
      <4>1. Len(r) + 1 \in 1 .. Len(s) /\ Len(r) + 1 \in 1 .. Len(p)
        BY <3>1, <3>2 DEF Before
      <4>2. p[Len(r) + 1] = e.name /\ p[Len(r) + 1] \in Names
        BY <3>1, <3>2, <4>1 DEF Before
      <4> QED BY <2>1, <4>2 DEF Listing!FolderConstants
    <3> QED BY <3>2
  <2>6. ASSUME NEW p \in Seq(Names), Returned(p) PROVE Returned(p)'
    BY <1>2, <1>3, <2>5, <2>6 DEF Returned
  <2>7. NothingLost'
    BY <1>1, <1>2, <2>1, <2>6 DEF NothingLost, Pending, Listed
  <2>8. CountsYielded'
    BY <1>1, <1>2, <2>1 DEF CountsYielded
  <2> QED BY <1>8, <2>2, <2>3, <2>4, <2>7, <2>8 DEF ListingInv
<1>11. ASSUME e \in folder[c]
       PROVE  /\ e.name \in Names /\ e.leads \in DOMAIN folder \cup {Listing!File}
              /\ Append(current_path, e.name) \in Below
              /\ Rel(Append(current_path, e.name)) = Append(Rel(current_path), e.name)
              /\ Listing!Lead(folder, Append(Rel(current_path), e.name), e.leads)
  BY <1>1, <1>4, <1>6, <1>11, LeadExtends, BelowAppend
<1> PICK x : x = Append(current_path, e.name)
  OBVIOUS
<1>12. /\ \A i \in DOMAIN directories : Apart(x, directories[i].path)
       /\ \A j \in DOMAIN yielded : Apart(x, yielded[j])
       /\ \A f \in found' : Apart(Append(current_path, f.name), x)
  <2>1. ASSUME NEW f \in found' PROVE Apart(Append(current_path, f.name), x)
    <3>1. f.name # e.name
      BY <1>1, <1>3, <1>4 DEF PathsApart
    <3> QED BY <1>3, <1>4, <1>9, <3>1, ApartNames
  <2> QED BY <1>1, <1>3, <2>1 DEF PathsApart
<1>13. CASE Listing!Descend(e)
  <2> PICK d, k : d = Listing!Directory(x, e.leads) /\ k = Len(directories) + 1
    OBVIOUS
  <2>1. /\ directories' = Append(directories, d) /\ yielded' = yielded /\ status' = status
        /\ e.leads # Listing!File /\ e.name \notin Listing!Dots
    BY <1>13 DEF Listing!Descend
  <2>2. e \in folder[c] /\ e.leads \in DOMAIN folder
    BY <1>6, <1>11, <2>1
  <2>3. d \in R /\ d.path = x /\ d.node = e.leads
    BY <1>11, <2>2 DEF Listing!Directory
  <2>4. /\ directories' \in Seq(R) /\ k \in DOMAIN directories' /\ directories'[k] = d
        /\ \A i \in DOMAIN directories :
             i \in DOMAIN directories' /\ i # k /\ directories'[i] = directories[i]
        /\ \A i \in DOMAIN directories' : i = k \/ i \in DOMAIN directories
    BY <1>4, <2>1, <2>3, Pushed
  <2>5. FolderTypes'
    BY <1>1, <1>2, <1>4, <2>1, <2>4 DEF FolderTypes
  <2>6. PathsApart'
    <3>1. ASSUME NEW i \in DOMAIN directories', NEW j \in DOMAIN directories', i # j
          PROVE  Apart(directories'[i].path, directories'[j].path)
      <4>1. CASE i = k
        BY <1>12, <2>3, <2>4, <3>1, <4>1
      <4>2. CASE j = k
        BY <1>12, <2>3, <2>4, <3>1, <4>2, ApartIsSymmetric
      <4>3. CASE i # k /\ j # k
        BY <1>1, <2>4, <3>1, <4>3 DEF PathsApart
      <4> QED BY <4>1, <4>2, <4>3
    <3>2. ASSUME NEW i \in DOMAIN directories', NEW j \in DOMAIN yielded
          PROVE  Apart(directories'[i].path, yielded[j])
      <4>1. CASE i = k
        BY <1>12, <2>3, <2>4, <4>1
      <4>2. CASE i # k
        BY <1>1, <2>4, <4>2 DEF PathsApart
      <4> QED BY <4>1, <4>2
    <3>3. ASSUME NEW f \in found', NEW i \in DOMAIN directories'
          PROVE  Apart(Append(current_path, f.name), directories'[i].path)
      <4>1. CASE i = k
        BY <1>12, <2>3, <2>4, <4>1
      <4>2. CASE i # k
        BY <1>1, <1>4, <2>4, <4>2 DEF PathsApart
      <4> QED BY <4>1, <4>2
    <3> QED BY <1>1, <1>2, <1>4, <2>1, <3>1, <3>2, <3>3 DEF PathsApart
  <2>7. PathsLead'
    <3>1. ASSUME NEW i \in DOMAIN directories'
          PROVE  Listing!Lead(folder, Rel(directories'[i].path), directories'[i].node)
      <4>1. CASE i = k
        BY <1>11, <2>2, <2>3, <2>4, <4>1
      <4>2. CASE i # k
        BY <1>1, <2>4, <4>2 DEF PathsLead
      <4> QED BY <4>1, <4>2
    <3> QED BY <1>1, <1>2, <1>7, <2>1, <3>1 DEF PathsLead
  <2>8. NothingLost'
    <3>1. ASSUME NEW p, Pending(p) PROVE Pending(p)'
      BY <2>4, <3>1 DEF Pending
    <3>2. ASSUME NEW p, Returned(p) PROVE Returned(p)' \/ Pending(p)'
      <4>1. PICK f \in found : Before(Append(Rel(current_path), f.name), p)
        BY <3>2 DEF Returned
      <4>2. CASE f = e
        BY <1>11, <2>2, <2>3, <2>4, <4>1, <4>2 DEF Pending
      <4>3. CASE f # e
        BY <1>2, <1>3, <4>1, <4>3 DEF Returned
      <4> QED BY <4>2, <4>3
    <3> QED BY <1>1, <1>2, <2>1, <3>1, <3>2 DEF NothingLost, Listed
  <2>9. CountsYielded'
    BY <1>1, <1>2, <2>1 DEF CountsYielded
  <2> QED BY <1>8, <2>5, <2>6, <2>7, <2>8, <2>9 DEF ListingInv
<1>14. CASE Listing!Yield(e)
  <2> PICK k : k = Len(yielded) + 1
    OBVIOUS
  <2>1. /\ yielded' = Append(yielded, x) /\ status' = "file" /\ directories' = directories
        /\ e.leads = Listing!File /\ e \in folder[c]
    BY <1>6, <1>14 DEF Listing!Yield
  <2>2. x \in Below /\ Rel(x) = Append(Rel(current_path), e.name)
        /\ Listing!Lead(folder, Rel(x), Listing!File)
    BY <1>11, <2>1
  <2>3. Len(Rel(x)) \in 1 .. MaxDepth + 1
    <3>1. Len(Rel(x)) = Len(Rel(current_path)) + 1 /\ Len(Rel(current_path)) \in Nat
      BY <1>4, <1>11, <2>1, <2>2
    <3>2. MaxDepth \in Nat
      BY DEF Listing!FolderConstants
    <3> QED BY <1>6, <3>1, <3>2
  <2>4. /\ yielded' \in Seq(Below) /\ k \in DOMAIN yielded' /\ yielded'[k] = x
        /\ \A i \in DOMAIN yielded : i \in DOMAIN yielded' /\ i # k /\ yielded'[i] = yielded[i]
        /\ \A i \in DOMAIN yielded' : i = k \/ i \in DOMAIN yielded
    BY <1>4, <2>1, <2>2, Pushed
  <2>5. FolderTypes'
    BY <1>1, <1>2, <1>4, <2>1, <2>4 DEF FolderTypes
  <2>6. PathsApart'
    <3>1. ASSUME NEW i \in DOMAIN yielded', NEW j \in DOMAIN yielded', i # j
          PROVE  Apart(yielded'[i], yielded'[j])
      <4>1. CASE i = k
        BY <1>12, <2>4, <3>1, <4>1
      <4>2. CASE j = k
        BY <1>12, <2>4, <3>1, <4>2, ApartIsSymmetric
      <4>3. CASE i # k /\ j # k
        BY <1>1, <2>4, <3>1, <4>3 DEF PathsApart
      <4> QED BY <4>1, <4>2, <4>3
    <3>2. ASSUME NEW i \in DOMAIN directories, NEW j \in DOMAIN yielded'
          PROVE  Apart(directories[i].path, yielded'[j])
      <4>1. CASE j = k
        BY <1>12, <2>4, <4>1, ApartIsSymmetric
      <4>2. CASE j # k
        BY <1>1, <2>4, <4>2 DEF PathsApart
      <4> QED BY <4>1, <4>2
    <3>3. ASSUME NEW f \in found', NEW j \in DOMAIN yielded'
          PROVE  Apart(Append(current_path, f.name), yielded'[j])
      <4>1. CASE j = k
        BY <1>12, <2>4, <4>1
      <4>2. CASE j # k
        BY <1>1, <1>4, <2>4, <4>2 DEF PathsApart
      <4> QED BY <4>1, <4>2
    <3> QED BY <1>1, <1>2, <1>4, <2>1, <3>1, <3>2, <3>3 DEF PathsApart
  <2>7. PathsLead'
    <3>1. ASSUME NEW j \in DOMAIN yielded'
          PROVE  /\ Listing!Lead(folder, Rel(yielded'[j]), Listing!File)
                 /\ Len(Rel(yielded'[j])) \in 1 .. MaxDepth + 1
      <4>1. CASE j = k
        BY <2>2, <2>3, <2>4, <4>1
      <4>2. CASE j # k
        BY <1>1, <2>4, <4>2 DEF PathsLead
      <4> QED BY <4>1, <4>2
    <3> QED BY <1>1, <1>2, <1>7, <2>1, <3>1 DEF PathsLead
  <2>8. NothingLost'
    <3>1. ASSUME NEW p \in Seq(Names), NEW n, Listing!Lead(folder, p, n), Returned(p)
          PROVE  Returned(p)' \/ Listed(p, n)'
      <4>1. PICK f \in found : Before(Append(Rel(current_path), f.name), p)
        BY <3>1 DEF Returned
      <4>2. CASE f = e
        <5>1. Before(Rel(x), p) /\ Rel(x) \in Seq(Names)
          BY <2>2, <4>1, <4>2, BelowSplit
        <5>2. Listing!File \notin DOMAIN folder
          BY <1>1 DEF UniqueNames
        <5>3. ~(Len(Rel(x)) < Len(p))
          BY <1>1, <2>2, <3>1, <5>1, <5>2, LeadGoesThrough
        <5>4. Rel(x) = p
          BY <5>1, <5>3, BeforeOrSame
        <5>5. n = Listing!File
          BY <1>1, <2>2, <3>1, <5>4, LeadIsUnique
        <5> QED BY <2>4, <5>4, <5>5 DEF Listed
      <4>3. CASE f # e
        BY <1>2, <1>3, <4>1, <4>3 DEF Returned
      <4> QED BY <4>2, <4>3
    <3>2. ASSUME NEW p, NEW n, Listed(p, n) PROVE Listed(p, n)'
      BY <1>2, <2>4, <3>2 DEF Listed
    <3> QED BY <1>1, <1>2, <2>1, <3>1, <3>2 DEF NothingLost, Pending
  <2>9. CountsYielded'
    <3>1. Len(yielded') = Len(yielded) + 1 /\ Len(yielded) \in Nat /\ Len(listed) \in Nat
          /\ result.bad \in Nat
      BY <1>1, <1>4, <2>1, <2>2, Pushed DEF FolderTypes
    <3> QED BY <1>1, <1>2, <2>1, <3>1 DEF CountsYielded
  <2> QED BY <1>8, <2>5, <2>6, <2>7, <2>8, <2>9 DEF ListingInv
<1> QED BY <1>3, <1>10, <1>13, <1>14

\* The steps of doCreate() leave the search where it is.
LEMMA DoCreateKeeps ==
  ASSUME Listing!FolderConstants, ListingInv,
         Listing!SearchFails \/ Listing!OpenFails \/ Listing!DigestReady \/ Listing!HashError
             \/ Listing!Canceled \/ Listing!writeNewFile
  PROVE  ListingInv'
<1>1. /\ FolderTypes /\ PathsApart /\ PathsLead /\ NothingLost /\ CountsYielded
           /\ Listing!EntriesResolve
  BY DEF ListingInv
<1>2. /\ folder' = folder /\ unreadable' = unreadable /\ directories' = directories
      /\ current_path' = current_path /\ found' = found /\ yielded' = yielded
  BY DEF Listing!SearchFails, Listing!OpenFails, Listing!DigestReady, Listing!HashError,
         Listing!Canceled, Listing!writeNewFile, Listing!searchVars
<1>3. PathsApart' /\ PathsLead'
  BY <1>1, <1>2 DEF PathsApart, PathsLead, Searched
<1>4. NothingLost'
  <2>1. status # "FileIO"
    BY DEF Listing!SearchFails, Listing!OpenFails, Listing!DigestReady, Listing!HashError,
           Listing!Canceled, Listing!writeNewFile
  <2> QED BY <1>1, <1>2, <2>1 DEF NothingLost, Pending, Returned, Listed
<1>5. /\ Len(listed) \in Nat /\ Len(yielded) \in Nat
           /\ result \in [ok : Nat, bad : Nat, total : Nat]
  BY <1>1 DEF FolderTypes
<1>p. PICK ok, bad, total : ok = result.ok /\ bad = result.bad /\ total = result.total
  OBVIOUS
<1>6. /\ ok \in Nat /\ bad \in Nat /\ total \in Nat
      /\ result = [ok |-> ok, bad |-> bad, total |-> total]
  BY <1>5, <1>p
<1>7. CASE Listing!DigestReady
  <2>x. PICK x : x = Listing!file
    OBVIOUS
  <2>e. PICK e : e = [path |-> Rel(x), of |-> x]
    OBVIOUS
  <2>1. /\ status = "file" /\ status' = "listing" /\ listed' = Append(listed, e)
        /\ result' = [ok |-> ok + 1, bad |-> bad, total |-> total + 1]
    BY <1>6, <1>7, <2>x, <2>e DEF Listing!DigestReady, Rel
  <2>2. x \in Below
    <3>1. yielded \in Seq(Below) /\ yielded # <<>>
      <4>1. Len(yielded) # 0
        BY <1>1, <1>5, <1>6, <2>1 DEF CountsYielded
      <4> QED BY <1>1, <4>1 DEF FolderTypes
    <3> QED BY <2>x, <3>1, Popped DEF Listing!file
  <2>3. /\ Rel(x) \in Seq(Names) /\ x = Base \o Rel(x)
    BY <2>2, BelowSplit
  <2>4. /\ e \in [path : Seq(Names), of : Below] /\ e.path = Rel(x) /\ e.of = x
    BY <2>2, <2>3, <2>e
  <2>5. /\ listed' \in Seq([path : Seq(Names), of : Below]) /\ Len(listed') = Len(listed) + 1
        /\ listed'[Len(listed) + 1] = e
        /\ \A i \in DOMAIN listed : listed'[i] = listed[i]
        /\ \A i \in DOMAIN listed' : i = Len(listed) + 1 \/ i \in DOMAIN listed
    <3>1. /\ listed \in Seq([path : Seq(Names), of : Below])
          /\ e \in [path : Seq(Names), of : Below] /\ listed' = Append(listed, e)
      BY <1>1, <2>1, <2>4 DEF FolderTypes
    <3> QED BY ONLY <3>1, Pushed
  <2>6. FolderTypes'
    <3>1. result' \in [ok : Nat, bad : Nat, total : Nat]
      BY <1>6, <2>1
    <3> QED BY <1>1, <1>2, <2>1, <2>5, <3>1 DEF FolderTypes
  <2>7. Listing!EntriesResolve'
    BY <1>1, <2>3, <2>4, <2>5 DEF Listing!EntriesResolve
  <2>8. CountsYielded'
    <3>1. result'.ok = ok + 1 /\ result'.bad = bad /\ result.ok = ok /\ result.bad = bad
      BY <1>6, <2>1
    <3>2. Len(listed) = ok /\ Len(yielded) = Len(listed) + bad + 1
      BY <1>1, <2>1, <3>1 DEF CountsYielded
    <3>3. Len(listed') = ok + 1 /\ Len(yielded') = Len(listed') + bad
      BY <1>2, <1>6, <2>5, <3>2
    <3> QED BY <2>1, <3>1, <3>3 DEF CountsYielded
  <2> QED BY <1>3, <1>4, <2>6, <2>7, <2>8 DEF ListingInv
<1>8. CASE Listing!OpenFails \/ Listing!HashError
  <2>1. /\ status = "file" /\ status' = "listing" /\ listed' = listed
        /\ \E n \in {total, total + 1} : result' = [ok |-> ok, bad |-> bad + 1, total |-> n]
    BY <1>6, <1>8 DEF Listing!OpenFails, Listing!HashError
  <2>2. result' \in [ok : Nat, bad : Nat, total : Nat] /\ result'.ok = ok /\ result'.bad = bad + 1
    BY <1>6, <2>1
  <2>3. FolderTypes'
    BY <1>1, <1>2, <2>1, <2>2 DEF FolderTypes
  <2>4. Listing!EntriesResolve'
    BY <1>1, <2>1 DEF Listing!EntriesResolve
  <2>5. CountsYielded'
    <3>1. result.ok = ok /\ result.bad = bad
      BY <1>6
    <3> QED BY <1>1, <1>2, <1>5, <1>6, <2>1, <2>2, <3>1 DEF CountsYielded
  <2> QED BY <1>3, <1>4, <2>3, <2>4, <2>5 DEF ListingInv
<1>9. CASE Listing!SearchFails \/ Listing!Canceled \/ Listing!writeNewFile
  <2>1. /\ listed' = listed /\ result' = result
        /\ \/ status' \in {"FileIO", "canceled"}
           \/ status = "listing" /\ status' = "written" /\ found = {} /\ directories = <<>>
    BY <1>9 DEF Listing!SearchFails, Listing!Canceled, Listing!writeNewFile
  <2>2. FolderTypes' /\ Listing!EntriesResolve'
    BY <1>1, <1>2, <2>1 DEF FolderTypes, Listing!EntriesResolve
  <2>3. CountsYielded'
    BY <1>1, <1>2, <2>1 DEF CountsYielded
  <2> QED BY <1>3, <1>4, <2>2, <2>3 DEF ListingInv
<1> QED BY <1>7, <1>8, <1>9

LEMMA ListingKept == ASSUME Listing!FolderConstants, ListingInv, [Listing!Next]_(Listing!vars)
    PROVE ListingInv'
<1>1. CASE Listing!FindFirstFileEx
  BY <1>1, FindFirstKeeps
<1>2. CASE Listing!FindNextFile
  BY <1>2, FindNextKeeps
<1>3. CASE Listing!SearchFails \/ Listing!OpenFails \/ Listing!DigestReady \/ Listing!HashError
    \/ Listing!Canceled \/ Listing!writeNewFile
  BY <1>3, DoCreateKeeps
<1>4. CASE UNCHANGED Listing!vars
  BY <1>4 DEF Listing!vars, ListingInv, FolderTypes, PathsApart, PathsLead, NothingLost,
              CountsYielded,
              Listing!EntriesResolve, Searched, Pending, Returned, Listed
<1> QED BY <1>1, <1>2, <1>3, <1>4 DEF Listing!Next

LEMMA ListingInvariant == ASSUME Listing!FolderConstants PROVE Listing!Spec => []ListingInv
<1>1. Listing!Init => ListingInv
  BY ListingBegins
<1>2. ListingInv /\ [Listing!Next]_(Listing!vars) => ListingInv'
  BY ListingKept
<1> QED BY <1>1, <1>2, PTL DEF Listing!Spec

-----------------------------------------------------------------------------
(* What ListingInv says of a checksum file that is written.                 *)

LEMMA BelowBaseIs ==
  ASSUME NEW n \in Nat, NEW p
  PROVE  p \in Listing!BelowBase(n) <=> p \in Seq(Names) /\ Len(p) \in 1 .. n
<1>1. ASSUME p \in Listing!BelowBase(n) PROVE p \in Seq(Names) /\ Len(p) \in 1 .. n
  <2>1. PICK k \in 1 .. n : p \in [1 .. k -> Names]
    BY <1>1 DEF Listing!BelowBase
  <2>2. k \in Nat
    BY <2>1
  <2> QED BY <2>1, <2>2, IsSequence
<1>2. ASSUME p \in Seq(Names), Len(p) \in 1 .. n PROVE p \in Listing!BelowBase(n)
  <2>1. p \in [1 .. Len(p) -> Names]
    BY <1>2
  <2> QED BY <1>2, <2>1 DEF Listing!BelowBase
<1> QED BY <1>1, <1>2

LEMMA YieldedIsInjective == ASSUME Listing!FolderConstants, ListingInv
    PROVE Listing!IsInjective(yielded)
<1>1. ASSUME NEW i \in DOMAIN yielded, NEW j \in DOMAIN yielded, yielded[i] = yielded[j]
      PROVE  i = j
  <2>1. yielded[i] \in Seq(All)
    <3>1. yielded[i] \in Below
      BY ElementIn DEF ListingInv, FolderTypes
    <3> QED BY <3>1, BelowSplit
  <2>2. Before(yielded[i], yielded[i])
    BY <2>1 DEF Before
  <2>3. i # j => Apart(yielded[i], yielded[j])
    BY DEF ListingInv, PathsApart
  <2> QED BY <1>1, <2>2, <2>3 DEF Apart
<1> QED BY <1>1 DEF Listing!IsInjective

LEMMA WrittenIsListed ==
  ASSUME Listing!FolderConstants, ListingInv, status = "written", NEW p \in Seq(Names),
         NEW n \in DOMAIN folder \cup {Listing!File}, Listing!Lead(folder, p, n)
  PROVE  Listed(p, n)
<1>1. found = {} /\ directories = <<>> /\ NothingLost
  BY DEF ListingInv, CountsYielded
<1>2. ~Pending(p) /\ ~Returned(p)
  BY <1>1 DEF Pending, Returned
<1> QED BY <1>1, <1>2 DEF NothingLost

LEMMA WrittenListsFiles ==
  ASSUME Listing!FolderConstants, ListingInv, status = "written"
         PROVE Listing!ToSet(yielded) = Listing!FilesBelow
<1>1. MaxDepth + 1 \in Nat
  BY DEF Listing!FolderConstants
<1>2. ASSUME NEW x \in Listing!ToSet(yielded) PROVE x \in Listing!FilesBelow
  <2>1. PICK j \in DOMAIN yielded : x = yielded[j]
    BY DEF Listing!ToSet
  <2>2. x \in Below /\ Listing!Lead(folder, Rel(x), Listing!File)
      /\ Len(Rel(x)) \in 1 .. MaxDepth + 1
    BY <2>1, ElementIn DEF ListingInv, FolderTypes, PathsLead
  <2>3. x = Base \o Rel(x) /\ Rel(x) \in Listing!BelowBase(MaxDepth + 1)
    BY <1>1, <2>2, BelowSplit, BelowBaseIs
  <2> QED BY <2>2, <2>3 DEF Listing!FilesBelow
<1>3. ASSUME NEW x \in Listing!FilesBelow PROVE x \in Listing!ToSet(yielded)
  <2>1. PICK q \in Listing!BelowBase(MaxDepth + 1) : Listing!Lead(folder, q, Listing!File)
      /\ x = Base \o q
    BY DEF Listing!FilesBelow
  <2>2. q \in Seq(Names)
    BY <1>1, BelowBaseIs
  <2>3. PICK j \in DOMAIN yielded : Rel(yielded[j]) = q
    BY <2>1, <2>2, WrittenIsListed DEF Listed
  <2>4. yielded[j] \in Below
    BY ElementIn DEF ListingInv, FolderTypes
  <2>5. yielded[j] = x
    BY <2>1, <2>3, <2>4, BelowSplit
  <2> QED BY <2>5 DEF Listing!ToSet
<1> QED BY <1>2, <1>3

LEMMA ListsOnce == ASSUME Listing!FolderConstants, ListingInv PROVE Listing!ListedOnce
<1>1. ASSUME NEW i \in DOMAIN yielded
      PROVE  Listing!IsPrefix(Base, yielded[i])
          /\ Listing!Lead(folder, Listing!relativePathTo(yielded[i]), Listing!File)
  <2>1. yielded[i] \in Below
    BY ElementIn DEF ListingInv, FolderTypes
  <2> QED BY <2>1, BelowSplit DEF ListingInv, PathsLead, Rel
<1> QED BY <1>1, YieldedIsInjective, WrittenListsFiles DEF Listing!ListedOnce

LEMMA SameCardinality == ASSUME NEW S PROVE Listing!Cardinality(S) = Cardinality(S)
BY DEF Listing!Cardinality, Cardinality

LEMMA WritesTheWhole == ASSUME Listing!FolderConstants, ListingInv PROVE Listing!WrittenIsWhole
<1> SUFFICES ASSUME status = "written"
             PROVE  /\ unreadable \cap Listing!Directories(MaxDepth) = {} /\ ~Listing!TooDeep
                    /\ Len(listed) + result.bad = Listing!Cardinality(Listing!FilesBelow)
  BY DEF Listing!WrittenIsWhole
<1>1. /\ MaxDepth \in Nat /\ MaxDepth + 1 \in Nat /\ UniqueNames
  BY FolderHasUniqueNames DEF Listing!FolderConstants, ListingInv, FolderTypes
<1>2. ASSUME NEW d \in Listing!Directories(MaxDepth) PROVE d \notin unreadable
  <2>1. d \in DOMAIN folder /\ d # Listing!File
    BY <1>1 DEF UniqueNames, Listing!Directories
  <2>2. \E p \in Seq(Names) : Listing!Lead(folder, p, d)
    <3>1. CASE d = Listing!Root
      <4>1. <<>> \in Seq(Names)
        OBVIOUS
      <4> QED BY <2>1, <3>1, <4>1, RootLeads
    <3>2. CASE d # Listing!Root
      BY <1>1, <3>2, BelowBaseIs DEF Listing!Directories
    <3> QED BY <3>1, <3>2
  <2> QED BY <2>1, <2>2, WrittenIsListed DEF Listed
<1>3. ASSUME NEW p \in Listing!BelowBase(MaxDepth + 1), NEW d \in DOMAIN folder,
             Len(p) = MaxDepth + 1, Listing!Lead(folder, p, d)
      PROVE  FALSE
  <2>1. p \in Seq(Names) /\ d # Listing!File
    BY <1>1, BelowBaseIs DEF UniqueNames
  <2>2. Len(p) <= MaxDepth
    BY <1>3, <2>1, WrittenIsListed DEF Listed
  <2> QED BY <1>1, <1>3, <2>2
<1>4. Listing!Cardinality(Listing!FilesBelow) = Len(yielded)
  <2>1. yielded \in Seq(Below)
    BY DEF ListingInv, FolderTypes
  <2> PICK n \in Nat : n = Len(yielded) /\ DOMAIN yielded = 1 .. n
    BY <2>1
  <2>2. yielded \in Bijection(1 .. n, Listing!FilesBelow)
    <3>1. \A i, j \in 1 .. n : yielded[i] = yielded[j] => i = j
      BY YieldedIsInjective DEF Listing!IsInjective
    <3>2. Listing!FilesBelow = {yielded[i] : i \in 1 .. n}
      BY WrittenListsFiles DEF Listing!ToSet
    <3>3. yielded \in [1 .. n -> Listing!FilesBelow]
      BY <2>1, <3>2
    <3>4. \A x \in Listing!FilesBelow : \E i \in 1 .. n : yielded[i] = x
      BY <3>2
    <3> QED BY <3>1, <3>3, <3>4 DEF Bijection, Injection, Surjection, IsInjective
  <2>3. Cardinality(Listing!FilesBelow) = n
    BY <2>2, UpToN, FS_Bijection DEF ExistsBijection
  <2> QED BY <2>3, SameCardinality
<1>5. Len(yielded) = Len(listed) + result.bad
  BY DEF ListingInv, CountsYielded
<1> QED BY <1>2, <1>3, <1>4, <1>5 DEF Listing!TooDeep

-----------------------------------------------------------------------------
(* RarArchive: how much of a signature and a version the bytes read so far *)
(* end with is how far the comparison is.                                  *)

Rar5 == Signature \o <<1, 0>>
Rar4 == Signature \o <<0>>
Length == Len(Signature)

\* The last bytes of d are the first n of Rar5; all but the first of these.
Begins(d, n) == n <= Len(d) /\ \A k \in 1 .. n : d[Len(d) - n + k] = Rar5[k]
Follows(d, n) == n - 1 <= Len(d) /\ \A k \in 2 .. n : d[Len(d) - n + k] = Rar5[k]

Position ==
  CASE pc = "Compare" -> next - 1
    [] pc = "Version" -> Length
    [] pc = "Minor" -> Length + 1
    [] OTHER -> 0

SearchInv ==
  /\ data \in Seq(Bytes) /\ next \in 2 .. Length
       /\ {byte, start} \subseteq Bytes \cup {Archive!Uninitialized}
  /\ pc \in Archive!Searching /\ ~end =>
       /\ Follows(data, Position)
       /\ \A n \in 1 .. Length + 1 : Begins(data, n) => Position = n
  /\ pc = "Version" => byte = Signature[Length]
  /\ pc = "Minor" => byte = 1

Occurs(w, d, k) == \A m \in 1 .. Len(w) : d[k + m] = w[m]
NoneOccurs == \A w \in Archive!Whole : \A k \in 0 .. Len(data) - Len(w) : ~Occurs(w, data, k)

LEMMA SignatureIs ==
  ASSUME Archive!RarConstants
  PROVE  /\ Length \in Nat /\ Length > 1 /\ Rar5 \in Seq(Bytes) /\ Len(Rar5) = Length + 2
         /\ Rar5[Length + 1] = 1 /\ Rar5[Length + 2] = 0
         /\ \A k \in 1 .. Length : /\ Rar5[k] = Signature[k] /\ Signature[k] \in Bytes
                                   /\ Signature[k] \notin {0, 1, Archive!Uninitialized}
         /\ \A k \in 2 .. Length : Signature[k] # Signature[1]
         /\ Rar4 \in Seq(Bytes) /\ Len(Rar4) = Length + 1 /\ Rar4[Length + 1] = 0
         /\ \A k \in 1 .. Length : Rar4[k] = Signature[k]
<1> PICK s : s = Signature
  OBVIOUS
<1>1. /\ s \in Seq(Bytes \ {0, 1}) /\ Len(s) > 1 /\ Archive!IsInjective(s) /\ Bytes \subseteq Nat
      /\ {0, 1} \subseteq Bytes
  BY DEF Archive!RarConstants
<1>2. Len(s) \in Nat /\ DOMAIN s = 1 .. Len(s) /\ \A k \in 1 .. Len(s) : s[k] \in Bytes \ {0, 1}
  BY <1>1
<1>3. s \in Seq(Bytes) /\ <<1, 0>> \in Seq(Bytes) /\ <<0>> \in Seq(Bytes)
  BY <1>1, <1>2
<1> PICK t, u : t = s \o <<1, 0>> /\ u = s \o <<0>>
  OBVIOUS
<1>4. /\ t \in Seq(Bytes) /\ Len(t) = Len(s) + 2 /\ t[Len(s) + 1] = 1 /\ t[Len(s) + 2] = 0
      /\ \A k \in 1 .. Len(s) : t[k] = s[k]
  BY <1>3
<1>5. /\ u \in Seq(Bytes) /\ Len(u) = Len(s) + 1 /\ u[Len(s) + 1] = 0
      /\ \A k \in 1 .. Len(s) : u[k] = s[k]
  BY <1>3
<1>6. \A k \in 1 .. Len(s) : s[k] # Archive!Uninitialized
  BY <1>1, <1>2 DEF Archive!Uninitialized
<1>7. ASSUME NEW k \in 2 .. Len(s) PROVE s[k] # s[1]
  <2>1. k \in DOMAIN s /\ 1 \in DOMAIN s /\ k # 1
    BY <1>1, <1>2
  <2> QED BY <1>1, <2>1 DEF Archive!IsInjective
<1> QED BY <1>1, <1>2, <1>4, <1>5, <1>6, <1>7 DEF Length, Rar5, Rar4

LEMMA Appended ==
  ASSUME NEW d \in Seq(Bytes), NEW c \in Bytes
  PROVE  /\ Append(d, c) \in Seq(Bytes) /\ Len(d) \in Nat /\ Len(Append(d, c)) = Len(d) + 1
         /\ Append(d, c)[Len(d) + 1] = c
         /\ \A k \in 1 .. Len(d) : Append(d, c)[k] = d[k]
OBVIOUS

LEMMA BeginsBefore ==
  ASSUME NEW d \in Seq(Bytes), NEW c \in Bytes, NEW n \in Nat \ {0}, Begins(Append(d, c), n)
  PROVE  c = Rar5[n] /\ Begins(d, n - 1)
<1>p. PICK e, m : e = Append(d, c) /\ m = Len(d)
  OBVIOUS
<1>1. /\ m \in Nat /\ Len(e) = m + 1 /\ e[m + 1] = c /\ \A k \in 1 .. m : e[k] = d[k]
  BY <1>p, Appended
<1>2. n <= m + 1 /\ \A k \in 1 .. n : e[m + 1 - n + k] = Rar5[k]
  <2>1. Begins(e, n)
    BY <1>p
  <2> QED BY <1>1, <2>1 DEF Begins
<1>3. c = Rar5[n]
  <2>1. n \in 1 .. n /\ m + 1 - n + n = m + 1
    BY <1>1
  <2> QED BY <1>1, <1>2, <2>1
<1>4. ASSUME NEW k \in 1 .. n - 1 PROVE d[m - (n - 1) + k] = Rar5[k]
  <2>1. k \in 1 .. n /\ m + 1 - n + k \in 1 .. m /\ m + 1 - n + k = m - (n - 1) + k
    BY <1>1, <1>2, <1>4
  <2> QED BY <1>1, <1>2, <2>1
<1> QED BY <1>p, <1>1, <1>2, <1>3, <1>4 DEF Begins

LEMMA FollowsNext ==
  ASSUME NEW d \in Seq(Bytes), NEW c \in Bytes, NEW n \in Nat \ {0}, Follows(d, n),
         c = Rar5[n + 1]
  PROVE  Follows(Append(d, c), n + 1)
<1> PICK e, m : e = Append(d, c) /\ m = Len(d)
  OBVIOUS
<1>1. /\ m \in Nat /\ Len(e) = m + 1 /\ e[m + 1] = c /\ \A k \in 1 .. m : e[k] = d[k]
  BY Appended
<1>2. n - 1 <= m /\ \A k \in 2 .. n : d[m - n + k] = Rar5[k]
  BY DEF Follows
<1> PICK p : p = n + 1
  OBVIOUS
<1>3. ASSUME NEW k \in 2 .. p PROVE e[Len(e) - p + k] = Rar5[k]
  <2>1. CASE k = p
    <3>1. Len(e) - p + k = m + 1
      BY <1>1, <2>1
    <3> QED BY <1>1, <2>1, <3>1
  <2>2. CASE k # p
    <3>1. k \in 2 .. n /\ Len(e) - p + k = m - n + k /\ m - n + k \in 1 .. m
      BY <1>1, <1>2, <1>3, <2>2
    <3> QED BY <1>1, <1>2, <3>1
  <2> QED BY <2>1, <2>2
<1>4. p - 1 <= Len(e)
  BY <1>1, <1>2
<1>5. Follows(e, p)
  BY <1>3, <1>4 DEF Follows
<1> QED BY <1>5

LEMMA FollowsAtOnce ==
  ASSUME NEW d \in Seq(Bytes), NEW n \in {0, 1} PROVE Follows(d, n)
BY DEF Follows

\* How a byte c moves the comparison.
Moves(c) ==
  /\ pc' \in Archive!Searching /\ Position' \in {0, 1, Position + 1}
  /\ Position <= Length /\ c = Rar5[Position + 1] => Position' = Position + 1
  /\ c = Rar5[1] => Position' = 1
  /\ Position' \notin {0, 1} => c = Rar5[Position + 1]

LEMMA PositionIs ==
  ASSUME Archive!RarConstants, SearchInv, pc \in Archive!Searching
  PROVE  /\ Position \in 0 .. Length + 1
         /\ pc = "Find" <=> Position = 0
         /\ pc = "Compare" <=> Position \in 1 .. Length - 1
         /\ pc = "Version" <=> Position = Length
         /\ pc = "Minor" <=> Position = Length + 1
         /\ pc = "Compare" => next = Position + 1
<1>1. Length \in Nat /\ Length > 1 /\ next \in 2 .. Length
  BY SignatureIs DEF SearchInv
<1> QED BY <1>1 DEF Position, Archive!Searching

\* What a read of the search does.
Reads(c) ==
  \/ ~end /\ data' = Append(data, c) /\ end' = end
  \/ end' = TRUE /\ data' = data

LEMMA StepMoves ==
  ASSUME Archive!RarConstants, SearchInv, Archive!find_signature_start \/ Archive!Compare
         \/ Archive!Version \/ Archive!Minor
  PROVE  \E c \in Bytes :
           /\ Reads(c) /\ pc \in Archive!Searching
           /\ next' \in 2 .. Length
                /\ {byte', start'} \subseteq Bytes \cup {Archive!Uninitialized}
           /\ \/ Moves(c)
              \/ pc' = "ParserError" /\ pc = "Version" /\ c = 0
              \/ pc' = "Crc" /\ pc = "Minor" /\ c = 0 /\ ~end /\ end' = end
           /\ pc \in {"Version", "Minor"} /\ c = 0 => pc' \notin Archive!Searching
           /\ pc' = "Version" => byte' = Signature[Length]
           /\ pc' = "Minor" => byte' = 1
<1> PICK L : L = Length
  OBVIOUS
<1>1. /\ L \in Nat /\ L > 1 /\ Rar5[L + 1] = 1 /\ next \in 2 .. L /\ Len(Signature) = L
      /\ \A k \in 1 .. L : /\ Rar5[k] = Signature[k]
                                /\ Signature[k] \notin {0, 1, Archive!Uninitialized}
      /\ \A k \in 2 .. L : Signature[k] # Signature[1]
      /\ Rar5[1] = Signature[1] /\ Rar5[next] = Signature[next] /\ Signature[next] # Signature[1]
      /\ {byte, start} \subseteq Bytes \cup {Archive!Uninitialized}
  <2>1. /\ L \in Nat /\ L > 1 /\ Rar5[L + 1] = 1 /\ next \in 2 .. L /\ Len(Signature) = L
        /\ \A k \in 1 .. L : /\ Rar5[k] = Signature[k]
                                  /\ Signature[k] \notin {0, 1, Archive!Uninitialized}
        /\ \A k \in 2 .. L : Signature[k] # Signature[1]
        /\ {byte, start} \subseteq Bytes \cup {Archive!Uninitialized}
    BY SignatureIs DEF SearchInv, Length
  <2>2. 1 \in 1 .. L /\ next \in 1 .. L
    BY <2>1
  <2> QED BY <2>1, <2>2
<1>2. CASE Archive!find_signature_start
  <2>1. PICK c \in Bytes : /\ Archive!Read(c, start) /\ start' = c
                           /\ pc' = IF c = Signature[1] THEN "Compare" ELSE "Find"
    BY <1>2 DEF Archive!find_signature_start
  <2>2. pc = "Find" /\ next' = 2 /\ byte' = byte
    BY <1>2 DEF Archive!find_signature_start, Archive!rest
  <2>3. Position = 0
    BY <2>2 DEF Position
  <2>4. Position' = IF c = Signature[1] THEN 1 ELSE 0
    BY <2>1, <2>2 DEF Position
  <2>5. Moves(c)
    BY <1>1, <2>1, <2>3, <2>4 DEF Moves, Archive!Searching
  <2> QED BY <1>1, <2>1, <2>2, <2>5 DEF Archive!Read, Reads, Archive!Searching
<1>3. CASE Archive!Compare
  <2>1. PICK c \in Bytes :
          /\ Archive!Read(c, byte) /\ byte' = c
          /\ CASE c = Signature[next] /\ next < Len(Signature) ->
                    next' = next + 1 /\ UNCHANGED <<pc, start>>
               [] c = Signature[next] /\ next = Len(Signature) ->
                    pc' = "Version" /\ UNCHANGED <<next, start>>
               [] c # Signature[next] /\ c = Signature[1] -> next' = 2 /\ UNCHANGED <<pc, start>>
               [] OTHER -> pc' = "Find" /\ start' = Archive!Uninitialized /\ UNCHANGED next
    BY <1>3 DEF Archive!Compare
  <2>2. pc = "Compare"
    BY <1>3 DEF Archive!Compare
  <2>3. Position = next - 1 /\ Position + 1 = next
    BY <1>1, <2>2 DEF Position
  <2>4. \/ /\ c = Signature[next] /\ pc' = "Compare" /\ next' = next + 1 /\ next < L
                /\ start' = start
           /\ Position' = next
        \/ /\ c = Signature[next] /\ pc' = "Version" /\ next' = next /\ next = L
                /\ start' = start
           /\ Position' = next
        \/ /\ c # Signature[next] /\ c = Signature[1] /\ pc' = "Compare" /\ next' = 2
           /\ start' = start /\ Position' = 1
        \/ /\ c # Signature[next] /\ c # Signature[1] /\ pc' = "Find" /\ next' = next
           /\ start' = Archive!Uninitialized /\ Position' = 0
    BY <1>1, <2>1, <2>2 DEF Position
  <2>5. Moves(c)
    BY <1>1, <2>3, <2>4 DEF Moves, Archive!Searching
  <2>6. next' \in 2 .. L
    BY <1>1, <2>4
  <2> QED BY <1>1, <2>1, <2>2, <2>4, <2>5, <2>6 DEF Archive!Read, Reads, Archive!Searching
<1>4. CASE Archive!Version
  <2>1. PICK c \in Bytes : /\ Archive!Read(c, byte) /\ byte' = c
                           /\ CASE c = 0 -> pc' = "ParserError" /\ UNCHANGED next
                                [] c = 1 -> pc' = "Minor" /\ UNCHANGED next
                                [] OTHER -> Archive!Again
    BY <1>4 DEF Archive!Version
  <2>2. pc = "Version" /\ start' = start /\ Position = L
    BY <1>4 DEF Archive!Version, Position
  <2>3. CASE c = 0
    BY <1>1, <2>1, <2>2, <2>3 DEF Archive!Read, Reads, Archive!Searching
  <2>4. CASE c # 0
    <3>1. \/ c = 1 /\ pc' = "Minor" /\ next' = next /\ Position' = L + 1
          \/ c # 1 /\ pc' = "Compare" /\ next' = 2 /\ Position' = 1
      BY <2>1, <2>4 DEF Archive!Again, Position
    <3>2. Signature[1] # 1
      BY <1>1
    <3>3. Moves(c)
      BY <1>1, <2>2, <3>1, <3>2 DEF Moves, Archive!Searching
    <3> QED BY <1>1, <2>1, <2>2, <3>1, <3>3 DEF Archive!Read, Reads, Archive!Searching
  <2> QED BY <2>3, <2>4
<1>5. CASE Archive!Minor
  <2>1. PICK c \in Bytes : /\ Archive!Read(c, byte) /\ byte' = c
                           /\ IF c = 0 THEN pc' = "Crc" /\ UNCHANGED next ELSE Archive!Again
    BY <1>5 DEF Archive!Minor
  <2>2. pc = "Minor" /\ start' = start /\ Position = L + 1 /\ byte = 1
    BY <1>5 DEF Archive!Minor, Position, SearchInv
  <2>3. CASE c = 0
    <3>1. ~end /\ data' = Append(data, c) /\ end' = end
      BY <2>1, <2>2, <2>3 DEF Archive!Read, Archive!Uninitialized
    <3> QED BY <1>1, <2>1, <2>2, <2>3, <3>1 DEF Reads, Archive!Searching
  <2>4. CASE c # 0
    <3>1. pc' = "Compare" /\ next' = 2 /\ Position' = 1
      BY <2>1, <2>4 DEF Archive!Again, Position
    <3>2. Moves(c)
      BY <1>1, <2>2, <3>1 DEF Moves, Archive!Searching
    <3> QED BY <1>1, <2>1, <2>2, <3>1, <3>2 DEF Archive!Read, Reads, Archive!Searching
  <2> QED BY <2>3, <2>4
<1> QED BY <1>2, <1>3, <1>4, <1>5

LEMMA SearchBegins == ASSUME Archive!RarConstants, Archive!Init PROVE SearchInv
<1>1. /\ Length \in Nat /\ Length > 1
  BY SignatureIs
<1>2. data = <<>> /\ Position = 0 /\ Len(data) = 0 /\ data \in Seq(Bytes)
  BY DEF Archive!Init, Position
<1>3. \A n \in 1 .. Length + 1 : ~Begins(data, n)
  BY <1>1, <1>2 DEF Begins
<1>4. Follows(data, Position)
  BY <1>2, FollowsAtOnce
<1> QED BY <1>1, <1>2, <1>3, <1>4 DEF Archive!Init, SearchInv

LEMMA SearchGoesOn ==
  ASSUME Archive!RarConstants, SearchInv, Archive!find_signature_start \/ Archive!Compare
         \/ Archive!Version \/ Archive!Minor
  PROVE  SearchInv'
<1> PICK L : L = Length
  OBVIOUS
<1>1. PICK c \in Bytes :
        /\ Reads(c) /\ pc \in Archive!Searching
        /\ next' \in 2 .. L /\ {byte', start'} \subseteq Bytes \cup {Archive!Uninitialized}
        /\ \/ Moves(c)
           \/ pc' = "ParserError" /\ pc = "Version" /\ c = 0
           \/ pc' = "Crc" /\ pc = "Minor" /\ c = 0 /\ ~end /\ end' = end
        /\ pc' = "Version" => byte' = Signature[L]
        /\ pc' = "Minor" => byte' = 1
  BY StepMoves
<1>2. data \in Seq(Bytes) /\ data' \in Seq(Bytes)
  BY <1>1, Appended DEF Reads, SearchInv
<1>3. ASSUME pc' \in Archive!Searching, ~end'
      PROVE  /\ Follows(data', Position')
             /\ \A n \in 1 .. L + 1 : Begins(data', n) => Position' = n
  <2>1. ~end /\ data' = Append(data, c) /\ Moves(c)
    BY <1>1, <1>3 DEF Reads, Archive!Searching
  <2>2. /\ Position \in 0 .. L + 1 /\ L \in Nat /\ Follows(data, Position)
        /\ \A n \in 1 .. L + 1 : Begins(data, n) => Position = n
    BY <1>1, <2>1, PositionIs, SignatureIs DEF SearchInv
  <2>3. Follows(data', Position')
    <3>1. CASE Position' \in {0, 1}
      <4> PICK n : n = Position'
        OBVIOUS
      <4>1. Follows(data', n)
        BY <1>2, <3>1, FollowsAtOnce
      <4> QED BY <4>1
    <3>2. CASE Position' \notin {0, 1}
      <4> PICK n, m : n = Position /\ m = Position'
        OBVIOUS
      <4>1. m = n + 1 /\ n \in Nat \ {0} /\ c = Rar5[n + 1] /\ Follows(data, n)
        BY <2>1, <2>2, <3>2 DEF Moves
      <4>2. Follows(Append(data, c), n + 1)
        BY <1>2, <4>1, FollowsNext
      <4> QED BY <2>1, <4>1, <4>2
    <3> QED BY <3>1, <3>2
  <2>4. ASSUME NEW n \in 1 .. L + 1, Begins(data', n) PROVE Position' = n
    <3>1. c = Rar5[n] /\ Begins(data, n - 1)
      <4>1. n \in Nat \ {0}
        BY <2>2
      <4> QED BY <1>2, <2>1, <2>4, <4>1, BeginsBefore
    <3>2. CASE n = 1
      BY <2>1, <3>1, <3>2 DEF Moves
    <3>3. CASE n # 1
      <4>1. n - 1 \in 1 .. L + 1
        BY <2>2, <3>3
      <4>2. Position = n - 1
        BY <2>2, <3>1, <4>1
      <4>3. Position <= L /\ Position + 1 = n
        BY <2>2, <4>2
      <4> QED BY <2>1, <3>1, <4>3 DEF Moves
    <3> QED BY <3>2, <3>3
  <2> QED BY <2>3, <2>4
<1> QED BY <1>1, <1>2, <1>3 DEF SearchInv

-----------------------------------------------------------------------------
(* What is found, and that nothing is passed over.                         *)

LEMMA Reversed ==
  ASSUME NEW T, NEW m \in Nat, NEW e \in Seq(T), Len(e) = m, NEW f, f = Archive!Reverse(e)
  PROVE  f \in Seq(T) /\ Len(f) = m /\ \A k \in 1 .. m : f[k] = e[m - k + 1]
<1>1. f = [k \in 1 .. m |-> e[m - k + 1]]
  BY DEF Archive!Reverse
<1>2. \A k \in 1 .. m : e[m - k + 1] \in T
  OBVIOUS
<1>3. f \in [1 .. m -> T]
  BY <1>1, <1>2
<1>4. f \in Seq(T) /\ Len(f) = m
  BY <1>3, IsSequence
<1> QED BY <1>1, <1>4

LEMMA ReversedAll ==
  ASSUME NEW T, NEW e \in Seq(T)
  PROVE  /\ Archive!Reverse(e) \in Seq(T) /\ Len(Archive!Reverse(e)) = Len(e)
         /\ \A k \in 1 .. Len(e) : Archive!Reverse(e)[k] = e[Len(e) - k + 1]
<1>1. Len(e) \in Nat
  OBVIOUS
<1> QED BY ONLY <1>1, Reversed

\* Where Rar5 ends in d but for its first byte
LEMMA FollowsToSuffix ==
  ASSUME Archive!RarConstants, NEW d \in Seq(Bytes), Follows(d, Length + 2)
  PROVE  Archive!IsSuffix(Tail(Signature) \o <<1, 0>>, d)
<1> PICK L \in Nat, n \in Nat : L = Length /\ n = Len(d)
  BY SignatureIs
<1> PICK l \in Nat : l = L + 1
  OBVIOUS
<1>s. PICK s : s = Tail(Signature) \o <<1, 0>>
  OBVIOUS
<1>1. /\ L > 1 /\ Len(Rar5) = L + 2 /\ Rar5 \in Seq(Bytes) /\ Rar5[L + 1] = 1 /\ Rar5[L + 2] = 0
      /\ \A k \in 1 .. L : Rar5[k] = Signature[k]
      /\ Len(Signature) = L /\ Signature \in Seq(Bytes)
  <2>1. Signature \in Seq(Bytes)
    BY DEF Archive!RarConstants
  <2> QED BY <2>1, SignatureIs DEF Length
<1>2. /\ s \in Seq(Bytes) /\ Len(s) = l /\ \A k \in 1 .. l : s[k] = Rar5[k + 1]
  <2> PICK t : t = Tail(Signature)
    OBVIOUS
  <2>1. t \in Seq(Bytes) /\ Len(t) = L - 1 /\ \A k \in 1 .. L - 1 : t[k] = Signature[k + 1]
    BY <1>1
  <2>2. 1 \in Bytes /\ 0 \in Bytes
    BY DEF Archive!RarConstants
  <2>3. /\ s \in Seq(Bytes) /\ Len(s) = L + 1 /\ s[L] = 1 /\ s[L + 1] = 0
        /\ \A k \in 1 .. L - 1 : s[k] = t[k]
    BY <1>1, <1>s, <2>1, <2>2
  <2>4. ASSUME NEW k \in 1 .. l PROVE s[k] = Rar5[k + 1]
    <3>1. CASE k <= L - 1
      <4>1. k \in 1 .. L - 1 /\ k + 1 \in 1 .. L
        BY <1>1, <2>4, <3>1
      <4> QED BY <1>1, <2>1, <2>3, <4>1
    <3>2. CASE k = L \/ k = L + 1
      BY <1>1, <2>3, <3>2
    <3> QED BY <1>1, <2>4, <3>1, <3>2
  <2> QED BY <2>3, <2>4
<1>3. L + 1 <= n /\ \A k \in 2 .. L + 2 : d[n - (L + 2) + k] = Rar5[k]
  BY DEF Follows
<1>r. PICK r, q : r = Archive!Reverse(s) /\ q = Archive!Reverse(d)
  OBVIOUS
<1>4. /\ r \in Seq(Bytes) /\ Len(r) = l /\ \A k \in 1 .. l : r[k] = s[l - k + 1]
      /\ q \in Seq(Bytes) /\ Len(q) = n /\ \A k \in 1 .. n : q[k] = d[n - k + 1]
  <2>1. r \in Seq(Bytes) /\ Len(r) = Len(s) /\ \A k \in 1 .. Len(s) : r[k] = s[Len(s) - k + 1]
    <3>1. s \in Seq(Bytes) /\ r = Archive!Reverse(s)
      BY <1>2, <1>r
    <3> QED BY ONLY <3>1, ReversedAll
  <2>2. q \in Seq(Bytes) /\ Len(q) = Len(d) /\ \A k \in 1 .. Len(d) : q[k] = d[Len(d) - k + 1]
    <3>1. d \in Seq(Bytes) /\ q = Archive!Reverse(d)
      BY <1>r
    <3> QED BY ONLY <3>1, ReversedAll
  <2> QED BY <1>2, <2>1, <2>2
<1>5. ASSUME NEW k \in 1 .. l PROVE r[k] = q[k]
  <2> PICK j : j = l - k + 1
    OBVIOUS
  <2>1. /\ k \in 1 .. n /\ j \in 1 .. l /\ j + 1 \in 2 .. L + 2
        /\ n - (L + 2) + (j + 1) = n - k + 1
    BY <1>3, <1>5
  <2>2. r[k] = s[j] /\ q[k] = d[n - k + 1]
    BY <1>4, <2>1
  <2>3. s[j] = Rar5[j + 1] /\ d[n - k + 1] = Rar5[j + 1]
    BY <1>2, <1>3, <2>1
  <2> QED BY <2>2, <2>3
<1> PICK x, y : x = SubSeq(r, 1, l) /\ y = SubSeq(q, 1, l)
  OBVIOUS
<1>6. /\ x \in Seq(Bytes) /\ Len(x) = l /\ \A k \in 1 .. l : x[k] = r[k]
      /\ y \in Seq(Bytes) /\ Len(y) = l /\ \A k \in 1 .. l : y[k] = q[k]
  BY <1>3, <1>4
<1>7. x = y
  BY <1>5, <1>6, SameSequence
<1>8. Archive!IsPrefix(r, q)
  BY <1>3, <1>4, <1>7 DEF Archive!IsPrefix
<1> QED BY <1>8, <1>s, <1>r DEF Archive!IsSuffix

\* A signature that ends with the byte appended begins before it.
LEMMA OccursBefore ==
  ASSUME Archive!RarConstants, NEW d \in Seq(Bytes), NEW c \in Bytes, NEW w \in Archive!Whole,
         NEW k \in 0 .. Len(d) + 1 - Len(w), Occurs(w, Append(d, c), k)
  PROVE  \/ k \in 0 .. Len(d) - Len(w) /\ Occurs(w, d, k)
         \/ c = 0 /\ \E n \in {Length, Length + 1} : Begins(d, n)
<1> PICK L \in Nat, n \in Nat : L = Length /\ n = Len(d)
  BY SignatureIs
<1> PICK e : e = Append(d, c)
  OBVIOUS
<1>1. /\ Len(e) = n + 1 /\ e[n + 1] = c /\ \A x \in 1 .. n : e[x] = d[x]
  BY Appended
<1>2. PICK m \in {L, L + 1} :
        Len(w) = m + 1 /\ w[m + 1] = 0 /\ \A x \in 1 .. m : w[x] = Rar5[x]
  <2>1. CASE w = Rar4
    BY <2>1, SignatureIs
  <2>2. CASE w = Rar5
    <3>1. L + 1 \in {L, L + 1} /\ Len(w) = L + 1 + 1 /\ w[L + 1 + 1] = 0
      BY <2>2, SignatureIs
    <3> QED BY <2>2, <3>1
  <2> QED BY <2>1, <2>2 DEF Archive!Whole, Rar4, Rar5
<1>3. m \in Nat /\ k \in Nat /\ k + m <= n
  BY <1>2
<1>6. \A x \in 1 .. m + 1 : e[k + x] = w[x]
  BY <1>2 DEF Occurs
<1>4. CASE k + m < n
  <2>1. k \in 0 .. n - (m + 1)
    BY <1>3, <1>4
  <2>2. ASSUME NEW x \in 1 .. m + 1 PROVE d[k + x] = w[x]
    <3>1. k + x \in 1 .. n
      BY <1>3, <1>4
    <3> QED BY <1>1, <1>6, <3>1
  <2> QED BY <1>2, <2>1, <2>2 DEF Occurs
<1>5. CASE k + m = n
  <2>1. c = 0
    <3>1. m + 1 \in 1 .. m + 1 /\ k + (m + 1) = n + 1
      BY <1>3, <1>5
    <3> QED BY <1>1, <1>2, <1>6, <3>1
  <2>2. ASSUME NEW x \in 1 .. m PROVE d[n - m + x] = Rar5[x]
    <3>1. x \in 1 .. m + 1 /\ n - m + x = k + x /\ k + x \in 1 .. n
      BY <1>3, <1>5, <2>2
    <3>2. w[x] = Rar5[x]
      BY <1>2, <2>2
    <3>3. d[k + x] = e[k + x]
      BY <1>1, <3>1
    <3>4. e[k + x] = w[x]
      BY <1>6, <3>1
    <3> QED BY <3>1, <3>2, <3>3, <3>4
  <2>3. Begins(d, m)
    BY <1>3, <1>5, <2>2 DEF Begins
  <2> QED BY <1>2, <2>1, <2>3
<1> QED BY <1>3, <1>4, <1>5

FoundInv ==
  /\ pc \in Archive!Searching => NoneOccurs
  /\ Archive!FoundIsSignature

LEMMA FoundGoesOn ==
  ASSUME Archive!RarConstants, SearchInv, FoundInv, Archive!find_signature_start
         \/ Archive!Compare \/ Archive!Version \/ Archive!Minor
  PROVE  FoundInv'
<1> PICK L : L = Length
  OBVIOUS
<1>1. PICK c \in Bytes :
        /\ Reads(c) /\ pc \in Archive!Searching
        /\ \/ Moves(c)
           \/ pc' = "ParserError" /\ pc = "Version" /\ c = 0
           \/ pc' = "Crc" /\ pc = "Minor" /\ c = 0 /\ ~end /\ end' = end
        /\ pc \in {"Version", "Minor"} /\ c = 0 => pc' \notin Archive!Searching
  BY StepMoves
<1>2. data \in Seq(Bytes) /\ L \in Nat /\ NoneOccurs
  BY <1>1, SignatureIs DEF SearchInv, FoundInv
<1>3. ASSUME pc' \in Archive!Searching, NEW w \in Archive!Whole,
    NEW k \in 0 .. Len(data') - Len(w),
             Occurs(w, data', k)
      PROVE  FALSE
  <2>1. CASE data' = data
    BY <1>2, <1>3, <2>1 DEF NoneOccurs
  <2>2. CASE ~end /\ data' = Append(data, c)
    <3>1. k \in 0 .. Len(data) + 1 - Len(w)
      BY <1>2, <2>2, Appended
    <3>2. c = 0 /\ \E n \in {L, L + 1} : Begins(data, n)
      BY <1>2, <1>3, <2>2, <3>1, OccursBefore DEF NoneOccurs
    <3>3. Position \in {L, L + 1}
      <4>1. L \in 1 .. L + 1 /\ L + 1 \in 1 .. L + 1
        BY SignatureIs
      <4> QED BY <1>1, <2>2, <3>2, <4>1 DEF SearchInv
    <3>4. pc \in {"Version", "Minor"}
      BY <1>1, <3>3, PositionIs
    <3> QED BY <1>1, <1>3, <3>2, <3>4
  <2> QED BY <1>1, <2>1, <2>2 DEF Reads
<1>4. ASSUME pc' = "Crc" PROVE Archive!IsSuffix(Tail(Signature) \o <<1, 0>>, data')
  <2>1. pc = "Minor" /\ c = 0 /\ ~end /\ data' = Append(data, c) /\ Position = L + 1
    BY <1>1, <1>4 DEF Moves, Archive!Searching, Reads, Position
  <2>2. Follows(data, L + 1) /\ Rar5[L + 1 + 1] = 0 /\ L + 1 \in Nat \ {0} /\ L + 1 + 1 = L + 2
    BY <1>1, <1>2, <2>1, SignatureIs DEF SearchInv
  <2>3. Follows(data', L + 2) /\ data' \in Seq(Bytes)
    BY <1>2, <2>1, <2>2, FollowsNext, Appended
  <2> QED BY <2>3, FollowsToSuffix
<1> QED BY <1>1, <1>3, <1>4 DEF FoundInv, Archive!FoundIsSignature, NoneOccurs, Moves,
                                Archive!Searching

-----------------------------------------------------------------------------
(* The header: what is collected is what its integers say.                 *)

VInt == [i : 0 .. Word - 1, raw_size : 0 .. MaxVInt]
Read0 == [i |-> 0, raw_size |-> 0]

\* The integers before the one that is being parsed are read, those after it
\* are not.
HeaderInv ==
  /\ header \in [Archive!Fields -> VInt] /\ weight \in Nat /\ collected \in Nat
  /\ pc \in Archive!Searching \cup Archive!Fields \cup {"Crc", "Data", "Check"} \cup Archive!Ends
  /\ pc \in Archive!Searching \cup {"Crc", "Size"} => header["Type"].raw_size = 0
  /\ pc \in Archive!Searching \cup {"Crc", "Size", "Type"} => header["Flags"].raw_size = 0
  /\ pc \in Archive!Searching \cup {"Crc"} => header["Size"].raw_size = 0 /\ collected = 0
  /\ pc \in Archive!Fields => header[pc].raw_size < MaxVInt
  /\ byte \in Bytes \cup {Archive!Uninitialized}

Integers1 == header["Size"].raw_size
Integers2 == Integers1 + header["Type"].raw_size
Integers3 == Integers2 + header["Flags"].raw_size

CollectedInv ==
  ~end =>
    /\ pc = "Size" => collected = CrcSize + Integers1
    /\ pc = "Type" => collected = CrcSize + Integers2
    /\ pc \in {"Flags", "Data"} => collected = CrcSize + Integers3
    /\ pc \in {"Check", "Parsed"} => collected = CrcSize + Integers1 + header["Size"].i

LEMMA HeaderBegins == ASSUME Archive!RarConstants, Archive!Init PROVE HeaderInv /\ CollectedInv
<1>1. MaxVInt \in Nat \ {0} /\ Word \in Nat \ {0} /\ header = [f \in Archive!Fields |-> Read0]
  BY DEF Archive!RarConstants, Archive!Init, Read0
<1>2. Read0 \in VInt /\ Read0.raw_size = 0
  BY <1>1 DEF Read0, VInt
<1> QED BY <1>1, <1>2 DEF Archive!Init, HeaderInv, CollectedInv, Archive!Fields,
                          Archive!Searching

LEMMA SearchKeepsHeader ==
  ASSUME Archive!RarConstants, SearchInv, HeaderInv, CollectedInv,
         Archive!find_signature_start \/ Archive!Compare \/ Archive!Version \/ Archive!Minor
  PROVE  HeaderInv' /\ CollectedInv'
<1>1. /\ header' = header /\ weight' = weight /\ collected' = collected
  BY DEF Archive!find_signature_start, Archive!Compare, Archive!Version, Archive!Minor,
         Archive!rest
<1>2. pc \in Archive!Searching /\ pc' \in Archive!Searching \cup {"Crc", "ParserError"}
      /\ byte' \in Bytes \cup {Archive!Uninitialized}
  BY StepMoves DEF Moves
<1> QED BY <1>1, <1>2 DEF HeaderInv, CollectedInv, Archive!Fields, Archive!Searching,
                          Archive!Ends

LEMMA CrcKeepsHeader ==
  ASSUME Archive!RarConstants, HeaderInv, CollectedInv, Archive!ReadCrc PROVE HeaderInv'
         /\ CollectedInv'
<1>1. /\ header' = header /\ weight' = weight /\ pc = "Crc" /\ pc' = "Size"
      /\ byte' = Archive!Uninitialized /\ Archive!Collect(CrcSize) /\ collected = 0
      /\ CrcSize \in Nat \ {0} /\ MaxVInt \in Nat \ {0}
  BY DEF Archive!ReadCrc, HeaderInv, Archive!RarConstants
<1>2. collected' \in Nat /\ (~end' => collected' = CrcSize)
  BY <1>1 DEF Archive!Collect
<1> QED BY <1>1, <1>2 DEF HeaderInv, CollectedInv, Archive!Fields, Archive!Searching,
                          Archive!Ends, Integers1

LEMMA IntegerGrows ==
  ASSUME Archive!RarConstants, HeaderInv, NEW f \in Archive!Fields, NEW n,
         Archive!parseVInt(f, n)
  PROVE  \E v \in VInt :
           /\ v.raw_size = header[f].raw_size + 1 /\ header' = [header EXCEPT ![f] = v]
           /\ weight' \in Nat /\ collected' \in Nat
                /\ byte' \in Bytes \cup {Archive!Uninitialized}
           /\ ~end' => ~end /\ collected' = collected + 1
           /\ pc = f
           /\ pc' = n \/ (pc' = f /\ v.raw_size < MaxVInt) \/ pc' = "ParserError"
<1>1. /\ High \in Nat \ {0} /\ MaxVInt \in Nat /\ Word \in Nat \ {0} /\ Bytes \subseteq Nat
      /\ weight \in Nat /\ collected \in Nat /\ byte \in Bytes \cup {Archive!Uninitialized}
      /\ pc = f /\ header[f] \in VInt /\ header[f].raw_size < MaxVInt
      /\ header[f].raw_size \in Nat /\ header[f].i \in Nat
  BY DEF Archive!RarConstants, HeaderInv, Archive!parseVInt, VInt
<1> PICK x, z : x = header[f].i /\ z = header[f].raw_size
  OBVIOUS
<1>2. PICK c \in Bytes :
        /\ \/ ~end /\ collected' = collected + 1 /\ UNCHANGED end
           \/ byte \in {c, Archive!Uninitialized} /\ end' = TRUE /\ UNCHANGED collected
        /\ header' = [header EXCEPT ![f] = [i |-> (x + (c % High) * weight) % Word, raw_size |-> z + 1]]
        /\ \/ c < High /\ pc' = n /\ byte' = Archive!Uninitialized /\ weight' = 1
           \/ /\ c >= High /\ header'[f].raw_size < MaxVInt
              /\ byte' = c /\ weight' = weight * High /\ UNCHANGED pc
           \/ /\ c >= High /\ header'[f].raw_size = MaxVInt
              /\ pc' = "ParserError" /\ UNCHANGED <<byte, weight>>
  BY <1>1 DEF Archive!parseVInt
<1> PICK y : y = (x + (c % High) * weight) % Word
  OBVIOUS
<1> PICK v : v = [i |-> y, raw_size |-> z + 1]
  OBVIOUS
<1>3. y \in 0 .. Word - 1
  <2>1. c % High \in Nat /\ x \in Nat
    BY <1>1
  <2>2. (c % High) * weight \in Nat
    BY <1>1, <2>1
  <2>3. x + (c % High) * weight \in Nat
    BY <2>1, <2>2
  <2> QED BY <1>1, <2>3
<1>4. v \in VInt /\ v.raw_size = z + 1 /\ header' = [header EXCEPT ![f] = v]
  BY <1>1, <1>2, <1>3 DEF VInt
<1>5. header'[f] = v
  BY <1>4 DEF HeaderInv
<1>6. weight' \in Nat
  BY <1>1, <1>2
<1>7. /\ collected' \in Nat /\ byte' \in Bytes \cup {Archive!Uninitialized}
      /\ ~end' => ~end /\ collected' = collected + 1
  BY <1>1, <1>2
<1>8. pc' = n \/ (pc' = f /\ v.raw_size < MaxVInt) \/ pc' = "ParserError"
  BY <1>1, <1>2, <1>5
<1>9. v.raw_size = header[f].raw_size + 1
  BY <1>4
<1> QED BY <1>1, <1>4, <1>6, <1>7, <1>8, <1>9

LEMMA IntegerKeepsHeader ==
  ASSUME Archive!RarConstants, HeaderInv, CollectedInv,
         Archive!parseVInt("Size", "Type") \/ Archive!parseVInt("Type", "Flags")
             \/ Archive!parseVInt("Flags", "Data")
  PROVE  HeaderInv' /\ CollectedInv'
<1>1. /\ MaxVInt \in Nat \ {0} /\ header \in [Archive!Fields -> VInt]
           /\ {"Size", "Type", "Flags"} = Archive!Fields
      /\ CrcSize \in Nat /\ collected \in Nat
      /\ \A f \in Archive!Fields : header[f].raw_size \in Nat
  BY DEF Archive!RarConstants, HeaderInv, Archive!Fields, VInt
<1>2. CASE Archive!parseVInt("Size", "Type")
  <2>1. PICK v \in VInt :
          /\ v.raw_size = header["Size"].raw_size + 1 /\ header' = [header EXCEPT !["Size"] = v]
          /\ weight' \in Nat /\ collected' \in Nat
               /\ byte' \in Bytes \cup {Archive!Uninitialized}
          /\ ~end' => ~end /\ collected' = collected + 1
          /\ pc = "Size"
          /\ pc' = "Type" \/ (pc' = "Size" /\ v.raw_size < MaxVInt) \/ pc' = "ParserError"
    BY <1>1, <1>2, IntegerGrows
  <2>2. /\ header' \in [Archive!Fields -> VInt] /\ header'["Size"] = v
             /\ header'["Type"] = header["Type"]
        /\ header'["Flags"] = header["Flags"]
    BY <1>1, <2>1
  <2>3. HeaderInv'
    BY <1>1, <2>1, <2>2 DEF HeaderInv, Archive!Fields, Archive!Searching, Archive!Ends
  <2>4. CollectedInv'
    BY <1>1, <2>1, <2>2 DEF HeaderInv, CollectedInv, Integers1, Integers2, Archive!Fields
  <2> QED BY <2>3, <2>4
<1>3. CASE Archive!parseVInt("Type", "Flags")
  <2>1. PICK v \in VInt :
          /\ v.raw_size = header["Type"].raw_size + 1 /\ header' = [header EXCEPT !["Type"] = v]
          /\ weight' \in Nat /\ collected' \in Nat
               /\ byte' \in Bytes \cup {Archive!Uninitialized}
          /\ ~end' => ~end /\ collected' = collected + 1
          /\ pc = "Type"
          /\ pc' = "Flags" \/ (pc' = "Type" /\ v.raw_size < MaxVInt) \/ pc' = "ParserError"
    BY <1>1, <1>3, IntegerGrows
  <2>2. /\ header' \in [Archive!Fields -> VInt] /\ header'["Type"] = v
             /\ header'["Size"] = header["Size"]
        /\ header'["Flags"] = header["Flags"]
    BY <1>1, <2>1
  <2>3. HeaderInv'
    BY <1>1, <2>1, <2>2 DEF HeaderInv, Archive!Fields, Archive!Searching, Archive!Ends
  <2>4. CollectedInv'
    BY <1>1, <2>1, <2>2 DEF HeaderInv, CollectedInv, Integers1, Integers2, Integers3,
                            Archive!Fields
  <2> QED BY <2>3, <2>4
<1>4. CASE Archive!parseVInt("Flags", "Data")
  <2>1. PICK v \in VInt :
          /\ v.raw_size = header["Flags"].raw_size + 1
               /\ header' = [header EXCEPT !["Flags"] = v]
          /\ weight' \in Nat /\ collected' \in Nat
               /\ byte' \in Bytes \cup {Archive!Uninitialized}
          /\ ~end' => ~end /\ collected' = collected + 1
          /\ pc = "Flags"
          /\ pc' = "Data" \/ (pc' = "Flags" /\ v.raw_size < MaxVInt) \/ pc' = "ParserError"
    BY <1>1, <1>4, IntegerGrows
  <2>2. /\ header' \in [Archive!Fields -> VInt] /\ header'["Flags"] = v
             /\ header'["Size"] = header["Size"]
        /\ header'["Type"] = header["Type"]
    BY <1>1, <2>1
  <2>3. HeaderInv'
    BY <1>1, <2>1, <2>2 DEF HeaderInv, Archive!Fields, Archive!Searching, Archive!Ends
  <2>4. CollectedInv'
    BY <1>1, <2>1, <2>2 DEF HeaderInv, CollectedInv, Integers1, Integers2, Integers3,
                            Archive!Fields
  <2> QED BY <2>3, <2>4
<1> QED BY <1>2, <1>3, <1>4

LEMMA DataKeepsHeader ==
  ASSUME Archive!RarConstants, HeaderInv, CollectedInv, Archive!ReadData \/ Archive!Check
  PROVE  HeaderInv' /\ CollectedInv'
<1>1. header' = header /\ weight' = weight /\ byte' = byte
  BY DEF Archive!ReadData, Archive!Check, Archive!search, Archive!rest
<1>2. CASE Archive!Check
  BY <1>1, <1>2 DEF Archive!Check, Archive!rest, HeaderInv, CollectedInv, Archive!Fields,
                    Archive!Searching, Archive!Ends, Integers1
<1>3. CASE Archive!ReadData
  <2> PICK n : n = Archive!header_data
    OBVIOUS
  <2> PICK s, size, type, flags :
        /\ s = header["Size"].i /\ size = header["Size"].raw_size
        /\ type = header["Type"].raw_size /\ flags = header["Flags"].raw_size
    OBVIOUS
  <2>1. /\ s \in Nat /\ size \in Nat /\ type \in Nat /\ flags \in Nat /\ n = s - type - flags
        /\ collected \in Nat /\ pc = "Data" /\ CrcSize \in Nat
        /\ ~end => collected = CrcSize + size + type + flags
    <3>1. /\ header["Size"] \in VInt /\ header["Type"] \in VInt /\ header["Flags"] \in VInt
          /\ collected \in Nat /\ pc = "Data" /\ CrcSize \in Nat
      BY <1>3 DEF Archive!RarConstants, HeaderInv, Archive!Fields, Archive!ReadData
    <3>2. s \in Nat /\ size \in Nat /\ type \in Nat /\ flags \in Nat
      BY <3>1 DEF VInt
    <3>3. n = s - type - flags
      BY DEF Archive!header_data
    <3>4. ~end => collected = CrcSize + size + type + flags
      BY <3>1, <3>2 DEF CollectedInv, Integers1, Integers2, Integers3
    <3> QED BY <3>1, <3>2, <3>3, <3>4
  <2>2. \/ n < 0 /\ pc' = "LengthError" /\ collected' = collected /\ end' = end
        \/ n >= 0 /\ pc' = "Check" /\ Archive!Collect(n)
    BY <1>3, <2>1 DEF Archive!ReadData
  <2>3. collected' \in Nat
    BY <2>1, <2>2 DEF Archive!Collect
  <2>4. pc' = "Check" /\ ~end' => collected' = CrcSize + size + s
    BY <2>1, <2>2 DEF Archive!Collect
  <2>5. HeaderInv'
    BY <1>1, <2>1, <2>2, <2>3 DEF HeaderInv, Archive!Fields, Archive!Searching, Archive!Ends
  <2>6. CollectedInv'
    BY <1>1, <2>2, <2>4 DEF CollectedInv, Integers1
  <2> QED BY <2>5, <2>6
<1> QED BY <1>2, <1>3

-----------------------------------------------------------------------------
RarInv == SearchInv /\ FoundInv /\ HeaderInv /\ CollectedInv

LEMMA RarBegins == ASSUME Archive!RarConstants, Archive!Init PROVE RarInv
<1>1. FoundInv
  <2>1. ASSUME NEW w \in Archive!Whole, NEW k \in 0 .. Len(data) - Len(w) PROVE FALSE
    <3>1. Len(data) = 0 /\ Len(w) \in Nat /\ Len(w) > 0
      BY SignatureIs DEF Archive!Init, Archive!Whole, Rar4, Rar5
    <3> QED BY <3>1
  <2> QED BY <2>1 DEF FoundInv, NoneOccurs, Archive!FoundIsSignature, Archive!Init,
                      Archive!Searching
<1> QED BY <1>1, SearchBegins, HeaderBegins DEF RarInv

LEMMA RarKept == ASSUME Archive!RarConstants, RarInv, [Archive!Next]_(Archive!vars) PROVE RarInv'
<1>1. CASE Archive!find_signature_start \/ Archive!Compare \/ Archive!Version \/ Archive!Minor
  BY <1>1, SearchGoesOn, FoundGoesOn, SearchKeepsHeader DEF RarInv
<1>2. CASE \/ Archive!ReadCrc \/ Archive!parseVInt("Size", "Type")
                \/ Archive!parseVInt("Type", "Flags")
           \/ Archive!parseVInt("Flags", "Data") \/ Archive!ReadData \/ Archive!Check
  <2>1. HeaderInv' /\ CollectedInv'
    BY <1>2, CrcKeepsHeader, IntegerKeepsHeader, DataKeepsHeader DEF RarInv
  <2>2. /\ data' = data /\ next' = next /\ start' = start
        /\ pc \notin Archive!Searching \cup {"ParserError", "FileError"} /\ pc' \notin Archive!Searching
    BY <1>2 DEF Archive!ReadCrc, Archive!parseVInt, Archive!ReadData, Archive!Check,
                Archive!search, Archive!Searching
  <2>3. SearchInv'
    BY <2>1, <2>2 DEF RarInv, SearchInv, HeaderInv, Archive!Searching
  <2>4. FoundInv'
    BY <2>2 DEF RarInv, FoundInv, Archive!FoundIsSignature
  <2> QED BY <2>1, <2>3, <2>4 DEF RarInv
<1>3. CASE Archive!ReadFails
  <2>1. /\ pc' = "FileError" /\ UNCHANGED <<data, next, byte, start, header, weight, collected, end>>
    BY <1>3 DEF Archive!ReadFails, Archive!search, Archive!rest
  <2>2. SearchInv' /\ FoundInv'
    BY <2>1 DEF RarInv, SearchInv, FoundInv, Archive!FoundIsSignature, Archive!Searching
  <2>3. HeaderInv' /\ CollectedInv'
    BY <2>1 DEF RarInv, HeaderInv, CollectedInv, Archive!Fields, Archive!Searching, Archive!Ends
  <2> QED BY <2>2, <2>3 DEF RarInv
<1>4. CASE UNCHANGED Archive!vars
  <2>1. SearchInv' /\ FoundInv'
    BY <1>4 DEF Archive!vars, RarInv, SearchInv, Position, FoundInv, NoneOccurs,
                Archive!FoundIsSignature
  <2>2. HeaderInv' /\ CollectedInv'
    BY <1>4 DEF Archive!vars, RarInv, HeaderInv, CollectedInv, Integers1, Integers2, Integers3
  <2> QED BY <2>1, <2>2 DEF RarInv
<1> QED BY <1>1, <1>2, <1>3, <1>4 DEF Archive!Next

LEMMA RarInvariant == ASSUME Archive!RarConstants PROVE Archive!Spec => []RarInv
<1>1. Archive!Init => RarInv
  BY RarBegins
<1>2. RarInv /\ [Archive!Next]_(Archive!vars) => RarInv'
  BY RarKept
<1> QED BY <1>1, <1>2, PTL DEF Archive!Spec

LEMMA NoneIsPassedOver == ASSUME Archive!RarConstants, RarInv PROVE Archive!NothingPassedOver
<1> SUFFICES ASSUME pc \in Archive!Searching, NEW w \in Archive!Whole,
    NEW k \in 0 .. Len(data) - Len(w),
                    SubSeq(data, k + 1, k + Len(w)) = w
             PROVE  FALSE
  BY DEF Archive!NothingPassedOver
<1>1. Len(w) \in Nat /\ data \in Seq(Bytes) /\ w \in Seq(Bytes) /\ k \in Nat
      /\ k + Len(w) <= Len(data) /\ Len(data) \in Nat
  <2>1. w \in Seq(Bytes) /\ Len(w) \in Nat
    <3>1. w \in {Rar4, Rar5}
      BY DEF Archive!Whole, Rar4, Rar5
    <3> QED BY <3>1, SignatureIs
  <2>2. data \in Seq(Bytes)
    BY DEF RarInv, SearchInv
  <2> QED BY <2>1, <2>2
<1> PICK s, n : s = SubSeq(data, k + 1, k + n) /\ n = Len(w)
  OBVIOUS
<1>2. \A m \in 1 .. n : s[m] = data[k + m]
  BY <1>1
<1>3. Occurs(w, data, k)
  BY <1>2 DEF Occurs
<1> QED BY <1>3 DEF RarInv, FoundInv, NoneOccurs

LEMMA ArchiveRead ==
  ASSUME Archive!RarConstants, RarInv
  PROVE  Archive!NothingPassedOver /\ Archive!FoundIsSignature /\ Archive!HeaderIsHashed
      /\ Archive!RarTypeOK
<1>1. Archive!HeaderIsHashed
  BY DEF RarInv, CollectedInv, Archive!HeaderIsHashed, Integers1
<1>2. Archive!RarTypeOK
  BY DEF RarInv, SearchInv, HeaderInv, Archive!RarTypeOK, VInt, Length
<1> QED BY <1>1, <1>2, NoneIsPassedOver DEF RarInv, FoundInv

-----------------------------------------------------------------------------
(* SlidingWindow: the ring of the last times and what they come to.        *)

\* g has the sums of the first times, up to the k-th.
Adds(t, k, g) == g[0] = 0 /\ \A i \in 1 .. k : g[i] = g[i - 1] + t[i - 1]

\* Whatever adds up the times one by one is their sum.
LEMMA SumIs ==
  ASSUME NEW k \in Nat, NEW t, NEW g, Adds(t, k, g)
  PROVE  Window!Sum(t, k) = g[k]
<1>0. g[0] = 0 /\ \A i \in 1 .. k : g[i] = g[i - 1] + t[i - 1]
  BY DEF Adds
<1> DEFINE s == CHOOSE s : s = [i \in 0 .. k |-> IF i = 0 THEN 0 ELSE s[i - 1] + t[i - 1]]
           h == [i \in 0 .. k |-> g[i]]
<1>1. h = [i \in 0 .. k |-> IF i = 0 THEN 0 ELSE h[i - 1] + t[i - 1]]
  <2>1. ASSUME NEW i \in 0 .. k
        PROVE  g[i] = IF i = 0 THEN 0 ELSE h[i - 1] + t[i - 1]
    <3>1. CASE i = 0
      BY <1>0, <3>1
    <3>2. CASE i # 0
      <4>1. i \in 1 .. k /\ i - 1 \in 0 .. k
        BY <3>2
      <4>2. h[i - 1] = g[i - 1]
        BY <4>1
      <4>3. g[i] = g[i - 1] + t[i - 1]
        BY <1>0, <4>1
      <4> QED BY <3>2, <4>2, <4>3
    <3> QED BY <1>0, <3>1, <3>2
  <2> QED BY <2>1
<1> HIDE DEF h
<1>2. s = [i \in 0 .. k |-> IF i = 0 THEN 0 ELSE s[i - 1] + t[i - 1]]
  BY <1>1, Zenon
<1>3. Window!Sum(t, k) = s[k]
  BY Zenon DEF Window!Sum
<1> HIDE DEF s
<1> DEFINE Same == {i \in 0 .. k : s[i] = g[i]}
<1>4. 0 \in Same
  BY <1>0, <1>2
<1>5. ASSUME NEW i \in 1 .. k, i - 1 \in Same PROVE i \in Same
  <2>1. i \in 0 .. k /\ i # 0
    OBVIOUS
  <2>2. i - 1 \in 0 .. k /\ s[i - 1] = g[i - 1]
    BY <1>5
  <2>3. g[i] = g[i - 1] + t[i - 1]
    BY <1>0
  <2>4. s[i] = s[i - 1] + t[i - 1]
    BY <1>2, <2>1
  <2> QED BY <2>1, <2>2, <2>3, <2>4
<1>6. k \in 0 .. k
  OBVIOUS
<1>7. k \in Same
  <2> HIDE DEF Same
  <2> QED BY <1>4, <1>5, <1>6, UpTo
<1> QED BY <1>3, <1>7

LEMMA SumsExist ==
  ASSUME NEW n \in Nat, NEW t, \A i \in 0 .. n - 1 : t[i] \in Nat
  PROVE  \E g \in [0 .. n -> Nat] : Adds(t, n, g)
<1> DEFINE Good == {k \in 0 .. n : \E g \in [0 .. k -> Nat] : Adds(t, k, g)}
<1>1. 0 \in Good
  <2>1. [i \in 0 .. 0 |-> 0] \in [0 .. 0 -> Nat] /\ Adds(t, 0, [i \in 0 .. 0 |-> 0])
    BY DEF Adds
  <2>2. 0 \in 0 .. n
    OBVIOUS
  <2> QED BY <2>1, <2>2
<1>2. ASSUME NEW k \in 1 .. n, k - 1 \in Good PROVE k \in Good
  <2>1. PICK g \in [0 .. k - 1 -> Nat] : Adds(t, k - 1, g)
    BY <1>2
  <2> DEFINE h == [i \in 0 .. k |-> IF i = k THEN g[k - 1] + t[k - 1] ELSE g[i]]
  <2>2. k - 1 \in 0 .. k - 1 /\ k - 1 \in 0 .. n - 1 /\ k \in 0 .. k
    OBVIOUS
  <2>3. g[k - 1] + t[k - 1] \in Nat
    BY <2>1, <2>2
  <2>4. \A i \in 0 .. k : i = k \/ i \in 0 .. k - 1
    OBVIOUS
  <2>5. h \in [0 .. k -> Nat]
    BY <2>1, <2>3, <2>4
  <2>6. \A i \in 0 .. k - 1 : h[i] = g[i] /\ i \in 0 .. k
    OBVIOUS
  <2>7. h[k] = g[k - 1] + t[k - 1]
    BY <2>2
  <2> HIDE DEF h
  <2>8. ASSUME NEW i \in 1 .. k PROVE h[i] = h[i - 1] + t[i - 1]
    <3>1. i - 1 \in 0 .. k - 1 /\ (i = k \/ (i \in 0 .. k - 1 /\ i \in 1 .. k - 1))
      OBVIOUS
    <3>2. CASE i = k
      BY <2>6, <2>7, <3>1, <3>2
    <3>3. CASE i \in 0 .. k - 1 /\ i \in 1 .. k - 1
      <4>1. g[i] = g[i - 1] + t[i - 1]
        BY <2>1, <3>3 DEF Adds
      <4> QED BY <2>6, <3>1, <3>3, <4>1
    <3> QED BY <3>1, <3>2, <3>3
  <2>9. h[0] = 0
    <3>1. 0 \in 0 .. k - 1
      OBVIOUS
    <3> QED BY <2>1, <2>6, <3>1 DEF Adds
  <2>10. Adds(t, k, h)
    BY <2>8, <2>9 DEF Adds
  <2>11. k \in 0 .. n
    OBVIOUS
  <2> QED BY <2>5, <2>10, <2>11
<1>3. n \in 0 .. n
  OBVIOUS
<1>4. n \in Good
  <2> HIDE DEF Good
  <2> QED BY <1>1, <1>2, <1>3, UpTo
<1> QED BY <1>4

LEMMA SumSame ==
  ASSUME NEW n \in Nat, NEW t, NEW u, \A i \in 0 .. n - 1 : t[i] \in Nat /\ u[i] = t[i]
  PROVE  Window!Sum(t, n) = Window!Sum(u, n)
<1>1. PICK g \in [0 .. n -> Nat] : Adds(t, n, g)
  BY SumsExist
<1>2. \A i \in 1 .. n : i - 1 \in 0 .. n - 1
  OBVIOUS
<1>3. Adds(u, n, g)
  BY <1>1, <1>2 DEF Adds
<1>4. Window!Sum(t, n) = g[n]
  BY <1>1, SumIs
<1>5. Window!Sum(u, n) = g[n]
  BY <1>1, <1>3, SumIs
<1> QED BY <1>4, <1>5

\* One of the times is replaced.
LEMMA SumReplaced ==
  ASSUME NEW n \in Nat, NEW t \in [0 .. n - 1 -> Nat], NEW j \in 0 .. n - 1, NEW e \in Nat
  PROVE  Window!Sum([t EXCEPT ![j] = e], n) + t[j] = Window!Sum(t, n) + e
<1>1. PICK g \in [0 .. n -> Nat] : Adds(t, n, g)
  BY SumsExist
<1> DEFINE u == [t EXCEPT ![j] = e]
           h == [i \in 0 .. n |-> IF i > j THEN g[i] - t[j] + e ELSE g[i]]
<1>2. \A i \in 0 .. n : h[i] = IF i > j THEN g[i] - t[j] + e ELSE g[i]
  OBVIOUS
<1>3. u[j] = e /\ \A i \in 0 .. n - 1 : i # j => u[i] = t[i]
  OBVIOUS
<1> HIDE DEF h, u
<1>4. h[0] = 0
  BY <1>1, <1>2 DEF Adds
<1>5. ASSUME NEW i \in 1 .. n PROVE h[i] = h[i - 1] + u[i - 1]
  <2>1. i \in 0 .. n /\ i - 1 \in 0 .. n /\ i - 1 \in 0 .. n - 1 /\ j \in Int
    OBVIOUS
  <2>2. g[i] \in Nat /\ g[i - 1] \in Nat /\ t[i - 1] \in Nat /\ t[j] \in Nat
    BY <2>1
  <2>3. g[i] = g[i - 1] + t[i - 1]
    BY <1>1 DEF Adds
  <2>4. CASE i - 1 = j
    <3>1. i > j /\ ~(i - 1 > j)
      BY <2>1, <2>4
    <3>2. h[i] = g[i] - t[j] + e /\ h[i - 1] = g[i - 1] /\ u[i - 1] = e
      BY <1>2, <1>3, <2>1, <2>4, <3>1
    <3>3. \A x, y \in Nat : x + y - y + e = x + e
      OBVIOUS
    <3> QED BY <2>2, <2>3, <2>4, <3>2, <3>3
  <2>5. CASE i - 1 > j
    <3>1. i > j /\ i - 1 # j
      BY <2>1, <2>5
    <3>2. h[i] = g[i] - t[j] + e /\ h[i - 1] = g[i - 1] - t[j] + e /\ u[i - 1] = t[i - 1]
      BY <1>2, <1>3, <2>1, <2>5, <3>1
    <3> DEFINE a == g[i - 1]
               b == t[i - 1]
               c == t[j]
    <3>3. a \in Nat /\ b \in Nat /\ c \in Nat
      BY <2>2
    <3>4. g[i] = a + b
      BY <2>3
    <3>5. h[i] = g[i] - c + e /\ h[i - 1] = a - c + e /\ u[i - 1] = b
      BY <3>2
    <3> HIDE DEF a, b, c
    <3>6. \A x, y, z : x = a + b /\ y = x - c + e /\ z = a - c + e => y = z + b
      BY <3>3
    <3> QED BY <3>4, <3>5, <3>6
  <2>6. CASE i - 1 < j
    <3>1. ~(i > j) /\ ~(i - 1 > j) /\ i - 1 # j
      BY <2>1, <2>6
    <3>2. h[i] = g[i] /\ h[i - 1] = g[i - 1] /\ u[i - 1] = t[i - 1]
      BY <1>2, <1>3, <2>1, <3>1
    <3> QED BY <2>3, <3>2
  <2> QED BY <2>1, <2>4, <2>5, <2>6
<1>6. Window!Sum(t, n) = g[n] /\ g[n] \in Nat /\ t[j] \in Nat
  BY <1>1, SumIs
<1>7. Window!Sum(u, n) = h[n]
  <2>1. Adds(u, n, h)
    BY <1>4, <1>5 DEF Adds
  <2> QED BY <2>1, SumIs
<1>8. h[n] = g[n] - t[j] + e
  BY <1>2
<1>9. Window!Sum(u, n) + t[j] = Window!Sum(t, n) + e
  BY <1>6, <1>7, <1>8
<1> QED BY <1>9 DEF u

\* The first of the times makes room for one behind the last.
LEMMA SumMoved ==
  ASSUME NEW n \in Nat \ {0}, NEW t \in [0 .. n - 1 -> Nat], NEW u, NEW e \in Nat, u[n - 1] = e,
         \A i \in 0 .. n - 2 : u[i] = t[i + 1]
  PROVE  Window!Sum(u, n) + t[0] = Window!Sum(t, n) + e
<1>1. PICK g \in [0 .. n -> Nat] : Adds(t, n, g)
  BY SumsExist
<1> DEFINE h == [i \in 0 .. n |-> IF i = n THEN g[n] - t[0] + e ELSE g[i + 1] - t[0]]
<1>2. \A i \in 0 .. n : h[i] = IF i = n THEN g[n] - t[0] + e ELSE g[i + 1] - t[0]
  OBVIOUS
<1> HIDE DEF h
<1>3. t[0] \in Nat /\ g[1] = g[0] + t[0] /\ g[1] \in Nat
  <2>1. 0 \in 0 .. n - 1 /\ 1 \in 1 .. n /\ 1 \in 0 .. n /\ 1 - 1 = 0
    OBVIOUS
  <2> QED BY <1>1, <2>1 DEF Adds
<1>4. h[0] = 0
  <2>1. 0 \in 0 .. n /\ 0 # n /\ g[0] = 0
    BY <1>1 DEF Adds
  <2>2. h[0] = g[1] - t[0]
    BY <1>2, <2>1
  <2> QED BY <1>3, <2>1, <2>2
<1>5. ASSUME NEW i \in 1 .. n PROVE h[i] = h[i - 1] + u[i - 1]
  <2>1. i \in 0 .. n /\ i - 1 \in 0 .. n /\ i - 1 # n /\ (i - 1) + 1 = i
    OBVIOUS
  <2>2. h[i - 1] = g[i] - t[0] /\ g[i] \in Nat
    BY <1>2, <2>1
  <2>3. CASE i = n
    BY <1>2, <1>3, <2>1, <2>2, <2>3
  <2>4. CASE i # n
    <3>1. i - 1 \in 0 .. n - 2 /\ i + 1 \in 1 .. n /\ i \in 0 .. n - 1 /\ (i + 1) - 1 = i
      BY <2>4
    <3>2. u[i - 1] = t[i]
      BY <2>1, <3>1
    <3>4. g[i + 1] = g[i] + t[i]
      BY <1>1, <3>1 DEF Adds
    <3>5. g[i + 1] \in Nat /\ t[i] \in Nat
      BY <2>1, <3>1
    <3>3. h[i] = g[i + 1] - t[0]
      BY <1>2, <2>1, <2>4
    <3>6. \A a, b, c : a \in Nat /\ b \in Nat /\ c \in Nat => (a + b) - c = (a - c) + b
      OBVIOUS
    <3>7. h[i] = (g[i] + t[i]) - t[0]
      BY <3>3, <3>4
    <3>8. (g[i] + t[i]) - t[0] = (g[i] - t[0]) + t[i]
      BY <1>3, <2>2, <3>5, <3>6
    <3> QED BY <2>2, <3>2, <3>7, <3>8, Zenon
  <2> QED BY <2>3, <2>4
<1>6. Window!Sum(t, n) = g[n] /\ g[n] \in Nat
  BY <1>1, SumIs
<1>7. Window!Sum(u, n) = h[n] /\ h[n] = g[n] - t[0] + e
  <2>1. Adds(u, n, h)
    BY <1>4, <1>5 DEF Adds
  <2> QED BY <1>2, <2>1, SumIs
<1> QED BY <1>3, <1>6, <1>7

\* The last k of the times
LastTimes(ts, k) == [i \in 0 .. k - 1 |-> ts[Len(ts) - k + 1 + i]]
Place(i) ==
  IF i < m_nextElement THEN Len(times) - m_nextElement + 1 + i
                       ELSE Len(times) - N + 1 + i - m_nextElement

\* The window holds the last times, in order from the next place on, and those
\* in it come to as much as they do.
WindowInv ==
  /\ Window!WindowTypeOK /\ times \in Seq(Times)
  /\ \/ /\ Len(times) < N
        /\ m_numberOfElements = Len(times) /\ m_nextElement = Len(times)
        /\ \A i \in 0 .. Len(times) - 1 : m_elements[i] = times[i + 1]
     \/ /\ Len(times) >= N
        /\ m_numberOfElements = N
        /\ \A i \in 0 .. N - 1 : m_elements[i] = times[Place(i)]
  /\ Window!Sum(m_elements, m_numberOfElements)
       = Window!Sum(LastTimes(times, m_numberOfElements), m_numberOfElements)

LEMMA NextPlace ==
  ASSUME NEW n \in Nat \ {0}, NEW i \in 0 .. n - 1
  PROVE  (i + 1) % n = IF i = n - 1 THEN 0 ELSE i + 1
OBVIOUS

LEMMA QuotientIsZero ==
  ASSUME NEW x \in Nat, NEW y \in Nat \ {0} PROVE x \div y = 0 <=> x < y
OBVIOUS

LEMMA SumIsNatural ==
  ASSUME NEW n \in Nat, NEW t, \A i \in 0 .. n - 1 : t[i] \in Nat
  PROVE  Window!Sum(t, n) \in Nat
<1>1. PICK g \in [0 .. n -> Nat] : Adds(t, n, g)
  BY SumsExist
<1>2. Window!Sum(t, n) = g[n]
  BY <1>1, SumIs
<1> QED BY <1>2

LEMMA InitWindow == ASSUME Window!WindowConstants, Window!Init PROVE WindowInv
<1>1. N \in Nat \ {0} /\ Times \subseteq Nat
  BY DEF Window!WindowConstants
<1>2. Window!WindowTypeOK
  BY <1>1 DEF Window!Init, Window!WindowTypeOK, Window!Indices
<1>3. times = <<>> /\ times \in Seq(Times) /\ Len(times) = 0 /\ m_numberOfElements = 0 /\ m_nextElement = 0
  BY DEF Window!Init
<1>4. Window!Sum(m_elements, 0) = Window!Sum(LastTimes(times, 0), 0)
  BY SumSame
<1> QED BY <1>1, <1>2, <1>3, <1>4 DEF WindowInv

\* A read completes before the window is full.
LEMMA WindowFills ==
  ASSUME Window!WindowConstants, WindowInv, NEW e \in Times, Window!Track(e), Len(times) < N
  PROVE  WindowInv'
<1>1. N \in Nat \ {0} /\ Times \subseteq Nat
  BY DEF Window!WindowConstants
<1> DEFINE m == Len(times)
<1>2. /\ times \in Seq(Times) /\ m \in Nat /\ m < N
      /\ m_elements \in [0 .. N - 1 -> Times] /\ m_numberOfElements = m /\ m_nextElement = m
      /\ \A i \in 0 .. m - 1 : m_elements[i] = times[i + 1]
  BY DEF WindowInv, Window!WindowTypeOK, Window!Indices
<1>3. /\ m_elements' = [m_elements EXCEPT ![m] = e] /\ m_nextElement' = (m + 1) % N
      /\ m_numberOfElements' = Window!Least(m + 1, N) /\ times' = Append(times, e)
  BY <1>2 DEF Window!Track, Window!push
<1>4. /\ times' \in Seq(Times) /\ Len(times') = m + 1 /\ times'[m + 1] = e
      /\ \A i \in 1 .. m : times'[i] = times[i]
  BY <1>2, <1>3
<1>n. N \in Nat \ {0} /\ m \in Nat /\ m < N /\ Len(times') = m + 1
  BY <1>1, <1>2, <1>4
<1> HIDE DEF m
<1>5. m \in 0 .. N - 1
  BY <1>n
<1>6. m_numberOfElements' = m + 1 /\ m_nextElement' = IF m = N - 1 THEN 0 ELSE m + 1
  BY <1>1, <1>2, <1>3, <1>5, NextPlace DEF Window!Least
<1>7. m_elements' \in [0 .. N - 1 -> Times]
  BY <1>2, <1>3
<1>8. ASSUME NEW i \in 0 .. m PROVE m_elements'[i] = times'[i + 1]
  <2>1. CASE i = m
    BY <1>2, <1>3, <1>4, <1>5, <2>1
  <2>2. CASE i # m
    <3>1. i \in 0 .. m - 1 /\ i + 1 \in 1 .. m /\ i \in 0 .. N - 1
      BY <1>n, <2>2
    <3>2. m_elements'[i] = m_elements[i]
      BY <1>2, <1>3, <2>2, <3>1
    <3> QED BY <1>2, <1>4, <3>1, <3>2
  <2> QED BY <2>1, <2>2
<1>9. Window!Sum(m_elements', m + 1) = Window!Sum(LastTimes(times', m + 1), m + 1)
  <2>1. ASSUME NEW i \in 0 .. (m + 1) - 1
        PROVE  m_elements'[i] \in Nat /\ LastTimes(times', m + 1)[i] = m_elements'[i]
    <3>1. i \in 0 .. m /\ i \in 0 .. N - 1 /\ Len(times') - (m + 1) + 1 + i = i + 1
      BY <1>n
    <3>2. LastTimes(times', m + 1)[i] = times'[i + 1]
      BY <3>1 DEF LastTimes
    <3> QED BY <1>1, <1>7, <1>8, <3>1, <3>2
  <2>2. m + 1 \in Nat
    BY <1>2
  <2> QED BY <2>1, <2>2, SumSame
<1>10. Window!WindowTypeOK'
  BY <1>1, <1>2, <1>5, <1>6, <1>7 DEF Window!WindowTypeOK, Window!Indices
<1>11. CASE m + 1 < N
  <2>1. m_nextElement' = m + 1
    BY <1>n, <1>6, <1>11
  <2>2. \A i \in 0 .. Len(times') - 1 : m_elements'[i] = times'[i + 1]
    BY <1>2, <1>4, <1>8
  <2> QED BY <1>4, <1>6, <1>9, <1>10, <1>11, <2>1, <2>2 DEF WindowInv
<1>12. CASE m + 1 = N
  <2>1. m_nextElement' = 0 /\ Len(times') = N
    BY <1>n, <1>6, <1>12
  <2>2. ASSUME NEW i \in 0 .. N - 1 PROVE m_elements'[i] = times'[Place(i)']
    <3>1. Place(i)' = i + 1
      BY <1>1, <2>1 DEF Place
    <3>2. i \in 0 .. m
      BY <1>n, <1>12
    <3> QED BY <1>8, <3>1, <3>2
  <2>3. Len(times') >= N /\ m_numberOfElements' = N
    BY <1>n, <1>6, <1>12, <2>1
  <2> QED BY <1>4, <1>6, <1>9, <1>10, <2>2, <2>3 DEF WindowInv
<1> QED BY <1>n, <1>11, <1>12

\* A read completes after that: its time replaces the one of the read that is
\* no longer among the last.
LEMMA WindowMoves ==
  ASSUME Window!WindowConstants, WindowInv, NEW e \in Times, Window!Track(e), Len(times) >= N
  PROVE  WindowInv'
<1>1. N \in Nat \ {0} /\ Times \subseteq Nat
  BY DEF Window!WindowConstants
<1> DEFINE m == Len(times)
           j == m_nextElement
<1>2. /\ times \in Seq(Times) /\ m \in Nat /\ m >= N /\ j \in 0 .. N - 1
      /\ m_elements \in [0 .. N - 1 -> Times] /\ m_numberOfElements = N
      /\ \A i \in 0 .. N - 1 : m_elements[i] = times[Place(i)]
      /\ Window!Sum(m_elements, N) = Window!Sum(LastTimes(times, N), N)
  BY <1>1 DEF WindowInv, Window!WindowTypeOK, Window!Indices
<1>3. /\ m_elements' = [m_elements EXCEPT ![j] = e] /\ m_nextElement' = (j + 1) % N
      /\ m_numberOfElements' = Window!Least(N + 1, N) /\ times' = Append(times, e)
  BY <1>2 DEF Window!Track, Window!push
<1>4. /\ times' \in Seq(Times) /\ Len(times') = m + 1 /\ times'[m + 1] = e
      /\ \A i \in 1 .. m : times'[i] = times[i]
  BY <1>2, <1>3
<1>p. \A i : Place(i) = IF i < j THEN m - j + 1 + i ELSE m - N + 1 + i - j
  BY DEF Place
<1>r. \A i : Place(i)' = IF i < m_nextElement' THEN Len(times') - m_nextElement' + 1 + i
                                              ELSE Len(times') - N + 1 + i - m_nextElement'
  BY DEF Place
<1>n. N \in Nat \ {0} /\ m \in Nat /\ m >= N /\ j \in 0 .. N - 1 /\ Len(times') = m + 1
  BY <1>1, <1>2, <1>4
<1>s. \A i \in 1 .. m : times[i] \in Nat
  <2>1. times \in Seq(Times) /\ Times \subseteq Nat
    BY <1>1, <1>2
  <2>2. \A i \in 1 .. Len(times) : times[i] \in Times
    BY <2>1
  <2> QED BY <2>1, <2>2
<1>t. \A i \in 1 .. m + 1 : times'[i] \in Nat
  <2>1. \A i \in 1 .. m + 1 : i = m + 1 \/ i \in 1 .. m
    BY <1>n
  <2> QED BY <1>1, <1>4, <1>s, <2>1
<1>l. \A i \in 0 .. N - 1 : /\ LastTimes(times, N)[i] = times[m - N + 1 + i]
                             /\ LastTimes(times', N)[i] = times'[m + 1 - N + 1 + i]
  BY <1>n DEF LastTimes
<1>o. LastTimes(times, N) = [i \in 0 .. N - 1 |-> times[m - N + 1 + i]]
  BY DEF LastTimes
<1> HIDE DEF m, j
<1>5. m_numberOfElements' = N /\ m_nextElement' = IF j = N - 1 THEN 0 ELSE j + 1
  BY <1>n, <1>3, NextPlace DEF Window!Least
<1>6. m_elements' \in [0 .. N - 1 -> Times]
  BY <1>2, <1>3
<1>7. ASSUME NEW i \in 0 .. N - 1 PROVE m_elements'[i] = times'[Place(i)']
  <2>1. CASE i = j
    <3>1. Place(i)' = m + 1
      <4>1. Place(i)' = IF i < m_nextElement' THEN Len(times') - m_nextElement' + 1 + i
                                              ELSE Len(times') - N + 1 + i - m_nextElement'
        BY <1>r
      <4> QED BY <1>n, <1>5, <2>1, <4>1
    <3> QED BY <1>2, <1>3, <1>4, <2>1, <3>1
  <2>2. CASE i # j
    <3>1. m_elements'[i] = times[Place(i)]
      BY <1>2, <1>3, <2>2
    <3>2. Place(i)' = Place(i)
      <4>1. Place(i)' = IF i < m_nextElement' THEN Len(times') - m_nextElement' + 1 + i
                                              ELSE Len(times') - N + 1 + i - m_nextElement'
        BY <1>r
      <4>2. Place(i) = IF i < j THEN m - j + 1 + i ELSE m - N + 1 + i - j
        BY <1>p
      <4>3. CASE j = N - 1
        BY <1>n, <1>5, <2>2, <4>1, <4>2, <4>3
      <4>4. CASE j # N - 1
        BY <1>n, <1>5, <2>2, <4>1, <4>2, <4>4
      <4> QED BY <4>3, <4>4
    <3>3. Place(i) \in 1 .. m
      <4>1. Place(i) = IF i < j THEN m - j + 1 + i ELSE m - N + 1 + i - j
        BY <1>p
      <4> QED BY <1>n, <2>2, <4>1
    <3> QED BY <1>4, <3>1, <3>2, <3>3
  <2> QED BY <2>1, <2>2
<1>8. Window!WindowTypeOK'
  BY <1>1, <1>2, <1>5, <1>6 DEF Window!WindowTypeOK, Window!Indices
<1>9. Window!Sum(m_elements', N) = Window!Sum(LastTimes(times', N), N)
  <2> DEFINE t == LastTimes(times, N)
             u == LastTimes(times', N)
  <2>1. \A i \in 0 .. N - 1 : t[i] = times[m - N + 1 + i] /\ u[i] = times'[m + 1 - N + 1 + i]
    BY <1>l
  <2>2. t = [i \in 0 .. N - 1 |-> times[m - N + 1 + i]]
    BY <1>o
  <2> HIDE DEF t, u
  <2>3. \A i \in 0 .. N - 1 : m - N + 1 + i \in 1 .. m
    BY <1>n
  <2>5. t \in [0 .. N - 1 -> Nat]
    BY <1>s, <2>2, <2>3
  <2>6. u[N - 1] = e
    <3>1. N - 1 \in 0 .. N - 1 /\ m + 1 - N + 1 + (N - 1) = m + 1
      BY <1>n
    <3> QED BY <1>4, <2>1, <3>1
  <2>7. ASSUME NEW i \in 0 .. N - 2 PROVE u[i] = t[i + 1]
    <3>1. /\ i \in 0 .. N - 1 /\ i + 1 \in 0 .. N - 1
          /\ m + 1 - N + 1 + i = m - N + 1 + (i + 1)
      BY <1>n
    <3>2. m - N + 1 + (i + 1) \in 1 .. m
      BY <2>3, <3>1
    <3> QED BY <1>4, <2>1, <3>1, <3>2
  <2>8. e \in Nat
    BY <1>1
  <2>9. Window!Sum(u, N) + t[0] = Window!Sum(t, N) + e
    BY <1>1, <2>5, <2>6, <2>7, <2>8, SumMoved
  <2>10. m_elements \in [0 .. N - 1 -> Nat]
    BY <1>1, <1>2
  <2>11. Window!Sum(m_elements', N) + m_elements[j] = Window!Sum(m_elements, N) + e
    BY <1>1, <1>2, <1>3, <2>8, <2>10, SumReplaced
  <2>12. m_elements[j] = t[0]
    <3>1. Place(j) = IF j < j THEN m - j + 1 + j ELSE m - N + 1 + j - j
      BY <1>p
    <3>2. 0 \in 0 .. N - 1 /\ Place(j) = m - N + 1 /\ m - N + 1 + 0 = m - N + 1
      BY <1>n, <3>1
    <3> QED BY <1>2, <2>1, <3>2
  <2>13. t[0] \in Nat
    BY <1>1, <2>5
  <2>14. \A i \in 0 .. N - 1 : m_elements'[i] \in Nat /\ u[i] \in Nat
    <3>1. \A i \in 0 .. N - 1 : m + 1 - N + 1 + i \in 1 .. m + 1
      BY <1>n
    <3> QED BY <1>1, <1>6, <1>t, <2>1, <3>1
  <2>15. Window!Sum(m_elements', N) \in Nat /\ Window!Sum(u, N) \in Nat
    BY <1>1, <2>14, SumIsNatural
  <2>16. Window!Sum(m_elements, N) = Window!Sum(t, N)
    BY <1>2 DEF t
  <2>17. \A x, y, z, w \in Nat : x + z = w /\ y + z = w => x = y
    OBVIOUS
  <2>18. Window!Sum(m_elements', N) + t[0] = Window!Sum(u, N) + t[0]
    BY <2>9, <2>11, <2>12, <2>16
  <2>19. Window!Sum(m_elements', N) = Window!Sum(u, N)
    BY <2>13, <2>15, <2>18
  <2> QED BY <2>19 DEF u
<1>10. Len(times') >= N
  BY <1>n
<1> QED BY <1>4, <1>5, <1>7, <1>8, <1>9, <1>10 DEF WindowInv

LEMMA WindowStays ==
  ASSUME Window!WindowConstants, WindowInv, [Window!Next]_(Window!vars)
  PROVE  WindowInv'
<1>1. ASSUME NEW e \in Times, Window!Track(e) PROVE WindowInv'
  <2>1. Len(times) \in Nat /\ N \in Nat
    BY DEF WindowInv, Window!WindowConstants
  <2>2. Len(times) < N \/ Len(times) >= N
    BY <2>1
  <2> QED BY <1>1, <2>2, WindowFills, WindowMoves
<1>2. CASE UNCHANGED Window!vars
  <2>1. \A i : Place(i)' = Place(i)
    BY <1>2 DEF Window!vars, Place
  <2>2. Window!WindowTypeOK'
    BY <1>2 DEF Window!vars, WindowInv, Window!WindowTypeOK
  <2>3. /\ m_elements' = m_elements /\ m_numberOfElements' = m_numberOfElements
        /\ m_nextElement' = m_nextElement /\ times' = times
    BY <1>2 DEF Window!vars
  <2> QED BY <2>1, <2>2, <2>3 DEF WindowInv
<1> QED BY <1>1, <1>2 DEF Window!Next

LEMMA WindowInvariant == ASSUME Window!WindowConstants PROVE Window!Spec => []WindowInv
<1>1. Window!Init => WindowInv
  BY InitWindow
<1>2. WindowInv /\ [Window!Next]_(Window!vars) => WindowInv'
  BY WindowStays
<1> QED BY <1>1, <1>2, PTL DEF Window!Spec

\* No time is averaged to 0 but that of reads which take less than one each.
LEMMA BandwidthIs ==
  ASSUME Window!WindowConstants, WindowInv PROVE Window!BandwidthOfLastReads
<1>1. /\ N \in Nat \ {0} /\ BufferSize \in Nat \ {0} /\ Second \in Nat \ {0} /\ Times \subseteq Nat
      /\ times \in Seq(Times) /\ Len(times) \in Nat
  BY DEF Window!WindowConstants, WindowInv
<1> DEFINE k == m_numberOfElements
           total == Window!Sum(LastTimes(times, k), k)
<1>2. k = Window!Least(N, Len(times)) /\ k \in Nat /\ k <= Len(times)
  BY <1>1 DEF WindowInv, Window!Least
<1>3. Window!Sum(m_elements, k) = total
  BY DEF WindowInv
<1>4. total \in Nat
  <2>1. \A i \in 0 .. k - 1 : Len(times) - k + 1 + i \in 1 .. Len(times)
    BY <1>1, <1>2
  <2>2. \A i \in 1 .. Len(times) : times[i] \in Nat
    <3>1. times \in Seq(Times) /\ Times \subseteq Nat
      BY <1>1
    <3>2. \A i \in 1 .. Len(times) : times[i] \in Times
      BY <3>1
    <3> QED BY <3>1, <3>2
  <2>3. \A i \in 0 .. k - 1 : LastTimes(times, k)[i] = times[Len(times) - k + 1 + i]
    BY DEF LastTimes
  <2>4. \A i \in 0 .. k - 1 : LastTimes(times, k)[i] \in Nat
    BY <2>1, <2>2, <2>3
  <2> QED BY <1>2, <2>4, SumIsNatural
<1>5. [i \in 0 .. k - 1 |-> times[Len(times) - k + 1 + i]] = LastTimes(times, k)
  BY DEF LastTimes
<1> HIDE DEF total
<1>6. Window!rollingAverage = IF k = 0 THEN 0 ELSE total \div k
  BY <1>3 DEF Window!rollingAverage
<1> HIDE DEF k
<1>7. ASSUME k # 0 PROVE total \div k = 0 <=> total < k
  BY <1>2, <1>4, <1>7, QuotientIsZero
<1>8. Window!bandwidth = IF k = 0 \/ total < k THEN 0 ELSE (BufferSize * Second) \div (total \div k)
  BY <1>6, <1>7 DEF Window!bandwidth
<1> QED BY <1>2, <1>5, <1>8 DEF Window!BandwidthOfLastReads, total

-----------------------------------------------------------------------------
(* The files of the part are those of ChecksumFormats, and what is proved  *)
(* of them is true of the part.                                            *)

Checksums == INSTANCE ChecksumFormatsProofs

LEMMA SameLines ==
  /\ \A s : Formats!trim(s) = Checksums!trim(s)
  /\ \A l : Formats!Skipped(l) <=> Checksums!Skipped(l)
  /\ \A l : Formats!Valid(l) <=> Checksums!Valid(l)
  /\ \A l : Formats!addEntry(l) = Checksums!addEntry(l)
  /\ \A e : Formats!Line(e) = Checksums!Line(e)
<1> USE DEF Formats!Blank, Checksums!Blank, Formats!Semicolon, Checksums!Semicolon,
            Formats!Asterisk, Checksums!Asterisk, Formats!HexChar, Checksums!HexChar
<1>1. \A s : Formats!trim(s) = Checksums!trim(s)
  BY Zenon DEF Formats!trim, Checksums!trim, Formats!NotBlank, Checksums!NotBlank,
               Formats!SelectInSeq, Checksums!SelectInSeq, Formats!Min, Checksums!Min,
               Formats!SelectLastInSeq, Checksums!SelectLastInSeq, Formats!Max, Checksums!Max
<1>2. \A l : Formats!Star(l) = Checksums!Star(l)
  BY Zenon DEF Formats!Star, Checksums!Star, Formats!SelectInSeq, Checksums!SelectInSeq,
               Formats!Min, Checksums!Min
<1>3. \A l : Formats!Comment(l) <=> Checksums!Comment(l)
  BY Zenon DEF Formats!Comment, Checksums!Comment, Formats!IsPrefix, Checksums!IsPrefix
<1>4. \A l : Formats!Skipped(l) <=> Checksums!Skipped(l)
  BY <1>1, <1>3, Zenon DEF Formats!Skipped, Checksums!Skipped
<1>5. \A l : /\ Formats!SfvPath(l) = Checksums!SfvPath(l)
             /\ Formats!SfvDigest(l) = Checksums!SfvDigest(l)
             /\ Formats!Md5Path(l) = Checksums!Md5Path(l)
             /\ Formats!Md5Digest(l) = Checksums!Md5Digest(l)
             /\ Formats!Sha1Path(l) = Checksums!Sha1Path(l)
             /\ Formats!Sha1Digest(l) = Checksums!Sha1Digest(l)
  BY <1>1, <1>2, Zenon DEF
       Formats!SfvPath, Checksums!SfvPath, Formats!SfvDigest, Checksums!SfvDigest,
       Formats!Md5Path, Checksums!Md5Path, Formats!Md5Digest, Checksums!Md5Digest,
       Formats!Sha1Path, Checksums!Sha1Path, Formats!Sha1Digest, Checksums!Sha1Digest
<1>6. \A l : /\ Formats!SfvValid(l) = Checksums!SfvValid(l)
             /\ Formats!Md5Valid(l) = Checksums!Md5Valid(l)
             /\ Formats!Sha1Valid(l) = Checksums!Sha1Valid(l)
  BY <1>1, <1>2, <1>5, Zenon DEF
       Formats!SfvValid, Checksums!SfvValid, Formats!Md5Valid, Checksums!Md5Valid,
       Formats!Sha1Valid, Checksums!Sha1Valid, Formats!Contains, Checksums!Contains
<1>7. \A l : Formats!Fields(l) = Checksums!Fields(l)
  BY <1>5, Zenon DEF Formats!Fields, Checksums!Fields
<1>8. \A s : /\ Formats!IsHex(s) <=> Checksums!IsHex(s)
             /\ Formats!Value(s) = Checksums!Value(s)
  BY Zenon DEF Formats!IsHex, Checksums!IsHex, Formats!ToSet, Checksums!ToSet,
               Formats!Value, Checksums!Value
<1>9. \A l : Formats!Valid(l) <=> Checksums!Valid(l)
  BY <1>6, <1>7, <1>8, Zenon DEF Formats!Valid, Checksums!Valid
<1>10. \A l : Formats!addEntry(l) = Checksums!addEntry(l)
  BY <1>7, <1>8, Zenon DEF Formats!addEntry, Checksums!addEntry
<1>11. \A e : Formats!Line(e) = Checksums!Line(e)
  BY Zenon DEF Formats!Line, Checksums!Line
<1> QED BY <1>1, <1>4, <1>9, <1>10, <1>11

LEMMA SameFormats ==
  /\ Formats!Init => Checksums!Init
  /\ Formats!Next => Checksums!Next
  /\ Checksums!PlainPathsReadBack => Formats!PlainPathsReadBack
  /\ Checksums!ImportedReadsBack => Formats!ImportedReadsBack
  /\ Checksums!FormatTypeOK => Formats!FormatTypeOK
<1>1. Formats!Init => Checksums!Init
  BY Zenon DEF Formats!Init, Checksums!Init, Formats!Paths, Checksums!Paths,
               Formats!Strings, Checksums!Strings, Formats!Digests, Checksums!Digests,
               Formats!Char, Checksums!Char, Formats!Blank, Checksums!Blank,
               Formats!Semicolon, Checksums!Semicolon, Formats!Asterisk, Checksums!Asterisk
<1>2. Formats!WriteNext => Checksums!WriteNext
  BY SameLines, Zenon DEF Formats!WriteNext, Checksums!WriteNext
<1>3. /\ Formats!Written => Checksums!Written
      /\ Formats!WriteFails => Checksums!WriteFails
      /\ Formats!EndOfFile => Checksums!EndOfFile
  BY Zenon DEF Formats!Written, Checksums!Written, Formats!WriteFails, Checksums!WriteFails,
               Formats!EndOfFile, Checksums!EndOfFile, Formats!Reading, Checksums!Reading
<1>4. Formats!ReadLine => Checksums!ReadLine
  BY SameLines, Zenon DEF Formats!ReadLine, Checksums!ReadLine, Formats!Reading, Checksums!Reading
<1>5. \A p : Formats!Plain(p) => Checksums!Plain(p)
  BY SameLines, Zenon DEF Formats!Plain, Checksums!Plain, Formats!Contains, Checksums!Contains,
               Formats!Semicolon, Checksums!Semicolon, Formats!Asterisk, Checksums!Asterisk
<1>6. Checksums!ReadsBack => Formats!ReadsBack
  BY Zenon DEF Formats!ReadsBack, Checksums!ReadsBack, Formats!IsPrefix, Checksums!IsPrefix
<1>7. /\ Checksums!PlainPathsReadBack => Formats!PlainPathsReadBack
      /\ Checksums!ImportedReadsBack => Formats!ImportedReadsBack
  BY <1>5, <1>6, Zenon DEF Formats!PlainPathsReadBack, Checksums!PlainPathsReadBack,
               Formats!ImportedReadsBack, Checksums!ImportedReadsBack
<1>8. Checksums!FormatTypeOK => Formats!FormatTypeOK
  BY Zenon DEF Formats!FormatTypeOK, Checksums!FormatTypeOK, Formats!Digests, Checksums!Digests
<1> QED BY <1>1, <1>2, <1>3, <1>4, <1>7, <1>8, Zenon DEF Formats!Next, Checksums!Next

LEMMA FormatsPart == WorkerSpec => Checksums!Spec
<1>1. WorkerInit => Checksums!Init
  BY SameFormats DEF WorkerInit
<1>2. [WorkerNext]_allVars => [Checksums!Next]_(Checksums!vars)
  <2>1. UNCHANGED formatVars => UNCHANGED Checksums!vars
    BY DEF formatVars, Checksums!vars
  <2>2. [WorkerNext]_allVars => Formats!Next \/ UNCHANGED formatVars
    BY DEF WorkerNext, allVars
  <2> QED BY <2>1, <2>2, SameFormats
<1> QED BY <1>1, <1>2, PTL DEF WorkerSpec, Checksums!Spec

-----------------------------------------------------------------------------
(* The digests are those of PluginDigests, and what is proved of them is   *)
(* true of the part.                                                       *)

CarefulProgram == EmptyOperands = FALSE /\ FreshHasher = FALSE
Pointers == INSTANCE PluginDigestsProofs WITH answer <- digestAnswer

LEMMA SameDigests ==
  /\ Digests!Init => Pointers!Init
  /\ Digests!Next => Pointers!Next
<1> USE DEF Digests!Value!Done, Pointers!Value!Done, Digests!Null, Pointers!Null,
            Digests!Dead, Pointers!Dead, Digests!digests, Pointers!digests,
            Digests!sha1, Pointers!sha1, Digests!Alive, Pointers!Alive,
            Digests!HoldsBlock, Pointers!HoldsBlock, Digests!Fails, Pointers!Fails,
            Digests!Error, Pointers!Error
<1>1. Digests!Init => Pointers!Init
  BY ZenonT(40) DEF Digests!Init, Pointers!Init
<1>2. /\ Digests!Reset => Pointers!Reset
      /\ \A c : Digests!AddData(c) => Pointers!AddData(c)
  BY ZenonT(40) DEF Digests!Reset, Pointers!Reset, Digests!AddData, Pointers!AddData,
               Digests!Asserts, Pointers!Asserts
<1>3. \A v : /\ Digests!Finalize(v) => Pointers!Finalize(v)
             /\ Digests!Parse(v) => Pointers!Parse(v)
             /\ Digests!Destroy(v) => Pointers!Destroy(v)
  BY ZenonT(40) DEF Digests!Finalize, Pointers!Finalize, Digests!Parse, Pointers!Parse,
               Digests!Destroy, Pointers!Destroy, Digests!Contents, Pointers!Contents,
               Digests!BoundedSeq, Pointers!BoundedSeq, Digests!SeqOf, Pointers!SeqOf,
               Digests!Crc, Pointers!Crc, Digests!malloc, Pointers!malloc,
               Digests!NewBlock, Pointers!NewBlock, Digests!Set, Pointers!Set,
               Digests!Plugin, Pointers!Plugin
<1>4. \A v, w : /\ Digests!Construct(v, w) => Pointers!Construct(v, w)
                /\ Digests!Assign(v, w) => Pointers!Assign(v, w)
  BY ZenonT(40) DEF Digests!Construct, Pointers!Construct, Digests!Assign, Pointers!Assign,
               Digests!Crashes, Pointers!Crashes, Digests!clone, Pointers!clone,
               Digests!malloc, Pointers!malloc, Digests!NewBlock, Pointers!NewBlock,
               Digests!Set, Pointers!Set, Digests!Plugin, Pointers!Plugin
<1>5. \A v, w : /\ Digests!Move(v, w) => Pointers!Move(v, w)
                /\ Digests!Compare(v, w) => Pointers!Compare(v, w)
  BY ZenonT(40) DEF Digests!Move, Pointers!Move,
               Digests!Compare, Pointers!Compare, Digests!equalTo, Pointers!equalTo
<1>6. Digests!Next => Pointers!Next
  BY <1>2, <1>3, <1>4, <1>5 DEF Digests!Next, Pointers!Next
<1> QED BY <1>1, <1>6

LEMMA SameValues ==
  /\ Pointers!Value!Init => Digests!Value!Init
  /\ UNCHANGED Pointers!Value!vars => UNCHANGED Digests!Value!vars
  /\ Pointers!Value!Next => Digests!Value!Next
<1> USE DEF Digests!Abstract, Pointers!Abstract, Digests!Dead, Pointers!Dead,
            Digests!Null, Pointers!Null, Digests!HoldsBlock, Pointers!HoldsBlock,
            Digests!Value!Done, Pointers!Value!Done, Digests!Value!Empty, Pointers!Value!Empty,
            Digests!Value!Dead, Pointers!Value!Dead, Digests!Value!Of, Pointers!Value!Of,
            Digests!Value!Alive, Pointers!Value!Alive,
            Digests!Value!Becomes, Pointers!Value!Becomes,
            Digests!Value!hasher, Pointers!Value!hasher
<1>0. /\ Pointers!Value!Init => Digests!Value!Init
      /\ UNCHANGED Pointers!Value!vars => UNCHANGED Digests!Value!vars
  BY ZenonT(40) DEF Digests!Value!Init, Pointers!Value!Init, Digests!Value!vars, Pointers!Value!vars
<1>1. /\ Pointers!Value!Reset => Digests!Value!Reset
      /\ Pointers!Value!Fail => Digests!Value!Fail
      /\ \A c : Pointers!Value!AddData(c) => Digests!Value!AddData(c)
  BY ZenonT(40) DEF Digests!Value!Reset, Pointers!Value!Reset, Digests!Value!Fail, Pointers!Value!Fail,
               Digests!Value!AddData, Pointers!Value!AddData, Digests!Codes, Pointers!Codes
<1>2. \A v : /\ Pointers!Value!Finalize(v) => Digests!Value!Finalize(v)
             /\ Pointers!Value!Destroy(v) => Digests!Value!Destroy(v)
  BY ZenonT(40) DEF Digests!Value!Finalize, Pointers!Value!Finalize,
               Digests!Value!Destroy, Pointers!Value!Destroy
<1>3. \A v, t, s : Pointers!Value!Parse(v, t, s) => Digests!Value!Parse(v, t, s)
  BY ZenonT(40) DEF Digests!Value!Parse, Pointers!Value!Parse
<1>4. \A v, w : /\ Pointers!Value!Copy(v, w) => Digests!Value!Copy(v, w)
                /\ Pointers!Value!Move(v, w) => Digests!Value!Move(v, w)
                /\ Pointers!Value!Compare(v, w) => Digests!Value!Compare(v, w)
  BY ZenonT(40) DEF Digests!Value!Copy, Pointers!Value!Copy, Digests!Value!Move, Pointers!Value!Move,
               Digests!Value!Compare, Pointers!Value!Compare
<1>5. Pointers!Contents = Digests!Contents
  BY ZenonT(40) DEF Digests!Contents, Pointers!Contents,
               Digests!BoundedSeq, Pointers!BoundedSeq, Digests!SeqOf, Pointers!SeqOf
<1>6. Pointers!Value!Next => Digests!Value!Next
  BY <1>1, <1>2, <1>3, <1>4, <1>5, Zenon DEF Digests!Value!Next, Pointers!Value!Next
<1> QED BY <1>0, <1>6

LEMMA DigestsPart == WorkerSpec => Pointers!Spec
<1>1. WorkerInit => Pointers!Init
  BY SameDigests, Zenon DEF WorkerInit
<1>2. [WorkerNext]_allVars => [Pointers!Next]_(Pointers!vars)
  <2>1. UNCHANGED digestVars => UNCHANGED Pointers!vars
    BY DEF digestVars, Pointers!vars
  <2>2. [WorkerNext]_allVars => Digests!Next \/ UNCHANGED digestVars
    BY DEF WorkerNext, allVars
  <2> QED BY <2>1, <2>2, SameDigests
<1> QED BY <1>1, <1>2, PTL DEF WorkerSpec, Pointers!Spec

-----------------------------------------------------------------------------
(* The texts are those of Utf, and what is proved of them is true of the   *)
(* part.  Numbers of many digits are for SMT, recursive functions for      *)
(* Zenon.                                                                  *)

Strings == INSTANCE UtfProofs

LEMMA SameCodes ==
  /\ \A c : Text!encodeUtf32ToUtf8(c) = Strings!encodeUtf32ToUtf8(c)
  /\ \A c : Text!encodeUtf32ToUtf16(c) = Strings!encodeUtf32ToUtf16(c)
  /\ \A s : Text!decodeUtf8(s) = Strings!decodeUtf8(s)
  /\ \A s : Text!decodeUtf16(s) = Strings!decodeUtf16(s)
  /\ \A t : Text!Encoded(t) = Strings!Encoded(t)
<1>1. \A c : Text!encodeUtf32ToUtf8(c) = Strings!encodeUtf32ToUtf8(c)
  BY SMT DEF Text!encodeUtf32ToUtf8, Strings!encodeUtf32ToUtf8
<1>2. \A c : Text!encodeUtf32ToUtf16(c) = Strings!encodeUtf32ToUtf16(c)
  BY SMT DEF Text!encodeUtf32ToUtf16, Strings!encodeUtf32ToUtf16
<1>3. \A s : Text!decodeUtf8(s) = Strings!decodeUtf8(s)
  <2>1. \A b : /\ Text!SequenceLength(b) = Strings!SequenceLength(b)
               /\ Text!HeaderBits(b) = Strings!HeaderBits(b)
    BY ZenonT(40) DEF Text!SequenceLength, Strings!SequenceLength, Text!HeaderBits, Strings!HeaderBits
  <2>2. \A s, n : Text!Accumulated(s, n) = Strings!Accumulated(s, n)
    BY <2>1, ZenonT(40) DEF Text!Accumulated, Strings!Accumulated,
                 Text!add_multi_byte, Strings!add_multi_byte
  <2> QED BY <2>1, <2>2, ZenonT(40) DEF Text!decodeUtf8, Strings!decodeUtf8,
               Text!check_multi_byte, Strings!check_multi_byte, Text!DecodeError, Strings!DecodeError
<1>4. \A s : Text!decodeUtf16(s) = Strings!decodeUtf16(s)
  BY SMT DEF Text!decodeUtf16, Strings!decodeUtf16, Text!HighSurrogate, Strings!HighSurrogate,
             Text!LowSurrogate, Strings!LowSurrogate, Text!DecodeError, Strings!DecodeError
<1>5. \A t : Text!EncodedFrom(t) = Strings!EncodedFrom(t)
  BY <1>1, ZenonT(40) DEF Text!EncodedFrom, Strings!EncodedFrom
<1>6. \A t : Text!Encoded(t) = Strings!Encoded(t)
  BY <1>5, Zenon DEF Text!Encoded, Strings!Encoded
<1> QED BY <1>1, <1>2, <1>3, <1>4, <1>6

LEMMA SameTrims ==
  /\ \A s : Text!trimAllUtf(s) = Strings!trimAllUtf(s)
  /\ \A t : Text!TrimmedText(t) = Strings!TrimmedText(t)
<1>1. \A c : Text!WhiteSpace(c) <=> Strings!WhiteSpace(c)
  BY SMT DEF Text!WhiteSpace, Strings!WhiteSpace
<1>2. \A s : Text!TrimmedFront(s) = Strings!TrimmedFront(s)
  BY <1>1, SameCodes, ZenonT(40) DEF Text!TrimmedFront, Strings!TrimmedFront, Text!Drop, Strings!Drop
<1>3. \A s : Text!LastCharacter(s) = Strings!LastCharacter(s)
  BY SameCodes, ZenonT(40) DEF Text!LastCharacter, Strings!LastCharacter, Text!Suffix, Strings!Suffix,
                   Text!SuffixDecodes, Strings!SuffixDecodes
<1>4. \A s : Text!TrimmedBack(s) = Strings!TrimmedBack(s)
  BY <1>1, <1>3, SameCodes, ZenonT(40) DEF Text!TrimmedBack, Strings!TrimmedBack
<1>5. \A s : Text!Fronts(s) = Strings!Fronts(s) /\ Text!Backs(s) = Strings!Backs(s)
  BY <1>2, <1>4, ZenonT(40) DEF Text!Fronts, Strings!Fronts, Text!Backs, Strings!Backs
<1>6. \A s : Text!trimAllUtf(s) = Strings!trimAllUtf(s)
  BY <1>5, ZenonT(40) DEF Text!trimAllUtf, Strings!trimAllUtf
<1>7. \A t : Text!Kept(t) = Strings!Kept(t)
  BY <1>1, ZenonT(40) DEF Text!Kept, Strings!Kept
<1>8. \A S : Text!Min(S) = Strings!Min(S) /\ Text!Max(S) = Strings!Max(S)
  BY Zenon DEF Text!Min, Strings!Min, Text!Max, Strings!Max
<1>9. \A t : Text!TrimmedText(t) = Strings!TrimmedText(t)
  BY <1>7, <1>8, ZenonT(40) DEF Text!TrimmedText, Strings!TrimmedText
<1> QED BY <1>6, <1>9

LEMMA SameTexts ==
  /\ Text!UtfConstants => Strings!UtfConstants
  /\ Text!Init => Strings!Init
  /\ Text!Next => Strings!Next
  /\ Text!vars = Strings!vars
  /\ Strings!UtfTypeOK => Text!UtfTypeOK
  /\ Strings!TextSurvives => Text!TextSurvives
  /\ Strings!CutIsRejected => Text!CutIsRejected
  /\ Strings!TrimsCharacters => Text!TrimsCharacters
<1>1. Text!UtfConstants => Strings!UtfConstants
  <2>1. \A c : Text!Scalar(c) <=> Strings!Scalar(c)
    BY SMT DEF Text!Scalar, Strings!Scalar
  <2> QED BY <2>1, Zenon DEF Text!UtfConstants, Strings!UtfConstants
<1>2. Text!Init => Strings!Init
  BY SameCodes, ZenonT(40) DEF Text!Init, Strings!Init, Text!Last, Strings!Last
<1>3. Text!checkValidUtf8 => Strings!checkValidUtf8
  BY SameCodes, ZenonT(40) DEF Text!checkValidUtf8, Strings!checkValidUtf8, Text!Drop, Strings!Drop
<1>4. Text!convertToUtf16 => Strings!convertToUtf16
  BY SameCodes, ZenonT(40) DEF Text!convertToUtf16, Strings!convertToUtf16, Text!Drop, Strings!Drop
<1>5. Text!convertToUtf8 => Strings!convertToUtf8
  BY SameCodes, ZenonT(40) DEF Text!convertToUtf8, Strings!convertToUtf8, Text!Drop, Strings!Drop
<1>6. Text!NextLoop => Strings!NextLoop
  BY Zenon DEF Text!NextLoop, Strings!NextLoop
<1>7. Text!Next => Strings!Next
  BY <1>3, <1>4, <1>5, <1>6 DEF Text!Next, Strings!Next
<1>8. Text!vars = Strings!vars
  BY Zenon DEF Text!vars, Strings!vars
<1>9. Strings!UtfTypeOK => Text!UtfTypeOK
  BY SMT DEF Text!UtfTypeOK, Strings!UtfTypeOK
<1>10. /\ Strings!TextSurvives => Text!TextSurvives
       /\ Strings!CutIsRejected => Text!CutIsRejected
  BY Zenon DEF Text!TextSurvives, Strings!TextSurvives, Text!CutIsRejected, Strings!CutIsRejected
<1>11. Strings!TrimsCharacters => Text!TrimsCharacters
  BY SameCodes, SameTrims, ZenonT(40) DEF Text!TrimsCharacters, Strings!TrimsCharacters
<1> QED BY <1>1, <1>2, <1>7, <1>8, <1>9, <1>10, <1>11

LEMMA TextPart == WorkerSpec => Strings!Spec
<1>1. WorkerInit => Strings!Init
  BY SameTexts, Zenon DEF WorkerInit
<1>2. [WorkerNext]_allVars => [Strings!Next]_(Strings!vars)
  <2>1. UNCHANGED utfVars => UNCHANGED Strings!vars
    BY DEF utfVars, Strings!vars
  <2>2. [WorkerNext]_allVars => Text!Next \/ UNCHANGED utfVars
    BY DEF WorkerNext, allVars
  <2> QED BY <2>1, <2>2, SameTexts
<1> QED BY <1>1, <1>2, PTL DEF WorkerSpec, Strings!Spec

-----------------------------------------------------------------------------
(* The parts of WorkerThread                                               *)

LEMMA InputPart == WorkerSpec => Spec
<1>1. WorkerInit => Init
  BY DEF WorkerInit
<1>2. [WorkerNext]_allVars => [Next]_vars
  BY DEF WorkerNext, allVars, vars
<1> QED BY <1>1, <1>2, PTL DEF WorkerSpec, Spec

LEMMA ListingPart == WorkerSpec => Listing!Spec
<1>1. WorkerInit => Listing!Init
  BY DEF WorkerInit
<1>2. [WorkerNext]_allVars => [Listing!Next]_(Listing!vars)
  BY DEF WorkerNext, allVars, folderVars, Listing!vars
<1> QED BY <1>1, <1>2, PTL DEF WorkerSpec, Listing!Spec

LEMMA ArchivePart == WorkerSpec => Archive!Spec
<1>1. WorkerInit => Archive!Init
  BY DEF WorkerInit
<1>2. [WorkerNext]_allVars => [Archive!Next]_(Archive!vars)
  BY DEF WorkerNext, allVars, rarVars, Archive!vars
<1> QED BY <1>1, <1>2, PTL DEF WorkerSpec, Archive!Spec

LEMMA WindowPart == WorkerSpec => Window!Spec
<1>1. WorkerInit => Window!Init
  BY DEF WorkerInit
<1>2. [WorkerNext]_allVars => [Window!Next]_(Window!vars)
  BY DEF WorkerNext, allVars, windowVars, Window!vars
<1> QED BY <1>1, <1>2, PTL DEF WorkerSpec, Window!Spec

\* Whatever the folder, the order of its entries and what cannot be read or
\* hashed: a file is yielded once, its entry leads to it, and a checksum file is
\* written for the whole folder or not at all.
THEOREM FolderIsListedAlways == WorkerSpec => []FolderIsListed
<1>1. Listing!FolderConstants
  BY PartConstants
<1>2. ListingInv => FolderIsListed
  BY <1>1, ListsOnce, WritesTheWhole DEF ListingInv, FolderIsListed
<1> QED BY <1>1, <1>2, ListingPart, ListingInvariant, PTL

\* Whatever is written, whatever a file from elsewhere says, and wherever writing
\* fails: if its format has a place for every path, a file is read back as it was
\* written, and what was read itself has such paths only.
THEOREM FilesReadBack == WorkerSpec => []ReadsBack
<1>1. Checksums!FormatConstants
  BY PartConstants DEF Formats!FormatConstants, Checksums!FormatConstants
<1>2. Checksums!Spec => [](Checksums!FormatTypeOK /\ Checksums!PlainPathsReadBack
                             /\ Checksums!ImportedReadsBack)
  BY <1>1, Checksums!FormatsReadBack
<1>3. Checksums!PlainPathsReadBack /\ Checksums!ImportedReadsBack => ReadsBack
  BY SameFormats DEF ReadsBack
<1> QED BY <1>2, <1>3, FormatsPart, PTL

\* For any signature without a byte twice, any bytes before and after it, and the
\* end of the file at any of them: no signature is passed over, what is read as a
\* header follows one, and the digest is of the header and of nothing else.
THEOREM ArchiveIsReadAlways == WorkerSpec => []ArchiveIsRead
<1>1. Archive!RarConstants
  BY PartConstants
<1>2. RarInv => ArchiveIsRead
  BY <1>1, ArchiveRead DEF ArchiveIsRead
<1> QED BY <1>1, <1>2, ArchivePart, RarInvariant, PTL

\* A name in any script comes back from the conversions to UTF-16 and to UTF-8
\* byte for byte, whatever its characters and its length; a line that ends
\* within a character is rejected; what trimAllUtf() leaves of a text is the
\* text without the white space at its ends, in whole characters.
THEOREM TextComesBack == WorkerSpec => []TextSurvives
<1>1. Strings!UtfConstants
  BY PartConstants, SameTexts
<1>2. Strings!Spec => [](Strings!UtfTypeOK /\ Strings!TextSurvives /\ Strings!CutIsRejected
                           /\ Strings!TrimsCharacters)
  BY <1>1, Strings!TextComesBack
<1>3. Strings!TextSurvives /\ Strings!CutIsRejected /\ Strings!TrimsCharacters => TextSurvives
  BY SameTexts DEF TextSurvives
<1> QED BY <1>2, <1>3, TextPart, PTL

\* No round of a conversion of a name that is text leaves as much as there was:
\* none goes round for ever.
THEOREM ConversionsGoOn == WorkerSpec => ConversionGoesOn
<1>1. Strings!Spec => Strings!ConversionGoesOn
  BY PartConstants, SameTexts, Strings!ConversionsGoOn
<1>2. [kind = "whole" /\ loop' = loop => Len(rest') < Len(rest)]_(Strings!vars)
        => [kind = "whole" /\ loop' = loop => Len(rest') < Len(rest)]_(Text!vars)
  BY DEF Strings!vars, Text!vars
<1> QED BY <1>1, <1>2, TextPart, PTL DEF Strings!ConversionGoesOn, Text!ConversionGoesOn, ConversionGoesOn

\* The window forgets the times before the last ones: the bandwidth is what
\* those come to, however often the next place has gone round.
THEOREM BandwidthIsMeasured == WorkerSpec => []BandwidthOfLastReads
<1>1. Window!WindowConstants
  BY PartConstants
<1>2. WindowInv => BandwidthOfLastReads
  BY <1>1, BandwidthIs DEF BandwidthOfLastReads
<1> QED BY <1>1, <1>2, WindowPart, WindowInvariant, PTL

LEMMA ListingTypes == ASSUME Listing!FolderConstants, ListingInv PROVE Listing!ListingTypeOK
<1>1. FolderTypes /\ Len(listed) = result.ok
  BY DEF ListingInv, CountsYielded
<1>2. ASSUME NEW k \in DOMAIN directories
      PROVE  Listing!IsPrefix(Base, directories[k].path) /\ directories[k].node \in DOMAIN folder
  <2>1. directories[k] \in [path : Below, node : DOMAIN folder]
    BY <1>1, ElementIn DEF FolderTypes
  <2>2. PICK p \in Seq(Names) : directories[k].path = Base \o p
    BY <2>1 DEF Below
  <2> QED BY <2>1, <2>2, BelowIs
<1> QED BY <1>1, <1>2 DEF FolderTypes, Listing!ListingTypeOK

\* What each part holds on to is its own and there: one handle is open and read
\* within its file; directories are below the folder; a digest has its form; units
\* of UTF-16 have 16 bits; the comparison is within the signature, and the integers
\* of a header have no more bytes than they may; a block of a plugin is that of one
\* Digest; the window has no more places than it was made with.
THEOREM PartsStayInBounds == WorkerSpec => []InBounds
<1>1. WorkerSpec => []FileTypeOK
  BY InputPart, OneHandleIsOpen, PTL
<1>2. WorkerSpec => []Listing!ListingTypeOK
  <2>1. Listing!FolderConstants
    BY PartConstants
  <2>2. ListingInv => Listing!ListingTypeOK
    BY <2>1, ListingTypes
  <2> QED BY <2>1, <2>2, ListingPart, ListingInvariant, PTL
<1>3. WorkerSpec => []Formats!FormatTypeOK
  <2>1. Checksums!FormatConstants
    BY PartConstants DEF Formats!FormatConstants, Checksums!FormatConstants
  <2>2. Checksums!Spec => [](Checksums!FormatTypeOK /\ Checksums!PlainPathsReadBack
                               /\ Checksums!ImportedReadsBack)
    BY <2>1, Checksums!FormatsReadBack
  <2>3. Checksums!FormatTypeOK => Formats!FormatTypeOK
    BY SameFormats
  <2> QED BY <2>2, <2>3, FormatsPart, PTL
<1>4. WorkerSpec => []Text!UtfTypeOK
  <2>1. Strings!UtfConstants
    BY PartConstants, SameTexts
  <2>2. Strings!Spec => [](Strings!UtfTypeOK /\ Strings!TextSurvives /\ Strings!CutIsRejected
                             /\ Strings!TrimsCharacters)
    BY <2>1, Strings!TextComesBack
  <2>3. Strings!UtfTypeOK => Text!UtfTypeOK
    BY SameTexts
  <2> QED BY <2>2, <2>3, TextPart, PTL
<1>5. WorkerSpec => [](Archive!RarTypeOK /\ Window!WindowTypeOK)
  <2>1. Archive!RarConstants /\ Window!WindowConstants
    BY PartConstants
  <2>2. RarInv => Archive!RarTypeOK
    BY <2>1, ArchiveRead
  <2>3. WindowInv => Window!WindowTypeOK
    BY DEF WindowInv
  <2> QED BY <2>1, <2>2, <2>3, ArchivePart, RarInvariant, WindowPart, WindowInvariant, PTL
<1>6. WorkerSpec => []Digests!BlocksAreOwned
  <2>1. Pointers!DigestConstants
    BY PartConstants DEF Digests!DigestConstants, Pointers!DigestConstants
  <2>2. Pointers!Spec => []Pointers!BlocksAreOwned
    BY <2>1, Pointers!BlocksHaveOneOwner
  <2>3. Pointers!BlocksAreOwned => Digests!BlocksAreOwned
    BY ZenonT(40) DEF Digests!BlocksAreOwned, Pointers!BlocksAreOwned,
                      Digests!HoldsBlock, Pointers!HoldsBlock
  <2> QED BY <2>2, <2>3, DigestsPart, PTL
<1>7.   /\ FileTypeOK /\ Listing!ListingTypeOK /\ Formats!FormatTypeOK /\ Text!UtfTypeOK
        /\ Archive!RarTypeOK /\ Window!WindowTypeOK /\ Digests!BlocksAreOwned
      => InBounds
  BY Zenon DEF InBounds
<1> QED BY <1>1, <1>2, <1>3, <1>4, <1>5, <1>6, <1>7, PTL

\* Whatever the program does with its digests, plugins and hashers, other than
\* copying or comparing an empty one, the pointers of Digest behave as values.
THEOREM DigestsImplementValues ==
  ASSUME CarefulProgram PROVE WorkerSpec => ImplementsDigestValue
<1>1. Pointers!DigestConstants
  BY PartConstants DEF Digests!DigestConstants, Pointers!DigestConstants
<1>2. Pointers!CarefulProgram
  BY DEF CarefulProgram, Pointers!CarefulProgram
<1>3. Pointers!Spec => Pointers!Value!Spec
  BY <1>1, <1>2, Pointers!DigestsAreValues DEF Pointers!ImplementsDigestValue
<1>4. [Pointers!Value!Next]_(Pointers!Value!vars)
        => [part = "digests" => [Digests!Value!Next]_(Digests!Value!vars)]_digestVars
  BY SameValues
<1> QED BY <1>3, <1>4, SameValues, DigestsPart, PTL DEF Pointers!Value!Spec, ImplementsDigestValue
=============================================================================
