--------------------------- MODULE HashFileProofs ---------------------------
(***************************************************************************)
(* Theorems about HashFile for every size of the buffers, of the file and  *)
(* of the data portion.                                                    *)
(***************************************************************************)
EXTENDS HashFile, SequenceTheorems, TLAPS

(***************************************************************************)
(* The inductive invariant, in parts.                                      *)
(***************************************************************************)

InLoop == At("loop") \/ At("wait") \/ At("hash")

\* How far into the data portion the read of a buffer begins.
Into(i) == read_states[i].offset - data_offset
Behind(n) == Least(n + BufferSize, data_size)

\* hashFile believes a read to be under way exactly when the kernel has it and
\* the event of its buffer is not yet set.
ReadsInv ==
  /\ \A i \in Buffers :
       /\ read_states[i].io = "inFlight" <=> read_states[i].pending /\ ~read_states[i].signaled
       /\ read_states[i].io = "none" => ~read_states[i].signaled
       /\ read_states[i].io = "eof" => file_size <= read_states[i].offset
  /\ At("first") => \A i \in Buffers : read_states[i].io = "none"
  /\ At("loop") => read_states[back].io # "inFlight"
  /\ At("hash") => read_states[front].io \in {"done", "eof"}
  /\ At("returned") => \A i \in Buffers : read_states[i].io # "inFlight"

\* The two reads begin one buffer apart, the next one a buffer later, and all of
\* them within the data portion.
OffsetsInv ==
  /\ read_offset = data_offset + bytes_read_pending
  /\ At("first") => bytes_read_pending = 0
  /\ InLoop =>
       /\ Into(front) \in 0 .. data_size
       /\ Into(front) % BufferSize = 0 \/ Into(front) = data_size
       /\ read_states[front].size = IF Into(front) = 0 THEN Least(BufferSize, data_size)
                                                     ELSE BufferSize
  /\ At("loop") => bytes_read_pending = Behind(Into(front))
  /\ At("wait") \/ At("hash") =>
       /\ Into(back) = Behind(Into(front)) /\ read_states[back].size = BufferSize
       /\ bytes_read_pending = Behind(Into(back))

\* The loop goes on only for a reason that is still open: it is left for an
\* error, for a cancel, and once the read that met the end of the file is hashed.
StopInv ==
  /\ At("first") \/ At("loop") => stop = "no"
  /\ At("wait") \/ At("hash") => stop \in {"no", "eof"}
  /\ (At("wait") \/ At("hash")) /\ stop = "eof" => file_size <= read_states[back].offset
  /\ stop = "eof" => file_size <= data_offset + data_size
  /\ At("hash") => bytes_read = IF read_states[front].io = "done"
                                  THEN Least(read_states[front].size, Available(read_states[front].offset))
                                  ELSE 0

\* What is hashed is the beginning of the data portion: within the loop, all of
\* it that lies before the read of the front buffer.
InOrder ==
  /\ Len(hashed) <= Least(data_size, Available(data_offset))
  /\ \A i \in 1 .. Len(hashed) : hashed[i] = data_offset + i - 1
  /\ InLoop => Len(hashed) = Least(Into(front), Available(data_offset))
  /\ (At("drain") \/ At("returned")) /\ stop = "eof" =>
       Len(hashed) = Least(data_size, Available(data_offset))

\* More was hashed than the data portion has; the end of the file is then never
\* met.
Overrun == data_size < Len(hashed) /\ data_offset + data_size < file_size

HashedInv ==
  /\ InOrder \/ (Overrun /\ ~ReadsFit)
  /\ At("first") => hashed = <<>>
  /\ InLoop /\ Len(hashed) = data_size => read_states[front].size = 0
  /\ (At("drain") \/ At("returned")) /\ stop = "no" => Len(hashed) = data_size
  /\ last_progress <= Percent(Len(hashed))

IInv == HashTypeOK /\ ReadsInv /\ OffsetsInv /\ StopInv /\ HashedInv

-----------------------------------------------------------------------------
(* Division, and the operators of the model.                               *)

\* What d divides leaves no remainder.
LEMMA MultipleHasNoRemainder ==
  ASSUME NEW d \in Nat \ {0}, NEW q \in Nat
  PROVE  (d * q) % d = 0
OBVIOUS

\* The next multiple of d is d further on.
LEMMA NextMultiple ==
  ASSUME NEW x \in Nat, NEW d \in Nat \ {0}, x % d = 0
  PROVE  (x + d) % d = 0
<1> DEFINE q == (x \div d) + 1
<1>1. x \div d \in Nat /\ x = d * (x \div d)
  OBVIOUS
<1>2. q \in Nat /\ x + d = d * q
  BY <1>1
<1> HIDE DEF q
<1>3. (d * q) % d = 0
  BY <1>2, MultipleHasNoRemainder
<1> QED BY <1>2, <1>3

\* Two multiples of d that differ are at least d apart.
LEMMA MultiplesApart ==
  ASSUME NEW x \in Nat, NEW y \in Nat, NEW d \in Nat \ {0}, x % d = 0, y % d = 0, x < y
  PROVE  x + d <= y
<1>1. /\ x \div d \in Nat /\ x = d * (x \div d)
      /\ y \div d \in Nat /\ y = d * (y \div d)
  OBVIOUS
<1>2. x \div d < y \div d
  BY <1>1
<1>3. d * ((x \div d) + 1) <= d * (y \div d)
  BY <1>1, <1>2
<1> QED BY <1>1, <1>3

\* A percentage grows with what it counts, and is at most 100 for a part.
LEMMA PercentProperties ==
  ASSUME HashTypeOK, NEW m \in Nat, NEW n \in Nat, m <= n
  PROVE  /\ Percent(m) \in Nat /\ Percent(m) <= Percent(n)
         /\ n <= data_size => Percent(n) <= 100
<1>1. data_size \in Nat
  BY HashAssumption DEF HashTypeOK
<1>2. CASE data_size = 0
  BY <1>2 DEF Percent
<1>3. CASE data_size # 0
  <2>1. m * 100 \in Nat /\ n * 100 \in Nat /\ m * 100 <= n * 100
    OBVIOUS
  <2>2. (m * 100) \div data_size \in Nat /\ (m * 100) \div data_size <= (n * 100) \div data_size
    BY <1>1, <1>3, <2>1
  <2>3. n <= data_size => (n * 100) \div data_size <= 100
    BY <1>1, <1>3
  <2> QED BY <1>3, <2>2, <2>3 DEF Percent
<1> QED BY <1>2, <1>3

\* What is cut off is the end.
LEMMA CutProperties ==
  ASSUME NEW S, NEW s \in Seq(S)
  PROVE  /\ Cut(s) \in Seq(S) /\ Len(Cut(s)) = Least(Len(s), MaxHashed)
         /\ \A i \in 1 .. Len(Cut(s)) : Cut(s)[i] = s[i]
<1> DEFINE n == Least(Len(s), MaxHashed)
<1>1. Len(s) \in Nat /\ MaxHashed \in Nat
  BY LenProperties, HashAssumption
<1>2. n \in Nat /\ n <= Len(s) /\ n = Least(Len(s), MaxHashed)
  BY <1>1 DEF Least
<1>3. \A i \in 1 .. n : s[i] \in S
  BY <1>1, <1>2, ElementOfSeq
<1>4. Cut(s) = SubSeq(s, 1, n)
  BY DEF Cut
<1> HIDE DEF n
<1>5. /\ SubSeq(s, 1, n) \in Seq(S) /\ Len(SubSeq(s, 1, n)) = IF 1 <= n THEN n - 1 + 1 ELSE 0
      /\ \A i \in 1 .. n - 1 + 1 : SubSeq(s, 1, n)[i] = s[1 + i - 1]
  BY <1>2, <1>3, SubSeqProperties
<1> QED BY <1>2, <1>4, <1>5

\* Within the loop, the part of the file that is hashed next: nothing of it lies
\* behind the end of the file.
LEMMA ChunkProperties ==
  ASSUME HashTypeOK, At("hash"), StopInv
  PROVE  /\ Chunk \in Seq(0 .. MaxSize) /\ Len(Chunk) = bytes_read
         /\ \A i \in 1 .. bytes_read : Chunk[i] = read_states[front].offset + i - 1
<1> DEFINE o == read_states[front].offset
<1>1. o \in Nat /\ read_states[front].size \in Nat /\ bytes_read \in Nat
  BY HashAssumption DEF HashTypeOK, ReadState
<1>2. file_size \in 0 .. MaxSize /\ MaxSize \in Nat
  BY HashAssumption DEF HashTypeOK
<1>3. bytes_read = 0 \/ o + bytes_read <= file_size
  BY <1>1, <1>2 DEF StopInv, Least, Available
<1> DEFINE e(i) == o + i - 1
<1>4. \A i \in 1 .. bytes_read : e(i) \in 0 .. MaxSize
  BY <1>1, <1>2, <1>3
<1>5. Chunk = [i \in 1 .. bytes_read |-> e(i)]
  BY DEF Chunk
<1> HIDE DEF e
<1>6. Chunk \in Seq(0 .. MaxSize)
  BY <1>1, <1>4, <1>5, IsASeq
<1> QED BY <1>1, <1>5, <1>6 DEF e

\* What a step of the hasher adds to the data that is hashed.
LEMMA HashedNext ==
  ASSUME HashTypeOK, StopInv, Hash
  PROVE  /\ hashed' \in Seq(0 .. MaxSize)
         /\ Len(hashed') = Least(Len(hashed) + bytes_read, MaxHashed)
         /\ \A i \in 1 .. Len(hashed') :
              hashed'[i] = IF i <= Len(hashed) THEN hashed[i]
                           ELSE read_states[front].offset + (i - Len(hashed)) - 1
<1>1. At("hash") /\ hashed' = Cut(hashed \o Chunk)
  BY DEF Hash
<1>2. /\ hashed \in Seq(0 .. MaxSize) /\ Len(hashed) \in Nat
      /\ bytes_read \in Nat /\ MaxHashed \in Nat
  BY HashAssumption, LenProperties DEF HashTypeOK
<1>3. /\ Chunk \in Seq(0 .. MaxSize) /\ Len(Chunk) = bytes_read
      /\ \A i \in 1 .. bytes_read : Chunk[i] = read_states[front].offset + i - 1
  BY <1>1, ChunkProperties
<1> DEFINE s == hashed \o Chunk
<1>4. /\ s \in Seq(0 .. MaxSize) /\ Len(s) = Len(hashed) + bytes_read
      /\ \A i \in 1 .. Len(hashed) + bytes_read :
           s[i] = IF i <= Len(hashed) THEN hashed[i] ELSE Chunk[i - Len(hashed)]
  BY <1>2, <1>3, ConcatProperties
<1>5. hashed' = Cut(s)
  BY <1>1
<1> HIDE DEF s
<1>6. /\ Cut(s) \in Seq(0 .. MaxSize) /\ Len(Cut(s)) = Least(Len(s), MaxHashed)
      /\ \A i \in 1 .. Len(Cut(s)) : Cut(s)[i] = s[i]
  BY <1>4, CutProperties
<1> DEFINE n == Least(Len(hashed) + bytes_read, MaxHashed)
<1>7. n \in Nat /\ n <= Len(hashed) + bytes_read /\ Len(hashed') = n
  BY <1>2, <1>4, <1>5, <1>6 DEF Least
<1>8. ASSUME NEW i \in 1 .. n
      PROVE  hashed'[i] = IF i <= Len(hashed) THEN hashed[i]
                          ELSE read_states[front].offset + (i - Len(hashed)) - 1
  <2>1. hashed'[i] = IF i <= Len(hashed) THEN hashed[i] ELSE Chunk[i - Len(hashed)]
    BY <1>2, <1>4, <1>5, <1>6, <1>7
  <2>2. i > Len(hashed) => i - Len(hashed) \in 1 .. bytes_read
    BY <1>2, <1>7
  <2> QED BY <1>2, <1>3, <2>1, <2>2
<1> QED BY <1>5, <1>6, <1>7, <1>8

-----------------------------------------------------------------------------
(* The steps preserve the invariant.                                       *)

\* The two buffers, and the numbers of the portion.
LEMMA Numbers ==
  ASSUME HashTypeOK
  PROVE  /\ front \in {0, 1} /\ back \in {0, 1} /\ back # front
         /\ Buffers = {front, back}
         /\ file_size \in Nat /\ data_offset \in Nat /\ data_size \in Nat /\ read_offset \in Nat
         /\ data_offset <= MaxSize /\ data_size <= MaxSize /\ MaxSize \in Nat
         /\ BufferSize \in Nat /\ BufferSize > 0 /\ bytes_read_pending \in Nat
         /\ Len(hashed) \in Nat /\ last_progress \in Nat
         /\ \A i \in Buffers : /\ read_states[i] \in ReadState
                               /\ read_states[i].offset \in Nat /\ read_states[i].size \in Nat
  BY HashAssumption, LenProperties DEF HashTypeOK, Buffers, back, ReadState

\* What ReadFile leaves behind.
LEMMA ReadFileNext ==
  ASSUME HashTypeOK, NEW i \in Buffers, NEW n \in 0 .. BufferSize, ReadFile(i, n)
  PROVE  /\ read_states' \in [Buffers -> ReadState]
         /\ \A j \in Buffers : j # i => read_states'[j] = read_states[j]
         /\ read_states'[i].offset = read_offset /\ read_states'[i].size = n
         /\ read_states'[i].pending <=> read_states'[i].io = "inFlight"
         /\ read_states'[i].signaled <=> read_states'[i].io = "done"
         /\ read_states'[i].io # "none"
         /\ read_states'[i].io = "eof" => file_size <= read_offset
         /\ stop' = CASE read_states'[i].io = "eof" -> "eof"
                      [] read_states'[i].io = "failed" -> "error" [] OTHER -> stop
<1>1. PICK io \in {"inFlight"} \cup Outcomes(read_offset, n) :
        /\ Put(i, n, io)
        /\ stop' = CASE io = "eof" -> "eof" [] io = "failed" -> "error" [] OTHER -> stop
  BY DEF ReadFile
<1>2. io \in {"inFlight", "done", "eof", "failed"} /\ (io = "eof" => file_size <= read_offset)
  BY <1>1, Numbers DEF Outcomes, Available
<1> DEFINE r == [offset |-> read_offset, size |-> n, io |-> io,
                 pending |-> io = "inFlight", signaled |-> io = "done"]
<1>3. r \in ReadState
  <2>1. read_offset \in 0 .. 2 * MaxSize
    BY Numbers DEF HashTypeOK
  <2>2. (io = "inFlight") \in BOOLEAN /\ (io = "done") \in BOOLEAN
    OBVIOUS
  <2> QED BY <1>2, <2>1, <2>2 DEF ReadState
<1>4. read_states' = [read_states EXCEPT ![i] = r] /\ read_states \in [Buffers -> ReadState]
  BY <1>1 DEF Put, HashTypeOK
<1>5. r.offset = read_offset /\ r.size = n /\ r.io = io /\ (r.pending <=> io = "inFlight")
      /\ (r.signaled <=> io = "done")
  OBVIOUS
<1> HIDE DEF r
<1>6. read_states'[i] = r /\ read_states' \in [Buffers -> ReadState]
      /\ \A j \in Buffers : j # i => read_states'[j] = read_states[j]
  BY <1>3, <1>4
<1> QED BY <1>1, <1>2, <1>5, <1>6

\* The next read lies within the portion, and what follows it too.
LEMMA AdvanceNext ==
  ASSUME HashTypeOK, read_offset = data_offset + bytes_read_pending, Advance
  PROVE  /\ bytes_to_read \in 0 .. BufferSize
         /\ bytes_read_pending' = Least(bytes_read_pending + BufferSize, data_size)
         /\ bytes_read_pending' \in 0 .. data_size
         /\ read_offset' = data_offset + bytes_read_pending'
<1>1. bytes_read_pending \in Nat /\ bytes_read_pending <= data_size
  BY DEF HashTypeOK
<1>2. /\ bytes_read_pending' = bytes_read_pending + bytes_to_read
      /\ read_offset' = read_offset + bytes_to_read
  BY DEF Advance
<1>3. /\ bytes_to_read \in 0 .. BufferSize
      /\ bytes_read_pending + bytes_to_read = Least(bytes_read_pending + BufferSize, data_size)
      /\ bytes_read_pending + bytes_to_read \in 0 .. data_size
  BY SMTT(30), <1>1, Numbers DEF bytes_to_read, Least
<1> QED BY <1>1, <1>2, <1>3, Numbers

\* A step that only moves on within the code, or that sets the cancel event.
LEMMA IdleKeepsInv ==
  ASSUME IInv,
         UNCHANGED <<portion, front, read_states, read_offset, bytes_read_pending, bytes_read, stop,
                     hashed, last_progress>>,
         cancel' \in BOOLEAN,
         \/ at' = at
         \/ at' = "thrown"
         \/ /\ at = "drain" /\ at' = "returned"
            /\ \A i \in Buffers : read_states[i].io # "inFlight"
  PROVE  IInv'
<1>1. HashTypeOK'
  BY DEF IInv, HashTypeOK, portion
<1>2. ReadsInv' /\ OffsetsInv'
  BY DEF IInv, ReadsInv, OffsetsInv, InLoop, Into, Behind, At, back, portion
<1>3. StopInv'
  BY DEF IInv, StopInv, At, back, portion, Available
<1>4. HashedInv'
  BY DEF IInv, HashedInv, InOrder, Overrun, ReadsFit, InLoop, Into, At, portion, Available, Percent
<1> QED BY <1>1, <1>2, <1>3, <1>4 DEF IInv

\* The first read.
LEMMA FirstReadKeepsInv == ASSUME IInv, FirstRead PROVE IInv'
<1>1. /\ At("first") /\ ReadFile(front, bytes_to_read) /\ Advance
      /\ at' \in {"loop", "drain"} /\ (at' = "loop" <=> stop' = "no")
      /\ UNCHANGED <<portion, front, bytes_read, cancel, hashed, last_progress>>
  BY DEF FirstRead
<1>2. HashTypeOK /\ bytes_read_pending = 0 /\ read_offset = data_offset /\ stop = "no"
      /\ hashed = <<>> /\ \A i \in Buffers : read_states[i].io = "none"
  BY <1>1, Numbers DEF IInv, OffsetsInv, ReadsInv, StopInv, HashedInv
<1>3. /\ bytes_to_read = Least(BufferSize, data_size) /\ bytes_to_read \in 0 .. BufferSize
      /\ bytes_read_pending' = Least(BufferSize, data_size)
      /\ bytes_read_pending' \in 0 .. data_size
      /\ read_offset' = data_offset + bytes_read_pending'
  BY <1>1, <1>2, Numbers, AdvanceNext DEF bytes_to_read, Least
<1>4. /\ read_states' \in [Buffers -> ReadState]
      /\ \A j \in Buffers : j # front => read_states'[j] = read_states[j]
      /\ read_states'[front].offset = read_offset /\ read_states'[front].size = bytes_to_read
      /\ read_states'[front].pending <=> read_states'[front].io = "inFlight"
      /\ read_states'[front].signaled <=> read_states'[front].io = "done"
      /\ read_states'[front].io # "none"
      /\ read_states'[front].io = "eof" => file_size <= read_offset
      /\ stop' = CASE read_states'[front].io = "eof" -> "eof"
                   [] read_states'[front].io = "failed" -> "error" [] OTHER -> stop
  BY <1>1, <1>2, <1>3, Numbers, ReadFileNext
<1>5. /\ stop' \in {"no", "eof", "error"} /\ (stop' = "eof" => file_size <= data_offset)
      /\ file_size' = file_size /\ data_offset' = data_offset /\ data_size' = data_size
      /\ front' = front /\ hashed' = hashed /\ last_progress' = last_progress
  BY <1>1, <1>2, <1>4 DEF portion
<1>6. HashTypeOK'
  BY <1>1, <1>2, <1>3, <1>4, <1>5, Numbers DEF HashTypeOK
<1>7. ReadsInv'
  BY <1>1, <1>2, <1>4, <1>5, Numbers DEF IInv, ReadsInv, At, back
<1>8. OffsetsInv'
  <2>1. 0 % BufferSize = 0
    BY HashAssumption
  <2>2. Into(front)' = 0
    BY <1>2, <1>4, <1>5, Numbers DEF Into
  <2>3. ~At("first")' /\ ~At("wait")' /\ ~At("hash")'
    BY <1>1 DEF At
  <2>4. Behind(0)' = bytes_read_pending'
    <3>1. 0 + BufferSize = BufferSize
      BY HashAssumption
    <3>2. Behind(0)' = Least(BufferSize, data_size)
      BY <1>5, <3>1 DEF Behind
    <3> QED BY <1>3, <3>2
  <2>5. /\ bytes_read_pending' = Behind(Into(front))'
        /\ read_states'[front].size = Least(BufferSize, data_size)
        /\ 0 \in 0 .. data_size
    BY <1>2, <1>3, <1>4, <1>5, <2>2, <2>4, Numbers DEF Behind
  <2> QED BY <1>3, <1>5, <2>1, <2>2, <2>3, <2>5 DEF OffsetsInv
<1>9. StopInv'
  BY <1>1, <1>2, <1>5, Numbers DEF StopInv, At
<1>10. HashedInv'
  <2>1. Len(hashed') = 0
    BY <1>2, <1>5
  <2>2. /\ Least(data_size, Available(data_offset)) >= 0 /\ Least(0, Available(data_offset)) = 0
        /\ stop' = "eof" => Least(data_size, Available(data_offset)) = 0
    BY <1>2, <1>5, Numbers DEF Least, Available
  <2>3. Into(front)' = 0
    BY <1>2, <1>4, <1>5, Numbers DEF Into
  <2>4. InOrder'
    BY <1>5, <2>1, <2>2, <2>3 DEF InOrder, Available, Least
  <2>5. (Len(hashed) = data_size)' => read_states'[front].size = 0
    BY <1>2, <1>3, <1>4, <1>5, <2>1, Numbers DEF Least
  <2>6. last_progress' <= Percent(Len(hashed))'
    BY <1>5 DEF IInv, HashedInv, Percent
  <2> QED BY <1>1, <1>5, <2>4, <2>5, <2>6 DEF HashedInv, At
<1> QED BY <1>6, <1>7, <1>8, <1>9, <1>10 DEF IInv

\* The read ahead, of a whole buffer.
LEMMA ReadAheadKeepsInv == ASSUME IInv, ReadAhead PROVE IInv'
<1>1. /\ At("loop") /\ ReadFile(back, BufferSize)
      /\ IF stop' = "error"
           THEN at' = "drain" /\ UNCHANGED <<read_offset, bytes_read_pending>>
           ELSE at' = "wait" /\ Advance
      /\ UNCHANGED <<portion, front, bytes_read, cancel, hashed, last_progress>>
  BY DEF ReadAhead
<1>2. /\ HashTypeOK /\ stop = "no" /\ read_offset = data_offset + bytes_read_pending
      /\ bytes_read_pending = Behind(Into(front)) /\ Into(front) \in 0 .. data_size
      /\ InLoop /\ read_states[back].io # "inFlight"
  BY <1>1 DEF IInv, OffsetsInv, ReadsInv, StopInv, InLoop
<1>3. /\ file_size' = file_size /\ data_offset' = data_offset /\ data_size' = data_size
      /\ front' = front /\ back' = back /\ hashed' = hashed /\ last_progress' = last_progress
  BY <1>1 DEF portion, back
<1>4. /\ read_states' \in [Buffers -> ReadState]
      /\ read_states'[front] = read_states[front]
      /\ read_states'[back].offset = read_offset /\ read_states'[back].size = BufferSize
      /\ read_states'[back].pending <=> read_states'[back].io = "inFlight"
      /\ read_states'[back].signaled <=> read_states'[back].io = "done"
      /\ read_states'[back].io # "none"
      /\ read_states'[back].io = "eof" => file_size <= read_offset
      /\ stop' = CASE read_states'[back].io = "eof" -> "eof"
                   [] read_states'[back].io = "failed" -> "error" [] OTHER -> stop
  <2>1. back \in Buffers /\ BufferSize \in 0 .. BufferSize /\ front \in Buffers /\ front # back
    BY <1>2, Numbers
  <2> QED BY <1>1, <1>2, <2>1, ReadFileNext
<1>5. /\ stop' \in {"no", "eof", "error"} /\ (stop' = "eof" => file_size <= read_offset)
      /\ (at' = "drain" /\ stop' = "error") \/ (at' = "wait" /\ stop' \in {"no", "eof"} /\ Advance)
  BY <1>1, <1>2, <1>4
<1>6. /\ bytes_read_pending' \in 0 .. data_size
      /\ read_offset' = data_offset + bytes_read_pending'
      /\ at' = "wait" => bytes_read_pending' = Least(bytes_read_pending + BufferSize, data_size)
  <2>1. CASE Advance
    BY <1>2, <2>1, AdvanceNext
  <2>2. CASE at' = "drain" /\ UNCHANGED <<read_offset, bytes_read_pending>>
    BY <1>2, <2>2 DEF HashTypeOK
  <2> QED BY <1>1, <2>1, <2>2
<1>7. HashTypeOK'
  <2>1. read_offset' \in data_offset' .. data_offset' + data_size'
    BY SMTT(30), <1>2, <1>3, <1>6, Numbers
  <2> QED BY <1>1, <1>2, <1>3, <1>4, <1>5, <1>6, <2>1 DEF HashTypeOK
<1>8. ReadsInv'
  BY <1>2, <1>3, <1>4, <1>5, Numbers DEF IInv, ReadsInv, At
<1>9. OffsetsInv'
  <2>1. /\ Into(front)' = Into(front) /\ Into(back)' = bytes_read_pending
        /\ read_states'[front].size = read_states[front].size
    BY <1>2, <1>3, <1>4, Numbers DEF Into
  <2>2. Behind(Into(front))' = bytes_read_pending
    BY <1>2, <1>3, <2>1 DEF Behind
  <2>3. at' = "wait" => bytes_read_pending' = Behind(Into(back))'
    BY <1>3, <1>6, <2>1 DEF Behind
  <2>4. /\ Into(front) % BufferSize = 0 \/ Into(front) = data_size
        /\ read_states[front].size = IF Into(front) = 0 THEN Least(BufferSize, data_size)
                                                      ELSE BufferSize
    BY <1>2 DEF IInv, OffsetsInv
  <2> QED BY <1>2, <1>3, <1>4, <1>5, <1>6, <2>1, <2>2, <2>3, <2>4 DEF OffsetsInv, At, InLoop
<1>10. StopInv'
  <2>1. read_offset <= data_offset + data_size
    BY <1>2, Numbers DEF HashTypeOK
  <2> QED BY <1>2, <1>3, <1>4, <1>5, <2>1, Numbers DEF StopInv, At
<1>11. HashedInv'
  <2>1. Into(front)' = Into(front) /\ read_states'[front] = read_states[front]
    BY <1>3, <1>4 DEF Into
  <2>2. InOrder => InOrder'
    BY <1>2, <1>3, <1>5, <2>1 DEF InOrder, At, Available
  <2>3. Percent(Len(hashed))' = Percent(Len(hashed)) /\ (Overrun /\ ~ReadsFit => (Overrun /\ ~ReadsFit)')
    BY <1>3 DEF Percent, Overrun, ReadsFit
  <2> QED BY <1>2, <1>3, <1>5, <2>1, <2>2, <2>3 DEF IInv, HashedInv, At
<1> QED BY <1>7, <1>8, <1>9, <1>10, <1>11 DEF IInv

\* The kernel ends a read.
LEMMA CompleteKeepsInv == ASSUME IInv, NEW i \in Buffers, Complete(i) PROVE IInv'
<1>1. /\ read_states[i].io = "inFlight"
      /\ UNCHANGED <<portion, at, front, read_offset, bytes_read_pending, bytes_read, stop, cancel,
                     hashed, last_progress>>
  BY DEF Complete
<1>2. PICK io \in Outcomes(read_states[i].offset, read_states[i].size) :
        read_states' = [read_states EXCEPT ![i].io = io, ![i].signaled = TRUE]
  BY DEF Complete
<1>3. HashTypeOK /\ read_states[i].pending /\ read_states \in [Buffers -> ReadState]
  BY <1>1 DEF IInv, ReadsInv, HashTypeOK
<1>4. io \in {"done", "eof", "failed"} /\ (io = "eof" => file_size <= read_states[i].offset)
  BY <1>2, <1>3, Numbers DEF Outcomes, Available
<1>5. /\ read_states' \in [Buffers -> ReadState]
      /\ \A j \in Buffers : /\ read_states'[j].offset = read_states[j].offset
                            /\ read_states'[j].size = read_states[j].size
                            /\ read_states'[j].pending = read_states[j].pending
      /\ \A j \in Buffers : j # i => read_states'[j] = read_states[j]
      /\ read_states'[i].io = io /\ read_states'[i].signaled
  BY <1>2, <1>3, <1>4 DEF ReadState
<1>6. /\ file_size' = file_size /\ data_offset' = data_offset /\ data_size' = data_size
      /\ at' = at /\ front' = front /\ back' = back /\ hashed' = hashed
      /\ last_progress' = last_progress /\ stop' = stop
      /\ \A j \in Buffers : Into(j)' = Into(j)
      /\ InLoop' = InLoop
  BY <1>1, <1>5 DEF portion, back, Into, InLoop, At
<1>7. HashTypeOK'
  BY <1>1, <1>3, <1>5, <1>6 DEF HashTypeOK
<1>8. ReadsInv'
  BY <1>1, <1>3, <1>4, <1>5, <1>6, Numbers DEF IInv, ReadsInv, At
<1>9. OffsetsInv'
  BY SMTT(30), <1>1, <1>3, <1>5, <1>6, Numbers DEF IInv, OffsetsInv, At, Behind
<1>10. StopInv'
  <2>1. At("hash") => front # i
    BY <1>1 DEF IInv, ReadsInv
  <2> QED BY <1>1, <1>3, <1>5, <1>6, <2>1, Numbers DEF IInv, StopInv, At, Available
<1>11. HashedInv'
  BY <1>3, <1>5, <1>6, Numbers DEF IInv, HashedInv, InOrder, Overrun, ReadsFit, At, Available, Percent
<1> QED BY <1>7, <1>8, <1>9, <1>10, <1>11 DEF IInv

\* The wait for the read of the front buffer.
LEMMA WaitKeepsInv == ASSUME IInv, Wait PROVE IInv'
<1>1. /\ At("wait") /\ (StopForCancel \/ TakeFrontRead)
      /\ UNCHANGED <<portion, front, read_offset, bytes_read_pending, cancel, hashed, last_progress>>
  BY DEF Wait
<1>2. /\ HashTypeOK /\ InLoop /\ stop \in {"no", "eof"}
      /\ stop = "eof" => file_size <= read_states[back].offset
      /\ stop = "eof" => file_size <= data_offset + data_size
      /\ Into(front) \in 0 .. data_size /\ Into(back) = Behind(Into(front))
  BY <1>1 DEF IInv, OffsetsInv, StopInv, InLoop
<1>3. /\ file_size' = file_size /\ data_offset' = data_offset /\ data_size' = data_size
      /\ front' = front /\ back' = back /\ hashed' = hashed /\ last_progress' = last_progress
  BY <1>1 DEF portion, back
<1> DEFINE r == read_states[front]
<1>4. /\ read_states \in [Buffers -> ReadState] /\ front \in Buffers /\ back \in Buffers
      /\ r \in ReadState /\ front # back
  BY <1>2, Numbers DEF HashTypeOK
<1>5. /\ read_states' \in [Buffers -> ReadState]
      /\ read_states'[back] = read_states[back]
      /\ read_states'[front].offset = r.offset /\ read_states'[front].size = r.size
      /\ read_states'[front].io = r.io
      /\ \A i \in Buffers : Into(i)' = Into(i)
      /\ \/ read_states' = read_states
         \/ r.signaled /\ ~read_states'[front].pending /\ ~read_states'[front].signaled
  <2>1. CASE StopForCancel
    BY <1>3, <1>4, <2>1 DEF StopForCancel, Into
  <2>2. CASE TakeFrontRead
    <3>1. /\ read_states' = [read_states EXCEPT ![front].pending = FALSE, ![front].signaled = FALSE]
          /\ r.signaled
      BY <2>2 DEF TakeFrontRead
    <3>2. /\ read_states' \in [Buffers -> ReadState] /\ read_states'[back] = read_states[back]
          /\ read_states'[front].offset = r.offset /\ read_states'[front].size = r.size
          /\ read_states'[front].io = r.io
          /\ ~read_states'[front].pending /\ ~read_states'[front].signaled
      BY <1>4, <3>1 DEF ReadState
    <3>3. \A i \in Buffers : Into(i)' = Into(i)
      BY <1>2, <1>3, <3>2, Numbers DEF Into
    <3> QED BY <3>1, <3>2, <3>3
  <2> QED BY <1>1, <2>1, <2>2
<1>6. r.signaled => r.io \in {"done", "eof", "failed"}
  BY <1>4 DEF IInv, ReadsInv, ReadState
<1>7. \/ at' = "drain" /\ stop' \in {"canceled", "error"} /\ bytes_read' \in 0 .. BufferSize
      \/ /\ at' = "hash" /\ r.io \in {"done", "eof"} /\ stop' = (IF r.io = "eof" THEN "eof" ELSE stop)
         /\ bytes_read' = (IF r.io = "done" THEN Least(r.size, Available(r.offset)) ELSE 0)
  <2>1. CASE StopForCancel
    BY <1>2, <2>1 DEF StopForCancel, HashTypeOK
  <2>2. CASE TakeFrontRead
    <3>1. /\ r.signaled
          /\ bytes_read' = IF r.io = "done" THEN Least(r.size, Available(r.offset)) ELSE 0
          /\ stop' = CASE r.io = "done" -> stop [] r.io = "eof" -> "eof" [] r.io = "failed" -> "error"
          /\ at' = IF r.io = "failed" THEN "drain" ELSE "hash"
      BY <2>2 DEF TakeFrontRead
    <3> HIDE DEF r
    <3>2. r.io = "failed" => bytes_read' \in 0 .. BufferSize
      BY <1>2, <3>1, Numbers
    <3> QED BY <1>6, <3>1, <3>2
  <2> QED BY <1>1, <2>1, <2>2
<1>8. at' = "hash" => bytes_read' \in 0 .. BufferSize
  <2>1. r.size \in 0 .. BufferSize /\ r.offset \in Nat
    BY <1>2, <1>4, Numbers DEF ReadState
  <2>2. Available(r.offset) \in Nat
    BY <1>2, <2>1, Numbers DEF Available
  <2>3. ASSUME NEW a \in 0 .. BufferSize, NEW b \in Nat PROVE Least(a, b) \in 0 .. BufferSize
    BY HashAssumption DEF Least
  <2>4. Least(r.size, Available(r.offset)) \in 0 .. BufferSize
    BY <2>1, <2>2, <2>3
  <2> QED BY <1>2, <1>7, <2>4, Numbers
<1>9. HashTypeOK'
  <2>1. at' \in {"drain", "hash"} /\ stop' \in {"no", "eof", "error", "canceled"}
    BY <1>2, <1>7
  <2> QED BY <1>1, <1>2, <1>3, <1>5, <1>7, <1>8, <2>1 DEF HashTypeOK
<1>10. ReadsInv'
  <2>1. \A i \in Buffers :
          /\ (read_states[i].io = "inFlight" <=> read_states[i].pending /\ ~read_states[i].signaled)'
          /\ (read_states[i].io = "none" => ~read_states[i].signaled)'
          /\ (read_states[i].io = "eof" => file_size <= read_states[i].offset)'
    BY SMTT(30), <1>2, <1>3, <1>5, <1>6, Numbers DEF IInv, ReadsInv
  <2> QED BY <1>3, <1>5, <1>7, <2>1 DEF ReadsInv, At
<1>11. OffsetsInv'
  BY <1>1, <1>2, <1>3, <1>4, <1>5, <1>7 DEF IInv, OffsetsInv, Behind, At, InLoop
<1>12. StopInv'
  <2>1. r.io = "eof" => file_size <= r.offset
    BY <1>4 DEF IInv, ReadsInv
  <2> DEFINE o == r.offset
             b == read_states[back].offset
  <2>2. o <= b /\ b <= data_offset + data_size
    <3>1. o \in Nat /\ b \in Nat /\ o - data_offset \in 0 .. data_size
          /\ b - data_offset = Least((o - data_offset) + BufferSize, data_size)
      BY <1>2, <1>4, Numbers DEF Into, Behind
    <3> HIDE DEF o, b
    <3> QED BY SMTT(30), <1>2, <3>1, Numbers DEF Least
  <2>3. at' = "hash" /\ stop' = "eof" =>
          file_size <= read_states[back].offset /\ file_size <= data_offset + data_size
    BY SMTT(30), <1>2, <1>4, <1>7, <2>1, <2>2, Numbers
  <2> QED BY <1>2, <1>3, <1>5, <1>7, <2>3 DEF StopInv, At, Available
<1>13. HashedInv'
  <2>1. InOrder => InOrder'
    BY <1>2, <1>3, <1>4, <1>5, <1>7 DEF InOrder, At, Available
  <2>2. Percent(Len(hashed))' = Percent(Len(hashed)) /\ (Overrun /\ ~ReadsFit => (Overrun /\ ~ReadsFit)')
    BY <1>3 DEF Percent, Overrun, ReadsFit
  <2> QED BY <1>2, <1>3, <1>5, <1>7, <2>1, <2>2 DEF IInv, HashedInv, At
<1> QED BY <1>9, <1>10, <1>11, <1>12, <1>13 DEF IInv

\* How much of the file is hashed after a step of the hasher, when what was
\* hashed before is in order: all that lies before the other buffer's read, or
\* more than the data portion has.
LEMMA HashedLength ==
  ASSUME IInv, Hash, InOrder
  PROVE  \/ Len(hashed') = Least(Behind(Into(front)), Available(data_offset))
         \/ /\ data_size < Len(hashed') /\ data_offset + data_size < file_size
            /\ ~ReadsFit
<1> DEFINE L == Len(hashed)
           o == Into(front)
           r == read_states[front]
           A == Available(data_offset)
           size == r.size
<1>1. HashTypeOK /\ At("hash") /\ InLoop
  BY DEF IInv, Hash, InLoop
<1>2. /\ o \in Nat /\ o <= data_size /\ (o % BufferSize = 0 \/ o = data_size)
      /\ size = IF o = 0 THEN Least(BufferSize, data_size) ELSE BufferSize
      /\ r.offset = data_offset + o
  <2>1. Into(front) \in 0 .. data_size /\ (Into(front) % BufferSize = 0 \/ Into(front) = data_size)
        /\ size = IF Into(front) = 0 THEN Least(BufferSize, data_size) ELSE BufferSize
    BY <1>1 DEF IInv, OffsetsInv
  <2>2. data_size \in Nat /\ data_offset \in Nat /\ r.offset \in Nat /\ o = r.offset - data_offset
    BY <1>1, Numbers DEF Into
  <2> HIDE DEF r
  <2> QED BY <2>1, <2>2
<1>3. /\ A \in Nat /\ (A > 0 => file_size = data_offset + A)
      /\ Available(r.offset) = IF A > o THEN A - o ELSE 0
  <2>1. A \in Nat /\ (A > 0 => file_size = data_offset + A) /\ (A = 0 => file_size <= data_offset)
    BY <1>1, Numbers DEF Available
  <2> HIDE DEF A, o, r
  <2>2. Available(r.offset) = IF data_offset + o < file_size THEN file_size - (data_offset + o) ELSE 0
    BY <1>2 DEF Available
  <2> QED BY <1>1, <1>2, <2>1, <2>2, Numbers
<1>4. bytes_read = Least(size, Available(r.offset))
  <2>1. r.io = "done" \/ (r.io = "eof" /\ Available(r.offset) = 0)
    BY <1>1, Numbers DEF IInv, ReadsInv, Available
  <2>2. size \in Nat
    BY <1>1, Numbers
  <2> QED BY <1>1, <2>1, <2>2 DEF IInv, StopInv, Least
<1>5. L = Least(o, A) /\ (L = data_size => size = 0)
  BY <1>1 DEF IInv, InOrder, HashedInv
<1>6. Len(hashed') = Least(L + bytes_read, MaxHashed) /\ MaxHashed \in Nat /\ data_size < MaxHashed
  BY <1>1, HashedNext, HashAssumption, Numbers DEF IInv
<1>7. data_size \in Nat /\ data_offset \in Nat /\ file_size \in Nat /\ BufferSize \in Nat /\ BufferSize > 0
  BY <1>1, Numbers
<1> HIDE DEF L, o, r, A, size
<1>8. CASE A <= o
  BY <1>2, <1>3, <1>4, <1>5, <1>6, <1>7, <1>8 DEF Least, Behind, o, A
<1>9. CASE A > o /\ (o = 0 \/ o + BufferSize <= data_size \/ A <= data_size)
  <2>1. L = o /\ bytes_read = Least(size, A - o)
    BY <1>2, <1>3, <1>4, <1>5, <1>7, <1>9 DEF Least
  <2>2. L + bytes_read = Least(Behind(o), A)
    BY <1>2, <1>3, <1>7, <1>9, <2>1 DEF Least, Behind
  <2>3. Least(Behind(o), A) <= data_size
    BY <1>2, <1>3, <1>7 DEF Least, Behind
  <2> QED BY <1>2, <1>3, <1>6, <1>7, <2>2, <2>3 DEF Least, Behind, o, A
<1>10. CASE A > o /\ 0 < o /\ data_size < o + BufferSize /\ data_size < A
  <2>1. L = o /\ bytes_read = Least(BufferSize, A - o) /\ o < data_size /\ o % BufferSize = 0
    BY <1>2, <1>3, <1>4, <1>5, <1>7, <1>10 DEF Least
  <2>2. data_size < Len(hashed')
    BY <1>2, <1>3, <1>6, <1>7, <1>10, <2>1 DEF Least
  <2>3. data_offset + data_size < file_size
    BY <1>2, <1>3, <1>7, <1>10
  <2>4. BufferSize <= o
    <3>1. 0 % BufferSize = 0
      BY <1>7
    <3> QED BY <1>2, <1>7, <1>10, <2>1, <3>1, MultiplesApart
  <2>5. data_size % BufferSize # 0
    BY <1>2, <1>7, <1>10, <2>1, MultiplesApart
  <2> QED BY <1>2, <1>7, <2>1, <2>2, <2>3, <2>4, <2>5 DEF ReadsFit
<1> QED BY <1>2, <1>3, <1>7, <1>8, <1>9, <1>10

\* The hasher, the swap of the buffers and the ends of the loop.
LEMMA HashKeepsInv == ASSUME IInv, Hash PROVE IInv'
<1>1. /\ At("hash") /\ InLoop /\ HashTypeOK
      /\ UNCHANGED <<portion, read_states, read_offset, bytes_read_pending, bytes_read, stop, cancel>>
      /\ \/ /\ Len(hashed') = data_size /\ at' = "drain" /\ front' = front
            /\ last_progress' = last_progress
         \/ /\ Len(hashed') # data_size /\ last_progress' = Percent(Len(hashed')) /\ front' = back
            /\ at' = IF stop = "no" THEN "loop" ELSE "drain"
  BY DEF Hash, IInv, InLoop
<1>2. /\ file_size' = file_size /\ data_offset' = data_offset /\ data_size' = data_size
      /\ read_states' = read_states /\ stop' = stop /\ stop \in {"no", "eof"}
      /\ \A i \in Buffers : Into(i)' = Into(i)
  BY <1>1 DEF portion, IInv, StopInv, Into
<1>3. /\ Into(front) \in 0 .. data_size
      /\ Into(back) = Behind(Into(front)) /\ read_states[back].size = BufferSize
      /\ bytes_read_pending = Behind(Into(back))
      /\ Into(front) % BufferSize = 0 \/ Into(front) = data_size
  BY <1>1 DEF IInv, OffsetsInv
<1>4. /\ hashed' \in Seq(0 .. MaxSize) /\ Len(hashed') = Least(Len(hashed) + bytes_read, MaxHashed)
      /\ \A i \in 1 .. Len(hashed') :
           hashed'[i] = IF i <= Len(hashed) THEN hashed[i]
                        ELSE read_states[front].offset + (i - Len(hashed)) - 1
      /\ Len(hashed') \in Nat /\ Len(hashed) <= Len(hashed') /\ Len(hashed') <= MaxHashed
  <2>1. bytes_read \in Nat /\ Len(hashed) \in Nat /\ Len(hashed) <= MaxHashed /\ MaxHashed \in Nat
    BY <1>1, HashAssumption, Numbers DEF HashTypeOK
  <2> QED BY SMTT(30), <1>1, <2>1, HashedNext DEF IInv, Least
<1>5. HashTypeOK'
  <2>1. last_progress' \in Nat
    <3>1. Percent(Len(hashed')) \in Nat
      BY <1>1, <1>4, PercentProperties
    <3> QED BY <1>1, <3>1, Numbers
  <2>2. front' \in Buffers
    BY <1>1, Numbers
  <2> QED BY <1>1, <1>2, <1>4, <2>1, <2>2 DEF HashTypeOK
<1>6. InOrder' \/ (Overrun /\ ~ReadsFit)'
  <2>1. CASE InOrder /\ Len(hashed') = Least(Behind(Into(front)), Available(data_offset))
    <3> DEFINE A == Available(data_offset)
               m == Behind(Into(front))
    <3>1. m \in Nat /\ m <= data_size /\ A \in Nat /\ A' = A
      BY SMTT(30), <1>1, <1>2, <1>3, Numbers DEF Behind, Least, Available
    <3> HIDE DEF A, m
    <3>2. Len(hashed') = Least(m, A) /\ Least(m, A) <= Least(data_size, A)
      BY <1>1, <2>1, <3>1, Numbers DEF A, m, Least
    <3>3. ASSUME NEW i \in 1 .. Len(hashed') PROVE hashed'[i] = data_offset + i - 1
      <4>1. CASE i <= Len(hashed)
        BY SMTT(30), <1>1, <1>4, <2>1, <4>1, Numbers DEF InOrder
      <4>2. CASE i > Len(hashed)
        <5>1. Len(hashed) = Into(front)
          BY <1>1, <1>3, <2>1, <3>1, <3>2, <4>2, Numbers DEF InOrder, A, Least
        <5>2. hashed'[i] = read_states[front].offset + (i - Into(front)) - 1
          BY <1>1, <1>4, <4>2, <5>1, Numbers
        <5>3. read_states[front].offset \in Nat /\ data_offset \in Nat /\ i \in Nat
          BY <1>1, <1>4, Numbers
        <5> QED BY <5>2, <5>3 DEF Into
      <4> QED BY <1>1, <1>4, <4>1, <4>2, Numbers
    <3>4. InLoop' => Len(hashed') = Least(Into(front), Available(data_offset))'
      <4>1. ASSUME InLoop' PROVE Into(front)' = m
        <5>1. front' = back
          BY <1>1, <4>1 DEF InLoop, At
        <5>2. Into(front)' = Into(back)
          BY <1>1, <1>2, <5>1, Numbers DEF Into
        <5> QED BY <1>3, <5>2 DEF m
      <4>2. Least(Into(front), Available(data_offset))' = Least(Into(front)', A)
        BY <1>2, <3>1 DEF A, Least
      <4> QED BY <3>2, <4>1, <4>2
    <3>5. stop = "eof" => Len(hashed') = Least(data_size, A)
      <4>1. stop = "eof" => A <= m
        <5>1. stop = "eof" => file_size <= read_states[back].offset
          BY <1>1 DEF IInv, StopInv
        <5>2. read_states[back].offset = data_offset + m
          BY SMTT(30), <1>1, <1>3, <3>1, Numbers DEF Into, m
        <5> QED BY SMTT(30), <1>1, <3>1, <5>1, <5>2, Numbers DEF A, Available
      <4> QED BY <1>1, <3>1, <3>2, <4>1, Numbers DEF Least
    <3> QED BY <1>2, <3>1, <3>2, <3>3, <3>4, <3>5 DEF InOrder, A
  <2>2. CASE data_size < Len(hashed') /\ data_offset + data_size < file_size /\ ~ReadsFit
    BY <1>2, <2>2 DEF Overrun, ReadsFit, Available
  <2>3. CASE Overrun /\ ~ReadsFit
    <3>1. data_size < Len(hashed')
      BY <1>1, <1>4, <2>3, Numbers DEF Overrun
    <3> QED BY <2>2, <2>3, <3>1 DEF Overrun
  <2> QED BY <2>1, <2>2, <2>3, HashedLength DEF IInv, HashedInv
<1>7. ReadsInv'
  <2>1. at' = "loop" => back' = front
    BY <1>1, Numbers DEF back
  <2> QED BY <1>1, <1>2, <2>1 DEF IInv, ReadsInv, At
<1>8. OffsetsInv'
  <2>1. CASE at' = "drain"
    BY <1>1, <1>2, <2>1 DEF IInv, OffsetsInv, InLoop, At
  <2>2. CASE at' = "loop"
    <3>1. front' = back /\ Len(hashed') # data_size /\ Into(front)' = Into(back)
      BY <1>1, <1>2, <2>2, Numbers DEF Into
    <3>2. Into(back) \in 0 .. data_size
      BY <1>1, <1>3, Numbers DEF Behind, Least
    <3>3. Into(back) % BufferSize = 0 \/ Into(back) = data_size
      <4>1. Into(front) % BufferSize = 0 => (Into(front) + BufferSize) % BufferSize = 0
        BY <1>1, <1>3, NextMultiple, HashAssumption, Numbers
      <4> QED BY <1>1, <1>3, <4>1, Numbers DEF Behind, Least
    <3>4. Into(back) # 0
      <4>1. ASSUME Into(back) = 0 PROVE FALSE
        <5>1. data_size = 0
          BY <1>1, <1>3, <4>1, Numbers DEF Behind, Least
        <5>2. ReadsFit
          BY <1>1, <5>1, Numbers DEF ReadsFit
        <5>3. InOrder'
          BY <1>2, <1>6, <5>2 DEF ReadsFit, Available
        <5>4. Len(hashed') <= Least(data_size, Available(data_offset))
          BY <1>2, <5>3 DEF InOrder, Available, Least
        <5>5. Len(hashed') = 0
          BY <1>1, <1>4, <5>1, <5>4, Numbers DEF Least, Available
        <5> QED BY <3>1, <5>1, <5>5
      <4> QED BY <4>1
    <3>5. /\ read_states'[front'].size = BufferSize
          /\ bytes_read_pending' = Behind(Into(front))'
      BY <1>1, <1>2, <1>3, <3>1 DEF Behind
    <3>6. read_offset' = data_offset' + bytes_read_pending'
      BY <1>1, <1>2 DEF IInv, OffsetsInv
    <3> QED BY <1>2, <2>2, <3>1, <3>2, <3>3, <3>4, <3>5, <3>6 DEF OffsetsInv, InLoop, At
  <2> QED BY <1>1, <2>1, <2>2
<1>9. StopInv'
  BY <1>1, <1>2 DEF IInv, StopInv, At
<1>10. HashedInv'
  <2>1. last_progress' <= Percent(Len(hashed'))
    <3>1. last_progress <= Percent(Len(hashed)) /\ last_progress \in Nat
      BY <1>1, Numbers DEF IInv, HashedInv
    <3>2. /\ Percent(Len(hashed)) <= Percent(Len(hashed')) /\ Percent(Len(hashed)) \in Nat
          /\ Percent(Len(hashed')) \in Nat
      BY <1>1, <1>4, PercentProperties, Numbers
    <3> QED BY <1>1, <3>1, <3>2
  <2>2. Percent(Len(hashed))' = Percent(Len(hashed'))
    BY <1>2 DEF Percent
  <2> QED BY <1>1, <1>2, <1>6, <2>1, <2>2 DEF HashedInv, InLoop, At
<1> QED BY <1>5, <1>7, <1>8, <1>9, <1>10 DEF IInv

-----------------------------------------------------------------------------
(* The invariant holds, and what follows from it.                          *)

\* hashFile begins with the invariant.
LEMMA InitIInv == Init => IInv
<1> SUFFICES ASSUME Init PROVE IInv
  OBVIOUS
<1>1. HashTypeOK
  <2>1. Unused \in ReadState
    BY HashAssumption DEF Unused, ReadState
  <2>2. read_states \in [Buffers -> ReadState]
    BY <2>1 DEF Init
  <2>3. hashed \in Seq(0 .. MaxSize) /\ Len(hashed) = 0
    BY DEF Init
  <2>4. read_offset \in data_offset .. data_offset + data_size /\ bytes_read_pending \in 0 .. data_size
    BY HashAssumption DEF Init
  <2> QED BY <2>2, <2>3, <2>4, HashAssumption DEF Init, HashTypeOK, Buffers
<1>2. ReadsInv /\ OffsetsInv /\ StopInv
  <2>1. read_offset = data_offset + bytes_read_pending
    BY <1>1, Numbers DEF Init
  <2> QED BY <2>1 DEF Init, ReadsInv, OffsetsInv, StopInv, InLoop, At, Unused
<1>3. HashedInv
  <2>1. hashed = <<>> /\ Len(hashed) = 0 /\ at = "first" /\ last_progress = 0
    BY DEF Init
  <2>2. Least(data_size, Available(data_offset)) >= 0 /\ Percent(0) >= 0
    BY <1>1, Numbers, PercentProperties DEF Least, Available
  <2> QED BY <2>1, <2>2 DEF HashedInv, InOrder, InLoop, At
<1> QED BY <1>1, <1>2, <1>3 DEF IInv

\* Every step keeps it.
LEMMA NextIInv == IInv /\ [Next]_vars => IInv'
<1> SUFFICES ASSUME IInv, [Next]_vars PROVE IInv'
  OBVIOUS
<1>1. CASE FirstRead
  BY <1>1, FirstReadKeepsInv
<1>2. CASE ReadAhead
  BY <1>2, ReadAheadKeepsInv
<1>3. CASE Wait
  BY <1>3, WaitKeepsInv
<1>4. CASE Hash
  BY <1>4, HashKeepsInv
<1>5. CASE Return
  <2>1. \A i \in Buffers : read_states[i].io # "inFlight"
    BY <1>5 DEF Return, IInv, ReadsInv
  <2> QED BY <1>5, <2>1, IdleKeepsInv DEF Return, At, IInv, HashTypeOK
<1>6. CASE Throw
  BY <1>6, IdleKeepsInv DEF Throw, IInv, HashTypeOK
<1>7. CASE Cancel
  BY <1>7, IdleKeepsInv DEF Cancel
<1>8. ASSUME NEW i \in Buffers, Complete(i) PROVE IInv'
  BY <1>8, CompleteKeepsInv
<1>9. CASE UNCHANGED vars
  BY <1>9, IdleKeepsInv DEF vars, IInv, HashTypeOK
<1> QED BY <1>1, <1>2, <1>3, <1>4, <1>5, <1>6, <1>7, <1>8, <1>9 DEF Next, Step

LEMMA Invariance == Spec => []IInv
  BY InitIInv, NextIInv, PTL DEF Spec

\* Every variable of hashFile keeps its type: no read begins outside of the data
\* portion and none is longer than its buffer, and nothing is hashed that lies
\* behind the end of the file.
THEOREM HashTypeCorrect == Spec => []HashTypeOK
  BY Invariance, PTL DEF IInv

\* However the two reads complete, fail or are canceled, the kernel never writes
\* into a buffer that the hasher works on, that is asked for another read, or
\* that hashFile has left behind by returning.
THEOREM BuffersStayFree == Spec => []BuffersAreFree
<1>1. IInv => BuffersAreFree
  <2> SUFFICES ASSUME IInv PROVE BuffersAreFree
    OBVIOUS
  <2>1. At("hash") => read_states[front].io # "inFlight"
    BY DEF IInv, ReadsInv
  <2> QED BY <2>1 DEF IInv, ReadsInv, BuffersAreFree
<1> QED BY <1>1, Invariance, PTL

\* What the invariant says about the hashed data, as a prefix of the data portion.
LEMMA InOrderIsPrefix ==
  ASSUME HashTypeOK, InOrder
  PROVE  /\ IsPrefix(hashed, DataPortion)
         /\ Len(hashed) = Least(data_size, Available(data_offset)) => hashed = DataPortion
<1> DEFINE n == Least(data_size, Available(data_offset))
           e(i) == data_offset + i - 1
<1>1. n \in Nat /\ data_offset \in Nat
  BY Numbers DEF Least, Available
<1>2. DataPortion = [i \in 1 .. n |-> e(i)]
  BY DEF DataPortion
<1>3. \A i \in 1 .. n : e(i) \in Nat
  BY <1>1
<1> HIDE DEF n, e
<1>4. DataPortion \in Seq(Nat) /\ Len(DataPortion) = n
  BY <1>1, <1>2, <1>3, IsASeq
<1>5. /\ hashed \in Seq(Nat) /\ Len(hashed) \in Nat /\ Len(hashed) <= n
      /\ \A i \in 1 .. Len(hashed) : hashed[i] = data_offset + i - 1
  <2>1. 0 .. MaxSize \subseteq Nat
    BY HashAssumption
  <2>2. hashed \in Seq(Nat)
    BY <2>1, SeqMonotonic DEF HashTypeOK
  <2> QED BY <2>2, Numbers DEF InOrder, n
<1>6. \A i \in 1 .. Len(hashed) : hashed[i] = DataPortion[i]
  BY <1>1, <1>2, <1>5 DEF e
<1>7. SubSeq(DataPortion, 1, Len(hashed)) = hashed
  <2> DEFINE p == SubSeq(DataPortion, 1, Len(hashed))
             k == Len(hashed)
  <2>1. \A i \in 1 .. k : DataPortion[i] \in Nat
    BY <1>1, <1>4, <1>5, ElementOfSeq
  <2>2. /\ p \in Seq(Nat) /\ Len(p) = IF 1 <= k THEN k - 1 + 1 ELSE 0
        /\ \A i \in 1 .. k - 1 + 1 : p[i] = DataPortion[1 + i - 1]
    BY <1>5, <2>1, SubSeqProperties
  <2> HIDE DEF p
  <2>3. Len(p) = Len(hashed) /\ \A i \in 1 .. Len(p) : p[i] = hashed[i]
    BY <1>5, <1>6, <2>2
  <2>4. p = hashed
    BY <1>5, <2>2, <2>3, SeqEqual
  <2> QED BY <2>4 DEF p
<1>8. IsPrefix(hashed, DataPortion)
  BY <1>4, <1>5, <1>7 DEF IsPrefix
<1>9. Len(hashed) = n => hashed = DataPortion
  BY <1>4, <1>5, <1>6, SeqEqual
<1> QED BY <1>8, <1>9 DEF n

\* When the reads fit, the hasher is given the data portion from its beginning,
\* without a gap and without a repetition.
THEOREM HashedStaysInOrder == Spec => []HashedInOrder
<1>1. IInv => HashedInOrder
  BY InOrderIsPrefix DEF IInv, HashedInv, HashedInOrder
<1> QED BY <1>1, Invariance, PTL

\* A digest is only ever computed from the data portion, or from what the file
\* has of it, also when the reads do not fit: then hashFile ends with an error,
\* with a cancel, or not at all.
THEOREM DigestIsOfData == Spec => []DigestOfData
<1>1. IInv => DigestOfData
  <2> SUFFICES ASSUME IInv, At("returned"), stop \in {"no", "eof"} PROVE hashed = DataPortion
    BY DEF DigestOfData
  <2>1. HashTypeOK
    BY DEF IInv
  <2>2. stop = "no" => Len(hashed) = data_size
    BY DEF IInv, HashedInv
  <2>3. stop = "eof" => file_size <= data_offset + data_size
    BY DEF IInv, StopInv
  <2>4. InOrder
    BY <2>1, <2>2, <2>3, Numbers DEF IInv, HashedInv, Overrun
  <2>5. Len(hashed) = Least(data_size, Available(data_offset))
    BY <2>1, <2>2, <2>4, Numbers DEF InOrder, Least, Available
  <2> QED BY <2>1, <2>4, <2>5, InOrderIsPrefix
<1> QED BY <1>1, Invariance, PTL

\* The percentages that are signaled never go back, and are at most 100 when the
\* reads fit.
THEOREM ProgressOnlyGrows == Spec => ProgressGrows
<1>1. ASSUME IInv, IInv', [Next]_vars
      PROVE  last_progress' >= last_progress /\ (ReadsFit => last_progress' <= 100)
  <2>1. HashTypeOK /\ last_progress \in Nat /\ last_progress <= Percent(Len(hashed))
    BY <1>1, Numbers DEF IInv, HashedInv
  <2>2. last_progress' = last_progress \/ Hash
    BY <1>1 DEF Next, Step, FirstRead, ReadAhead, Wait, Return, Throw, Cancel, Complete, vars
  <2>3. ASSUME Hash PROVE last_progress' >= last_progress
    <3>1. last_progress' = last_progress \/ last_progress' = Percent(Len(hashed'))
      BY <2>3 DEF Hash
    <3>2. Len(hashed) \in Nat /\ Len(hashed') \in Nat /\ Len(hashed) <= Len(hashed')
      <4>1. bytes_read \in Nat /\ Len(hashed) \in Nat /\ Len(hashed) <= MaxHashed /\ MaxHashed \in Nat
        BY <2>1, HashAssumption, Numbers DEF HashTypeOK
      <4> QED BY <1>1, <2>3, <4>1, HashedNext DEF IInv, Least
    <3>3. Percent(Len(hashed)) <= Percent(Len(hashed')) /\ Percent(Len(hashed)) \in Nat
          /\ Percent(Len(hashed')) \in Nat
      BY <2>1, <3>2, PercentProperties
    <3> QED BY <2>1, <3>1, <3>3
  <2>4. ASSUME ReadsFit PROVE last_progress' <= 100
    <3>1. portion' = portion
      BY <1>1 DEF Next, Step, FirstRead, ReadAhead, Wait, Hash, Return, Throw, Cancel, Complete, vars
    <3>2. InOrder' /\ ReadsFit'
      BY <1>1, <2>4, <3>1 DEF portion, ReadsFit, IInv, HashedInv
    <3>3. Len(hashed') \in Nat /\ data_size' = data_size /\ Len(hashed') <= data_size
      <4>1. HashTypeOK'
        BY <1>1 DEF IInv
      <4>2. Len(hashed') \in Nat
        BY <4>1, HashAssumption, LenProperties DEF HashTypeOK
      <4> QED BY <2>1, <3>1, <3>2, <4>2, Numbers DEF InOrder, Least, Available, portion
    <3>4. Percent(Len(hashed))' = Percent(Len(hashed')) /\ last_progress' <= Percent(Len(hashed))'
      BY <1>1, <3>1 DEF Percent, portion, IInv, HashedInv
    <3>5. Percent(Len(hashed')) \in Nat /\ Percent(Len(hashed')) <= 100
      BY <2>1, <3>3, PercentProperties
    <3>6. last_progress' \in Nat
      BY <1>1 DEF IInv, HashTypeOK
    <3> QED BY <3>4, <3>5, <3>6
  <2> QED BY <2>1, <2>2, <2>3, <2>4
<1> QED BY <1>1, Invariance, PTL DEF Spec, ProgressGrows
=============================================================================
