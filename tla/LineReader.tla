----------------------------- MODULE LineReader -----------------------------
(***************************************************************************)
(* LineReader (lib/quicker_sfv/line_reader.cpp): splits a file into lines  *)
(* through two buffers.  A line begins in the front buffer and may end in  *)
(* the back buffer, after which the buffers swap and the next chunk of the *)
(* file is read.  A whole call of readLine() is one step: the class is     *)
(* used by one thread, in the loops of the sfv and md5 providers.          *)
(***************************************************************************)
EXTENDS Integers, Sequences, FiniteSets, SequencesExt

CONSTANTS
  READ_BUFFER_SIZE,  \* size of one buffer
  MaxLength          \* bound: length of the file, one less than its lines

ASSUME ReaderAssumption == READ_BUFFER_SIZE \in Nat \ {0} /\ MaxLength \in Nat

VARIABLES
  content,  \* the file
  reader,   \* the LineReader: fileOffset (bytes read so far), eof, front and back (the
            \* buffers), bufferOffset (where the next line begins, from the start of front)
  lines,    \* history: the lines returned so far
  outcome   \* "none", or the exception that readLine() threw

vars == <<content, reader, lines, outcome>>

\* A byte of a file: a line feed, a carriage return, one that makes a line
\* invalid UTF-8, or any other.
Byte == {"LF", "CR", "invalid", "x"}

Least(a, b) == IF a < b THEN a ELSE b

\* FileInput::read: the next bytes of the file, at most as many as fit the buffer.
Chunk(offset) == SubSeq(content, offset + 1, Least(offset + READ_BUFFER_SIZE, Len(content)))

\* Mutant: a chunk that fills the buffer is taken for the last one.
read_moreStopsEarly(r) ==
  [fileOffset |-> r.fileOffset + Len(Chunk(r.fileOffset)), eof |-> TRUE,
   front |-> r.back, back |-> Chunk(r.fileOffset),
   bufferOffset |-> r.bufferOffset - READ_BUFFER_SIZE]

\* The buffers swap and the back buffer is filled; a chunk that does not fill
\* it is the last.
read_more(r) ==
  [fileOffset |-> r.fileOffset + Len(Chunk(r.fileOffset)),
   eof |-> Len(Chunk(r.fileOffset)) < READ_BUFFER_SIZE,
   front |-> r.back, back |-> Chunk(r.fileOffset),
   bufferOffset |-> r.bufferOffset - READ_BUFFER_SIZE]

\* The first call fills both buffers, or has a short file in the front one.
Skip(r) == [r EXCEPT !.bufferOffset = @ + READ_BUFFER_SIZE]
Filled ==
  IF reader.fileOffset # 0 THEN reader
  ELSE LET first == read_more(Skip(reader))
       IN IF first.eof THEN [first EXCEPT !.front = first.back, !.back = <<>>]
                       ELSE read_more(Skip(first))

HasLF(s) == Contains(s, "LF")
UpToLF(s) == LET k == SelectInSeq(s, LAMBDA b : b = "LF")
             IN IF k = 0 THEN s ELSE SubSeq(s, 1, k - 1)
Rest(r) == SubSeq(r.front, r.bufferOffset + 1, Len(r.front))
Spans(r) == ~HasLF(Rest(r))

\* The line without its line feed: it ends in the front buffer, in the back
\* buffer, or with the file.
NextLine(r) == IF Spans(r) THEN Rest(r) \o UpToLF(r.back) ELSE UpToLF(Rest(r))

\* Mutant: the offset still counts from the buffer that was swapped away.
BehindKeepsOffset(r) ==
  LET q == [r EXCEPT !.bufferOffset = @ + Len(NextLine(r)) + 1]
  IN IF ~Spans(r) THEN q
     ELSE IF ~r.eof THEN read_more(q)
     ELSE IF r.back = <<>> THEN q
     ELSE [q EXCEPT !.front = r.back, !.back = <<>>]

\* The reader behind that line and its line feed.
Behind(r) ==
  LET q == [r EXCEPT !.bufferOffset = @ + Len(NextLine(r)) + 1]
  IN IF ~Spans(r) THEN q
     ELSE IF ~r.eof THEN read_more(q)
     ELSE IF r.back = <<>> THEN q
     ELSE [q EXCEPT !.front = r.back, !.back = <<>>, !.bufferOffset = @ - READ_BUFFER_SIZE]

WithoutCR(l) == IF l # <<>> /\ Last(l) = "CR" THEN Front(l) ELSE l

\* Mutant: done with the last byte, although a last line may begin behind it.
doneWithLastByte == reader.eof /\ reader.back = <<>> /\ reader.bufferOffset = Len(reader.front)

done == reader.eof /\ reader.back = <<>> /\ reader.bufferOffset = Len(reader.front) + 1

\* Mutant: only the front buffer is looked at for the end of a line.
TooLongForFront(r) == Spans(r) /\ ~r.eof

\* The end of the line is in neither buffer, and there is more to read.
TooLong(r) == Spans(r) /\ ~HasLF(r.back) /\ ~r.eof

Reading == ~done /\ outcome = "none"

ReadLine ==
  /\ Reading
  /\ Len(lines) <= MaxLength  \* as many lines as a file of that length may have
  /\ \E r \in {Filled} :
       /\ ~TooLong(r)
       /\ reader' = Behind(r)
       /\ IF Contains(NextLine(r), "invalid")
            THEN outcome' = "ParserError" /\ UNCHANGED lines
            ELSE lines' = Append(lines, WithoutCR(NextLine(r))) /\ UNCHANGED outcome
  /\ UNCHANGED content

LineTooLong ==
  /\ Reading
  /\ TooLong(Filled)
  /\ reader' = Filled
  /\ outcome' = "ParserError"
  /\ UNCHANGED <<content, lines>>

\* A read of the file throws; the reader is not used again.
ReadFails ==
  /\ Reading
  /\ reader.fileOffset = 0 \/ (Spans(reader) /\ ~TooLong(reader) /\ ~reader.eof)
  /\ outcome' = "FileIO"
  /\ UNCHANGED <<content, reader, lines>>

-----------------------------------------------------------------------------
Init ==
  /\ content \in UNION {[1 .. n -> Byte] : n \in 0 .. MaxLength}
  /\ reader = [fileOffset |-> 0, eof |-> FALSE, front |-> <<>>, back |-> <<>>, bufferOffset |-> 0]
  /\ lines = <<>> /\ outcome = "none"

Next == ReadLine \/ LineTooLong \/ ReadFails

Spec == Init /\ [][Next]_vars
FairSpec == Spec /\ WF_vars(Next)
-----------------------------------------------------------------------------
(* Properties: what the lines of a file are, in terms of its line feeds.   *)

LineFeeds == {i \in 1 .. Len(content) : content[i] = "LF"}
NumLines == Cardinality(LineFeeds) + 1

\* The k-th line of the file, as it stands there.
LineEnd(k) == CHOOSE i \in LineFeeds : Cardinality({j \in LineFeeds : j <= i}) = k
RawLine(k) ==
  LET from == IF k = 1 THEN 1 ELSE LineEnd(k - 1) + 1
      to   == IF k = NumLines THEN Len(content) ELSE LineEnd(k) - 1
  IN SubSeq(content, from, to)

\* A line that is handed out never begins outside of the front buffer, and both
\* buffers are full until the end of the file is seen.
ReaderTypeOK ==
  /\ content \in Seq(Byte) /\ lines \in Seq(Seq(Byte))
  /\ outcome \in {"none", "ParserError", "FileIO"}
  /\ reader \in [fileOffset : 0 .. Len(content), eof : BOOLEAN, front : Seq(Byte), back : Seq(Byte),
                bufferOffset : 0 .. READ_BUFFER_SIZE + 1]
  /\ Reading /\ reader.fileOffset > 0 =>
       /\ reader.bufferOffset <= Len(reader.front)
       /\ ~reader.eof => Len(reader.front) = READ_BUFFER_SIZE /\ Len(reader.back) = READ_BUFFER_SIZE

\* Wherever the lines lie in the buffers, they come out as they are in the file,
\* all of them and once each.
LinesOfTheFile ==
  /\ Len(lines) <= NumLines
  /\ \A k \in DOMAIN lines : lines[k] = WithoutCR(RawLine(k))
  /\ done /\ outcome = "none" => Len(lines) = NumLines

\* A file is only rejected for a line that is not UTF-8, or as long as a buffer.
RejectsForAReason ==
  outcome = "ParserError" =>
    LET l == RawLine(Len(lines) + 1)
    IN Contains(l, "invalid") \/ Len(l) >= READ_BUFFER_SIZE

\* The loop of a provider ends.
ReadingEnds == <>~Reading

\* line_reader.hpp: parsing may fail if a line exceeds the size of the buffer.
\* The code breaks this: it may fail for a line of exactly that size.
OnlyLongLinesFail ==
  outcome = "ParserError" =>
    LET l == RawLine(Len(lines) + 1)
    IN Contains(l, "invalid") \/ Len(l) > READ_BUFFER_SIZE
=============================================================================
