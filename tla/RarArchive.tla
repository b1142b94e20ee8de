----------------------------- MODULE RarArchive -----------------------------
(***************************************************************************)
(* RarProvider::readFromFile (plugins/quicker_sfv/rar/rar_provider.cpp):   *)
(* the search for the signature of an archive, byte by byte, and the       *)
(* header that follows it.  The file is made up as it is read: each read   *)
(* has any byte or is at the end, and is so from then on.                  *)
(* read() at the end leaves its buffer as it was and nobody looks at what  *)
(* it returns, so that the loops go on with the byte before, or with what  *)
(* was in the memory when there is none, any byte.                         *)
(***************************************************************************)
EXTENDS Integers, SequencesExt

CONSTANTS
  Bytes,      \* a byte that has the highest bit set is one of at least High
  High,
  Signature,  \* rar_signature: no byte twice, none that is 0 or 1
  CrcSize,    \* sizeof(header.crc32)
  MaxBytes,   \* bound: the bytes of a file before a header
  MaxVInt,    \* the most bytes of a variable-length integer, 10 in the code
  Word        \* the number of values of the integer they make, 2^64 in the code

RarConstants ==
  /\ Bytes \subseteq Nat /\ {0, 1} \subseteq Bytes
  /\ Signature \in Seq(Bytes \ {0, 1}) /\ Len(Signature) > 1 /\ IsInjective(Signature)
  /\ {High, CrcSize, MaxBytes, MaxVInt, Word} \subseteq Nat \ {0}

VARIABLES
  pc,         \* what is read next, or how it ended
  data,       \* the bytes of the search
  end,        \* whether a read has been at the end of the file
  i,          \* the byte of the signature to compare with
  b,          \* the last byte compared, or the last of an integer
  start,      \* b of find_signature_start()
  header,     \* the integers of the header: i and raw_size of each
  weight,     \* 1 << (7 * i) of parseVInt(), what the next byte counts for
  collected   \* how many bytes CollectingFileInput holds since reset()

vars == <<pc, data, end, i, b, start, header, weight, collected>>
search == <<data, i, b, start>>
rest == <<header, weight, collected>>

Uninitialized == -1
Searching == {"Find", "Compare", "Version", "Minor"}
Fields == {"Size", "Type", "Flags"}
Ends == {"Parsed", "ParserError", "FileError", "LengthError", "Crash"}

Init ==
  /\ pc = "Find" /\ data = <<>> /\ end = FALSE /\ i = 2
  /\ b = Uninitialized /\ start = Uninitialized
  /\ header = [f \in Fields |-> [i |-> 0, raw_size |-> 0]] /\ weight = 1 /\ collected = 0

-----------------------------------------------------------------------------
(* seekSignature()                                                         *)

\* fi.read(b): c is in b afterwards
Read(c, before) ==
  \/ ~end /\ Len(data) < MaxBytes /\ data' = Append(data, c) /\ UNCHANGED end
  \/ before \in {c, Uninitialized} /\ end' = TRUE /\ UNCHANGED data

find_signature_start ==
  /\ pc = "Find"
  /\ \E c \in Bytes :
       /\ Read(c, start) /\ start' = c
       /\ pc' = IF c = Signature[1] THEN "Compare" ELSE "Find"
  /\ i' = 2 /\ UNCHANGED <<b, rest>>

\* Mutant: a mismatch never starts a signature.
CompareNoRestart ==
  /\ pc = "Compare"
  /\ \E c \in Bytes :
       /\ Read(c, b) /\ b' = c
       /\ CASE c = Signature[i] /\ i < Len(Signature) -> i' = i + 1 /\ UNCHANGED <<pc, start>>
            [] c = Signature[i] /\ i = Len(Signature) -> pc' = "Version" /\ UNCHANGED <<i, start>>
            [] OTHER -> pc' = "Find" /\ start' = Uninitialized /\ UNCHANGED i
  /\ UNCHANGED rest

\* A mismatch that is the first byte of a signature starts the comparison again.
Compare ==
  /\ pc = "Compare"
  /\ \E c \in Bytes :
       /\ Read(c, b) /\ b' = c
       /\ CASE c = Signature[i] /\ i < Len(Signature) -> i' = i + 1 /\ UNCHANGED <<pc, start>>
            [] c = Signature[i] /\ i = Len(Signature) -> pc' = "Version" /\ UNCHANGED <<i, start>>
            [] c # Signature[i] /\ c = Signature[1] -> i' = 2 /\ UNCHANGED <<pc, start>>
            [] OTHER -> pc' = "Find" /\ start' = Uninitialized /\ UNCHANGED i
  /\ UNCHANGED rest

\* Neither version: the inner loop goes on, with the second byte of the
\* signature, whatever this one is.
Again == pc' = "Compare" /\ i' = 2

\* Rar4 ends with an exception.
Version ==
  /\ pc = "Version"
  /\ \E c \in Bytes :
       /\ Read(c, b) /\ b' = c
       /\ CASE c = 0 -> pc' = "ParserError" /\ UNCHANGED i
            [] c = 1 -> pc' = "Minor" /\ UNCHANGED i
            [] OTHER -> Again
  /\ UNCHANGED <<start, rest>>

Minor ==
  /\ pc = "Minor"
  /\ \E c \in Bytes :
       /\ Read(c, b) /\ b' = c
       /\ IF c = 0 THEN pc' = "Crc" /\ UNCHANGED i ELSE Again
  /\ UNCHANGED <<start, rest>>

-----------------------------------------------------------------------------
(* parseHeader() and the rest of readFromFile(), from fi.reset() on        *)

\* A read of n bytes to the collected ones, fewer at the end
Collect(n) ==
  \/ ~end /\ collected' = collected + n /\ UNCHANGED end
  \/ ~end /\ n > 0 /\ end' = TRUE /\ collected' \in collected .. collected + n - 1
  \/ end /\ UNCHANGED <<collected, end>>

ReadCrc ==
  /\ pc = "Crc" /\ Collect(CrcSize) /\ pc' = "Size" /\ b' = Uninitialized
  /\ UNCHANGED <<data, i, start, header, weight>>

\* One byte of an integer, the lowest first; all but the last have the highest
\* bit set, and the bits that do not fit are lost.  At the end of the file the
\* byte that was there is read again: as the last one, or until there are too
\* many.
parseVInt(field, next) ==
  /\ pc = field
  /\ \E c \in Bytes :
       /\ \/ ~end /\ collected' = collected + 1 /\ UNCHANGED end
          \/ b \in {c, Uninitialized} /\ end' = TRUE /\ UNCHANGED collected
       /\ header' = [header EXCEPT ![field] = [i |-> (@.i + (c % High) * weight) % Word,
                                               raw_size |-> @.raw_size + 1]]
       /\ \/ c < High /\ pc' = next /\ b' = Uninitialized /\ weight' = 1
          \/ /\ c >= High /\ header'[field].raw_size < MaxVInt
             /\ b' = c /\ weight' = weight * High /\ UNCHANGED pc
          \/ /\ c >= High /\ header'[field].raw_size = MaxVInt
             /\ pc' = "ParserError" /\ UNCHANGED <<b, weight>>
  /\ UNCHANGED <<data, i, start>>

\* What is left of the header; less than none is a size beyond max_size()
header_data == header["Size"].i - header["Type"].raw_size - header["Flags"].raw_size

ReadData ==
  /\ pc = "Data"
  /\ IF header_data < 0
     THEN pc' = "LengthError" /\ UNCHANGED <<collected, end>>
     ELSE pc' = "Check" /\ Collect(header_data)
  /\ UNCHANGED <<search, header, weight>>

\* The digest is that of the header or not.  With less than a checksum
\* collected, the range to hash ends before it begins.
Check ==
  /\ pc = "Check"
  /\ pc' \in IF collected < CrcSize THEN {"Crash"} ELSE {"Parsed", "ParserError"}
  /\ UNCHANGED <<end, search, rest>>

\* A read may throw, and nothing here catches it.  Behind the end it does so at
\* most once, after one that was short, which is left out.
ReadFails ==
  /\ pc \in Searching \cup Fields \cup {"Crc", "Data"} /\ ~end
  /\ pc = "Data" => header_data >= 0
  /\ pc' = "FileError"
  /\ UNCHANGED <<end, search, rest>>

Next ==
  \/ find_signature_start \/ Compare \/ Version \/ Minor
  \/ ReadCrc \/ parseVInt("Size", "Type") \/ parseVInt("Type", "Flags")
  \/ parseVInt("Flags", "Data") \/ ReadData \/ Check
  \/ ReadFails

Spec == Init /\ [][Next]_vars

-----------------------------------------------------------------------------
(* Properties                                                              *)

RarTypeOK ==
  /\ pc \in Searching \cup Fields \cup {"Crc", "Data", "Check"} \cup Ends
  /\ data \in Seq(Bytes) /\ i \in 2 .. Len(Signature) /\ {b, start} \subseteq Bytes \cup {Uninitialized}
  /\ header \in [Fields -> [i : 0 .. Word - 1, raw_size : 0 .. MaxVInt]]
  /\ {weight, collected} \subseteq Nat

\* A whole signature, with the version that this provider reads or the other
Whole == {Signature \o <<0>>, Signature \o <<1, 0>>}

\* No signature in the file is passed over, whatever comes before it: another
\* that breaks off at any byte, or several into each other.
NothingPassedOver ==
  pc \in Searching => \A w \in Whole : \A k \in 0 .. Len(data) - Len(w) :
                         SubSeq(data, k + 1, k + Len(w)) # w

\* A header is read only after the bytes of a signature and a version.  Its
\* first byte is not among them: after one with another version the search goes
\* on with the second.
FoundIsSignature ==
  pc \notin Searching \cup {"ParserError", "FileError"} => IsSuffix(Tail(Signature) \o <<1, 0>>, data)

\* The digest is of the header and of nothing else: its size, as the archive
\* says, after the checksum and the integer with the size.
HeaderIsHashed ==
  pc = "Parsed" /\ ~end => collected = CrcSize + header["Size"].raw_size + header["Size"].i

\* checksum_provider.hpp: a file that is no checksum file is a ParserError.
\* The code breaks both: it never looks for the end of the file, where it reads
\* the last byte for ever, and a header that is shorter than its own integers,
\* or broken off, is another error.
SearchEnds == ~(pc = "Find" /\ end /\ start \notin {Signature[1], Uninitialized})
InvalidIsParserError == pc \notin {"LengthError", "Crash"}
=============================================================================
