----------------------------- MODULE FileReader -----------------------------
(***************************************************************************)
(* What lib/quicker_sfv/file_io.hpp promises of a FileInput: a file with a *)
(* position, which reading moves on until the file has no more, and        *)
(* another file of the same folder from its start after open().            *)
(* The data of a file are its positions: an answer to read() names where   *)
(* the bytes come from and how many they are.                              *)
(***************************************************************************)
EXTENDS Integers, FiniteSets

CONSTANTS
  Files,        \* the files that exist
  NoFile,       \* the name of one that does not
  Size,         \* the size of each file, while it is open
  ReadSizes,    \* the sizes of the spans a client reads to
  Offsets,      \* the offsets a client seeks
  MaxPosition   \* bound: the furthest a client seeks

VARIABLES
  current,   \* current_file()
  position,  \* of the next byte
  answer     \* to the last call

vars == <<current, position, answer>>

Starts == {"CurrentPosition", "FileStart", "FileEnd"}
FileIO == [type |-> "FileIO"]
EndOfFile == [type |-> "EndOfFile"]
Data(f, from, n) == [type |-> "Data", file |-> f, from |-> from, n |-> n]
Position(p) == [type |-> "Position", position |-> p]
Opened(b) == [type |-> "Opened", ok |-> b]

Least(a, b) == IF a < b THEN a ELSE b

Init ==
  /\ current \in Files /\ position = 0 /\ answer = Opened(TRUE)

Read(n) ==
  LET count == Least(n, Size[current] - position) IN
  /\ \/ /\ position < Size[current]
        /\ answer' = Data(current, position, count) /\ position' = position + count
     \/ /\ position >= Size[current]
        /\ answer' = EndOfFile /\ UNCHANGED position
     \/ answer' = FileIO /\ UNCHANGED position
  /\ UNCHANGED current

Seek(offset, start) ==
  LET from == CASE start = "CurrentPosition" -> position
                [] start = "FileStart" -> 0
                [] start = "FileEnd" -> Size[current]
  IN
  /\ from + offset <= MaxPosition
  /\ \/ /\ from + offset >= 0
        /\ position' = from + offset /\ answer' = Position(from + offset)
     \/ answer' = FileIO /\ UNCHANGED position
  /\ UNCHANGED current

\* A question only: the position stays.
Tell ==
  /\ answer' = Position(position) \/ answer' = FileIO
  /\ UNCHANGED <<current, position>>

Open(f) ==
  \/ f \in Files /\ current' = f /\ position' = 0 /\ answer' = Opened(TRUE)
  \/ answer' = Opened(FALSE) /\ UNCHANGED <<current, position>>

Next ==
  \/ \E n \in ReadSizes : Read(n)
  \/ \E o \in Offsets, s \in Starts : Seek(o, s)
  \/ Tell
  \/ \E f \in Files \cup {NoFile} : Open(f)

Spec == Init /\ [][Next]_vars
=============================================================================
