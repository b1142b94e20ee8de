----------------------------- MODULE FileInput ------------------------------
(***************************************************************************)
(* FileInputWin32 (operation_scheduler.cpp), as a client such as a plugin  *)
(* uses it: a handle with its file pointer, a flag for the end of the      *)
(* file, and the name of the file.  It is to implement FileReader.         *)
(***************************************************************************)
EXTENDS Integers, FiniteSets

CONSTANTS
  Files, NoFile, Size, ReadSizes, Offsets, MaxPosition,  \* see FileReader
  OpenAtEnd  \* whether a client opens another file once read() has come to the
             \* end of one without a seek() in between

ASSUME FileConstants ==
  /\ Files # {} /\ NoFile \notin Files /\ Size \in [Files -> Nat]
  /\ ReadSizes \subseteq Nat /\ Offsets \subseteq Int /\ MaxPosition \in Nat
  /\ OpenAtEnd \in BOOLEAN

VARIABLES
  handles,     \* the open handles of the process: [file, pointer] of each
  m_fin,       \* the one in use
  m_eof,
  m_filename,
  answer       \* to the last call

vars == <<handles, m_fin, m_eof, m_filename, answer>>

Reader == INSTANCE FileReader WITH current <- m_filename, position <- handles[m_fin].pointer

\* A handle of the process that is not in use
Unused == CHOOSE h \in {1, 2} : h \notin DOMAIN handles
Handle(f) == [file |-> f, pointer |-> 0]

Init ==
  /\ m_fin = 1 /\ m_eof = FALSE /\ m_filename \in Files
  /\ handles = [h \in {1} |-> Handle(m_filename)]
  /\ answer = Reader!Opened(TRUE)

-----------------------------------------------------------------------------
SetPointer(p) == handles' = [handles EXCEPT ![m_fin].pointer = p]

read(n) ==
  LET h == handles[m_fin]
      bytes_read == Reader!Least(n, Size[h.file] - h.pointer)
  IN
  /\ \/ /\ m_eof
        /\ answer' = Reader!EndOfFile /\ UNCHANGED <<handles, m_eof>>
     \/ /\ ~m_eof /\ answer' = Reader!FileIO /\ UNCHANGED <<handles, m_eof>>
     \/ /\ ~m_eof /\ bytes_read <= 0
        /\ m_eof' = TRUE /\ answer' = Reader!EndOfFile /\ UNCHANGED handles
     \/ /\ ~m_eof /\ bytes_read > 0
        /\ SetPointer(h.pointer + bytes_read)
        /\ answer' = Reader!Data(h.file, h.pointer, bytes_read) /\ UNCHANGED m_eof
  /\ UNCHANGED <<m_fin, m_filename>>

\* Mutant: the flag outlives the seek.
seekKeepsEof(offset, start) ==
  LET h == handles[m_fin]
      pointer == offset + CASE start = "CurrentPosition" -> h.pointer
                            [] start = "FileEnd" -> Size[h.file]
                            [] OTHER -> 0
  IN
  /\ pointer \in 0 .. MaxPosition
  /\ SetPointer(pointer) /\ answer' = Reader!Position(pointer)
  /\ UNCHANGED <<m_eof, m_fin, m_filename>>

\* SetFilePointerEx() refuses a negative position.  The last assignment
\* compares two constants: it resets the flag whatever the start is.
seek(offset, start) ==
  LET h == handles[m_fin]
      pointer == offset + CASE start = "CurrentPosition" -> h.pointer
                            [] start = "FileEnd" -> Size[h.file]
                            [] OTHER -> 0
  IN
  /\ pointer <= MaxPosition
  /\ \/ /\ pointer >= 0
        /\ SetPointer(pointer) /\ m_eof' = FALSE /\ answer' = Reader!Position(pointer)
     \/ /\ answer' = Reader!FileIO /\ UNCHANGED <<handles, m_eof>>
  /\ UNCHANGED <<m_fin, m_filename>>

tell == seek(0, "CurrentPosition")

\* CreateFile() fails for a name that does not exist, and may for one that does.
open(f) ==
  /\ OpenAtEnd \/ ~m_eof
  /\ \/ /\ f \in Files
        /\ handles' = [h \in {Unused} |-> Handle(f)]
        /\ m_fin' = Unused /\ m_filename' = f /\ answer' = Reader!Opened(TRUE)
     \/ /\ answer' = Reader!Opened(FALSE) /\ UNCHANGED <<handles, m_fin, m_filename>>
  /\ UNCHANGED m_eof

Next ==
  \/ \E n \in ReadSizes : read(n)
  \/ \E o \in Offsets, s \in Reader!Starts : seek(o, s)
  \/ tell
  \/ \E f \in Files \cup {NoFile} : open(f)

Spec == Init /\ [][Next]_vars

-----------------------------------------------------------------------------
(* Properties                                                              *)

\* The handle in use is the only open one, and is of the file that the name
\* says, after any sequence of opens, failed ones among them.
FileTypeOK ==
  /\ DOMAIN handles = {m_fin} /\ m_eof \in BOOLEAN
  /\ handles[m_fin].file = m_filename /\ handles[m_fin].pointer \in Nat

\* What a client sees of the handle and the flag is the file and position of
\* FileReader: each byte once and in order, the end when there is no more, and
\* after a seek() what is there.
ImplementsFileReader == Reader!Spec

\* file_io.hpp: after open() has returned true the new file is available for
\* reading; read() returns the end of file when no more input is available.
\* The code breaks this: the flag of the file before outlives open(), and a
\* read to an empty span sets it.
EndIsEnd == answer = Reader!EndOfFile => handles[m_fin].pointer >= Size[m_filename]
=============================================================================
