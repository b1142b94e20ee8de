-------------------------- MODULE ChecksumFormats ---------------------------
(***************************************************************************)
(* The formats of a checksum file: how the sfv provider, the md5 provider  *)
(* (lib/quicker_sfv) and the sha1 plugin, called through plugin_support,   *)
(* write entries as lines and read lines as entries.                       *)
(*                                                                         *)
(* A life of a file: entries are written, or a file from elsewhere is      *)
(* read and what it said is written anew; then the file is read.  Lines    *)
(* are as LineReader returns them, without their line break.               *)
(***************************************************************************)
EXTENDS Integers, Sequences, SequencesExt

CONSTANTS
  DigestLength,  \* hexadecimal digits of a digest: 8, 32 and 40 in the code
  MaxLine,       \* bound: length of a line of a file from elsewhere
  MaxPath        \* bound: length of a path that is written

FormatConstants == DigestLength \in Nat \ {0} /\ MaxLine \in Nat /\ MaxPath \in Nat

VARIABLES
  format,      \* which of the three providers is used
  phase,       \* "import", "write", "read" or "done"
  entries,     \* the ChecksumFile that is written
  lines,       \* the file on disk
  at,          \* how many of its lines have been read
  parsed,      \* the ChecksumFile that is read
  writeError, readError,
  imported     \* history: the entries came from a file themselves

vars == <<format, phase, entries, lines, at, parsed, writeError, readError, imported>>

\* Characters as far as the formats tell them apart: two digits, of which one
\* is also accepted in upper case, white space, and the two special ones.
Blank == " "
Semicolon == ";"
Asterisk == "*"
HexChar == {"0", "f", "F"}
Char == {"0", "F", "x", Blank, Semicolon, Asterisk}

Strings(n) == UNION {[1 .. k -> Char] : k \in 0 .. n}
Digests == [1 .. DigestLength -> {"0", "f"}]
Paths == Strings(MaxPath) \ {<<>>}

NotBlank(c) == c # Blank
trim(s) ==
  LET first == SelectInSeq(s, NotBlank) IN
  IF first = 0 THEN <<>> ELSE SubSeq(s, first, SelectLastInSeq(s, NotBlank))

\* hex_str_to_byte(): every character is a digit, of either case.
IsHex(s) == ToSet(s) \subseteq HexChar

\* A digest has a value; as text it has lower case digits.
Value(s) == [i \in DOMAIN s |-> IF s[i] = "F" THEN "f" ELSE s[i]]

-----------------------------------------------------------------------------
(* One line of a file                                                      *)

\* writeNewFile()
Line(e) ==
  CASE format = "sfv"  -> e.path \o <<Blank>> \o e.digest
    [] format = "md5"  -> e.digest \o <<Blank, Asterisk>> \o e.path
    [] format = "sha1" -> e.digest \o <<Blank, Asterisk>> \o e.path

\* readFromFile(): blank lines and comments.  Only sfv trims first.
Comment(l) == l = <<>> \/ IsPrefix(<<Semicolon>>, l)
\* Mutant: sfv looks for comments before it trims, too.
SkippedUntrimmed(l) == Comment(l) \/ (format = "sfv" /\ trim(l) = <<>>)

Skipped(l) == Comment(IF format = "sfv" THEN trim(l) ELSE l)

\* sfv: the digest is the last eight characters, behind a blank.
SfvPath(l) == trim(SubSeq(trim(l), 1, Len(trim(l)) - DigestLength - 1))
SfvDigest(l) == SubSeq(trim(l), Len(trim(l)) - DigestLength + 1, Len(trim(l)))
SfvValid(l) ==
  /\ Len(trim(l)) >= DigestLength + 2
  /\ trim(l)[Len(trim(l)) - DigestLength] = Blank
  /\ SfvPath(l) # <<>>

\* md5: the path follows the only star, the digest is before the blank in front.
Star(l) == SelectInSeq(l, LAMBDA c : c = Asterisk)
Md5Path(l) == trim(SubSeq(l, Star(l) + 1, Len(l)))
Md5Digest(l) == trim(SubSeq(l, 1, Star(l) - 2))
Md5Valid(l) ==
  /\ Star(l) > 1
  /\ l[Star(l) - 1] = Blank
  /\ ~Contains(Md5Path(l), Asterisk)
  /\ Len(Md5Digest(l)) = DigestLength

\* sha1: everything at its place, and the path not trimmed.
Sha1Path(l) == SubSeq(l, DigestLength + 3, Len(l))
Sha1Digest(l) == SubSeq(l, 1, DigestLength)
Sha1Valid(l) ==
  /\ Len(l) >= DigestLength + 3
  /\ l[DigestLength + 1] = Blank /\ l[DigestLength + 2] = Asterisk

Fields(l) ==
  CASE format = "sfv"  -> [path |-> SfvPath(l), digest |-> SfvDigest(l)]
    [] format = "md5"  -> [path |-> Md5Path(l), digest |-> Md5Digest(l)]
    [] format = "sha1" -> [path |-> Sha1Path(l), digest |-> Sha1Digest(l)]

Valid(l) ==
  /\ CASE format = "sfv" -> SfvValid(l) [] format = "md5" -> Md5Valid(l)
       [] format = "sha1" -> Sha1Valid(l)
  /\ IsHex(Fields(l).digest)

addEntry(l) == Append(parsed, [Fields(l) EXCEPT !.digest = Value(@)])

-----------------------------------------------------------------------------
Init ==
  /\ format \in {"sfv", "md5", "sha1"}
  /\ \/ /\ phase = "write" /\ imported = FALSE /\ lines = <<>>
        /\ entries \in UNION {[1 .. n -> [path : Paths, digest : Digests]] : n \in 0 .. 2}
     \/ /\ phase = "import" /\ imported = TRUE /\ entries = <<>>
        /\ lines \in {<<l>> : l \in Strings(MaxLine)}
  /\ at = 0 /\ parsed = <<>>
  /\ writeError = "none" /\ readError = "none"

WriteNext ==
  /\ phase = "write" /\ Len(lines) < Len(entries)
  /\ lines' = Append(lines, Line(entries[Len(lines) + 1]))
  /\ UNCHANGED <<format, phase, entries, at, parsed, writeError, readError, imported>>

Written ==
  /\ phase = "write" /\ Len(lines) = Len(entries)
  /\ phase' = "read"
  /\ UNCHANGED <<format, entries, lines, at, parsed, writeError, readError, imported>>

\* FileOutput::write() throws: the lines so far stay on disk.  No exception
\* goes through a plugin; it becomes a failure of the plugin.
WriteFails ==
  /\ phase = "write" /\ Len(lines) < Len(entries)
  /\ writeError' = IF format = "sha1" THEN "PluginError" ELSE "FileIO"
  /\ phase' = "read"
  /\ UNCHANGED <<format, entries, lines, at, parsed, readError, imported>>

Reading == phase \in {"import", "read"} /\ readError = "none"

ReadLine ==
  /\ Reading /\ at < Len(lines)
  /\ LET l == lines[at + 1] IN
     \/ Skipped(l) /\ UNCHANGED <<parsed, readError>>
     \/ ~Skipped(l) /\ Valid(l) /\ parsed' = addEntry(l) /\ UNCHANGED readError
     \/ /\ ~Skipped(l) /\ ~Valid(l) /\ UNCHANGED parsed
        /\ readError' = IF format = "sha1" THEN "PluginError" ELSE "ParserError"
  /\ at' = at + 1
  /\ UNCHANGED <<format, phase, entries, lines, writeError, imported>>

EndOfFile ==
  /\ Reading /\ at = Len(lines)
  /\ IF phase = "import"
       THEN phase' = "write" /\ entries' = parsed /\ lines' = <<>> /\ at' = 0 /\ parsed' = <<>>
       ELSE phase' = "done" /\ UNCHANGED <<entries, lines, at, parsed>>
  /\ UNCHANGED <<format, writeError, readError, imported>>

Next == WriteNext \/ Written \/ WriteFails \/ ReadLine \/ EndOfFile

Spec == Init /\ [][Next]_vars

-----------------------------------------------------------------------------
(* Properties                                                              *)

\* Digests have their length and one form, whatever was read.
FormatTypeOK ==
  /\ \A k \in DOMAIN entries : entries[k].digest \in Digests
  /\ \A k \in DOMAIN parsed : parsed[k].digest \in Digests
  /\ at \in 0 .. Len(lines)

\* What is read is what was written, as far as it was written.
ReadsBack ==
  phase \in {"read", "done"} =>
    /\ IsPrefix(parsed, entries) /\ readError = "none"
    /\ phase = "done" /\ writeError = "none" => parsed = entries

\* Which paths a format can hold, it can hold in any number and next to each
\* other: no blank at an end, no comment for sfv, no star for md5.
Plain(path) ==
  CASE format = "sfv"  -> trim(path) = path /\ path[1] # Semicolon
    [] format = "md5"  -> trim(path) = path /\ ~Contains(path, Asterisk)
    [] format = "sha1" -> TRUE
PlainPathsReadBack == (\A k \in DOMAIN entries : Plain(entries[k].path)) => ReadsBack

\* Whatever a file from elsewhere said, if it could be read at all, is said
\* again by the file written from it: reading makes every path a plain one.
ImportedReadsBack == imported => ReadsBack

\* A created checksum file reads back as it was written, for any name a file
\* may have (none has a star, or ends with a blank).  The code breaks this: sfv
\* takes a path that begins with a semicolon for a comment, and sfv and md5
\* drop a blank that a path begins with.
FileName(path) == path # <<>> /\ Last(path) # Blank /\ ~Contains(path, Asterisk)
FileNamesReadBack == (\A k \in DOMAIN entries : FileName(entries[k].path)) => ReadsBack
=============================================================================
