---------------------------- MODULE CommandLine -----------------------------
(***************************************************************************)
(* The command line: commandLineLexer() reads a character at a time,       *)
(* parseCommandLine() sorts the arguments into files and the output file,  *)
(* and WinMainImpl() posts a Verify operation for each file.               *)
(* Characters stand for themselves, but for the words "DOALL", "OUTPUT:"   *)
(* and ".sfv", which are one symbol each, and "x80", a byte that is no     *)
(* part of a character.  A blank stands for the tab too.                   *)
(***************************************************************************)
EXTENDS Integers, Sequences, SequencesExt

CONSTANTS
  Lines,    \* command lines
  ArgLists  \* lists of arguments, quoted into more command lines

LinesAreText ==
  \A l \in Lines : \A i \in DOMAIN l :
    l[i] \in {"a", " ", "\"", "\\", "x80", "DOALL", "OUTPUT:", ".sfv"}

VARIABLES
  list,      \* history: the arguments that the line quotes, in a sequence, or none
  str,       \* the command line
  rest,      \* what is left to read of it
  status,    \* of the lexer; then "Parse", "Post", "Loop" or "ParserError"
  args,      \* the arguments; the last one is being read
  opts,      \* CommandLineOptions
  posted,    \* the files of the Verify operations
  reported   \* the files shown in a message box

vars == <<list, str, rest, status, args, opts, posted, reported>>

Drop(s, n) == SubSeq(s, n + 1, Len(s))

-----------------------------------------------------------------------------
(* A caller's view of quoting: every argument in quotes, with the quotes   *)
(* and backslashes in it doubled                                           *)

Doubled(arg) ==
  FoldLeft(LAMBDA s, c : s \o (IF c \in {"\"", "\\"} THEN <<c, c>> ELSE <<c>>), <<>>, arg)
Quoted(l) ==
  FoldLeft(LAMBDA s, arg : s \o <<" ", "\"">> \o Doubled(arg) \o <<"\"">>, <<>>, l)

Init ==
  /\ \/ list = <<>> /\ str \in Lines
     \/ list \in {<<l>> : l \in ArgLists} /\ str = Quoted(list[1])
  /\ rest = str /\ status = "StartOfArg" /\ args = << <<>> >>
  /\ opts = [filesToCheck |-> <<>>, outFile |-> <<>>]
  /\ posted = <<>> /\ reported = <<>>

-----------------------------------------------------------------------------
(* commandLineLexer()                                                      *)

Push(c) == args' = [args EXCEPT ![Len(args)] = Append(@, c)]

checkValidUtf8(arg) == "x80" \notin ToSet(arg)

end_of_arg ==
  \/ /\ checkValidUtf8(Last(args))
     /\ args' = Append(args, <<>>) /\ status' = "StartOfArg"
  \/ /\ ~checkValidUtf8(Last(args))
     /\ status' = "ParserError" /\ UNCHANGED args

Escape == rest[1] = "\\" /\ Len(rest) > 1 /\ rest[2] \in {"\"", "\\"}
DoubleQuote == status = "InQuotes" /\ Len(rest) > 1 /\ SubSeq(rest, 1, 2) = <<"\"", "\"">>

Lexing == status \in {"StartOfArg", "InArg", "InQuotes"}

Escaped ==
  /\ Escape \/ DoubleQuote
  /\ Push(rest[2]) /\ rest' = Drop(rest, 2) /\ UNCHANGED status

Quote ==
  /\ ~Escape /\ ~DoubleQuote /\ rest[1] = "\"" /\ rest' = Tail(rest)
  /\ \/ status # "InQuotes" /\ status' = "InQuotes" /\ UNCHANGED args
     \/ status = "InQuotes" /\ end_of_arg

Blank ==
  /\ rest[1] = " " /\ rest' = Tail(rest)
  /\ \/ status = "StartOfArg" /\ UNCHANGED <<status, args>>
     \/ status = "InArg" /\ end_of_arg
     \/ status = "InQuotes" /\ Push(" ") /\ UNCHANGED status

Other ==
  /\ ~Escape /\ rest[1] \notin {" ", "\""} /\ rest' = Tail(rest)
  /\ Push(rest[1])
  /\ status' = IF status = "StartOfArg" THEN "InArg" ELSE status

Read ==
  /\ Lexing /\ rest # <<>>
  /\ Escaped \/ Quote \/ Blank \/ Other
  /\ UNCHANGED <<list, str, opts, posted, reported>>

\* The end of the line ends an argument, less the blanks at its end.
Trimmed(arg) ==
  LET kept == {i \in DOMAIN arg : arg[i] # " "}
  IN IF kept = {} THEN <<>> ELSE SubSeq(arg, 1, CHOOSE i \in kept : \A j \in kept : i >= j)

EndOfLine ==
  LET last == Trimmed(Last(args)) IN
  /\ Lexing /\ rest = <<>>
  /\ \/ checkValidUtf8(last) /\ status' = "Parse"
     \/ ~checkValidUtf8(last) /\ status' = "ParserError"
  /\ args' = IF last = <<>> THEN Front(args) ELSE Append(Front(args), last)
  /\ UNCHANGED <<list, str, rest, opts, posted, reported>>

-----------------------------------------------------------------------------
(* parseCommandLine() and the posts of WinMainImpl()                       *)

IsOutput(arg) == IsPrefix(<<"OUTPUT:">>, arg)
IsFile(arg) == ~IsOutput(arg) /\ arg # <<"DOALL">>

\* std::vector::resize(1)
Resized(files) == IF files = <<>> THEN << <<>> >> ELSE <<files[1]>>

\* Mutant: an output file does not limit the files.
parseCommandLineAll ==
  LET outputs == SelectSeq(args, IsOutput) IN
  /\ status = "Parse" /\ status' = "Post"
  /\ opts' = [filesToCheck |-> SelectSeq(args, IsFile),
              outFile |-> IF outputs = <<>> THEN <<>> ELSE Tail(Last(outputs))]
  /\ UNCHANGED <<list, str, rest, args, posted, reported>>

parseCommandLine ==
  LET outputs == SelectSeq(args, IsOutput)
      outFile == IF outputs = <<>> THEN <<>> ELSE Tail(Last(outputs))
      files == SelectSeq(args, IsFile)
  IN
  /\ status = "Parse" /\ status' = "Post"
  /\ opts' = [filesToCheck |-> IF outFile = <<>> THEN files ELSE Resized(files),
              outFile |-> outFile]
  /\ UNCHANGED <<list, str, rest, args, posted, reported>>

HasProvider(file) == IsSuffix(<<".sfv">>, file)
Handled == Len(posted) + Len(reported)

PostVerify ==
  LET file == opts.filesToCheck[Handled + 1] IN
  /\ status = "Post" /\ Handled < Len(opts.filesToCheck)
  /\ \/ HasProvider(file) /\ posted' = Append(posted, file) /\ UNCHANGED reported
     \/ ~HasProvider(file) /\ reported' = Append(reported, file) /\ UNCHANGED posted
  /\ UNCHANGED <<list, str, rest, status, args, opts>>

EnterLoop ==
  /\ status = "Post" /\ Handled = Len(opts.filesToCheck) /\ status' = "Loop"
  /\ UNCHANGED <<list, str, rest, args, opts, posted, reported>>

Next == Read \/ EndOfLine \/ parseCommandLine \/ PostVerify \/ EnterLoop

Spec == Init /\ [][Next]_vars

-----------------------------------------------------------------------------
(* Properties                                                              *)

CommandTypeOK ==
  /\ status \in {"StartOfArg", "InArg", "InQuotes", "Parse", "Post", "Loop", "ParserError"}
  /\ IsSuffix(rest, str)
  /\ Lexing => args # <<>>
  /\ status = "Post" => Handled <= Len(opts.filesToCheck)

\* A list of arguments that a caller has quoted comes out as it went in:
\* empty ones, blanks at an end, quotes and backslashes next to a quote.
QuotedArgsSurvive ==
  status = "Parse" /\ list # <<>> => args = list[1]

\* The words of a line: its longest stretches without a blank
Words ==
  LET starts == {i \in DOMAIN str : str[i] # " " /\ (i = 1 \/ str[i - 1] = " ")}
      word(i) == {j \in i .. Len(str) : \A k \in i .. j : str[k] # " "}
  IN [n \in DOMAIN SetToSortSeq(starts, <) |->
        LET i == SetToSortSeq(starts, <)[n]
        IN SubSeq(str, i, i + Cardinality(word(i)) - 1)]
Pair(c) == \E i \in 1 .. Len(str) - 1 : str[i] = c /\ str[i + 1] = c

\* A line without quotes and doubled backslashes is its words, wherever blanks
\* and backslashes stand.
PlainWords ==
  status = "Parse" /\ "\"" \notin ToSet(str) /\ ~Pair("\\") => args = Words

\* A byte that is no part of a character stops the program before an operation
\* is posted, in whatever argument it stands; nothing else does.
InvalidIsRejected ==
  /\ "x80" \in ToSet(str) => status # "Loop" /\ posted = <<>>
  /\ status = "ParserError" => "x80" \in ToSet(str)

\* An output file gets the result of one operation at most, that of the first
\* file named on the line; without one every file named has its answer, in the
\* order of the line.
FilesAnswered ==
  status = "Loop" =>
    LET files == SelectSeq(args, IsFile)
        known == SelectSeq(files, HasProvider)
    IN IF opts.outFile = <<>>
       THEN posted = known /\ ToSet(posted) \cup ToSet(reported) = ToSet(files)
       ELSE Len(posted) <= 1 /\ (posted # <<>> => files[1] = posted[1])

\* win32_command_line_parser.t.cpp: backslashes are interpreted literally,
\* unless they immediately precede a double quote mark.  The code breaks this:
\* two of them are one, as at the start of a network path.
BackslashesLiteral == status = "Parse" /\ "\"" \notin ToSet(str) => args = Words

\* win32_command_line_parser.t.cpp: unqualified arguments are interpreted as
\* files to be checked.  The code breaks this: an output file alone makes it
\* check a file without a name.
FilesAreArguments == ToSet(opts.filesToCheck) \subseteq ToSet(args)
=============================================================================
