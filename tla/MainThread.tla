----------------------------- MODULE MainThread -----------------------------
(***************************************************************************)
(* What the main thread does beside the scheduler: the command line, the   *)
(* formats it knows, the options of the window and the list of results.    *)
(* One thread runs them and they share no state: a behaviour is that of    *)
(* one part, and the others stay where they begin.                         *)
(***************************************************************************)
EXTENDS ResultsList

CONSTANTS
  Parts,                                   \* of "list", "command", "providers" and "settings"
  Lines, ArgLists,                         \* of CommandLine
  BuiltIn, Plugins, MaxPlugins, FileNames, \* of FileProviders: FileNames are its Names
  Windows, Machines, supportsAvx512, Placements, NoPlacement, MaxKeys  \* of Settings

VARIABLES
  part,                                                        \* the one that takes steps
  list, str, rest, lexing, args, opts, postedFiles, reportedFiles,   \* of CommandLine
  dlls, m_providers, m_fileTypesVerify, m_fileTypesCreate, app, posted,  \* of FileProviders
  key, keys, window, asked, last, alone                        \* of Settings

lineVars == <<list, str, rest, lexing, args, opts, postedFiles, reportedFiles>>
formatVars == <<dlls, m_providers, m_fileTypesVerify, m_fileTypesCreate, app, posted>>
optionVars == <<key, keys, window, asked, last, alone>>

Line == INSTANCE CommandLine WITH
  status <- lexing, posted <- postedFiles, reported <- reportedFiles
Formats == INSTANCE FileProviders WITH Names <- FileNames
Options == INSTANCE Settings

ASSUME PartConstants ==
  /\ Parts \subseteq {"list", "command", "providers", "settings"}
  /\ Line!LinesAreText /\ Formats!ProviderConstants /\ Options!SettingsConstants

-----------------------------------------------------------------------------
MainInit == part \in Parts /\ Init /\ Line!Init /\ Formats!Init /\ Options!Init

MainNext ==
  \/ part = "list" /\ Next /\ UNCHANGED <<part, lineVars, formatVars, optionVars>>
  \/ part = "command" /\ Line!Next /\ UNCHANGED <<part, vars, formatVars, optionVars>>
  \/ part = "providers" /\ Formats!Next /\ UNCHANGED <<part, vars, lineVars, optionVars>>
  \/ part = "settings" /\ Options!Next /\ UNCHANGED <<part, vars, lineVars, formatVars>>

mainVars == <<part, vars, lineVars, formatVars, optionVars>>
MainSpec == MainInit /\ [][MainNext]_mainVars

-----------------------------------------------------------------------------
(* Properties, beside those of ResultsList                                 *)

\* Types, and what each part reaches into is there: the list view and its
\* entries, the names on the clipboard and their buffer, the rows of a dialog
\* and the providers, the line and what is left to read of it.
InBounds ==
  /\ part = "list" => ListTypeOK /\ ClipboardFits
  /\ part = "command" => Line!CommandTypeOK
  /\ part = "providers" => Formats!ProvidersTypeOK
  /\ part = "settings" => Options!SettingsTypeOK

\* What a caller wrote on the command line is what the program is asked to do:
\* quoted arguments and plain words come out as they went in, a byte that is
\* no character posts nothing, and every file named has its answer.
CommandLineAnswered ==
  part = "command" =>
    /\ Line!QuotedArgsSurvive /\ Line!PlainWords
    /\ Line!InvalidIsRejected /\ Line!FilesAnswered

\* An operation has the format that the user has chosen by a row of a dialog,
\* one that can create a file if it is to, or the first that was loaded for the
\* name of the file.
FormatIsChosen ==
  part = "providers" =>
    Formats!RowIsProvider /\ Formats!CreateHasProvider /\ Formats!FirstByName

\* Nobody's options are kept without being asked for, nor used on a machine
\* that cannot have them.
OptionsAreAsked ==
  part = "settings" => Options!AvxIsSupported /\ Options!KeptOnlyIfAsked

\* A window that starts has the options that were saved last, those of a save
\* that another crossed or a crash ended among them.
Restores == Options!Restores

-----------------------------------------------------------------------------
(* Promises of the sources that the code breaks, beside OnlyMarkedAreDeleted,*)
(* which takes MaxFiles = 3, FileName <- ThreeFiles and no Creates to show  *)

BackslashesLiteral == Line!BackslashesLiteral
FilesAreArguments == Line!FilesAreArguments
ListsOfExtensions == Formats!ListsOfExtensions
KeptSizesLoad == Formats!KeptSizesLoad
=============================================================================
