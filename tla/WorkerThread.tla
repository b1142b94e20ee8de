---------------------------- MODULE WorkerThread ----------------------------
(***************************************************************************)
(* What the worker thread calls within an operation: files, folders, the   *)
(* formats of a checksum file, the conversion of names, the provider of    *)
(* archives, digests, and the measure of the bandwidth.  They share no     *)
(* state here: a behaviour is that of one part, and the others stay where  *)
(* they begin.                                                             *)
(***************************************************************************)
EXTENDS FileInput, SequencesExt

CONSTANTS
  Parts,  \* of "input", "folder", "formats", "utf", "rar", "digests" and "window"
  Names, Base, Folders, MaxDepth,                           \* of FolderListing
  DigestLength, MaxLine, MaxPath,                           \* of ChecksumFormats
  Texts, ByteRanges, MaxGrowth,                             \* of Utf
  Bytes, High, Signature, CrcSize, MaxBytes, MaxVInt, Word, \* of RarArchive
  EmptyOperands, FreshHasher, Variables, Plugins, Chunks, MaxChunks, MaxBlocks,
                                                            \* of PluginDigests
  N, Times, BufferSize, Second, MaxReads                    \* of SlidingWindow

VARIABLES
  part,                                                        \* the one that takes steps
  folder, unreadable, directories, current_path, found,
    yielded, listed, result, status,                           \* of FolderListing
  format, phase, entries, lines, at, parsed,
    writeError, readError, imported,                           \* of ChecksumFormats
  kind, text, input, loop, rest, utf16, utf8,                  \* of Utf
  pc, data, end, next, byte, start, header, weight, collected,   \* of RarArchive
  m_digest, heap, context, hasher, digestAnswer,               \* of PluginDigests
  m_elements, m_numberOfElements, m_nextElement, times         \* of SlidingWindow

folderVars == <<folder, unreadable, directories, current_path, found, yielded, listed,
                result, status>>
formatVars == <<format, phase, entries, lines, at, parsed, writeError, readError, imported>>
utfVars == <<kind, text, input, loop, rest, utf16, utf8>>
rarVars == <<pc, data, end, next, byte, start, header, weight, collected>>
digestVars == <<m_digest, heap, context, hasher, digestAnswer>>
windowVars == <<m_elements, m_numberOfElements, m_nextElement, times>>

Listing == INSTANCE FolderListing WITH entries <- listed
Formats == INSTANCE ChecksumFormats
Text == INSTANCE Utf
Archive == INSTANCE RarArchive WITH i <- next, b <- byte
Digests == INSTANCE PluginDigests WITH answer <- digestAnswer
Window == INSTANCE SlidingWindow

ASSUME PartConstants ==
  /\ Parts \subseteq {"input", "folder", "formats", "utf", "rar", "digests", "window"}
  /\ Listing!FolderConstants /\ Formats!FormatConstants /\ Text!UtfConstants
  /\ Archive!RarConstants /\ Digests!DigestConstants /\ Window!WindowConstants

-----------------------------------------------------------------------------
WorkerInit ==
  /\ part \in Parts /\ Init /\ Listing!Init /\ Formats!Init /\ Text!Init /\ Archive!Init
  /\ Digests!Init /\ Window!Init

WorkerNext ==
  \/ /\ part = "input" /\ Next
     /\ UNCHANGED <<part, folderVars, formatVars, utfVars, rarVars, digestVars, windowVars>>
  \/ /\ part = "folder" /\ Listing!Next
     /\ UNCHANGED <<part, vars, formatVars, utfVars, rarVars, digestVars, windowVars>>
  \/ /\ part = "formats" /\ Formats!Next
     /\ UNCHANGED <<part, vars, folderVars, utfVars, rarVars, digestVars, windowVars>>
  \/ /\ part = "utf" /\ Text!Next
     /\ UNCHANGED <<part, vars, folderVars, formatVars, rarVars, digestVars, windowVars>>
  \/ /\ part = "rar" /\ Archive!Next
     /\ UNCHANGED <<part, vars, folderVars, formatVars, utfVars, digestVars, windowVars>>
  \/ /\ part = "digests" /\ Digests!Next
     /\ UNCHANGED <<part, vars, folderVars, formatVars, utfVars, rarVars, windowVars>>
  \/ /\ part = "window" /\ Window!Next
     /\ UNCHANGED <<part, vars, folderVars, formatVars, utfVars, rarVars, digestVars>>

allVars == <<part, vars, folderVars, formatVars, utfVars, rarVars, digestVars, windowVars>>

WorkerSpec == WorkerInit /\ [][WorkerNext]_allVars

-----------------------------------------------------------------------------
(* Properties, beside ImplementsFileReader                                 *)

\* Types, and what each part holds on to is its own and there: one handle is
\* open, a block of a plugin is that of one Digest, UTF-16 units have 16 bits,
\* the window has as many times as it can hold.
InBounds ==
  /\ part = "input" => FileTypeOK
  /\ part = "folder" => Listing!ListingTypeOK
  /\ part = "formats" => Formats!FormatTypeOK
  /\ part = "utf" => Text!UtfTypeOK
  /\ part = "rar" => Archive!RarTypeOK
  /\ part = "digests" => Digests!BlocksAreOwned
  /\ part = "window" => Window!WindowTypeOK

\* A checksum file is written for the whole folder only, with every file in it
\* once, under the path that leads to what was hashed.
FolderIsListed ==
  part = "folder" =>
    Listing!ListedOnce /\ Listing!EntriesResolve /\ Listing!WrittenIsWhole

\* What a format can hold it gives back as it was written, and a file that is
\* written from another says the same.
ReadsBack ==
  part = "formats" => Formats!PlainPathsReadBack /\ Formats!ImportedReadsBack

\* A name in any script survives the conversions byte for byte, a line that is
\* cut in a character is rejected, and trimming takes whole characters.
TextSurvives ==
  part = "utf" => Text!TextSurvives /\ Text!CutIsRejected /\ Text!TrimsCharacters

\* No signature is passed over, what follows one is read as a header, and the
\* digest is of the header and of nothing else.
ArchiveIsRead ==
  part = "rar" =>
    Archive!NothingPassedOver /\ Archive!FoundIsSignature /\ Archive!HeaderIsHashed

\* The pointers of Digest behave as values.
ImplementsDigestValue ==
  /\ Digests!Value!Init
  /\ [][part = "digests" => [Digests!Value!Next]_(Digests!Value!vars)]_digestVars

\* The bandwidth is that of the last whole reads.
BandwidthOfLastReads == part = "window" => Window!BandwidthOfLastReads

\* Every round of a conversion of a name that is text takes something off what
\* is left of it: none goes round for ever.
ConversionGoesOn == Text!ConversionGoesOn

-----------------------------------------------------------------------------
(* Promises of the sources that the code breaks, beside EndIsEnd, each with *)
(* the values of the constants that show it if the cfg has others          *)

FileNamesReadBack == part = "formats" => Formats!FileNamesReadBack
AcceptedSurvives == part = "utf" => Text!AcceptedSurvives
SearchEnds == part = "rar" => Archive!SearchEnds
InvalidIsParserError == part = "rar" => Archive!InvalidIsParserError
EmptyIsValue == Digests!EmptyIsValue      \* EmptyOperands = TRUE
InitialIsReset == Digests!InitialIsReset  \* FreshHasher = TRUE
=============================================================================
