--------------------------- MODULE FolderListing ----------------------------
(***************************************************************************)
(* Creating a checksum file from a folder: iterateFiles() walks the folder *)
(* with a stack of directories, one open search at a time, and yields each *)
(* file to doCreate(), which hashes it, keeps its digest under its path    *)
(* relative to the folder, and writes the checksum file at the end.        *)
(* A path is the sequence of its names.  A folder is a graph: an entry of  *)
(* a directory leads to another one or is a file; a junction leads to a    *)
(* directory that has another path already.  The file system answers a     *)
(* path that is too long, or a directory the user may not read, with an    *)
(* error.                                                                  *)
(***************************************************************************)
EXTENDS Integers, Sequences, SequencesExt

CONSTANTS
  Names,    \* names of files and directories
  Base,     \* folder_path, a sequence of names
  Folders,  \* functions from directory to a set of [name, leads]
  MaxDepth  \* longest path below the folder that the file system opens

Root == "root"
File == "file"
Dots == {".", ".."}

FolderConstants ==
  /\ Names \cap Dots = {} /\ MaxDepth \in Nat /\ Base \in Seq(ToSet(Base))
  /\ \A f \in Folders :
       /\ Root \in DOMAIN f /\ File \notin DOMAIN f
       /\ \A d \in DOMAIN f :
            /\ f[d] \subseteq [name : Names, leads : DOMAIN f \cup {File}]
            /\ \A e1, e2 \in f[d] : e1.name = e2.name => e1 = e2

VARIABLES
  folder, unreadable,  \* the file system
  directories,         \* stack of the directories not searched yet
  current_path, found, \* the open search: its directory, what it will still return
  yielded,             \* sequence of paths iterateFiles() has yielded
  entries,             \* op.checksum_file: relative paths, with the file each digest is of
  result, status       \* of doCreate()

searchVars == <<directories, current_path, found>>
vars == <<folder, unreadable, directories, current_path, found, yielded, entries, result, status>>

\* Directories on the stack: a path and where it leads
Directory(path, node) == [path |-> path, node |-> node]

Init ==
  /\ folder \in Folders /\ unreadable \in SUBSET DOMAIN folder
  /\ directories = <<Directory(Base, Root)>>
  /\ current_path = Base /\ found = {}
  /\ yielded = <<>> /\ entries = <<>>
  /\ result = [ok |-> 0, bad |-> 0, total |-> 0] /\ status = "listing"

-----------------------------------------------------------------------------
(* iterateFiles()                                                          *)

Opens(d) == d.node \notin unreadable /\ Len(d.path) <= Len(Base) + MaxDepth

FindFirstFileEx ==
  LET d == Last(directories) IN
  /\ status = "listing" /\ found = {} /\ directories # <<>>
  /\ directories' = Front(directories) /\ current_path' = d.path
  /\ \/ /\ Opens(d)
        /\ found' = folder[d.node] \cup {[name |-> n, leads |-> d.node] : n \in Dots}
        /\ UNCHANGED status
     \/ ~Opens(d) /\ status' = "FileIO" /\ UNCHANGED found
  /\ UNCHANGED <<folder, unreadable, yielded, entries, result>>

Skip(e) ==
  /\ e.name \in Dots /\ UNCHANGED <<directories, yielded, status>>

\* Mutant: the directory takes the place of those found before it.
DescendAtOnce(e) ==
  /\ e.leads # File /\ e.name \notin Dots
  /\ directories' = <<Directory(Append(current_path, e.name), e.leads)>>
  /\ UNCHANGED <<yielded, status>>

Descend(e) ==
  /\ e.leads # File /\ e.name \notin Dots
  /\ directories' = Append(directories, Directory(Append(current_path, e.name), e.leads))
  /\ UNCHANGED <<yielded, status>>

Yield(e) ==
  /\ e.leads = File
  /\ yielded' = Append(yielded, Append(current_path, e.name)) /\ status' = "file"
  /\ UNCHANGED directories

\* In an order that is up to the file system
FindNextFile ==
  /\ status = "listing"
  /\ \E e \in found :
       /\ found' = found \ {e}
       /\ Skip(e) \/ Descend(e) \/ Yield(e)
  /\ UNCHANGED <<folder, unreadable, current_path, entries, result>>

\* GetLastError() is not ERROR_NO_MORE_FILES.
SearchFails ==
  /\ status = "listing" /\ found # {} /\ status' = "FileIO"
  /\ UNCHANGED <<folder, unreadable, searchVars, yielded, entries, result>>

-----------------------------------------------------------------------------
(* doCreate()                                                              *)

relativePathTo(path) == SubSeq(path, Len(Base) + 1, Len(path))

file == Last(yielded)

OpenFails ==
  /\ status = "file" /\ status' = "listing"
  /\ result' = [result EXCEPT !.bad = @ + 1]
  /\ UNCHANGED <<folder, unreadable, searchVars, yielded, entries>>

DigestReady ==
  /\ status = "file" /\ status' = "listing"
  /\ entries' = Append(entries, [path |-> relativePathTo(file), of |-> file])
  /\ result' = [result EXCEPT !.ok = @ + 1, !.total = @ + 1]
  /\ UNCHANGED <<folder, unreadable, searchVars, yielded>>

HashError ==
  /\ status = "file" /\ status' = "listing"
  /\ result' = [result EXCEPT !.bad = @ + 1, !.total = @ + 1]
  /\ UNCHANGED <<folder, unreadable, searchVars, yielded, entries>>

Canceled ==
  /\ status = "file" /\ status' = "canceled"
  /\ UNCHANGED <<folder, unreadable, searchVars, yielded, entries, result>>

\* Opening or writing the file may fail.
writeNewFile ==
  /\ status = "listing" /\ found = {} /\ directories = <<>>
  /\ status' \in {"written", "FileIO"}
  /\ UNCHANGED <<folder, unreadable, searchVars, yielded, entries, result>>

Next ==
  \/ FindFirstFileEx \/ FindNextFile \/ SearchFails
  \/ OpenFails \/ DigestReady \/ HashError \/ Canceled \/ writeNewFile

Spec == Init /\ [][Next]_vars

-----------------------------------------------------------------------------
(* Properties                                                              *)

ListingTypeOK ==
  /\ status \in {"listing", "file", "canceled", "FileIO", "written"}
  /\ \A i \in DOMAIN directories :
       IsPrefix(Base, directories[i].path) /\ directories[i].node \in DOMAIN folder
  /\ found \subseteq [name : Names \cup Dots, leads : DOMAIN folder \cup {File}]
  /\ Len(entries) = result.ok

\* The names below folder f lead to n, by way of the directories w.
Way(f, names, w) ==
  /\ w[0] = Root
  /\ \A i \in 1 .. Len(names) :
       w[i - 1] \in DOMAIN f /\ [name |-> names[i], leads |-> w[i]] \in f[w[i - 1]]
Lead(f, names, n) ==
  \E w \in [0 .. Len(names) -> DOMAIN f \cup {File}] : Way(f, names, w) /\ w[Len(names)] = n

BelowBase(n) == UNION {[1 .. k -> Names] : k \in 1 .. n}
Directories(n) == {Root} \cup {d \in DOMAIN folder : \E p \in BelowBase(n) : Lead(folder, p, d)}
FilesBelow == {Base \o p : p \in {q \in BelowBase(MaxDepth + 1) : Lead(folder, q, File)}}
TooDeep ==
  \E p \in BelowBase(MaxDepth + 1), d \in DOMAIN folder : Len(p) = MaxDepth + 1 /\ Lead(folder, p, d)

\* Every file of the folder is yielded once, in whatever order the searches
\* return entries and however directories are nested, and nothing else is.
ListedOnce ==
  /\ IsInjective(yielded)
  /\ \A i \in DOMAIN yielded :
       IsPrefix(Base, yielded[i]) /\ Lead(folder, relativePathTo(yielded[i]), File)
  /\ status = "written" => ToSet(yielded) = FilesBelow

\* The path kept for a digest, read below the folder, is that of the file the
\* digest is of: a verification of the file checks what was hashed.
EntriesResolve ==
  \A i \in DOMAIN entries : Base \o entries[i].path = entries[i].of

\* A checksum file is written for the whole folder only: a directory that
\* cannot be read, a junction that leads back to where it is, or a cancel
\* leaves none; a file that cannot be hashed leaves out its entry.
WrittenIsWhole ==
  status = "written" =>
    /\ unreadable \cap Directories(MaxDepth) = {} /\ ~TooDeep
    /\ Len(entries) + result.bad = Cardinality(FilesBelow)
=============================================================================
