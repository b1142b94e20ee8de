--------------------------- MODULE FileProviders ----------------------------
(***************************************************************************)
(* The formats the program knows: FileProviders loads one provider per     *)
(* plugin behind the two it is built with; the command line and the file   *)
(* dialogs choose one by the name of a file or by the row of the dialog    *)
(* that lists the formats, and post an operation with it.                  *)
(* A provider is its list of extensions, the lengths of the two strings    *)
(* its plugin hands out, and whether it can create; the name of a file is  *)
(* the extension it ends with.                                             *)
(***************************************************************************)
EXTENDS Integers, Sequences, SequencesExt

CONSTANTS
  BuiltIn,     \* the sequence of the providers the program is built with
  Plugins,     \* what plugins may offer
  MaxPlugins,  \* bound: files *.dll beside the program
  Names        \* extensions of the files a user names

Strings(p) ==
  p.exts \in Seq(ToSet(p.exts)) \ {<<>>} /\ p.extensionSize > 0 /\ p.descriptionSize > 0

ProviderConstants ==
  /\ BuiltIn \in Seq(ToSet(BuiltIn))
  /\ \A p \in ToSet(BuiltIn) \cup Plugins : Strings(p) /\ p.full \in BOOLEAN
  /\ \E p \in ToSet(BuiltIn) : p.full
  /\ MaxPlugins \in Nat

VARIABLES
  dlls,             \* the plugins beside the program that are not loaded yet
  m_providers,      \* sequence of providers
  m_fileTypesVerify, m_fileTypesCreate,  \* sequences of indices into it
  app,              \* "loading", "running", "exited", or "terminated"
  posted            \* the last operation and how its provider was chosen

vars == <<dlls, m_providers, m_fileTypesVerify, m_fileTypesCreate, app, posted>>

None == [op |-> "none", row |-> 0, name |-> "", provider |-> 0]

Init ==
  /\ dlls \in UNION {[1 .. n -> Plugins] : n \in 0 .. MaxPlugins}
  /\ m_providers = <<>> /\ m_fileTypesVerify = <<>> /\ m_fileTypesCreate = <<>>
  /\ app = "loading" /\ posted = None

-----------------------------------------------------------------------------
(* The constructor, loadPlugins(), loadPlugin() and the constructor of a   *)
(* plugin's provider                                                       *)

addProvider(p) ==
  LET i == Len(m_providers) + 1 IN
  /\ m_fileTypesCreate' = IF p.full THEN Append(m_fileTypesCreate, i) ELSE m_fileTypesCreate
  /\ m_fileTypesVerify' = Append(m_fileTypesVerify, i)
  /\ m_providers' = Append(m_providers, p)

Constructing == Len(m_providers) < Len(BuiltIn)
AddBuiltIn ==
  /\ Constructing /\ addProvider(BuiltIn[Len(m_providers) + 1])
  /\ UNCHANGED <<dlls, app, posted>>

\* A plugin fills a buffer whose size it is told, and fails if that is too
\* small.  The host asks for the size of each string first, but tells it the
\* size of the extension when it wants the description.
HandsOut(size, buffer) == size <= buffer
Constructed(p) ==
  /\ HandsOut(p.extensionSize, p.extensionSize)
  /\ HandsOut(p.descriptionSize, p.extensionSize)

LoadPlugin ==
  LET p == Head(dlls) IN
  /\ app = "loading" /\ ~Constructing /\ dlls # <<>>
  /\ dlls' = Tail(dlls)
  /\ \/ Constructed(p) /\ addProvider(p) /\ UNCHANGED app
     \/ /\ ~Constructed(p) /\ app' = "exited"  \* PluginError, as far as WinMain()
        /\ UNCHANGED <<m_providers, m_fileTypesVerify, m_fileTypesCreate>>
  /\ UNCHANGED posted

Loaded ==
  /\ app = "loading" /\ ~Constructing /\ dlls = <<>> /\ app' = "running"
  /\ UNCHANGED <<dlls, m_providers, m_fileTypesVerify, m_fileTypesCreate, posted>>

-----------------------------------------------------------------------------
(* Choosing a provider                                                     *)

\* What the loop over the providers comes to at the i-th one.  The end of an
\* extension is searched from the start of the list: the second round finds
\* the first semicolon again, which is not the "*" of an extension.
AtProvider(i, name, supports_create) ==
  CASE m_providers[i].exts[1] = name /\ (~supports_create \/ m_providers[i].full) -> "found"
    [] Len(m_providers[i].exts) > 1 -> "enforce"
    [] OTHER -> "next"

FirstDecision(decided) == CHOOSE i \in decided : \A j \in decided : i <= j

\* The index of the provider, 0 for a null pointer, -1 when enforce() ends the
\* process
getMatchingProviderFor(name, supports_create) ==
  LET decided == {i \in DOMAIN m_providers : AtProvider(i, name, supports_create) # "next"}
  IN IF decided = {} THEN 0
     ELSE IF AtProvider(FirstDecision(decided), name, supports_create) = "enforce" THEN -1
     ELSE FirstDecision(decided)

\* determineFileTypes(): the rows of a dialog, each with the provider it is for
Row(kind, i) == [kind |-> kind, provider |-> i]
VerifyRows ==
  <<Row("catch_all", 0)>>
    \o [n \in DOMAIN m_fileTypesVerify |-> Row("format", m_fileTypesVerify[n])]
    \o <<Row("all_files", 0)>>
CreateRows == [n \in DOMAIN m_fileTypesCreate |-> Row("format", m_fileTypesCreate[n])]

\* selected_file_type counts from 0, and so do the program's vectors.
Opened(selected, name) ==
  IF selected = 0 \/ selected - 1 >= Len(m_fileTypesVerify)
  THEN getMatchingProviderFor(name, FALSE)
  ELSE m_fileTypesVerify[selected]

\* Mutant: the index is taken among all providers.
CreatedByIndex(selected, name) ==
  IF selected >= Len(m_fileTypesCreate)
  THEN getMatchingProviderFor(name, TRUE) ELSE m_fileTypesVerify[selected + 1]

Created(selected, name) ==
  IF selected >= Len(m_fileTypesCreate)
  THEN getMatchingProviderFor(name, TRUE)
  ELSE m_fileTypesCreate[selected + 1]

Posted(op, row, name, p) ==
  /\ app' = IF p = -1 THEN "terminated" ELSE app
  /\ posted' = IF p = -1 THEN posted
               ELSE [op |-> op, row |-> row, name |-> name, provider |-> p]
  /\ UNCHANGED <<dlls, m_providers, m_fileTypesVerify, m_fileTypesCreate>>

\* A file of the command line, which has no dialog; without a provider it is
\* reported instead.
CheckFile(name) ==
  LET p == getMatchingProviderFor(name, FALSE) IN
  /\ app = "running" /\ Posted(IF p = 0 THEN "none" ELSE "Verify", 0, name, p)

OpenFile(row, name) ==
  LET p == Opened(row - 1, name) IN
  /\ app = "running" /\ row \in DOMAIN VerifyRows
  /\ Posted(IF p = 0 THEN "none" ELSE "Verify", row, name, p)

\* SaveFile(): without a check of the provider
CreateFromFolder(row, name) ==
  /\ app = "running" /\ row \in DOMAIN CreateRows
  /\ Posted("CreateFromFolder", row, name, Created(row - 1, name))

Rows == 1 .. Len(BuiltIn) + MaxPlugins + 2

Next ==
  \/ AddBuiltIn \/ LoadPlugin \/ Loaded
  \/ \E name \in Names : CheckFile(name)
  \/ \E name \in Names, row \in Rows : OpenFile(row, name) \/ CreateFromFolder(row, name)

Spec == Init /\ [][Next]_vars

-----------------------------------------------------------------------------
(* Properties                                                              *)

ProvidersTypeOK ==
  /\ Range(m_fileTypesVerify) \cup Range(m_fileTypesCreate) \subseteq DOMAIN m_providers
  /\ app \in {"loading", "running", "exited", "terminated"}
  /\ posted.provider \in 0 .. Len(m_providers)

\* The operation that a row of a dialog starts uses the provider whose
\* description the row shows, whatever plugins came before it.
RowIsProvider ==
  /\ posted.op = "Verify" /\ posted.row # 0 =>
       VerifyRows[posted.row].provider \in {0, posted.provider}
  /\ posted.op = "CreateFromFolder" =>
       CreateRows[posted.row].provider = posted.provider

\* The scheduler uses the provider of CreateFromFolder without a check: it is
\* there, and it can create.
CreateHasProvider ==
  posted.op = "CreateFromFolder" =>
    posted.provider # 0 /\ m_providers[posted.provider].full

\* A format found by the name of the file handles files of that name, and no
\* provider that was loaded earlier does: a plugin never takes over a format
\* that the program is built with.
FirstByName ==
  posted.op = "Verify" /\ (posted.row = 0 \/ VerifyRows[posted.row].kind # "format") =>
    /\ posted.name \in ToSet(m_providers[posted.provider].exts)
    /\ \A i \in 1 .. posted.provider - 1 : m_providers[i].exts[1] # posted.name

\* checksum_provider.hpp: a format may list several extensions.  The code
\* breaks this: such a list ends the program at the name of another format.
ListsOfExtensions == app # "terminated"

\* README.md: plugins extend the program easily.  The code breaks this: one
\* that keeps to the sizes it gives fails when its description is longer than
\* its extension, and the program does not start.
KeptSizesLoad == app # "exited"
=============================================================================
