---------------------------- MODULE MCMainThread ----------------------------
(***************************************************************************)
(* MainThread for TLC: the values of its constants, and where the parts    *)
(* that take no steps stay.                                                *)
(***************************************************************************)
EXTENDS MainThread

-----------------------------------------------------------------------------
(* A list of two files that come in another order than that of their names *)
(* and that of a message                                                   *)

TwoFiles == <<3, 1>>
ThreeFiles == <<3, 1, 4>>
Lengths == [name \in Names \cup {MessageName} |-> name]

\* Bound: the entries of a second operation
SecondIsShort == Len(reported) > 1 => Len(m_listEntries) <= 2

-----------------------------------------------------------------------------
(* Every line of up to five symbols that the lexer tells apart or that the *)
(* parser tells apart, and every quoted list of up to two short arguments  *)

UpTo(n, S) == UNION {[1 .. k -> S] : k \in 0 .. n}
ShortLines ==
  UpTo(5, {"a", " ", "\"", "\\"}) \cup UpTo(4, {"a", " ", "\"", "\\", "x80"})
    \cup UpTo(5, {".sfv", "a", " ", "DOALL", "OUTPUT:"}) \cup UpTo(6, {".sfv", " ", "OUTPUT:"})
ShortLists == UpTo(2, UpTo(2, {"a", " ", "\"", "\\"}))

-----------------------------------------------------------------------------
(* Up to three plugins that repeat, add or double a format, and can create *)
(* or not, behind the two formats that are built in                        *)

Provider(exts, descriptionSize, full) ==
  [exts |-> exts, extensionSize |-> 6, descriptionSize |-> descriptionSize, full |-> full]
SfvAndMd5 == <<Provider(<<".sfv">>, 4, TRUE), Provider(<<".md5">>, 4, TRUE)>>
PluginKinds ==
  {Provider(<<e>>, 5, f) : e \in {".md5", ".rar", ".sha1"}, f \in BOOLEAN}
    \cup {Provider(<<".sha1", ".sha">>, 5, TRUE), Provider(<<".rar">>, 12, FALSE)}

SomeFileNames == {".sfv", ".md5", ".rar", ".sha1", ".txt"}

-----------------------------------------------------------------------------
(* Two windows, a machine that supports AVX-512 and one that does not      *)

NewSupports == [m \in Machines |-> m = "new"]

-----------------------------------------------------------------------------
MCInit ==
  /\ part \in Parts
  /\ disk = Names
  /\ part # "command" => list = <<>> /\ str = <<>>
  /\ part # "providers" => dlls = <<>>
  /\ MainInit

MCSpec == MCInit /\ [][MainNext]_mainVars
=============================================================================
