--------------------------- MODULE MCWorkerThread ---------------------------
(***************************************************************************)
(* WorkerThread for TLC: the values of its constants, and where the parts  *)
(* that take no steps stay.  Beside what is below: digests of one digit,   *)
(* lines of up to four characters and paths of two; a signature of three   *)
(* bytes, and seven bytes before a header: a whole one after another that  *)
(* breaks off within the three, or after two that do so at once; two       *)
(* Digests, of the sha1 plugin, another and none, and two blocks; a window *)
(* of three of up to seven reads.                                          *)
(***************************************************************************)
EXTENDS WorkerThread

-----------------------------------------------------------------------------
(* A file of three bytes, one of one and an empty one                      *)

ThreeSizes == [f \in Files |-> CASE f = "a" -> 3 [] f = "b" -> 1 [] OTHER -> 0]
SomeOffsets == -2 .. 4

-----------------------------------------------------------------------------
(* Folders with two directories, one in the other or side by side, files   *)
(* of one name at different depths, an empty folder, two paths to one      *)
(* directory, and a junction that leads back to the folder                 *)

E(n, l) == [name |-> n, leads |-> l]
Tree(r, s, t) ==
  [d \in {"root", "s", "t"} |-> CASE d = "root" -> r [] d = "s" -> s [] OTHER -> t]
SmallFolders ==
  { Tree({}, {}, {}),
    Tree({E("a", "file"), E("b", "s"), E("c", "t")}, {E("a", "file")}, {E("a", "file")}),
    Tree({E("a", "file"), E("b", "s")}, {E("a", "file"), E("b", "t")}, {E("b", "file")}),
    Tree({E("a", "s"), E("b", "s")}, {E("a", "file")}, {}),
    Tree({E("a", "file"), E("b", "root")}, {}, {}) }

-----------------------------------------------------------------------------
(* Texts of two characters around every limit of the encodings (space, A,  *)
(* the first and last of each length, white space of two and three bytes,  *)
(* the neighbours of the surrogates), and of three of some of them         *)

Limits == {32, 65, 127, 128, 133, 2047, 2048, 8232, 55295, 57344, 65535, 65536, 1114111}
LimitTexts ==
  UNION {[1 .. n -> Limits] : n \in 0 .. 2} \cup [1 .. 3 -> {32, 65, 133, 8232, 65536}]

\* Bytes of every kind, in sequences of up to three
Kinds == {65, 128, 160, 192, 224, 237, 240, 248}
KindRanges == UNION {[1 .. n -> Kinds] : n \in 1 .. 3}

SignatureBytes == 0 .. 4
ThreeByteSignature == <<2, 3, 4>>
TwoNames == <<"C:", "data">>

-----------------------------------------------------------------------------
Only(p, first) == part # p => first

MCInit ==
  /\ part \in Parts
  /\ Only("input", m_filename = "a")
  /\ Only("folder", folder = Tree({}, {}, {}) /\ unreadable = {})
  /\ Only("formats", format = "sfv" /\ phase = "write" /\ entries = <<>>)
  /\ Only("utf", kind = "whole" /\ text = <<>>)
  /\ Only("window", m_elements = [k \in 0 .. N - 1 |-> 0])
  /\ WorkerInit
  /\ Len(entries) = 2 => Len(entries[2].path) = 1  \* bound: the path of a second entry

MCSpec == MCInit /\ [][WorkerNext]_allVars
=============================================================================
