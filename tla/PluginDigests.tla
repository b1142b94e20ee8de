---------------------------- MODULE PluginDigests ---------------------------
(***************************************************************************)
(* Digest (lib/quicker_sfv/digest.cpp) as a pointer to a Model, that of a  *)
(* plugin as a pointer of its own to what the plugin has allocated         *)
(* (client_gui/quicker_sfv/ui/plugin_support.cpp), and the sha1 plugin's   *)
(* Hasher and digests (sha1_plugin.c).  It is to implement DigestValue.    *)
(* A digest that ends leaves the memory of its plugin allocated:           *)
(* PluginDigest has no destructor.                                         *)
(***************************************************************************)
EXTENDS Integers, FiniteSets, SequencesExt

CONSTANTS
  Variables,       \* the Digests of the program
  Plugins,         \* the guids of the plugins, "sha1" and others like it
  Chunks,          \* what addData() adds
  MaxChunks,       \* bound: the chunks of a file and of a parsed digest
  MaxBlocks,       \* bound: the allocations that succeed
  EmptyOperands,   \* whether the program assigns from an empty Digest and compares with one
  FreshHasher      \* whether it adds data to a Hasher before the first reset()

DigestConstants ==
  /\ "sha1" \in Plugins /\ "crc" \notin Plugins /\ {MaxChunks, MaxBlocks} \subseteq Nat
  /\ {EmptyOperands, FreshHasher} \subseteq BOOLEAN

VARIABLES
  m_digest,  \* of each Digest: Dead, Null or what the Model holds
  heap,      \* the blocks of the plugins: guid and digest of each
  context,   \* the data that the Hasher has taken
  hasher,    \* "fresh", "valid" or "finalized"
  answer     \* of the last operation

vars == <<m_digest, heap, context, hasher, answer>>
digests == <<m_digest, heap>>
sha1 == <<context, hasher>>

Dead == [type |-> "dead"]
Null == [type |-> "null"]
Codes == {"PluginError", "ParserError", "bad_alloc"}
Error(c) == [type |-> "error", code |-> c]

HoldsBlock(x) == x.type = "plugin"
Plugin(h) == [type |-> "plugin", user_data |-> h]
Crc(s) == [type |-> "crc", data |-> s]
Contents == BoundedSeq(Chunks, MaxChunks)

\* The value of a Digest in DigestValue
Abstract(x) ==
  CASE x = Dead -> x
    [] x = Null -> [type |-> "empty"]
    [] HoldsBlock(x) -> [type |-> heap[x.user_data].guid, content |-> heap[x.user_data].digest]
    [] OTHER -> [type |-> "crc", content |-> x.data]

Value == INSTANCE DigestValue WITH
  Types <- Plugins \cup {"crc"}, HashType <- "sha1",
  value <- [v \in Variables |-> Abstract(m_digest[v])],
  stream <- context, finalized <- hasher = "finalized"

Init ==
  /\ m_digest = [v \in Variables |-> Null] /\ heap = <<>>
  /\ context = <<>> /\ hasher = "fresh" /\ answer = Value!Done("reset")

-----------------------------------------------------------------------------
(* Memory                                                                  *)

\* A block for d, a copy of another's or a new one
malloc(d) == Len(heap) < MaxBlocks /\ heap' = Append(heap, d)
NewBlock == Len(heap) + 1

Fails(c) == answer' = Error(c) /\ UNCHANGED <<digests, sha1>>

Alive(v) == m_digest[v] # Dead
\* v gets x; what it held before is gone, but for a block
Set(v, x) == m_digest' = [m_digest EXCEPT ![v] = x] /\ answer' = Value!Done("digest")

\* Mutant: the copy has the block of the original.
cloneShares(v, w) == Set(v, m_digest[w]) /\ UNCHANGED heap

\* Concept::clone(): the copy of a plugin's digest has a block of its own.
clone(v, w) ==
  IF HoldsBlock(m_digest[w])
  THEN malloc(heap[m_digest[w].user_data]) /\ Set(v, Plugin(NewBlock))
  ELSE Set(v, m_digest[w]) /\ UNCHANGED heap

-----------------------------------------------------------------------------
(* Hasher of the sha1 plugin                                               *)

\* Mutant: the data of a file that was broken off stay.
ResetLazy ==
  /\ hasher' = "valid" /\ context' = IF hasher = "valid" THEN context ELSE <<>>
  /\ answer' = Value!Done("reset") /\ UNCHANGED digests

Reset ==
  /\ context' = <<>> /\ hasher' = "valid"
  /\ answer' = Value!Done("reset") /\ UNCHANGED digests

\* The assertion comes first: what would happen without it is not modelled.
Asserts == answer' = [type |-> "assert"] /\ UNCHANGED <<digests, sha1>>

AddData(c) ==
  /\ hasher = "valid" \/ (FreshHasher /\ hasher = "fresh")
  /\ IF hasher # "valid"
     THEN Asserts
     ELSE /\ Len(context) < MaxChunks /\ context' = Append(context, c)
          /\ answer' = Value!Done("addData") /\ UNCHANGED <<digests, hasher>>

\* v = hasher.finalize(): nothing has changed when there is no memory.
Finalize(v) ==
  /\ Alive(v) /\ hasher = "valid"
  /\ \/ /\ malloc([guid |-> "sha1", digest |-> context]) /\ Set(v, Plugin(NewBlock))
        /\ hasher' = "finalized" /\ UNCHANGED context
     \/ Fails("PluginError")

-----------------------------------------------------------------------------
(* Digest                                                                  *)

\* v = provider.digestFromString(), of a plugin or not
Parse(v) ==
  /\ Alive(v)
  /\ \/ /\ \E s \in Contents :
             \/ Set(v, Crc(s)) /\ UNCHANGED heap
             \/ \E g \in Plugins :
                  malloc([guid |-> g, digest |-> s]) /\ Set(v, Plugin(NewBlock))
        /\ UNCHANGED sha1
     \/ \E c \in {"ParserError", "PluginError"} : Fails(c)

\* Digest(Digest const&): an empty one has no clone().
Construct(v, w) ==
  /\ ~Alive(v) /\ Alive(w)
  /\ \/ /\ clone(v, w) /\ UNCHANGED sha1
     \/ m_digest[w] # Null /\ \E c \in {"PluginError", "bad_alloc"} : Fails(c)

Crashes == answer' = [type |-> "crash"] /\ UNCHANGED <<digests, sha1>>

\* operator=(Digest const&): clone() is called on an empty one, too.
Assign(v, w) ==
  /\ Alive(v) /\ Alive(w) /\ (EmptyOperands \/ m_digest[w] # Null)
  /\ \/ v = w /\ answer' = Value!Done("digest") /\ UNCHANGED <<digests, sha1>>
     \/ v # w /\ m_digest[w] = Null /\ Crashes
     \/ v # w /\ m_digest[w] # Null /\ clone(v, w) /\ UNCHANGED sha1
     \/ v # w /\ m_digest[w] # Null /\ \E c \in {"PluginError", "bad_alloc"} : Fails(c)

\* operator=(Digest&&): the pointer moves.
Move(v, w) ==
  /\ Alive(v) /\ Alive(w)
  /\ m_digest' = [[m_digest EXCEPT ![w] = Null] EXCEPT ![v] = m_digest[w]]
  /\ answer' = Value!Done("digest") /\ UNCHANGED <<heap, sha1>>

Destroy(v) == Alive(v) /\ Set(v, Dead) /\ UNCHANGED <<heap, sha1>>

\* Model::equalTo(), and compare() of the plugin of x
equalTo(x, y) ==
  CASE x.type # y.type -> FALSE
    [] HoldsBlock(x) /\ HoldsBlock(y) ->
         /\ heap[y.user_data].guid = heap[x.user_data].guid
         /\ heap[y.user_data].digest = heap[x.user_data].digest
    [] OTHER -> x.data = y.data

Compare(v, w) ==
  LET x == m_digest[v]
      y == m_digest[w]
  IN
  /\ Alive(v) /\ Alive(w) /\ (EmptyOperands \/ x = Null \/ y # Null)
  /\ answer' = CASE x = Null -> [type |-> "equal", equal |-> y = Null]
                 [] x # Null /\ y = Null -> [type |-> "crash"]
                 [] OTHER -> [type |-> "equal", equal |-> equalTo(x, y)]
  /\ UNCHANGED <<digests, sha1>>

Next ==
  /\ answer.type \notin {"crash", "assert"}
  /\ \/ Reset \/ (\E c \in Chunks : AddData(c))
     \/ \E v \in Variables :
          \/ Finalize(v) \/ Parse(v) \/ Destroy(v)
          \/ \E w \in Variables :
               Construct(v, w) \/ Assign(v, w) \/ Move(v, w) \/ Compare(v, w)

Spec == Init /\ [][Next]_vars

-----------------------------------------------------------------------------
(* Properties                                                              *)

\* A block is that of at most one Digest, after any copies, moves and failures
\* of either: the plugin may free it with the Digest.
BlocksAreOwned ==
  \A v \in Variables : HoldsBlock(m_digest[v]) =>
    /\ m_digest[v].user_data \in DOMAIN heap
    /\ \A w \in Variables \ {v} : m_digest[w] # m_digest[v] \/ ~HoldsBlock(m_digest[w])

\* The pointers behave as values and the Hasher gives the digest of the data
\* since its last reset(), whatever was broken off before, as long as no empty
\* Digest is assigned from or compared with.
ImplementsDigestValue == Value!Spec

\* digest.hpp: a Digest can be copied and assigned like an int, and an empty one
\* is only equal to other empty ones.  The code breaks this for empty ones.
EmptyIsValue == answer.type # "crash"

\* hasher.hpp: addData() needs a Hasher that is not finalized, and reset() goes
\* back to its initial state.  That of the sha1 plugin is not usable in it.
InitialIsReset == answer.type # "assert"
=============================================================================
