------------------------ MODULE PluginDigestsProofs -------------------------
(***************************************************************************)
(* For any number of Digests, plugins, chunks and blocks: a block of a     *)
(* plugin is that of one Digest, and the pointers behave as the values of  *)
(* DigestValue.  The second is only so for a program that neither assigns  *)
(* from nor compares with an empty Digest and resets a Hasher before it    *)
(* adds to it: the code breaks the promise otherwise, see EmptyIsValue and *)
(* InitialIsReset.                                                         *)
(***************************************************************************)
EXTENDS PluginDigests, TLAPS

\* What a program has to keep to.
CarefulProgram == EmptyOperands = FALSE /\ FreshHasher = FALSE

-----------------------------------------------------------------------------
(* The blocks: each digest of a plugin has one, and none has another's.    *)

Blocks == [guid : Plugins, digest : Seq(Chunks)]
Held(n) == {Plugin(h) : h \in 1 .. n}
Crcs == {Crc(s) : s \in Contents}
Pointers(n) == {Dead, Null} \cup Crcs \cup Held(n)

TypeInv ==
  /\ heap \in Seq(Blocks) /\ context \in Seq(Chunks)
  /\ m_digest \in [Variables -> Pointers(Len(heap))]
  /\ hasher \in {"fresh", "valid", "finalized"}

Apart ==
  \A v, w \in Variables :
    v # w /\ HoldsBlock(m_digest[v]) /\ HoldsBlock(m_digest[w])
      => m_digest[v].user_data # m_digest[w].user_data

BlocksInv == TypeInv /\ Apart

\* The kind of a pointer tells what it is.
LEMMA PointerKinds ==
  ASSUME NEW n \in Nat, NEW x \in Pointers(n)
  PROVE  /\ x.type = "dead" <=> x = Dead
         /\ x.type = "null" <=> x = Null
         /\ x.type = "crc" => x \in Crcs
         /\ x.type = "plugin" => x.user_data \in 1 .. n /\ x = Plugin(x.user_data)
         /\ x.type \in {"dead", "null", "crc", "plugin"}
<1>1. CASE x = Dead
  BY <1>1 DEF Dead, Null, Crcs, Crc
<1>2. CASE x = Null
  BY <1>2 DEF Dead, Null, Crcs, Crc
<1>3. CASE x \in Crcs
  BY <1>3 DEF Dead, Null, Crcs, Crc
<1>4. CASE x \in Held(n)
  <2>1. PICK h \in 1 .. n : x = Plugin(h)
    BY <1>4 DEF Held
  <2> QED BY <2>1 DEF Plugin, Dead, Null
<1> QED BY <1>1, <1>2, <1>3, <1>4 DEF Pointers


\* malloc() adds a block behind the others.
Grows == \A h \in 1 .. Len(heap) : heap'[h] = heap[h]

LEMMA Allocated ==
  ASSUME TypeInv, NEW d \in Blocks, malloc(d)
  PROVE  /\ heap' \in Seq(Blocks) /\ Len(heap') = Len(heap) + 1
         /\ heap'[NewBlock] = d /\ Grows
  BY DEF TypeInv, malloc, NewBlock, Grows

LEMMA ParsedIsData == Contents \subseteq Seq(Chunks)
<1> SUFFICES ASSUME NEW s \in Contents PROVE s \in Seq(Chunks)
  OBVIOUS
<1>1. PICK n \in 0 .. MaxChunks : s \in [1 .. n -> Chunks]
  BY DEF Contents, BoundedSeq, SeqOf
<1> QED BY <1>1

\* What a Digest may get: nothing, a digest without a block, or a new block.
Gets(x) ==
  \/ x \in {Dead, Null} \cup Crcs /\ UNCHANGED heap
  \/ \E d \in Blocks : malloc(d) /\ x = Plugin(NewBlock)

LEMMA HeapGrows ==
  ASSUME TypeInv, NEW x, Gets(x)
  PROVE  /\ heap' \in Seq(Blocks) /\ Len(heap) \in Nat
         /\ Len(heap') \in {Len(heap), Len(heap) + 1} /\ Grows
         /\ x \in Pointers(Len(heap'))
         /\ HoldsBlock(x) => x.user_data = Len(heap) + 1
<1>1. Len(heap) \in Nat
  BY DEF TypeInv
<1>2. CASE x \in {Dead, Null} \cup Crcs /\ UNCHANGED heap
  <2>1. x \in Pointers(Len(heap')) /\ ~HoldsBlock(x)
    BY <1>2 DEF Pointers, HoldsBlock, Dead, Null, Crcs, Crc
  <2>2. heap' \in Seq(Blocks) /\ Len(heap') = Len(heap) /\ Grows
    BY <1>2 DEF TypeInv, Grows
  <2> QED BY <1>1, <2>1, <2>2
<1>3. CASE \E d \in Blocks : malloc(d) /\ x = Plugin(NewBlock)
  <2>1. PICK d \in Blocks : malloc(d) /\ x = Plugin(NewBlock)
    BY <1>3
  <2>2. heap' \in Seq(Blocks) /\ Len(heap') = Len(heap) + 1 /\ Grows
    BY <2>1, Allocated
  <2>3. x.user_data = Len(heap) + 1
    BY <2>1 DEF Plugin, NewBlock
  <2>4. x \in Held(Len(heap'))
    BY <1>1, <2>1, <2>2 DEF Held, NewBlock
  <2> QED BY <1>1, <2>2, <2>3, <2>4 DEF Pointers
<1> QED BY <1>2, <1>3 DEF Gets

\* Pointers to blocks that were there are to blocks that are.
LEMMA PointersStay ==
  ASSUME NEW m \in Nat, NEW n \in Nat, m <= n
  PROVE  Pointers(m) \subseteq Pointers(n)
  BY DEF Pointers, Held

LEMMA GetsKeepsApart ==
  ASSUME BlocksInv, NEW v \in Variables, NEW x, Gets(x), m_digest' = [m_digest EXCEPT ![v] = x],
         context' \in Seq(Chunks), hasher' \in {"fresh", "valid", "finalized"}
  PROVE  BlocksInv'
<1> USE DEF BlocksInv
<1>1. /\ heap' \in Seq(Blocks) /\ Len(heap) \in Nat /\ Len(heap') \in Nat
      /\ Len(heap) <= Len(heap') /\ x \in Pointers(Len(heap'))
      /\ HoldsBlock(x) => x.user_data = Len(heap) + 1
  BY HeapGrows
<1>2. Pointers(Len(heap)) \subseteq Pointers(Len(heap'))
  BY <1>1, PointersStay
<1>3. TypeInv'
  BY <1>1, <1>2 DEF TypeInv
<1>4. \A w \in Variables : HoldsBlock(m_digest[w]) => m_digest[w].user_data \in 1 .. Len(heap)
  BY <1>1, PointerKinds DEF TypeInv, HoldsBlock
<1>5. Apart'
  <2> SUFFICES ASSUME NEW w \in Variables, NEW u \in Variables, w # u,
                      HoldsBlock(m_digest'[w]), HoldsBlock(m_digest'[u])
               PROVE  m_digest'[w].user_data # m_digest'[u].user_data
    BY DEF Apart, HoldsBlock
  <2>1. m_digest'[v] = x /\ \A z \in Variables \ {v} : m_digest'[z] = m_digest[z]
    BY DEF TypeInv
  <2>2. CASE w # v /\ u # v
    BY <2>1, <2>2 DEF Apart
  <2>3. CASE w = v
    <3>1. m_digest'[w].user_data = Len(heap) + 1
      BY <1>1, <2>1, <2>3
    <3>2. m_digest'[u].user_data \in 1 .. Len(heap)
      BY <1>4, <2>1, <2>3
    <3> QED BY <1>1, <3>1, <3>2
  <2>4. CASE u = v
    <3>1. m_digest'[u].user_data = Len(heap) + 1
      BY <1>1, <2>1, <2>4
    <3>2. m_digest'[w].user_data \in 1 .. Len(heap)
      BY <1>4, <2>1, <2>4
    <3> QED BY <1>1, <3>1, <3>2
  <2> QED BY <2>2, <2>3, <2>4
<1> QED BY <1>3, <1>5

\* The copy of a digest.
LEMMA CloneGets ==
  ASSUME TypeInv, NEW v \in Variables, NEW w \in Variables, clone(v, w)
  PROVE  \E x : Gets(x) /\ Set(v, x)
<1>1. CASE HoldsBlock(m_digest[w])
  <2>1. m_digest[w].user_data \in 1 .. Len(heap)
    BY <1>1, PointerKinds DEF TypeInv, HoldsBlock
  <2>2. heap[m_digest[w].user_data] \in Blocks
    BY <2>1 DEF TypeInv
  <2> QED BY <1>1, <2>2 DEF clone, Gets
<1>2. CASE ~HoldsBlock(m_digest[w])
  <2>1. m_digest[w] \in {Dead, Null} \cup Crcs
    <3>1. m_digest[w] \in Pointers(Len(heap))
      BY DEF TypeInv
    <3> QED BY <1>2, <3>1 DEF Pointers, Held, Plugin, HoldsBlock
  <2> QED BY <1>2, <2>1 DEF clone, Gets
<1> QED BY <1>1, <1>2


-----------------------------------------------------------------------------
(* Every step keeps the blocks apart.                                      *)

LEMMA MoveKeepsApart ==
  ASSUME BlocksInv, NEW v \in Variables, NEW w \in Variables, Move(v, w)
  PROVE  BlocksInv'
<1> USE DEF BlocksInv
<1>1. /\ m_digest' \in [Variables -> Pointers(Len(heap))]
      /\ m_digest'[v] = m_digest[w]
      /\ \A z \in Variables \ {v} : m_digest'[z] \in {m_digest[z], Null}
      /\ w # v => m_digest'[w] = Null
      /\ UNCHANGED <<heap, context, hasher>>
  BY DEF TypeInv, Move, Pointers, sha1
<1>2. TypeInv'
  BY <1>1 DEF TypeInv
<1>3. Apart'
  <2> SUFFICES ASSUME NEW z \in Variables, NEW u \in Variables, z # u,
                      HoldsBlock(m_digest'[z]), HoldsBlock(m_digest'[u])
               PROVE  m_digest'[z].user_data # m_digest'[u].user_data
    BY DEF Apart, HoldsBlock
  <2>1. ~HoldsBlock(Null)
    BY DEF HoldsBlock, Null
  <2>2. CASE z # v /\ u # v
    BY <1>1, <2>1, <2>2 DEF Apart
  <2>3. CASE z = v
    <3>1. u # w /\ m_digest'[u] = m_digest[u]
      BY <1>1, <2>1, <2>3
    <3> QED BY <1>1, <2>3, <3>1 DEF Apart
  <2>4. CASE u = v
    <3>1. z # w /\ m_digest'[z] = m_digest[z]
      BY <1>1, <2>1, <2>4
    <3> QED BY <1>1, <2>4, <3>1 DEF Apart
  <2> QED BY <2>2, <2>3, <2>4
<1> QED BY <1>2, <1>3

\* A step that leaves the digests alone.
LEMMA UntouchedStayApart ==
  ASSUME BlocksInv, UNCHANGED digests, context' \in Seq(Chunks),
         hasher' \in {"fresh", "valid", "finalized"}
  PROVE  BlocksInv'
  BY DEF BlocksInv, TypeInv, Apart, digests, HoldsBlock

LEMMA SetKeepsApart ==
  ASSUME BlocksInv, NEW v \in Variables, \E x : Gets(x) /\ Set(v, x), context' \in Seq(Chunks),
         hasher' \in {"fresh", "valid", "finalized"}
  PROVE  BlocksInv'
  BY GetsKeepsApart DEF Set

\* What the operations that set a Digest set it to.
LEMMA FinalizeGets ==
  ASSUME TypeInv, DigestConstants, NEW v \in Variables, Finalize(v)
  PROVE  \/ Fails("PluginError")
         \/ /\ hasher = "valid" /\ hasher' = "finalized" /\ UNCHANGED context
            /\ malloc([guid |-> "sha1", digest |-> context]) /\ Set(v, Plugin(NewBlock))
            /\ Gets(Plugin(NewBlock))
  BY DEF Finalize, Gets, Blocks, TypeInv, DigestConstants

LEMMA ParseGets ==
  ASSUME NEW v \in Variables, Parse(v)
  PROVE  \/ \E c \in {"ParserError", "PluginError"} : Fails(c)
         \/ UNCHANGED sha1 /\ \E x : Gets(x) /\ Set(v, x)
<1>1. CASE \E c \in {"ParserError", "PluginError"} : Fails(c)
  BY <1>1
<1>2. CASE UNCHANGED sha1 /\ \E s \in Contents : Set(v, Crc(s)) /\ UNCHANGED heap
  BY <1>2 DEF Gets, Crcs
<1>3. CASE UNCHANGED sha1 /\ \E s \in Contents, g \in Plugins :
             malloc([guid |-> g, digest |-> s]) /\ Set(v, Plugin(NewBlock))
  BY <1>3, ParsedIsData DEF Gets, Blocks
<1> QED BY <1>1, <1>2, <1>3 DEF Parse

LEMMA NextKeepsApart ==
  ASSUME BlocksInv, DigestConstants, [Next]_vars
  PROVE  BlocksInv'
<1> USE DEF BlocksInv
<1>0. context \in Seq(Chunks) /\ hasher \in {"fresh", "valid", "finalized"}
  BY DEF TypeInv
<1>1. CASE UNCHANGED vars
  BY <1>0, <1>1, UntouchedStayApart DEF vars, digests
<1>2. CASE Reset
  BY <1>2, UntouchedStayApart DEF Reset
<1>3. ASSUME NEW c \in Chunks, AddData(c) PROVE BlocksInv'
  <2>1. Append(context, c) \in Seq(Chunks)
    BY <1>0
  <2> QED BY <1>0, <1>3, <2>1, UntouchedStayApart DEF AddData, Asserts, sha1
<1>4. ASSUME NEW c, Fails(c) PROVE BlocksInv'
  BY <1>0, <1>4, UntouchedStayApart DEF Fails, sha1
<1>5. CASE Crashes
  BY <1>0, <1>5, UntouchedStayApart DEF Crashes, sha1
<1>6. ASSUME NEW v \in Variables, NEW w \in Variables, UNCHANGED sha1, clone(v, w)
      PROVE  BlocksInv'
  BY <1>0, <1>6, CloneGets, SetKeepsApart DEF sha1
<1>7. ASSUME NEW v \in Variables PROVE Finalize(v) => BlocksInv'
  BY <1>0, <1>4, FinalizeGets, SetKeepsApart
<1>8. ASSUME NEW v \in Variables PROVE Parse(v) => BlocksInv'
  BY <1>0, <1>4, ParseGets, SetKeepsApart DEF sha1
<1>9. ASSUME NEW v \in Variables PROVE Destroy(v) => BlocksInv'
  BY <1>0, SetKeepsApart DEF Destroy, Gets, sha1
<1>10. ASSUME NEW v \in Variables, NEW w \in Variables
       PROVE  Construct(v, w) \/ Assign(v, w) \/ Move(v, w) \/ Compare(v, w) => BlocksInv'
  <2>1. Construct(v, w) => BlocksInv'
    BY <1>4, <1>6 DEF Construct
  <2>2. Assign(v, w) => BlocksInv'
    BY <1>0, <1>4, <1>5, <1>6, UntouchedStayApart DEF Assign, sha1
  <2>3. Compare(v, w) => BlocksInv'
    BY <1>0, UntouchedStayApart DEF Compare, sha1
  <2> QED BY <2>1, <2>2, <2>3, MoveKeepsApart
<1> QED BY <1>1, <1>2, <1>3, <1>7, <1>8, <1>9, <1>10 DEF Next

LEMMA InitApart == Init => BlocksInv
<1> SUFFICES ASSUME Init PROVE BlocksInv
  OBVIOUS
<1>1. TypeInv
  BY DEF Init, TypeInv, Pointers
<1>2. Apart
  BY DEF Init, Apart, HoldsBlock, Null
<1> QED BY <1>1, <1>2 DEF BlocksInv

LEMMA BlocksInvariant == ASSUME DigestConstants PROVE Spec => []BlocksInv
<1>1. BlocksInv /\ [Next]_vars => BlocksInv'
  BY NextKeepsApart
<1> QED BY InitApart, <1>1, PTL DEF Spec

\* A block of a plugin is that of one Digest, whatever the program does with
\* its Digests: copies have blocks of their own, and one that is moved from
\* lets go of its block.
THEOREM BlocksHaveOneOwner == ASSUME DigestConstants PROVE Spec => []BlocksAreOwned
<1>1. BlocksInv => BlocksAreOwned
  <2> SUFFICES ASSUME BlocksInv, NEW v \in Variables, HoldsBlock(m_digest[v])
               PROVE  /\ m_digest[v].user_data \in DOMAIN heap
                      /\ \A w \in Variables \ {v} :
                           m_digest[w] # m_digest[v] \/ ~HoldsBlock(m_digest[w])
    BY DEF BlocksAreOwned
  <2>1. m_digest[v].user_data \in DOMAIN heap
    BY PointerKinds DEF BlocksInv, TypeInv, HoldsBlock
  <2>2. ASSUME NEW w \in Variables \ {v}
        PROVE  m_digest[w] # m_digest[v] \/ ~HoldsBlock(m_digest[w])
    BY DEF BlocksInv, Apart
  <2> QED BY <2>1, <2>2
<1> QED BY BlocksInvariant, <1>1, PTL


-----------------------------------------------------------------------------
(* The pointers as values.                                                 *)

Image == [v \in Variables |-> Abstract(m_digest[v])]

LEMMA NoBlock == Null # Dead /\ ~HoldsBlock(Null) /\ ~HoldsBlock(Dead)
  BY DEF Null, Dead, HoldsBlock

\* A pointer's value tells what it is of; what blocks hold, and what is parsed,
\* are data.
LEMMA AbstractOf ==
  ASSUME TypeInv, DigestConstants, NEW x \in Pointers(Len(heap))
  PROVE  /\ x = Dead => Abstract(x) = Value!Dead
         /\ x = Null => Abstract(x) = Value!Empty
         /\ x.type = "crc" => Abstract(x) = Value!Of("crc", x.data)
         /\ HoldsBlock(x) => /\ x.user_data \in 1 .. Len(heap)
                             /\ heap[x.user_data].guid \in Plugins
                             /\ Abstract(x) = Value!Of(heap[x.user_data].guid,
                                                       heap[x.user_data].digest)
<1>1. Len(heap) \in Nat
  BY DEF TypeInv
<1>2. x = Null => x # Dead
  BY DEF Null, Dead
<1>3. x.type = "crc" => x # Dead /\ x # Null /\ ~HoldsBlock(x)
  BY DEF Null, Dead, HoldsBlock
<1>4. HoldsBlock(x) => x # Dead /\ x # Null /\ x.user_data \in 1 .. Len(heap)
  BY <1>1, PointerKinds DEF Null, Dead, HoldsBlock
<1>5. HoldsBlock(x) => heap[x.user_data].guid \in Plugins
  <2>1. ASSUME NEW h \in 1 .. Len(heap) PROVE heap[h].guid \in Plugins
    <3>1. heap[h] \in Blocks
      BY DEF TypeInv
    <3> QED BY <3>1 DEF Blocks
  <2> QED BY <1>4, <2>1
<1>6. x = Null => ~HoldsBlock(x)
  BY DEF Null, HoldsBlock
<1> QED BY <1>2, <1>3, <1>4, <1>5, <1>6 DEF Abstract, Value!Dead, Value!Empty, Value!Of, Dead

\* Values of different kinds differ: an empty one and one that is dead have no
\* content.
LEMMA ValuesDiffer ==
  ASSUME NEW t, NEW s
  PROVE  /\ Value!Of(t, s) # Value!Dead /\ Value!Of(t, s) # Value!Empty
         /\ Value!Empty # Value!Dead
<1>1. DOMAIN Value!Of(t, s) = {"type", "content"}
  BY DEF Value!Of
<1>2. DOMAIN Value!Dead = {"type"} /\ DOMAIN Value!Empty = {"type"}
  BY DEF Value!Dead, Value!Empty
<1>3. "content" # "type"
  OBVIOUS
<1>4. Value!Empty # Value!Dead
  BY DEF Value!Dead, Value!Empty
<1> QED BY <1>1, <1>2, <1>3, <1>4

LEMMA ValuesAreEqual ==
  ASSUME NEW t, NEW s, NEW u, NEW r
  PROVE  Value!Of(t, s) = Value!Of(u, r) <=> t = u /\ s = r
<1>1. Value!Of(t, s).type = t /\ Value!Of(t, s).content = s
  BY DEF Value!Of
<1>2. Value!Of(u, r).type = u /\ Value!Of(u, r).content = r
  BY DEF Value!Of
<1> QED BY <1>1, <1>2

\* A digest that is alive has a value that is.
LEMMA AliveValue ==
  ASSUME TypeInv, DigestConstants, NEW v \in Variables
  PROVE  Alive(v) <=> Image[v] # Value!Dead
<1>1. m_digest[v] \in Pointers(Len(heap)) /\ Len(heap) \in Nat
  BY DEF TypeInv
<1>2. \/ m_digest[v] = Dead \/ m_digest[v] = Null
      \/ m_digest[v].type = "crc" \/ HoldsBlock(m_digest[v])
  BY <1>1, PointerKinds DEF HoldsBlock
<1>3. m_digest[v] # Dead => Abstract(m_digest[v]) # Value!Dead
  BY <1>1, <1>2, AbstractOf, ValuesDiffer
<1>4. m_digest[v] = Dead => Abstract(m_digest[v]) = Value!Dead
  BY <1>1, AbstractOf
<1> QED BY <1>3, <1>4 DEF Image, Alive

\* Blocks that are added leave the values of pointers as they are.
LEMMA AbstractStays ==
  ASSUME TypeInv, Grows, NEW x \in Pointers(Len(heap))
  PROVE  Abstract(x)' = Abstract(x)
<1>1. Len(heap) \in Nat
  BY DEF TypeInv
<1>2. HoldsBlock(x) => x.user_data \in 1 .. Len(heap)
  BY <1>1, PointerKinds DEF HoldsBlock
<1>3. HoldsBlock(x) => heap'[x.user_data] = heap[x.user_data]
  BY <1>2 DEF Grows
<1> QED BY <1>3 DEF Abstract

\* An assignment to a Digest is one to its value.
LEMMA ImageOfSet ==
  ASSUME TypeInv, NEW v \in Variables, NEW x, Gets(x), m_digest' = [m_digest EXCEPT ![v] = x]
  PROVE  Image' = [Image EXCEPT ![v] = Abstract(x)']
<1>1. Grows
  BY HeapGrows
<1>2. ASSUME NEW w \in Variables \ {v} PROVE Abstract(m_digest[w])' = Abstract(m_digest[w])
  <2>1. m_digest'[w] = m_digest[w] /\ m_digest[w] \in Pointers(Len(heap))
    BY DEF TypeInv
  <2>2. PICK y \in Pointers(Len(heap)) : y = m_digest[w]
    BY <2>1
  <2>3. Abstract(y)' = Abstract(y)
    BY <1>1, AbstractStays
  <2>4. y = m_digest'[w]
    BY <2>1, <2>2
  <2>5. Abstract(m_digest[w])' = Abstract(y)'
    BY <2>4 DEF Abstract
  <2> QED BY <2>2, <2>3, <2>5
<1>3. m_digest'[v] = x
  BY DEF TypeInv
<1>4. Abstract(m_digest[v])' = Abstract(x)'
  BY <1>3 DEF Abstract
<1> QED BY <1>2, <1>4 DEF Image

\* A Digest gets a new block, with a value of its own.
LEMMA NewValue ==
  ASSUME TypeInv, NEW d \in Blocks, malloc(d), NEW h, h = NewBlock
  PROVE  Abstract(Plugin(h))' = Value!Of(d.guid, d.digest)
<1>1. heap'[h] = d
  BY Allocated
<1>2. Plugin(h).type = "plugin" /\ Plugin(h).user_data = h
  BY DEF Plugin
<1>3. HoldsBlock(Plugin(h)) /\ Plugin(h) # Dead /\ Plugin(h) # Null
  BY <1>2 DEF HoldsBlock, Dead, Null
<1>4. Abstract(Plugin(h))' = [type |-> heap'[h].guid, content |-> heap'[h].digest]
  BY <1>2, <1>3 DEF Abstract
<1> QED BY <1>1, <1>4 DEF Value!Of


-----------------------------------------------------------------------------
(* Every step is one of DigestValue.                                       *)

LEMMA SetIsBecomes ==
  ASSUME TypeInv, NEW v \in Variables, NEW x, Gets(x), Set(v, x), NEW y, y = Abstract(x)'
  PROVE  Value!Becomes(v, y)
<1>1. Image' = [Image EXCEPT ![v] = y]
  BY ImageOfSet DEF Set
<1> QED BY <1>1 DEF Set, Value!Becomes, Image

LEMMA CloneIsCopy ==
  ASSUME TypeInv, DigestConstants, NEW v \in Variables, NEW w \in Variables,
         Alive(w), clone(v, w), UNCHANGED sha1
  PROVE  Value!Copy(v, w)
<1>1. Value!Becomes(v, Image[w])
  <2>0. m_digest[w] \in Pointers(Len(heap)) /\ Image[w] = Abstract(m_digest[w])
    BY DEF TypeInv, Image
  <2>1. CASE HoldsBlock(m_digest[w])
    <3>1. PICK d \in Blocks : d = heap[m_digest[w].user_data]
      <4>1. m_digest[w].user_data \in 1 .. Len(heap)
        BY <2>0, <2>1, AbstractOf
      <4> QED BY <4>1 DEF TypeInv
    <3>2. PICK h : h = NewBlock
      OBVIOUS
    <3>3. malloc(d) /\ Set(v, Plugin(h)) /\ Gets(Plugin(h))
      BY <2>1, <3>1, <3>2 DEF clone, Gets
    <3>4. Abstract(Plugin(h))' = Value!Of(d.guid, d.digest)
      BY <3>2, <3>3, NewValue
    <3>5. Image[w] = Value!Of(d.guid, d.digest)
      BY <2>0, <2>1, <3>1, AbstractOf
    <3> QED BY <3>3, <3>4, <3>5, SetIsBecomes
  <2>2. CASE ~HoldsBlock(m_digest[w])
    <3>1. PICK x \in Pointers(Len(heap)) : x = m_digest[w]
      BY <2>0
    <3>2. Set(v, x) /\ UNCHANGED heap
      BY <2>2, <3>1 DEF clone
    <3>3. Gets(x)
      BY <2>2, <3>1, <3>2 DEF Gets, Pointers, Held, Plugin, HoldsBlock
    <3>4. Abstract(x)' = Abstract(x)
      BY <3>2 DEF Abstract
    <3> QED BY <2>0, <3>1, <3>2, <3>3, <3>4, SetIsBecomes
  <2> QED BY <2>1, <2>2
<1>2. Image[w] # Value!Dead
  BY AliveValue
<1> QED BY <1>1, <1>2 DEF Value!Copy, Value!Alive, Value!hasher, sha1, Image

LEMMA FailIsFail ==
  ASSUME NEW c \in Codes, Fails(c) PROVE Value!Fail
<1>1. UNCHANGED Image
  BY DEF Fails, Image, Abstract, digests
<1> QED BY <1>1 DEF Fails, Error, Value!Fail, Value!hasher, Image, sha1

LEMMA FinalizeStep ==
  ASSUME TypeInv, DigestConstants, NEW v \in Variables, Finalize(v)
  PROVE  Value!Finalize(v) \/ Value!Fail
<1>1. CASE Fails("PluginError")
  BY <1>1, FailIsFail DEF Codes
<1>2. CASE /\ hasher = "valid" /\ hasher' = "finalized" /\ UNCHANGED context
           /\ malloc([guid |-> "sha1", digest |-> context]) /\ Set(v, Plugin(NewBlock))
           /\ Gets(Plugin(NewBlock))
  <2>1. PICK d \in Blocks : d = [guid |-> "sha1", digest |-> context]
    BY DEF Blocks, TypeInv, DigestConstants
  <2>2. PICK h : h = NewBlock
    OBVIOUS
  <2>3. malloc(d) /\ Set(v, Plugin(h)) /\ Gets(Plugin(h))
    BY <1>2, <2>1, <2>2
  <2>4. Abstract(Plugin(h))' = Value!Of("sha1", context)
    BY <2>1, <2>2, <2>3, NewValue
  <2>5. Value!Becomes(v, Value!Of("sha1", context))
    BY <2>3, <2>4, SetIsBecomes
  <2>6. Image[v] # Value!Dead
    BY AliveValue DEF Finalize
  <2> QED BY <1>2, <2>5, <2>6 DEF Value!Finalize, Value!Alive, Image
<1> QED BY <1>1, <1>2, FinalizeGets

LEMMA ParseStep ==
  ASSUME TypeInv, DigestConstants, NEW v \in Variables, Parse(v)
  PROVE  Value!Fail \/ \E t \in Plugins \cup {"crc"}, s \in Contents : Value!Parse(v, t, s)
<1>1. CASE \E c \in {"ParserError", "PluginError"} : Fails(c)
  BY <1>1, FailIsFail DEF Codes
<1>2. Image[v] # Value!Dead
  BY AliveValue DEF Parse
<1>3. ASSUME UNCHANGED sha1, NEW s \in Contents, Set(v, Crc(s)), UNCHANGED heap
      PROVE  Value!Parse(v, "crc", s)
  <2>1. Gets(Crc(s))
    BY <1>3 DEF Gets, Crcs
  <2>2. Crc(s).type = "crc" /\ Crc(s).data = s
    BY DEF Crc
  <2>3. Abstract(Crc(s))' = Value!Of("crc", s)
    BY <2>2 DEF Abstract, Dead, Null, HoldsBlock, Value!Of
  <2>4. Value!Becomes(v, Value!Of("crc", s))
    BY <1>3, <2>1, <2>3, SetIsBecomes
  <2> QED BY <1>2, <1>3, <2>4 DEF Value!Parse, Value!Alive, Value!hasher, sha1, Image
<1>4. ASSUME UNCHANGED sha1, NEW s \in Contents, NEW g \in Plugins,
             malloc([guid |-> g, digest |-> s]), Set(v, Plugin(NewBlock))
      PROVE  Value!Parse(v, g, s)
  <2>1. PICK d \in Blocks : d = [guid |-> g, digest |-> s]
    BY ParsedIsData DEF Blocks
  <2>2. PICK h : h = NewBlock
    OBVIOUS
  <2>3. malloc(d) /\ Set(v, Plugin(h)) /\ Gets(Plugin(h))
    BY <1>4, <2>1, <2>2 DEF Gets
  <2>4. Abstract(Plugin(h))' = Value!Of(g, s)
    BY <2>1, <2>2, <2>3, NewValue
  <2>5. Value!Becomes(v, Value!Of(g, s))
    BY <2>3, <2>4, SetIsBecomes
  <2> QED BY <1>2, <1>4, <2>5 DEF Value!Parse, Value!Alive, Value!hasher, sha1, Image
<1> QED BY <1>1, <1>3, <1>4 DEF Parse

LEMMA DestroyStep ==
  ASSUME TypeInv, DigestConstants, NEW v \in Variables, Destroy(v) PROVE Value!Destroy(v)
<1>0. Gets(Dead)
  BY DEF Destroy, Gets
<1>1. Abstract(Dead)' = Dead
  BY NoBlock DEF Abstract
<1>2. Value!Becomes(v, Value!Dead)
  BY <1>0, <1>1, SetIsBecomes DEF Destroy, Value!Dead, Dead
<1>3. Image[v] # Value!Dead
  BY AliveValue DEF Destroy
<1> QED BY <1>2, <1>3 DEF Destroy, Value!Destroy, Value!Alive, Value!hasher, sha1, Image

LEMMA MoveStep ==
  ASSUME TypeInv, DigestConstants, NEW v \in Variables, NEW w \in Variables, Move(v, w)
  PROVE  Value!Move(v, w)
<1>1. Image[v] # Value!Dead /\ Image[w] # Value!Dead
  BY AliveValue DEF Move
<1>2. Image' = [[Image EXCEPT ![w] = Value!Empty] EXCEPT ![v] = Image[w]]
  <2>1. Abstract(Null)' = Value!Empty
    BY NoBlock DEF Abstract, Value!Empty
  <2>2. ASSUME NEW z \in Variables, NEW u \in Variables, m_digest'[z] = m_digest[u]
        PROVE  Abstract(m_digest[z])' = Abstract(m_digest[u])
    BY <2>2 DEF Abstract, Move
  <2>3. ASSUME NEW z \in Variables, m_digest'[z] = Null
        PROVE  Abstract(m_digest[z])' = Value!Empty
    BY <2>1, <2>3 DEF Abstract
  <2>4. /\ m_digest'[v] = m_digest[w]
        /\ \A z \in Variables \ {v, w} : m_digest'[z] = m_digest[z]
        /\ w # v => m_digest'[w] = Null
    BY DEF TypeInv, Move
  <2> QED BY <2>2, <2>3, <2>4 DEF Image
<1> QED BY <1>1, <1>2 DEF Move, Value!Move, Value!Alive, Value!hasher, Value!Done, sha1, Image


\* Digests are equal exactly if their values are: those of different plugins,
\* or of a plugin and none, never are.
LEMMA EqualValues ==
  ASSUME TypeInv, DigestConstants, NEW v \in Variables, NEW w \in Variables,
         Alive(v), Alive(w), m_digest[v] # Null, m_digest[w] # Null
  PROVE  equalTo(m_digest[v], m_digest[w]) \in BOOLEAN
         /\ (equalTo(m_digest[v], m_digest[w]) <=> Image[v] = Image[w])
<1> DEFINE x == m_digest[v]
           y == m_digest[w]
<1>1. /\ x \in Pointers(Len(heap)) /\ y \in Pointers(Len(heap)) /\ Len(heap) \in Nat
      /\ Image[v] = Abstract(x) /\ Image[w] = Abstract(y)
  BY DEF TypeInv, Image
<1>2. x.type \in {"crc", "plugin"} /\ y.type \in {"crc", "plugin"}
  BY <1>1, PointerKinds DEF Alive
<1> HIDE DEF x, y
<1>3. CASE x.type = "crc" /\ y.type = "crc"
  <2>1. Abstract(x) = Value!Of("crc", x.data) /\ Abstract(y) = Value!Of("crc", y.data)
    BY <1>1, <1>3, AbstractOf
  <2>2. Abstract(x) = Abstract(y) <=> x.data = y.data
    BY <2>1, ValuesAreEqual
  <2>3. equalTo(x, y) = (x.data = y.data)
    BY <1>3 DEF equalTo, HoldsBlock
  <2> QED BY <1>1, <2>2, <2>3 DEF x, y
<1>4. CASE x.type = "plugin" /\ y.type = "plugin"
  <2>1. /\ Abstract(x) = Value!Of(heap[x.user_data].guid, heap[x.user_data].digest)
        /\ Abstract(y) = Value!Of(heap[y.user_data].guid, heap[y.user_data].digest)
    BY <1>1, <1>4, AbstractOf DEF HoldsBlock
  <2>2. Abstract(x) = Abstract(y) <=> /\ heap[y.user_data].guid = heap[x.user_data].guid
                                      /\ heap[y.user_data].digest = heap[x.user_data].digest
    BY <2>1, ValuesAreEqual
  <2>3. equalTo(x, y) = (/\ heap[y.user_data].guid = heap[x.user_data].guid
                         /\ heap[y.user_data].digest = heap[x.user_data].digest)
    BY <1>4 DEF equalTo, HoldsBlock
  <2> QED BY <1>1, <2>2, <2>3 DEF x, y
<1>5. CASE x.type # y.type
  <2>1. equalTo(x, y) = FALSE
    BY <1>5 DEF equalTo, HoldsBlock
  <2>2. "crc" \notin Plugins
    BY DEF DigestConstants
  <2>3. CASE x.type = "crc" /\ y.type = "plugin"
    <3>1. Abstract(x) = Value!Of("crc", x.data)
      BY <1>1, <2>3, AbstractOf
    <3>2. /\ heap[y.user_data].guid \in Plugins
          /\ Abstract(y) = Value!Of(heap[y.user_data].guid, heap[y.user_data].digest)
      BY <1>1, <2>3, AbstractOf DEF HoldsBlock
    <3>3. Abstract(x) # Abstract(y)
      BY <2>2, <3>1, <3>2, ValuesAreEqual
    <3> QED BY <1>1, <2>1, <3>3 DEF x, y
  <2>4. CASE y.type = "crc" /\ x.type = "plugin"
    <3>1. Abstract(y) = Value!Of("crc", y.data)
      BY <1>1, <2>4, AbstractOf
    <3>2. /\ heap[x.user_data].guid \in Plugins
          /\ Abstract(x) = Value!Of(heap[x.user_data].guid, heap[x.user_data].digest)
      BY <1>1, <2>4, AbstractOf DEF HoldsBlock
    <3>3. Abstract(x) # Abstract(y)
      BY <2>2, <3>1, <3>2, ValuesAreEqual
    <3> QED BY <1>1, <2>1, <3>3 DEF x, y
  <2> QED BY <1>2, <1>5, <2>3, <2>4
<1> QED BY <1>2, <1>3, <1>4, <1>5

LEMMA CompareStep ==
  ASSUME TypeInv, DigestConstants, CarefulProgram, NEW v \in Variables, NEW w \in Variables,
         Compare(v, w)
  PROVE  Value!Compare(v, w)
<1>1. /\ Alive(v) /\ Alive(w) /\ UNCHANGED <<digests, sha1>>
      /\ m_digest[v] = Null \/ m_digest[w] # Null
  BY DEF Compare, CarefulProgram
<1>2. Image[v] # Value!Dead /\ Image[w] # Value!Dead
  BY <1>1, AliveValue
<1>3. UNCHANGED Image
  BY <1>1 DEF Image, Abstract, digests
<1>4. /\ m_digest[v] \in Pointers(Len(heap)) /\ m_digest[w] \in Pointers(Len(heap))
      /\ Image[v] = Abstract(m_digest[v]) /\ Image[w] = Abstract(m_digest[w])
      /\ Len(heap) \in Nat
  BY DEF TypeInv, Image
<1>5. answer' = [type |-> "equal", equal |-> Image[v] = Image[w]]
  <2>1. CASE m_digest[v] = Null
    <3>1. answer' = [type |-> "equal", equal |-> m_digest[w] = Null]
      BY <2>1 DEF Compare
    <3>2. Image[v] = Value!Empty
      BY <1>4, <2>1, AbstractOf
    <3>3. m_digest[w] = Null => Image[w] = Value!Empty
      BY <1>4, AbstractOf
    <3>4. m_digest[w] # Null => Image[w] # Value!Empty
      <4>1. m_digest[w] # Null => m_digest[w].type = "crc" \/ HoldsBlock(m_digest[w])
        BY <1>1, <1>4, PointerKinds DEF Alive, HoldsBlock
      <4> QED BY <1>4, <4>1, AbstractOf, ValuesDiffer
    <3>5. (m_digest[w] = Null) = (Image[v] = Image[w])
      BY <3>2, <3>3, <3>4
    <3> QED BY <3>1, <3>5
  <2>2. CASE m_digest[v] # Null
    <3>1. answer' = [type |-> "equal", equal |-> equalTo(m_digest[v], m_digest[w])]
      BY <1>1, <2>2 DEF Compare
    <3>2. equalTo(m_digest[v], m_digest[w]) = (Image[v] = Image[w])
      BY <1>1, <2>2, EqualValues
    <3> QED BY <3>1, <3>2
  <2> QED BY <2>1, <2>2
<1> QED BY <1>1, <1>2, <1>3, <1>5 DEF Value!Compare, Value!Alive, Value!hasher, sha1, Image

LEMMA ConstructStep ==
  ASSUME TypeInv, DigestConstants, NEW v \in Variables, NEW w \in Variables, Construct(v, w)
  PROVE  Value!Copy(v, w) \/ Value!Fail
  BY CloneIsCopy, FailIsFail DEF Construct, Codes

LEMMA AssignStep ==
  ASSUME TypeInv, DigestConstants, CarefulProgram, NEW v \in Variables, NEW w \in Variables,
         Assign(v, w)
  PROVE  Value!Copy(v, w) \/ Value!Fail
<1>1. Alive(v) /\ Alive(w) /\ m_digest[w] # Null
  BY DEF Assign, CarefulProgram
<1>2. CASE v = w /\ answer' = Value!Done("digest") /\ UNCHANGED <<digests, sha1>>
  <2>1. Image' = [Image EXCEPT ![v] = Image[w]]
    <3>1. UNCHANGED Image
      BY <1>2 DEF Image, Abstract, digests
    <3> QED BY <1>2, <3>1 DEF Image
  <2>2. Image[w] # Value!Dead
    BY <1>1, AliveValue
  <2> QED BY <1>2, <2>1, <2>2
        DEF Value!Copy, Value!Becomes, Value!Done, Value!Alive, Value!hasher, sha1, Image
<1>3. CASE clone(v, w) /\ UNCHANGED sha1
  BY <1>1, <1>3, CloneIsCopy
<1>4. CASE \E c \in {"PluginError", "bad_alloc"} : Fails(c)
  BY <1>4, FailIsFail DEF Codes
<1> QED BY <1>1, <1>2, <1>3, <1>4 DEF Assign

LEMMA HasherStep ==
  ASSUME TypeInv, CarefulProgram
  PROVE  /\ Reset => Value!Reset
         /\ \A c \in Chunks : AddData(c) => Value!AddData(c)
<1>1. UNCHANGED digests => UNCHANGED Image
  BY DEF Image, Abstract, digests
<1>2. Reset => Value!Reset
  BY <1>1 DEF Reset, Value!Reset, Value!Done, Image
<1>3. ASSUME NEW c \in Chunks, AddData(c) PROVE Value!AddData(c)
  <2>1. hasher = "valid" /\ UNCHANGED digests
    BY <1>3 DEF AddData, CarefulProgram
  <2> QED BY <1>1, <1>3, <2>1 DEF AddData, Value!AddData, Value!Done, Image
<1> QED BY <1>2, <1>3

LEMMA NextIsValueNext ==
  ASSUME TypeInv, DigestConstants, CarefulProgram, [Next]_vars
  PROVE  [Value!Next]_(Value!vars)
<1>1. CASE UNCHANGED vars
  <2>1. UNCHANGED Image
    BY <1>1 DEF vars, Image, Abstract
  <2> QED BY <1>1, <2>1 DEF vars, Value!vars, Image
<1>2. CASE Reset \/ \E c \in Chunks : AddData(c)
  BY <1>2, HasherStep DEF Value!Next
<1>3. ASSUME NEW v \in Variables, Finalize(v) \/ Parse(v) \/ Destroy(v) PROVE Value!Next
  BY <1>3, FinalizeStep, ParseStep, DestroyStep DEF Value!Next
<1>4. ASSUME NEW v \in Variables, NEW w \in Variables,
             Construct(v, w) \/ Assign(v, w) \/ Move(v, w) \/ Compare(v, w)
      PROVE  Value!Next
  BY <1>4, ConstructStep, AssignStep, MoveStep, CompareStep DEF Value!Next
<1> QED BY <1>1, <1>2, <1>3, <1>4 DEF Next

LEMMA InitIsValueInit == Init => Value!Init
<1> SUFFICES ASSUME Init PROVE Value!Init
  OBVIOUS
<1>1. \A v \in Variables : Abstract(m_digest[v]) = Value!Empty
  BY NoBlock DEF Init, Abstract, Value!Empty
<1>2. hasher # "finalized"
  BY DEF Init
<1> QED BY <1>1, <1>2 DEF Init, Value!Init, Value!Done

\* To a careful program, what Digest and the sha1 Hasher do with pointers and
\* blocks is what DigestValue does with values: a copy stays what it is when the
\* original is changed, moved or gone, an operation that fails changes nothing,
\* digests are equal if plugin and content are, and the Hasher gives the digest of
\* the data since its last reset().
THEOREM DigestsAreValues ==
  ASSUME DigestConstants, CarefulProgram PROVE Spec => ImplementsDigestValue
<1>1. BlocksInv /\ [Next]_vars => [Value!Next]_(Value!vars)
  BY NextIsValueNext DEF BlocksInv
<1> QED BY InitIsValueInit, <1>1, BlocksInvariant, PTL
      DEF Spec, ImplementsDigestValue, Value!Spec
=============================================================================
