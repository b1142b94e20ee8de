----------------------------- MODULE DigestValue ----------------------------
(***************************************************************************)
(* What digest.hpp and hasher.hpp promise: a Digest is a value like an int *)
(* that is empty or of a type with a content, and a Hasher gives the       *)
(* digest of the data since its last reset().  The content of a digest is  *)
(* the data it is of; no two data have the same here.                      *)
(***************************************************************************)
EXTENDS Sequences

CONSTANTS
  Variables,  \* the Digests of the program
  Types,      \* the types of what they hold
  HashType,   \* the one that the Hasher makes
  Chunks,     \* what addData() adds
  Contents,   \* what digestFromString() reads
  Codes       \* the error codes of an operation that fails

VARIABLES
  value,      \* of each Digest, Dead outside its lifetime
  stream,     \* the data since reset()
  finalized,  \* whether finalize() has been called since
  answer      \* of the last operation

vars == <<value, stream, finalized, answer>>
hasher == <<stream, finalized>>

Dead == [type |-> "dead"]
Empty == [type |-> "empty"]
Of(t, s) == [type |-> t, content |-> s]
Alive(v) == value[v] # Dead
\* An operation that succeeds
Done(op) == [type |-> op]

Init ==
  /\ value = [v \in Variables |-> Empty] /\ stream = <<>>
  /\ finalized = FALSE /\ answer = Done("reset")

Becomes(v, x) == value' = [value EXCEPT ![v] = x] /\ answer' = Done("digest")

Reset == stream' = <<>> /\ finalized' = FALSE /\ answer' = Done("reset") /\ UNCHANGED value
AddData(c) ==
  /\ ~finalized
  /\ stream' = Append(stream, c) /\ answer' = Done("addData") /\ UNCHANGED <<value, finalized>>
Finalize(v) ==
  /\ ~finalized /\ Alive(v)
  /\ Becomes(v, Of(HashType, stream)) /\ finalized' = TRUE /\ UNCHANGED stream

Parse(v, t, s) == Alive(v) /\ Becomes(v, Of(t, s)) /\ UNCHANGED hasher
Copy(v, w) == Alive(w) /\ Becomes(v, value[w]) /\ UNCHANGED hasher
Move(v, w) ==
  /\ Alive(v) /\ Alive(w)
  /\ value' = [[value EXCEPT ![w] = Empty] EXCEPT ![v] = value[w]]
  /\ answer' = Done("digest") /\ UNCHANGED hasher
Destroy(v) == Alive(v) /\ Becomes(v, Dead) /\ UNCHANGED hasher

Compare(v, w) ==
  /\ Alive(v) /\ Alive(w)
  /\ answer' = [type |-> "equal", equal |-> value[v] = value[w]]
  /\ UNCHANGED <<value, hasher>>

\* An operation that fails leaves everything as it was.
Fail ==
  /\ \E c \in Codes : answer' = [type |-> "error", code |-> c]
  /\ UNCHANGED <<value, hasher>>

Next ==
  \/ Reset \/ (\E c \in Chunks : AddData(c)) \/ Fail
  \/ \E v \in Variables :
       \/ Finalize(v) \/ Destroy(v)
       \/ \E t \in Types, s \in Contents : Parse(v, t, s)
       \/ \E w \in Variables : Copy(v, w) \/ Move(v, w) \/ Compare(v, w)

Spec == Init /\ [][Next]_vars
=============================================================================
