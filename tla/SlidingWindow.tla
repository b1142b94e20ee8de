---------------------------- MODULE SlidingWindow ---------------------------
(***************************************************************************)
(* SlidingWindow of hashFile                                               *)
(* (client_gui/quicker_sfv/ui/operation_scheduler.cpp): the times of the   *)
(* last N whole reads, for the bandwidth that is signaled with progress.   *)
(* Reads of less than a buffer are not among them.                         *)
(***************************************************************************)
EXTENDS Integers, Sequences

CONSTANTS
  N,           \* the size of the window, 10 in the code
  Times,       \* how long a read may take
  BufferSize,  \* HASH_FILE_BUFFER_SIZE, in units
  Second,      \* how many units of time a second has
  MaxReads     \* bound: the whole reads of a file

WindowConstants ==
  /\ {N, BufferSize, Second} \subseteq Nat \ {0} /\ Times \subseteq Nat /\ MaxReads \in Nat

VARIABLES
  m_elements,          \* a value that is not set yet is any
  m_numberOfElements,
  m_nextElement,
  times                \* history: of all whole reads

vars == <<m_elements, m_numberOfElements, m_nextElement, times>>

Indices == 0 .. N - 1
Least(a, b) == IF a < b THEN a ELSE b

Init ==
  /\ m_elements \in [Indices -> Times]
  /\ m_numberOfElements = 0 /\ m_nextElement = 0 /\ times = <<>>

\* Mutant: the window starts again behind its first element.
pushPastFirst(e) ==
  /\ m_elements' = [m_elements EXCEPT ![m_nextElement] = e]
  /\ m_nextElement' = IF m_nextElement = N - 1 THEN Least(1, N - 1) ELSE m_nextElement + 1
  /\ m_numberOfElements' = Least(m_numberOfElements + 1, N)

push(e) ==
  /\ m_elements' = [m_elements EXCEPT ![m_nextElement] = e]
  /\ m_nextElement' = (m_nextElement + 1) % N
  /\ m_numberOfElements' = Least(m_numberOfElements + 1, N)

\* std::accumulate(): the first k times of t, whose places begin with 0
Sum(t, k) == LET sum[i \in 0 .. k] == IF i = 0 THEN 0 ELSE sum[i - 1] + t[i - 1] IN sum[k]

\* The first m_numberOfElements, wherever the next one goes
rollingAverage ==
  IF m_numberOfElements = 0 THEN 0
  ELSE Sum(m_elements, m_numberOfElements) \div m_numberOfElements

bandwidth == IF rollingAverage = 0 THEN 0 ELSE (BufferSize * Second) \div rollingAverage

\* A whole read completes.
Track(e) == Len(times) < MaxReads /\ push(e) /\ times' = Append(times, e)

Next == \E e \in Times : Track(e)
Spec == Init /\ [][Next]_vars

-----------------------------------------------------------------------------
(* Properties                                                              *)

WindowTypeOK ==
  /\ m_elements \in [Indices -> Times]
  /\ m_numberOfElements \in 0 .. N /\ m_nextElement \in Indices

\* The bandwidth is that of the last N whole reads, or of all when there are
\* fewer, and of no read before them nor of a place that is not set.
BandwidthOfLastReads ==
  LET k == Least(N, Len(times))
      total == Sum([i \in 0 .. k - 1 |-> times[Len(times) - k + 1 + i]], k)
  IN  IF k = 0 \/ total < k THEN bandwidth = 0
                            ELSE bandwidth = (BufferSize * Second) \div (total \div k)
=============================================================================
