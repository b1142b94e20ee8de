------------------------------ MODULE HashFile ------------------------------
(***************************************************************************)
(* OperationScheduler::hashFile                                            *)
(* (client_gui/quicker_sfv/ui/operation_scheduler.cpp): one data portion   *)
(* of a file is hashed through two buffers.  While the hasher works on the *)
(* buffer of the earlier read, the kernel fills the other one.  A read     *)
(* completes at once or later, fails, or meets the end of the file, and    *)
(* the cancel event may be set at any time.                                *)
(*                                                                         *)
(* OperationScheduler.tla takes from here how hashFile may return, and     *)
(* that it does.                                                           *)
(***************************************************************************)
EXTENDS Integers, Sequences, SequencesExt

CONSTANTS
  BufferSize,  \* HASH_FILE_BUFFER_SIZE, in units
  MaxSize,     \* bound: size of a file, offset and size of a data portion, in units
  MaxHashed    \* bound: units of hashed data that are told apart

ASSUME HashAssumption ==
  /\ BufferSize \in Nat \ {0}
  /\ MaxSize \in Nat
  /\ MaxHashed \in Nat /\ MaxHashed > MaxSize

VARIABLES
  file_size,           \* size of the open file
  data_offset,         \* the data portion to hash
  data_size,
  at,                  \* where hashFile is
  front,               \* index of the buffer whose read is waited for next
  read_states,         \* the two reads: what was asked for, and how far it is
  read_offset,         \* where the next read begins
  bytes_read_pending,  \* what of data_size has been asked for
  bytes_read,          \* what the read of the front buffer returned
  stop,                \* is_eof, is_error, is_canceled: the last one set
  cancel,              \* m_cancelEvent is set
  hashed,              \* history: the units of the file given to the hasher, in order
  last_progress        \* last percentage signaled, 0 before the first

portion == <<file_size, data_offset, data_size>>
vars == <<portion, at, front, read_states, read_offset, bytes_read_pending, bytes_read,
          stop, cancel, hashed, last_progress>>

Buffers == {0, 1}
back == 1 - front

\* `io` is where the kernel is with the read, `pending` what hashFile believes,
\* and `signaled` the auto-reset event of the buffer.
ReadState == [offset : 0 .. 2 * MaxSize, size : 0 .. BufferSize,
              io : {"none", "inFlight", "done", "eof", "failed"},
              pending : BOOLEAN, signaled : BOOLEAN]

Unused == [offset |-> 0, size |-> 0, io |-> "none", pending |-> FALSE, signaled |-> FALSE]

Least(a, b) == IF a < b THEN a ELSE b
bytes_to_read == Least(BufferSize, data_size - bytes_read_pending)
bytes_hashed == Len(hashed)

At(l) == at = l

-----------------------------------------------------------------------------
(* ReadFile into buffer i: pending, done at once, at the end of the file at *)
(* once, or failed.                                                        *)

Put(i, n, io) ==
  read_states' = [read_states EXCEPT ![i] =
    [offset |-> read_offset, size |-> n, io |-> io,
     pending |-> io = "inFlight", signaled |-> io = "done"]]

Available(offset) == IF offset < file_size THEN file_size - offset ELSE 0

\* How the kernel may end a read; one for nothing may succeed at the end.
Outcomes(offset, n) ==
  {"failed"} \cup (IF Available(offset) > 0 \/ n = 0 THEN {"done"} ELSE {})
             \cup (IF Available(offset) = 0 THEN {"eof"} ELSE {})

ReadFile(i, n) ==
  \E io \in {"inFlight"} \cup Outcomes(read_offset, n) :
    /\ Put(i, n, io)
    /\ stop' = CASE io = "eof" -> "eof" [] io = "failed" -> "error" [] OTHER -> stop

\* Mutant: they advance by a whole buffer.
AdvanceByBuffer ==
  /\ bytes_read_pending' = bytes_read_pending + BufferSize
  /\ read_offset' = read_offset + BufferSize

\* The offset and the count advance by what should be read, not by what was
\* asked for.
Advance ==
  /\ bytes_read_pending' = bytes_read_pending + bytes_to_read
  /\ read_offset' = read_offset + bytes_to_read

\* The kernel ends a read, successfully or not, and sets the event of its buffer.
Complete(i) ==
  /\ read_states[i].io = "inFlight"
  /\ \E io \in Outcomes(read_states[i].offset, read_states[i].size) :
       read_states' = [read_states EXCEPT ![i].io = io, ![i].signaled = TRUE]
  /\ UNCHANGED <<portion, at, front, read_offset, bytes_read_pending, bytes_read, stop, cancel,
                 hashed, last_progress>>

\* post(Cancel), from another thread.
Cancel ==
  /\ ~cancel /\ cancel' = TRUE
  /\ UNCHANGED <<portion, at, front, read_states, read_offset, bytes_read_pending, bytes_read,
                 stop, hashed, last_progress>>

-----------------------------------------------------------------------------
(* The steps of hashFile.                                                  *)

\* The first read, into the front buffer.
FirstRead ==
  /\ At("first")
  /\ ReadFile(front, bytes_to_read)
  /\ Advance
  /\ at' = IF stop' = "no" THEN "loop" ELSE "drain"
  /\ UNCHANGED <<portion, front, bytes_read, cancel, hashed, last_progress>>

\* Mutant: the next read goes into the buffer that is waited for.
ReadAheadIntoFront ==
  /\ At("loop")
  /\ ReadFile(front, BufferSize)
  /\ IF stop' = "error" THEN at' = "drain" /\ UNCHANGED <<read_offset, bytes_read_pending>>
                        ELSE at' = "wait" /\ Advance
  /\ UNCHANGED <<portion, front, bytes_read, cancel, hashed, last_progress>>

\* The next read, into the back buffer, and always for a whole buffer.
ReadAhead ==
  /\ At("loop")
  /\ ReadFile(back, BufferSize)
  /\ IF stop' = "error" THEN at' = "drain" /\ UNCHANGED <<read_offset, bytes_read_pending>>
                        ELSE at' = "wait" /\ Advance
  /\ UNCHANGED <<portion, front, bytes_read, cancel, hashed, last_progress>>

\* The cancel event is set: CancelIo, and out of the loop.
StopForCancel == stop' = "canceled" /\ at' = "drain" /\ UNCHANGED <<read_states, bytes_read>>

\* The event of the front read is set, and the wait has reset it;
\* GetOverlappedResult tells how the read went.
TakeFrontRead ==
  LET r == read_states[front] IN
  /\ r.signaled
  /\ read_states' = [read_states EXCEPT ![front].pending = FALSE, ![front].signaled = FALSE]
  /\ bytes_read' = IF r.io = "done" THEN Least(r.size, Available(r.offset)) ELSE 0
  /\ stop' = CASE r.io = "done" -> stop [] r.io = "eof" -> "eof" [] r.io = "failed" -> "error"
  /\ at' = IF r.io = "failed" THEN "drain" ELSE "hash"

\* Mutant: the event of the front read goes first in the array of handles.
WaitFrontFirst ==
  /\ At("wait")
  /\ TakeFrontRead \/ (cancel /\ ~read_states[front].signaled /\ StopForCancel)
  /\ UNCHANGED <<portion, front, read_offset, bytes_read_pending, cancel, hashed, last_progress>>

\* WaitForMultipleObjects: of the handles that are signaled, the first counts.
Wait ==
  /\ At("wait")
  /\ (cancel /\ StopForCancel) \/ (~cancel /\ TakeFrontRead)
  /\ UNCHANGED <<portion, front, read_offset, bytes_read_pending, cancel, hashed, last_progress>>

\* The wait fails, or the hasher raises an error: an exception leaves hashFile
\* on the spot, whatever reads are under way.
Throw ==
  /\ At("wait") \/ At("hash")
  /\ at' = "thrown"
  /\ UNCHANGED <<portion, front, read_states, read_offset, bytes_read_pending, bytes_read, stop,
                 cancel, hashed, last_progress>>

Chunk == [i \in 1 .. bytes_read |-> read_states[front].offset + i - 1]
Cut(s) == SubSeq(s, 1, Least(Len(s), MaxHashed))

\* Mutant: the percentage is that of the last read, not that of all reads.
PercentOfLastRead(n) == IF data_size = 0 THEN 0 ELSE (bytes_read * 100) \div data_size

Percent(n) == IF data_size = 0 THEN 0 ELSE (n * 100) \div data_size

\* Mutant: the buffers are not swapped.
HashWithoutSwap ==
  /\ At("hash")
  /\ hashed' = Cut(hashed \o Chunk)
  /\ IF Len(hashed') = data_size
       THEN at' = "drain" /\ UNCHANGED <<front, last_progress>>
       ELSE /\ last_progress' = Percent(Len(hashed'))
            /\ at' = IF stop = "no" THEN "loop" ELSE "drain"
            /\ UNCHANGED front
  /\ UNCHANGED <<portion, read_states, read_offset, bytes_read_pending, bytes_read, stop, cancel>>

\* What was read is hashed.  The loop ends when there is as much as the data
\* portion has; otherwise a new percentage is signaled and the buffers swap.
Hash ==
  /\ At("hash")
  /\ hashed' = Cut(hashed \o Chunk)
  /\ IF Len(hashed') = data_size
       THEN at' = "drain" /\ UNCHANGED <<front, last_progress>>
       ELSE /\ last_progress' = Percent(Len(hashed'))
            /\ front' = back
            /\ at' = IF stop = "no" THEN "loop" ELSE "drain"
  /\ UNCHANGED <<portion, read_states, read_offset, bytes_read_pending, bytes_read, stop, cancel>>

\* Mutant: nobody waits for a read that is still under way.
ReturnAtOnce ==
  /\ At("drain")
  /\ at' = "returned"
  /\ UNCHANGED <<portion, front, read_states, read_offset, bytes_read_pending, bytes_read, stop,
                 cancel, hashed, last_progress>>

\* The reads that are still pending are waited for, and hashFile returns.
Return ==
  /\ At("drain")
  /\ \A i \in Buffers : read_states[i].pending => read_states[i].signaled
  /\ at' = "returned"
  /\ UNCHANGED <<portion, front, read_states, read_offset, bytes_read_pending, bytes_read, stop,
                 cancel, hashed, last_progress>>

-----------------------------------------------------------------------------
Init ==
  /\ file_size \in 0 .. MaxSize /\ data_offset \in 0 .. MaxSize /\ data_size \in 0 .. MaxSize
  /\ at = "first" /\ front = 0
  /\ read_states = [i \in Buffers |-> Unused]
  /\ read_offset = data_offset /\ bytes_read_pending = 0 /\ bytes_read = 0
  /\ stop = "no" /\ cancel \in BOOLEAN
  /\ hashed = <<>> /\ last_progress = 0

Step == FirstRead \/ ReadAhead \/ Wait \/ Hash \/ Return
Next == Step \/ Throw \/ Cancel \/ \E i \in Buffers : Complete(i)

\* The worker thread runs, and the kernel ends every read.
Fairness == WF_vars(Step) /\ \A i \in Buffers : WF_vars(Complete(i))

Spec == Init /\ [][Next]_vars
FairSpec == Spec /\ Fairness
-----------------------------------------------------------------------------
(* Properties.                                                             *)

HashTypeOK ==
  /\ file_size \in 0 .. MaxSize /\ data_offset \in 0 .. MaxSize /\ data_size \in 0 .. MaxSize
  /\ at \in {"first", "loop", "wait", "hash", "drain", "returned", "thrown"}
  /\ front \in Buffers
  /\ read_states \in [Buffers -> ReadState]
  /\ read_offset \in data_offset .. data_offset + data_size
  /\ bytes_read_pending \in 0 .. data_size
  /\ bytes_read \in 0 .. BufferSize
  /\ stop \in {"no", "eof", "error", "canceled"}
  /\ cancel \in BOOLEAN
  /\ hashed \in Seq(0 .. MaxSize) /\ Len(hashed) <= MaxHashed
  /\ last_progress \in Nat

\* The kernel never writes into a buffer that is hashed, that is asked for
\* another read, or that hashFile has returned: the swap of the buffers, the
\* early breaks and the final wait fit together.  (A throw does leave such reads
\* behind.)
BuffersAreFree ==
  /\ At("loop") => read_states[back].io # "inFlight"
  /\ At("hash") => read_states[front].io # "inFlight"
  /\ At("returned") => \A i \in Buffers : read_states[i].io # "inFlight"

\* The reads ask for no more than the data portion, or run into the end of the
\* file: always so when the portion is the whole file.
ReadsFit ==
  \/ data_size <= BufferSize \/ data_size % BufferSize = 0
  \/ data_offset + data_size >= file_size

DataPortion == [i \in 1 .. Least(data_size, Available(data_offset)) |-> data_offset + i - 1]

\* The hasher is given the data in order, without a gap and without a
\* repetition, however the two reads complete.
HashedInOrder == ReadsFit => IsPrefix(hashed, DataPortion)

\* A digest is only ever that of the data portion, or of what the file has of it.
DigestOfData == At("returned") /\ stop \in {"no", "eof"} => hashed = DataPortion

\* Progress that is signaled never goes back and stays a percentage.
ProgressGrows ==
  [][last_progress' >= last_progress /\ (ReadsFit => last_progress' <= 100)]_vars

Ended == At("returned") \/ At("thrown")

\* The hash of a file ends, without anybody canceling it.
HashEnds == ReadsFit ~> Ended

\* A cancel ends it in any case: reads that keep completing do not starve it.
CancelEnds == cancel ~> Ended

\* event_handler.hpp: a file check always completes, unless the operation is
\* canceled or ends with an error.  The code breaks this: the read ahead asks
\* for a whole buffer when less is left of the data portion.
FileCheckCompletes == At("first") ~> Ended
=============================================================================
