--------------------------- MODULE EventProtocol ----------------------------
(***************************************************************************)
(* What an EventHandler may rely on                                        *)
(* (client_gui/quicker_sfv/ui/event_handler.hpp), as far as the code keeps *)
(* it: the order in which its callbacks arrive, and that the totals of     *)
(* onOperationCompleted() are those of the files reported before it.       *)
(* There are no threads and no queues here; OperationScheduler implements  *)
(* this specification.                                                     *)
(***************************************************************************)
EXTENDS Integers, Sequences, SequencesExt

CONSTANTS Verifies, Creates, MaxFiles

VARIABLES
  shown,    \* the callbacks of the latest operation, summed up
  reported  \* the operations heard of, in order

protocolVars == <<shown, reported>>

Init ==
  /\ shown = [phase |-> "Idle", n_files |-> 0, file |-> 0,
              ok |-> 0, bad |-> 0, missing |-> 0, was_canceled |-> FALSE]
  /\ reported = <<>>

\* The latest operation is in the phase p: only it has callbacks now, and one
\* that was followed by another operation never has any again.
In(p) == reported # <<>> /\ shown.phase = p
ByVerify == Last(reported) \in Verifies
Continue(p) == shown' = [shown EXCEPT !.phase = p] /\ UNCHANGED reported

Another(op) == op \notin ToSet(reported) /\ reported' = Append(reported, op)

\* A create operation does not know how many files it will meet.
onOperationStarted(op, n) ==
  /\ Another(op)
  /\ op \in Creates => n = 0
  /\ shown' = [phase |-> "Started", n_files |-> n, file |-> 0,
               ok |-> 0, bad |-> 0, missing |-> 0, was_canceled |-> FALSE]

\* Files come one at a time, in the order of the checksum file.
onFileStarted ==
  /\ In("Started")
  /\ ByVerify => shown.file < shown.n_files
  /\ shown' = [shown EXCEPT !.phase = "InFile", !.file = @ + 1]
  /\ UNCHANGED reported

onFileCompleted(status) ==
  /\ In("InFile")
  /\ status = "missing" => ByVerify
  /\ shown' = [shown EXCEPT !.phase = "Started", ![status] = @ + 1]
  /\ UNCHANGED reported

\* A canceled operation leaves the file it was at without a result.
onCanceled == In("InFile") /\ Continue("Canceled")

Reported == shown.ok + shown.bad + shown.missing

\* The result repeats what was reported file by file.  Every entry of a
\* checksum file has then been reported, unless the operation was canceled.
onOperationCompleted ==
  \/ /\ In("Started")
     /\ Reported = shown.file
     /\ ByVerify => shown.file = shown.n_files
     /\ Continue("Completed")
  \/ /\ In("Canceled") /\ ByVerify
     /\ Reported = shown.file - 1
     /\ shown' = [shown EXCEPT !.phase = "Completed", !.was_canceled = TRUE]
     /\ UNCHANGED reported

\* An error ends an operation that has not completed, or has not even started.
onError(op) ==
  \/ (In("Started") \/ In("InFile")) /\ Continue("Failed")
  \/ Another(op) /\ shown' = [shown EXCEPT !.phase = "Failed"]

Next ==
  \/ \E op \in Verifies \cup Creates :
       (\E n \in 0 .. MaxFiles : onOperationStarted(op, n)) \/ onError(op)
  \/ onFileStarted
  \/ \E status \in {"ok", "bad", "missing"} : onFileCompleted(status)
  \/ onCanceled \/ onOperationCompleted

Spec == Init /\ [][Next]_protocolVars
=============================================================================
