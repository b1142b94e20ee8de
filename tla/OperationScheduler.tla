------------------------- MODULE OperationScheduler -------------------------
(***************************************************************************)
(* The OperationScheduler of QuickerSFV                                    *)
(* (client_gui/quicker_sfv/ui/operation_scheduler.cpp): a worker thread    *)
(* carries out verify and create operations posted by the UI thread and    *)
(* signals their events through a queue that the UI thread drains in       *)
(* run(), calling the EventHandler of each event.                          *)
(*                                                                         *)
(* One step is one critical section of m_mtxOps or m_mtxEvents, one call   *)
(* that touches the cancel event, or one callback.  Reading a checksum     *)
(* file, listing a folder and hashing a file appear by their outcomes;     *)
(* the pipeline of reads inside hashFile is HashFile.tla.                  *)
(***************************************************************************)
EXTENDS Integers, Sequences

CONSTANTS
  Verifies,   \* the verify operations that may be posted
  Creates,    \* the create operations that may be posted
  MaxFiles,   \* bound: entries of a checksum file, files below a folder
  MaxReads,   \* bound: waits for a read that hashFile needs for one file
  QueueLimit  \* messages the queue of the starting thread holds (10000)

Ops == Verifies \cup Creates

ASSUME SchedulerAssumption ==
  /\ Verifies \cap Creates = {}
  /\ MaxFiles \in Nat
  /\ MaxReads \in Nat
  /\ QueueLimit \in Nat \ {0}

VARIABLES
  opsQueue,           \* m_opsQueue
  shutdownRequested,  \* m_shutdownRequested
  cancelEvent,        \* m_cancelEvent: null before start(), then a manual-reset event
  eventsQueue,        \* m_eventsQueue
  wakeups,            \* WM_SCHEDULER_WAKEUP messages in the starting thread's queue
  pc,                 \* where the worker thread is
  pendingOps,         \* worker(): pending_ops from the current operation on
  entries,            \* doVerify: number of entries of the checksum file
  file,               \* number of the file being checked, 0 before the first
  reads,              \* hashFile: waits that remain for the current file
  hashResult,         \* what hashFile returned for the current file
  result,             \* doVerify, doCreate: result
  client,             \* where the thread that calls run() and shutdown() is
  pendingEvents,      \* run(): pending_events from the next event on
  shown,              \* what the EventHandler shows: MainWindow's m_stats and phase
  reported,           \* history: the operations the handler heard of, in order
  posted,             \* history: every operation posted, in order
  finished            \* history: the operations the worker is done with, in order

opsVars    == <<opsQueue, shutdownRequested, posted>>
eventVars  == <<eventsQueue, wakeups>>
workVars   == <<pendingOps, finished>>
fileVars   == <<entries, file, reads, hashResult, result>>
shownVars  == <<shown, reported>>
uiVars     == <<client, pendingEvents, shownVars>>
workerVars == <<pc, workVars, fileVars>>
vars == <<opsVars, cancelEvent, eventVars, workerVars, uiVars>>

-----------------------------------------------------------------------------
(* The data that travels between the threads.                              *)

Status == {"Ok", "Missing", "Bad"}

Result == [total : 0 .. MaxFiles, ok : 0 .. MaxFiles, bad : 0 .. MaxFiles,
           missing : 0 .. MaxFiles, was_canceled : BOOLEAN]

NoResult == [total |-> 0, ok |-> 0, bad |-> 0, missing |-> 0, was_canceled |-> FALSE]

\* OperationScheduler::Event; `op` stands for the recipient.
Event ==
  [type : {"OperationStarted"}, op : Ops, n_files : 0 .. MaxFiles]
    \cup [type : {"FileStarted"}, op : Ops, file : 1 .. MaxFiles]
    \cup [type : {"FileCompleted"}, op : Ops, file : 1 .. MaxFiles, status : Status]
    \cup [type : {"OperationCompleted"}, op : Ops, r : Result]
    \cup [type : {"Progress", "Canceled", "Error"}, op : Ops]

\* What the EventHandler (MainWindow: m_stats) shows of the latest operation.
View == [phase : {"Idle", "Started", "InFile", "Canceled", "Completed", "Failed"},
         n_files : 0 .. MaxFiles, file : 0 .. MaxFiles,
         ok : Nat, bad : Nat, missing : Nat, was_canceled : BOOLEAN]

FreshView == [phase |-> "Idle", n_files |-> 0, file |-> 0,
              ok |-> 0, bad |-> 0, missing |-> 0, was_canceled |-> FALSE]

Op == Head(pendingOps)

-----------------------------------------------------------------------------
(* Signals: append under m_mtxEvents, and wake the starting thread in the  *)
(* same critical section.                                                  *)

\* PostThreadMessage into a full queue fails, and the code ignores it.
\* Mutant: a wakeup is only posted for the first event of an empty queue.
PostWakeupWhenEmpty == wakeups' = IF eventsQueue = <<>> THEN wakeups + 1 ELSE wakeups

PostWakeup == wakeups' = IF wakeups < QueueLimit THEN wakeups + 1 ELSE wakeups

Signal(e) ==
  /\ eventsQueue' = Append(eventsQueue, e)
  /\ PostWakeup

signalOperationStarted(n) ==
  /\ eventsQueue' = Append(eventsQueue, [type |-> "OperationStarted", op |-> Op, n_files |-> n])
  /\ UNCHANGED wakeups  \* the one signal that posts no wakeup

signalFileStarted(f)      == Signal([type |-> "FileStarted", op |-> Op, file |-> f])
signalProgress            == Signal([type |-> "Progress", op |-> Op])
signalFileCompleted(s)    == Signal([type |-> "FileCompleted", op |-> Op, file |-> file, status |-> s])
signalOperationCompleted  == Signal([type |-> "OperationCompleted", op |-> Op, r |-> result])
signalCanceled            == Signal([type |-> "Canceled", op |-> Op])
signalError               == Signal([type |-> "Error", op |-> Op])

-----------------------------------------------------------------------------
(* The worker thread.                                                      *)

WorkerAt(l) == pc = l

\* worker(): wait() evaluates its condition under m_mtxOps and sleeps on m_cvOps
\* while it does not hold.
Sleep ==
  /\ WorkerAt("waiting") /\ ~shutdownRequested /\ opsQueue = <<>>
  /\ pc' = "asleep"
  /\ UNCHANGED <<opsVars, cancelEvent, eventVars, workVars, fileVars, uiVars>>

Notify == pc' = IF WorkerAt("asleep") THEN "waiting" ELSE pc

\* A condition variable may also wake for no reason; nothing makes it.
SpuriousWakeup ==
  /\ WorkerAt("asleep") /\ Notify
  /\ UNCHANGED <<opsVars, cancelEvent, eventVars, workVars, fileVars, uiVars>>

\* Mutant: the queue is copied and not swapped out.
TakeOpsCopies ==
  /\ WorkerAt("waiting") /\ ~shutdownRequested /\ opsQueue # <<>>
  /\ pendingOps' = opsQueue
  /\ pc' = "operation"
  /\ UNCHANGED <<opsVars, finished, cancelEvent, eventVars, fileVars, uiVars>>

\* The wait is over and there is work: the whole queue is taken.
TakeOps ==
  /\ WorkerAt("waiting") /\ ~shutdownRequested /\ opsQueue # <<>>
  /\ pendingOps' = opsQueue
  /\ opsQueue' = <<>>
  /\ pc' = "operation"
  /\ UNCHANGED <<shutdownRequested, posted, finished, cancelEvent, eventVars, fileVars, uiVars>>

\* The wait is over: a shutdown ends the thread, whatever is still queued.
Exit ==
  /\ WorkerAt("waiting") /\ shutdownRequested
  /\ pc' = "exited"
  /\ UNCHANGED <<opsVars, cancelEvent, eventVars, workVars, fileVars, uiVars>>

\* The operation returns, or its exception is caught, and its locals are gone.
\* On to the next of the batch: m_shutdownRequested is not looked at between
\* two operations.
NextOperation ==
  /\ entries' = 0 /\ file' = 0 /\ reads' = 0 /\ hashResult' = "None" /\ result' = NoResult
  /\ pendingOps' = Tail(pendingOps)
  /\ finished' = Append(finished, Op)
  /\ pc' = IF Tail(pendingOps) = <<>> THEN "waiting" ELSE "operation"

Count(field) == result' = [result EXCEPT ![field] = @ + 1]

\* doVerify, doCreate: the operation is under way.  A verify knows the
\* number of its entries, a create announces 0.
StartOperation(n) ==
  /\ signalOperationStarted(n)
  /\ entries' = n
  /\ file' = 0
  /\ result' = [NoResult EXCEPT !.total = n]
  /\ pc' = "files"
  /\ UNCHANGED <<opsVars, cancelEvent, workVars, reads, hashResult, uiVars>>

StartVerify == WorkerAt("operation") /\ Op \in Verifies /\ \E n \in 0 .. MaxFiles : StartOperation(n)
StartCreate == WorkerAt("operation") /\ Op \in Creates /\ StartOperation(0)

\* Mutant: the try block is around the loop over the batch, not inside it.
RaiseLeavesBatch ==
  /\ WorkerAt("operation")
  /\ signalError
  /\ pendingOps' = <<>> /\ finished' = Append(finished, Op) /\ pc' = "waiting"
  /\ UNCHANGED <<opsVars, cancelEvent, fileVars, uiVars>>

\* Mutant: the result outlives the operation that raised.
RaiseKeepsResult ==
  /\ WorkerAt("hashing")
  /\ signalError
  /\ pendingOps' = Tail(pendingOps) /\ finished' = Append(finished, Op)
  /\ pc' = IF Tail(pendingOps) = <<>> THEN "waiting" ELSE "operation"
  /\ UNCHANGED <<opsVars, cancelEvent, fileVars, uiVars>>

\* The checksum file cannot be read or parsed, or CreateEvent fails; the
\* folder cannot be listed, or the new checksum file cannot be written; a
\* wait for a read fails or the hasher throws.  worker() turns the exception
\* into an error event.
Raise ==
  /\ \/ WorkerAt("operation")
     \/ WorkerAt("files") /\ Op \in Creates
     \/ WorkerAt("hashing")
     \/ WorkerAt("hashed") /\ hashResult = "DigestReady"
  /\ signalError
  /\ NextOperation
  /\ UNCHANGED <<opsVars, cancelEvent, uiVars>>

\* Mutant: the loop over the entries takes one too many.
StartFileOffByOne ==
  /\ WorkerAt("files")
  /\ file <= (IF Op \in Verifies THEN entries ELSE MaxFiles)
  /\ signalFileStarted(file + 1)
  /\ file' = file + 1
  /\ pc' = "open"
  /\ UNCHANGED <<opsVars, cancelEvent, workVars, entries, reads, hashResult, result, uiVars>>

\* The next entry of the checksum file, or the next file iterateFiles finds.
StartFile ==
  /\ WorkerAt("files")
  /\ file < (IF Op \in Verifies THEN entries ELSE MaxFiles)
  /\ signalFileStarted(file + 1)
  /\ file' = file + 1
  /\ pc' = "open"
  /\ UNCHANGED <<opsVars, cancelEvent, workVars, entries, reads, hashResult, result, uiVars>>

\* Mutant: a missing file is reported and not counted in the result.
OpenFailsUncounted ==
  /\ WorkerAt("open")
  /\ \E s \in {"Missing", "Bad"} :
       /\ s = "Missing" => Op \in Verifies
       /\ signalFileCompleted(s)
       /\ IF s = "Missing" THEN UNCHANGED result ELSE Count("bad")
  /\ pc' = "files"
  /\ UNCHANGED <<opsVars, cancelEvent, workVars, entries, file, reads, hashResult, uiVars>>

\* CreateFile fails.  doVerify tells a missing file from one it cannot open.
OpenFails ==
  /\ WorkerAt("open")
  /\ \E s \in {"Missing", "Bad"} :
       /\ s = "Missing" => Op \in Verifies
       /\ signalFileCompleted(s)
       /\ Count(IF s = "Missing" THEN "missing" ELSE "bad")
  /\ pc' = "files"
  /\ UNCHANGED <<opsVars, cancelEvent, workVars, entries, file, reads, hashResult, uiVars>>

\* The file is open.  hashFile is called, or the size is unknown and the
\* file counts as an error.  A read that meets the end of the file at once
\* leaves hashFile with nothing to wait for (reads = 0).
Open ==
  /\ WorkerAt("open")
  /\ \/ /\ reads' \in 0 .. MaxReads
        /\ pc' = "hashing"
        /\ UNCHANGED hashResult
     \/ /\ hashResult' = "Error"
        /\ pc' = "hashed"
        /\ UNCHANGED reads
  /\ UNCHANGED <<opsVars, cancelEvent, eventVars, workVars, entries, file, result, uiVars>>

HashReturns(res) == hashResult' = res /\ reads' = 0 /\ pc' = "hashed"

\* One wait of hashFile ends with a completed read.  The cancel event comes
\* first in WaitForMultipleObjects, so a set one wins over a finished read.
HashRead ==
  /\ WorkerAt("hashing") /\ reads > 0 /\ cancelEvent # "set"
  /\ signalProgress \/ UNCHANGED eventVars
  /\ IF reads = 1 THEN HashReturns("DigestReady")
                  ELSE reads' = reads - 1 /\ UNCHANGED <<pc, hashResult>>
  /\ UNCHANGED <<opsVars, cancelEvent, workVars, entries, file, result, uiVars>>

\* hashFile returns without another completed read: the loop is not entered
\* at the end of the file, the wait is canceled, or a read fails.
HashStops ==
  /\ WorkerAt("hashing")
  /\ \/ reads = 0 /\ HashReturns("DigestReady")
     \/ reads > 0 /\ cancelEvent = "set" /\ HashReturns("Canceled")
     \/ HashReturns("Error")
  /\ UNCHANGED <<opsVars, cancelEvent, eventVars, workVars, entries, file, result, uiVars>>

\* The digest is there: doVerify compares it with the expected one.
FileHashed ==
  /\ WorkerAt("hashed") /\ hashResult = "DigestReady"
  /\ \/ /\ Op \in Verifies
        /\ \/ signalFileCompleted("Ok") /\ Count("ok")
           \/ signalFileCompleted("Bad") /\ Count("bad")
     \/ /\ Op \in Creates
        /\ signalFileCompleted("Ok")
        /\ result' = [result EXCEPT !.ok = @ + 1, !.total = @ + 1]
  /\ hashResult' = "None"
  /\ pc' = "files"
  /\ UNCHANGED <<opsVars, cancelEvent, workVars, entries, file, reads, uiVars>>

\* A read failed.  doCreate goes on with the next file; doVerify returns, with
\* neither a completion nor an error event.
HashFailed ==
  /\ WorkerAt("hashed") /\ hashResult = "Error"
  /\ signalFileCompleted("Bad")
  /\ \/ Op \in Verifies /\ NextOperation
     \/ /\ Op \in Creates
        /\ result' = [result EXCEPT !.bad = @ + 1, !.total = @ + 1]
        /\ hashResult' = "None"
        /\ pc' = "files"
        /\ UNCHANGED <<workVars, entries, file, reads>>
  /\ UNCHANGED <<opsVars, cancelEvent, uiVars>>

\* doVerify leaves the loop and will still report its result; doCreate returns
\* and writes no file.
HashCanceled ==
  /\ WorkerAt("hashed") /\ hashResult = "Canceled"
  /\ signalCanceled
  /\ \/ /\ Op \in Verifies
        /\ result' = [result EXCEPT !.was_canceled = TRUE]
        /\ hashResult' = "None"
        /\ pc' = "canceled"
        /\ UNCHANGED <<workVars, entries, file, reads>>
     \/ Op \in Creates /\ NextOperation
  /\ UNCHANGED <<opsVars, cancelEvent, uiVars>>

\* The loop over the files is over (for a create, once the file is written).
CompleteOperation ==
  /\ \/ WorkerAt("files") /\ (Op \in Verifies => file = entries)
     \/ WorkerAt("canceled")
  /\ signalOperationCompleted
  /\ NextOperation
  /\ UNCHANGED <<opsVars, cancelEvent, uiVars>>

Worker ==
  \/ Sleep \/ TakeOps \/ Exit \/ StartVerify \/ StartCreate \/ Raise \/ StartFile
  \/ OpenFails \/ Open \/ HashRead \/ HashStops
  \/ FileHashed \/ HashFailed \/ HashCanceled \/ CompleteOperation

-----------------------------------------------------------------------------
(* The thread that owns the scheduler.                                     *)

start ==
  /\ client = "free" /\ WorkerAt("unstarted")
  /\ cancelEvent' = "reset"
  /\ pc' = "waiting"
  /\ UNCHANGED <<opsVars, eventVars, workVars, fileVars, uiVars>>

\* Mutant: post() does not notify the worker.
PostWithoutNotify(op) ==
  /\ client \in {"free", "run"}
  /\ op \notin {posted[i] : i \in DOMAIN posted}
  /\ opsQueue' = Append(opsQueue, op)
  /\ posted' = Append(posted, op)
  /\ UNCHANGED <<shutdownRequested, cancelEvent, eventVars, workerVars, uiVars>>

\* post(Verify), post(CreateFromFolder); also before start().
Post(op) ==
  /\ client \in {"free", "run"}
  /\ op \notin {posted[i] : i \in DOMAIN posted}
  /\ opsQueue' = Append(opsQueue, op)
  /\ posted' = Append(posted, op)
  /\ Notify
  /\ UNCHANGED <<shutdownRequested, cancelEvent, eventVars, workVars, fileVars, uiVars>>

\* SetEvent; without effect on the null handle before start().
SetCancelEvent == cancelEvent' = IF cancelEvent = "null" THEN "null" ELSE "set"

PostCancel ==
  /\ client \in {"free", "run"}
  /\ SetCancelEvent
  /\ UNCHANGED <<opsVars, eventVars, workerVars, uiVars>>

\* run(): the queue is swapped out under the lock ...
SwapEvents ==
  /\ client = "free"
  /\ pendingEvents' = eventsQueue
  /\ eventsQueue' = <<>>
  /\ client' = IF eventsQueue = <<>> THEN "free" ELSE "run"
  /\ UNCHANGED <<opsVars, cancelEvent, wakeups, workerVars, shownVars>>

\* The effect of a callback on what the handler shows (MainWindow::on...).
Seen(v, e) ==
  CASE e.type = "OperationStarted" -> [FreshView EXCEPT !.phase = "Started", !.n_files = e.n_files]
    [] e.type = "FileStarted" -> [v EXCEPT !.phase = "InFile", !.file = e.file]
    [] e.type = "Progress" -> v
    [] e.type = "FileCompleted" ->
         [v EXCEPT !.phase = "Started",
                   !.ok = IF e.status = "Ok" THEN @ + 1 ELSE @,
                   !.bad = IF e.status = "Bad" THEN @ + 1 ELSE @,
                   !.missing = IF e.status = "Missing" THEN @ + 1 ELSE @]
    [] e.type = "Canceled" -> [v EXCEPT !.phase = "Canceled"]
    [] e.type = "OperationCompleted" ->
         [v EXCEPT !.phase = "Completed", !.ok = e.r.ok, !.bad = e.r.bad,
                   !.missing = e.r.missing, !.was_canceled = e.r.was_canceled]
    [] e.type = "Error" -> [v EXCEPT !.phase = "Failed"]

\* The operation the handler heard of last.
IsCurrent(op) == reported # <<>> /\ reported[Len(reported)] = op

\* ... and the events are dispatched one by one, without the lock.
DispatchEvent ==
  /\ client = "run"
  /\ LET e == Head(pendingEvents) IN
       /\ shown' = Seen(shown, e)
       /\ reported' = IF IsCurrent(e.op) THEN reported ELSE Append(reported, e.op)
  /\ pendingEvents' = Tail(pendingEvents)
  /\ client' = IF Tail(pendingEvents) = <<>> THEN "free" ELSE "run"
  /\ UNCHANGED <<opsVars, cancelEvent, eventVars, workerVars>>

\* shutdown(): the flag under the lock, then notify_all and the cancel event,
\* then the join.
RequestShutdown ==
  /\ client = "free" /\ ~WorkerAt("unstarted")
  /\ shutdownRequested' = TRUE
  /\ client' = "shutdown"
  /\ UNCHANGED <<opsQueue, posted, cancelEvent, eventVars, workerVars, pendingEvents, shownVars>>

\* Mutant: shutdown() does not notify the worker.
CancelForShutdownWithoutNotify ==
  /\ client = "shutdown"
  /\ SetCancelEvent
  /\ client' = "joining"
  /\ UNCHANGED <<opsVars, eventVars, workerVars, pendingEvents, shownVars>>

CancelForShutdown ==
  /\ client = "shutdown"
  /\ Notify
  /\ SetCancelEvent
  /\ client' = "joining"
  /\ UNCHANGED <<opsVars, eventVars, workVars, fileVars, pendingEvents, shownVars>>

Join ==
  /\ client = "joining" /\ WorkerAt("exited")
  /\ client' = "joined"
  /\ UNCHANGED <<opsVars, cancelEvent, eventVars, workerVars, pendingEvents, shownVars>>

\* GetMessage takes a wakeup out of the queue of the starting thread.
TakeWakeup ==
  /\ client = "free" /\ wakeups > 0
  /\ wakeups' = wakeups - 1
  /\ UNCHANGED <<opsVars, cancelEvent, eventsQueue, workerVars, uiVars>>

Client ==
  \/ start \/ (\E op \in Ops : Post(op)) \/ PostCancel
  \/ SwapEvents \/ DispatchEvent
  \/ RequestShutdown \/ CancelForShutdown \/ Join \/ TakeWakeup

-----------------------------------------------------------------------------
Init ==
  /\ opsQueue = <<>> /\ posted = <<>>
  /\ shutdownRequested = FALSE
  /\ cancelEvent = "null"
  /\ eventsQueue = <<>> /\ wakeups = 0
  /\ pc = "unstarted" /\ pendingOps = <<>> /\ finished = <<>>
  /\ entries = 0 /\ file = 0 /\ reads = 0
  /\ hashResult = "None" /\ result = NoResult
  /\ client = "free" /\ pendingEvents = <<>>
  /\ shown = FreshView /\ reported = <<>>

Next == Worker \/ SpuriousWakeup \/ Client

Spec == Init /\ [][Next]_vars
-----------------------------------------------------------------------------
(* Properties.                                                             *)

OpsTypeOK ==
  /\ opsQueue \in Seq(Ops) /\ posted \in Seq(Ops)
  /\ cancelEvent \in {"null", "reset", "set"}

EventsTypeOK ==
  /\ eventsQueue \in Seq(Event)
  /\ wakeups \in 0 .. QueueLimit

WorkerTypeOK ==
  /\ pc \in {"unstarted", "waiting", "asleep", "operation", "files", "open", "hashing",
             "hashed", "canceled", "exited"}
  /\ pendingOps \in Seq(Ops) /\ finished \in Seq(Ops)
  /\ entries \in 0 .. MaxFiles /\ file \in 0 .. MaxFiles /\ reads \in 0 .. MaxReads
  /\ hashResult \in {"None", "DigestReady", "Canceled", "Error"}
  /\ result \in Result

UiTypeOK ==
  /\ client \in {"free", "run", "shutdown", "joining", "joined"}
  /\ pendingEvents \in Seq(Event)
  /\ shown \in View
  /\ reported \in Seq(Ops)

FlagTypeOK == shutdownRequested \in BOOLEAN

TypeOK == FlagTypeOK /\ OpsTypeOK /\ EventsTypeOK /\ WorkerTypeOK /\ UiTypeOK

InOperation == {"operation", "files", "open", "hashing", "hashed", "canceled"}
InFile      == {"open", "hashing", "hashed", "canceled"}

\* The files the result of the running operation accounts for.
Settled == IF pc \in InFile THEN file - 1 ELSE file

\* The result of an operation starts from nothing, whatever ended the one before
\* it; no file is counted before it has been started, and none twice.
CountsBounded ==
  /\ pc \notin InOperation \ {"operation"} => result = NoResult /\ file = 0
  /\ pc \in InFile => file > 0
  /\ result.ok + result.bad + result.missing <= Settled
  /\ pendingOps # <<>> /\ Op \in Creates => result.total <= Settled

\* Every posted operation is carried out once and in posting order, across
\* batches, or is still waiting: none is dropped or repeated when worker()
\* swaps the queue out while others are posted.
WorkInOrder == posted = finished \o pendingOps \o opsQueue

\* The handler hears of the operations in posting order and skips none,
\* whatever batch, exception or cancel each of them met.
ReportedInOrder ==
  /\ Len(reported) <= Len(posted)
  /\ reported = SubSeq(posted, 1, Len(reported))

\* Two queues, two threads and a swap later, the callbacks an EventHandler
\* receives are those of its contract, and the totals it is given at the end
\* are those of the files it was told about.
EventHandlerContract == INSTANCE EventProtocol WITH shown <- shown, reported <- reported
HandlerContract == EventHandlerContract!Spec

\* event_handler.hpp: an operation always completes with either an
\* onOperationCompleted() or an onError() event.  The code breaks this: a file
\* that fails to be read during a verify ends the operation with neither.
EveryOperationEnds ==
  [][finished' # finished
       => eventsQueue'[Len(eventsQueue')].type \in {"OperationCompleted", "Error"}]_vars

\* event_handler.hpp: after onCanceled(), partial results are communicated with
\* a subsequent onOperationCompleted().  The code breaks this: a canceled
\* create returns at once.
CanceledOperationCompletes ==
  [][(hashResult = "Canceled" /\ hashResult' # hashResult) => finished' = finished]_vars
=============================================================================
