---------------------- MODULE OperationSchedulerProofs ----------------------
(***************************************************************************)
(* Theorems about OperationScheduler and about MainLoop, the application   *)
(* that uses it, for every set of operations, every bound and every size   *)
(* of the message queue: no order of posts, cancels and messages breaks    *)
(* the queues, the application is a client the scheduler can work with,    *)
(* its message loop sleeps only when there is nothing to dispatch, and     *)
(* what it writes without a window is complete.                            *)
(***************************************************************************)
EXTENDS MainLoop, SequenceTheorems, TLAPS

(***************************************************************************)
(* The inductive invariant: types, bounded counts, and the two facts that  *)
(* the heads of pendingOps and pendingEvents rest on.                      *)
(***************************************************************************)

\* The worker has an operation at hand exactly where its code uses one.
WorkerBusy == pc \in InOperation <=> pendingOps # <<>>

\* run() dispatches only while there is something left to dispatch.
ClientBusy == client = "run" => pendingEvents # <<>>

WorkerInv == WorkerTypeOK /\ WorkerBusy /\ CountsBounded
UiInv     == UiTypeOK /\ ClientBusy

IInv == FlagTypeOK /\ OpsTypeOK /\ EventsTypeOK /\ WorkerInv /\ UiInv

-----------------------------------------------------------------------------
(* The operators of the model keep their types.                            *)

\* A callback leaves the totals of the handler well-formed.
LEMMA SeenType == ASSUME NEW v \in View, NEW e \in Event PROVE Seen(v, e) \in View
<1>1. FreshView \in View /\ 1 .. MaxFiles \subseteq 0 .. MaxFiles
  BY SchedulerAssumption DEF FreshView, View
<1>2. CASE e \in [type : {"OperationStarted"}, op : Ops, n_files : 0 .. MaxFiles]
  <2>1. e.type = "OperationStarted" /\ e.n_files \in 0 .. MaxFiles
    BY <1>2
  <2>2. Seen(v, e) = [FreshView EXCEPT !.phase = "Started", !.n_files = e.n_files]
    BY <2>1 DEF Seen
  <2> QED BY <1>1, <2>1, <2>2 DEF View
<1>3. CASE e \in [type : {"FileStarted"}, op : Ops, file : 1 .. MaxFiles]
  <2>1. e.type = "FileStarted" /\ e.file \in 0 .. MaxFiles
    BY <1>1, <1>3
  <2>2. Seen(v, e) = [v EXCEPT !.phase = "InFile", !.file = e.file]
    BY <2>1 DEF Seen
  <2> QED BY <2>1, <2>2 DEF View
<1>4. CASE e \in [type : {"FileCompleted"}, op : Ops, file : 1 .. MaxFiles, status : Status]
  <2> DEFINE inc(n, s) == IF e.status = s THEN n + 1 ELSE n
  <2>1. e.type = "FileCompleted"
    BY <1>4
  <2>2. Seen(v, e) = [v EXCEPT !.phase = "Started", !.ok = inc(v.ok, "Ok"),
                               !.bad = inc(v.bad, "Bad"), !.missing = inc(v.missing, "Missing")]
    BY <2>1 DEF Seen
  <2>3. v.ok \in Nat /\ v.bad \in Nat /\ v.missing \in Nat
    BY DEF View
  <2>4. inc(v.ok, "Ok") \in Nat /\ inc(v.bad, "Bad") \in Nat /\ inc(v.missing, "Missing") \in Nat
    BY <2>3
  <2> HIDE DEF inc
  <2> QED BY <2>2, <2>4 DEF View
<1>5. CASE e \in [type : {"OperationCompleted"}, op : Ops, r : Result]
  <2>1. e.type = "OperationCompleted" /\ e.r \in Result
    BY <1>5
  <2>2. Seen(v, e) = [v EXCEPT !.phase = "Completed", !.ok = e.r.ok, !.bad = e.r.bad,
                               !.missing = e.r.missing, !.was_canceled = e.r.was_canceled]
    BY <2>1 DEF Seen
  <2>3. e.r.ok \in Nat /\ e.r.bad \in Nat /\ e.r.missing \in Nat /\ e.r.was_canceled \in BOOLEAN
    BY <2>1, SchedulerAssumption DEF Result
  <2> QED BY <2>2, <2>3 DEF View
<1>6. CASE e \in [type : {"Progress", "Canceled", "Error"}, op : Ops]
  <2>1. e.type \in {"Progress", "Canceled", "Error"}
    BY <1>6
  <2>2. Seen(v, e) \in {v, [v EXCEPT !.phase = "Canceled"], [v EXCEPT !.phase = "Failed"]}
    BY <2>1 DEF Seen
  <2> QED BY <2>2 DEF View
<1> QED BY <1>2, <1>3, <1>4, <1>5, <1>6 DEF Event

\* The counts of a result are numbers, and its total is bounded.
LEMMA ResultFields ==
  ASSUME NEW r \in Result
  PROVE  /\ r.ok \in Nat /\ r.bad \in Nat /\ r.missing \in Nat /\ r.total \in Nat
         /\ r.total <= MaxFiles
  BY SchedulerAssumption DEF Result

\* Counting one more file is safe while the counts do not make up all files.
LEMMA CountedType ==
  ASSUME NEW r \in Result, NEW f \in {"ok", "bad", "missing"},
         r.ok + r.bad + r.missing < MaxFiles
  PROVE  LET q == [r EXCEPT ![f] = @ + 1] IN
           /\ q \in Result
           /\ q.ok + q.bad + q.missing = r.ok + r.bad + r.missing + 1
           /\ q.total = r.total
<1> DEFINE q == [r EXCEPT ![f] = @ + 1]
<1>1. r[f] + 1 \in 0 .. MaxFiles
  BY ResultFields, SchedulerAssumption
<1>2. q \in Result
  BY <1>1 DEF Result
<1>3. q.ok + q.bad + q.missing = r.ok + r.bad + r.missing + 1 /\ q.total = r.total
  <2>1. CASE f = "ok"
    BY <2>1, ResultFields DEF Result
  <2>2. CASE f = "bad"
    BY <2>2, ResultFields DEF Result
  <2>3. CASE f = "missing"
    BY <2>3, ResultFields DEF Result
  <2> QED BY <2>1, <2>2, <2>3
<1> QED BY <1>2, <1>3

\* The same for a create, which counts the file in the total as well.
LEMMA CountedTotalType ==
  ASSUME NEW r \in Result, NEW f \in {"ok", "bad"},
         r.ok + r.bad + r.missing < MaxFiles, r.total < MaxFiles
  PROVE  LET q == [r EXCEPT ![f] = @ + 1, !.total = @ + 1] IN
           /\ q \in Result
           /\ q.ok + q.bad + q.missing = r.ok + r.bad + r.missing + 1
           /\ q.total = r.total + 1
<1> DEFINE p == [r EXCEPT ![f] = @ + 1]
           q == [r EXCEPT ![f] = @ + 1, !.total = @ + 1]
<1>1. /\ p \in Result /\ p.total = r.total
      /\ p.ok + p.bad + p.missing = r.ok + r.bad + r.missing + 1
  BY CountedType
<1>2. q = [p EXCEPT !.total = @ + 1]
  OBVIOUS
<1>3. p.total + 1 \in 0 .. MaxFiles
  BY <1>1, ResultFields, SchedulerAssumption
<1> HIDE DEF p, q
<1>4. q \in Result
  BY <1>1, <1>2, <1>3 DEF Result
<1>5. q.ok + q.bad + q.missing = r.ok + r.bad + r.missing + 1 /\ q.total = r.total + 1
  BY <1>1, <1>2 DEF Result
<1> QED BY <1>4, <1>5 DEF q

\* Marking a result as canceled leaves its counts alone.
LEMMA CanceledType ==
  ASSUME NEW r \in Result
  PROVE  LET q == [r EXCEPT !.was_canceled = TRUE] IN
           /\ q \in Result
           /\ q.ok = r.ok /\ q.bad = r.bad /\ q.missing = r.missing /\ q.total = r.total
  BY DEF Result

\* A signal appends a well-formed event and keeps the message queue in bounds.
LEMMA SignalType == ASSUME EventsTypeOK, NEW e \in Event, Signal(e) PROVE EventsTypeOK'
  BY SchedulerAssumption DEF EventsTypeOK, Signal, PostWakeup

\* The empty result is a result, and the fresh view a view.
LEMMA EmptyTypes == NoResult \in Result /\ FreshView \in View
  BY SchedulerAssumption DEF NoResult, Result, FreshView, View

\* The result an operation starts with counts no file.
LEMMA StartedResult ==
  ASSUME NEW n \in 0 .. MaxFiles
  PROVE  LET q == [NoResult EXCEPT !.total = n] IN
           q \in Result /\ q.ok + q.bad + q.missing = 0 /\ q.total = n
<1> DEFINE z == NoResult
           q == [z EXCEPT !.total = n]
<1>1. z \in Result
  BY EmptyTypes
<1>2. z.ok = 0 /\ z.bad = 0 /\ z.missing = 0
  BY DEF NoResult
<1> HIDE DEF z
<1>3. q \in Result
  BY <1>1 DEF Result
<1>4. q.ok = 0 /\ q.bad = 0 /\ q.missing = 0 /\ q.total = n
  BY <1>1, <1>2 DEF Result
<1>5. q.ok + q.bad + q.missing = 0
  BY <1>4
<1> QED BY <1>3, <1>4, <1>5 DEF z

\* While the worker is in an operation, it is one of those posted.
LEMMA OpType == ASSUME WorkerTypeOK, pendingOps # <<>> PROVE Op \in Ops /\ Tail(pendingOps) \in Seq(Ops)
  BY DEF WorkerTypeOK, Op

\* Leaving an operation keeps the state of the worker well-formed.
LEMMA NextOperationType ==
  ASSUME WorkerTypeOK, NextOperation, pendingOps # <<>>
  PROVE  WorkerTypeOK' /\ WorkerBusy' /\ CountsBounded'
<1>1. Op \in Ops /\ Tail(pendingOps) \in Seq(Ops)
  BY OpType
<1>2. WorkerTypeOK'
  BY <1>1, EmptyTypes, SchedulerAssumption DEF WorkerTypeOK, NextOperation
<1>3. WorkerBusy'
  BY DEF NextOperation, WorkerBusy, InOperation
<1>4. CountsBounded'
  BY DEF NextOperation, CountsBounded, Settled, InFile, InOperation, NoResult
<1> QED BY <1>2, <1>3, <1>4

-----------------------------------------------------------------------------
(* The inductive invariant.                                                *)

LEMMA InitIInv == Init => IInv
<1> SUFFICES ASSUME Init PROVE IInv
  OBVIOUS
<1>1. FlagTypeOK
  BY DEF Init, FlagTypeOK
<1>2. OpsTypeOK
  BY DEF Init, OpsTypeOK
<1>3. EventsTypeOK
  BY SchedulerAssumption DEF Init, EventsTypeOK
<1>4. WorkerTypeOK
  BY EmptyTypes, SchedulerAssumption DEF Init, WorkerTypeOK
<1>5. WorkerBusy /\ CountsBounded
  BY DEF Init, WorkerBusy, CountsBounded, InOperation, InFile, Settled, NoResult
<1>6. UiInv
  BY EmptyTypes DEF Init, UiInv, UiTypeOK, ClientBusy
<1> QED BY <1>1, <1>2, <1>3, <1>4, <1>5, <1>6 DEF IInv, WorkerInv

\* What an action leaves alone keeps its part of the invariant.
LEMMA OpsKept ==
  ASSUME FlagTypeOK, OpsTypeOK, UNCHANGED <<opsVars, cancelEvent>>
  PROVE  FlagTypeOK' /\ OpsTypeOK'
<1>1. FlagTypeOK'
  BY DEF FlagTypeOK, opsVars
<1>2. OpsTypeOK'
  BY DEF OpsTypeOK, opsVars
<1> QED BY <1>1, <1>2

LEMMA EventsKept == ASSUME EventsTypeOK, UNCHANGED eventVars PROVE EventsTypeOK'
  BY DEF EventsTypeOK, eventVars

LEMMA UiKept == ASSUME UiInv, UNCHANGED uiVars PROVE UiInv'
  BY DEF UiInv, UiTypeOK, ClientBusy, uiVars, shownVars

LEMMA WorkerKept == ASSUME WorkerInv, UNCHANGED workerVars PROVE WorkerInv'
  BY DEF WorkerInv, WorkerTypeOK, WorkerBusy, CountsBounded, InOperation, InFile, Settled, Op,
         workerVars, workVars, fileVars

\* Falling asleep, waking up and leaving change where the worker is, and nothing else.
LEMMA IdleInv ==
  ASSUME WorkerInv, pc \in {"waiting", "asleep"}, pc' \in {"waiting", "asleep", "exited"},
         UNCHANGED <<workVars, fileVars>>
  PROVE  WorkerInv'
  BY DEF WorkerInv, WorkerTypeOK, WorkerBusy, CountsBounded, InOperation, InFile, Settled, Op,
         workVars, fileVars

\* What the worker does while it holds no operation, and the wakeups it may meet.
LEMMA IdleStep == ASSUME IInv, Sleep \/ TakeOps \/ Exit \/ SpuriousWakeup PROVE IInv'
<1> USE DEF IInv
<1>1. CASE Sleep
  <2>1. WorkerInv'
    BY <1>1, IdleInv DEF Sleep, WorkerAt
  <2> QED BY <1>1, <2>1, OpsKept, EventsKept, UiKept DEF Sleep
<1>2. CASE Exit
  <2>1. WorkerInv'
    BY <1>2, IdleInv DEF Exit, WorkerAt
  <2> QED BY <1>2, <2>1, OpsKept, EventsKept, UiKept DEF Exit
<1>3. CASE SpuriousWakeup
  <2>1. WorkerInv'
    BY <1>3, IdleInv DEF SpuriousWakeup, Notify, WorkerAt
  <2> QED BY <1>3, <2>1, OpsKept, EventsKept, UiKept DEF SpuriousWakeup
<1>4. CASE TakeOps
  <2>1. FlagTypeOK'
    BY <1>4 DEF TakeOps, FlagTypeOK
  <2>2. OpsTypeOK'
    BY <1>4 DEF TakeOps, OpsTypeOK
  <2>3. WorkerTypeOK'
    BY <1>4 DEF WorkerInv, WorkerTypeOK, OpsTypeOK, TakeOps, fileVars
  <2>4. WorkerBusy'
    BY <1>4 DEF TakeOps, WorkerBusy, InOperation
  <2>5. CountsBounded'
    BY <1>4 DEF WorkerInv, TakeOps, WorkerAt, CountsBounded, InOperation, InFile, Settled, NoResult, fileVars
  <2> QED BY <1>4, <2>1, <2>2, <2>3, <2>4, <2>5, EventsKept, UiKept DEF TakeOps, WorkerInv
<1> QED BY <1>1, <1>2, <1>3, <1>4

\* A step that ends the operation with one more event.
LEMMA EndStep ==
  ASSUME IInv, pendingOps # <<>>, NextOperation, NEW e \in Event, Signal(e),
         UNCHANGED <<opsVars, cancelEvent, uiVars>>
  PROVE  IInv'
<1>1. WorkerInv'
  BY NextOperationType DEF IInv, WorkerInv
<1> QED BY <1>1, OpsKept, SignalType, UiKept DEF IInv

\* A step within the operation with at most one more event.
LEMMA InnerStep ==
  ASSUME IInv, WorkerInv', EventsTypeOK', UNCHANGED <<opsVars, cancelEvent, uiVars>>
  PROVE  IInv'
  BY OpsKept, UiKept DEF IInv

\* Where the worker has an operation, its events are well-formed.
LEMMA EventTypes ==
  ASSUME IInv, pc \in InOperation
  PROVE  /\ pendingOps # <<>> /\ Op \in Ops
         /\ [type |-> "Progress", op |-> Op] \in Event
         /\ [type |-> "Canceled", op |-> Op] \in Event
         /\ [type |-> "Error", op |-> Op] \in Event
         /\ [type |-> "OperationCompleted", op |-> Op, r |-> result] \in Event
         /\ \A n \in 0 .. MaxFiles :
              [type |-> "OperationStarted", op |-> Op, n_files |-> n] \in Event
         /\ \A f \in 1 .. MaxFiles :
              [type |-> "FileStarted", op |-> Op, file |-> f] \in Event
         /\ pc \in InFile => \A s \in Status :
              [type |-> "FileCompleted", op |-> Op, file |-> file, status |-> s] \in Event
<1>1. pendingOps # <<>> /\ Op \in Ops
  BY OpType DEF IInv, WorkerInv, WorkerBusy
<1>2. result \in Result
  BY DEF IInv, WorkerInv, WorkerTypeOK
<1>3. pc \in InFile => file \in 1 .. MaxFiles
  BY SchedulerAssumption DEF IInv, WorkerInv, WorkerTypeOK, CountsBounded
<1> QED BY <1>1, <1>2, <1>3 DEF Event

\* Inside a file, the result has room for one more count.
LEMMA CountsRoom ==
  ASSUME WorkerInv, pendingOps # <<>>, pc \in InFile
  PROVE  /\ result \in Result /\ file \in 1 .. MaxFiles
         /\ result.ok + result.bad + result.missing < file
         /\ Op \in Creates => result.total < file
<1>1. result \in Result /\ file \in 0 .. MaxFiles
  BY DEF WorkerInv, WorkerTypeOK
<1>2. file > 0 /\ Settled = file - 1
  BY DEF WorkerInv, CountsBounded, Settled
<1>3. /\ result.ok + result.bad + result.missing <= Settled
      /\ Op \in Creates => result.total <= Settled
  BY DEF WorkerInv, CountsBounded
<1>4. /\ result.ok \in Nat /\ result.bad \in Nat /\ result.missing \in Nat /\ result.total \in Nat
      /\ file \in Nat /\ MaxFiles \in Nat /\ file <= MaxFiles
  BY <1>1, ResultFields, SchedulerAssumption
<1> QED BY <1>1, <1>2, <1>3, <1>4

\* So counting the file keeps the result well-formed.
LEMMA RoomCounted ==
  ASSUME WorkerInv, pendingOps # <<>>, pc \in InFile, NEW f \in {"ok", "bad", "missing"}
  PROVE  LET q == [result EXCEPT ![f] = @ + 1] IN
           /\ q \in Result
           /\ q.ok + q.bad + q.missing = result.ok + result.bad + result.missing + 1
           /\ q.total = result.total
<1>1. result \in Result /\ result.ok + result.bad + result.missing < MaxFiles
  BY CountsRoom, ResultFields, SchedulerAssumption
<1> QED BY <1>1, CountedType

\* The same for a file of a create, which the total counts as well.
LEMMA RoomCountedTotal ==
  ASSUME WorkerInv, pendingOps # <<>>, pc \in InFile, Op \in Creates, NEW f \in {"ok", "bad"}
  PROVE  LET q == [result EXCEPT ![f] = @ + 1, !.total = @ + 1] IN
           /\ q \in Result
           /\ q.ok + q.bad + q.missing = result.ok + result.bad + result.missing + 1
           /\ q.total = result.total + 1
<1>1. /\ result \in Result /\ result.ok + result.bad + result.missing < MaxFiles
      /\ result.total < MaxFiles
  BY CountsRoom, ResultFields, SchedulerAssumption
<1> QED BY <1>1, CountedTotalType

\* A count of the result goes up by one when the file it stands for is settled.
LEMMA CountStep ==
  ASSUME WorkerInv, pendingOps # <<>>, pc \in InFile, pc' = "files",
         UNCHANGED <<workVars, file>>, result' \in Result,
         result'.ok + result'.bad + result'.missing = result.ok + result.bad + result.missing + 1,
         Op \in Creates => result'.total <= result.total + 1
  PROVE  WorkerBusy' /\ CountsBounded'
<1>1. /\ result.ok + result.bad + result.missing < file
      /\ Op \in Creates => result.total < file
      /\ result \in Result /\ file \in Nat
  BY CountsRoom
<1>2. /\ result.ok \in Nat /\ result.bad \in Nat /\ result.missing \in Nat /\ result.total \in Nat
      /\ result'.ok \in Nat /\ result'.bad \in Nat /\ result'.missing \in Nat /\ result'.total \in Nat
  BY <1>1, ResultFields
<1>3. file' = file /\ pendingOps' = pendingOps /\ Op' = Op
  BY DEF Op, workVars
<1>4. Settled' = file
  BY <1>3 DEF Settled, InFile
<1>5. /\ result'.ok + result'.bad + result'.missing <= Settled'
      /\ Op \in Creates => result'.total <= Settled'
  BY SMTT(30), <1>1, <1>2, <1>4
<1>6. CountsBounded'
  BY <1>3, <1>5 DEF CountsBounded, InFile, InOperation
<1>7. WorkerBusy'
  BY <1>3 DEF WorkerBusy, InOperation
<1> QED BY <1>6, <1>7

\* A move within the operation that counts nothing.
LEMMA MoveStep ==
  ASSUME WorkerInv, pc \in InOperation \ {"operation"}, UNCHANGED <<workVars, entries, result>>,
         pc' \in InOperation \ {"operation"},
         file' \in 0 .. MaxFiles, reads' \in 0 .. MaxReads,
         hashResult' \in {"None", "DigestReady", "Canceled", "Error"},
         \/ pc \in InFile /\ pc' \in InFile /\ file' = file
         \/ pc = "files" /\ pc' = "open" /\ file' = file + 1
  PROVE  WorkerInv'
<1>1. WorkerTypeOK'
  BY DEF WorkerInv, WorkerTypeOK, InOperation, workVars
<1>2. WorkerBusy'
  BY DEF WorkerInv, WorkerBusy, InOperation, workVars
<1>3. file \in Nat
  BY DEF WorkerInv, WorkerTypeOK
<1>4. Settled' = Settled /\ (pc' \in InFile => file' > 0)
  <2>1. CASE pc \in InFile /\ pc' \in InFile /\ file' = file
    <3>1. file > 0
      BY <2>1 DEF WorkerInv, CountsBounded
    <3> QED BY <2>1, <3>1 DEF Settled
  <2>2. CASE pc = "files" /\ pc' = "open" /\ file' = file + 1
    BY <1>3, <2>2 DEF Settled, InFile
  <2> QED BY <2>1, <2>2
<1>5. CountsBounded'
  BY <1>4 DEF WorkerInv, CountsBounded, InOperation, InFile, Op, workVars
<1> QED BY <1>1, <1>2, <1>5 DEF WorkerInv

\* doVerify and doCreate begin.
LEMMA StartStep == ASSUME IInv, StartVerify \/ StartCreate PROVE IInv'
<1> PICK n \in 0 .. MaxFiles :
      StartOperation(n) /\ pc = "operation" /\ (Op \in Creates => n = 0)
  <2>1. CASE StartVerify
    BY <2>1, SchedulerAssumption DEF StartVerify, WorkerAt
  <2>2. CASE StartCreate
    BY <2>2, SchedulerAssumption DEF StartCreate, WorkerAt
  <2> QED BY <2>1, <2>2
<1>1. /\ pendingOps # <<>>
      /\ [type |-> "OperationStarted", op |-> Op, n_files |-> n] \in Event
  BY EventTypes DEF InOperation
<1>2. EventsTypeOK'
  BY <1>1 DEF IInv, EventsTypeOK, StartOperation, signalOperationStarted
<1> DEFINE q == [NoResult EXCEPT !.total = n]
<1>3. q \in Result /\ q.ok + q.bad + q.missing = 0 /\ q.total = n
  BY StartedResult
<1>4. result' = q
  BY DEF StartOperation
<1> HIDE DEF q
<1>5. WorkerTypeOK'
  BY <1>3, <1>4, SchedulerAssumption DEF IInv, WorkerInv, WorkerTypeOK, StartOperation, workVars
<1>6. WorkerBusy'
  BY <1>1 DEF WorkerBusy, InOperation, StartOperation, workVars
<1>7. Settled' = 0 /\ Op' = Op /\ pc' = "files"
  BY DEF Settled, InFile, Op, StartOperation, workVars
<1>8. CountsBounded'
  BY <1>3, <1>4, <1>7 DEF CountsBounded, InFile, InOperation
<1>9. UNCHANGED <<opsVars, cancelEvent, uiVars>>
  BY DEF StartOperation
<1> QED BY <1>2, <1>5, <1>6, <1>8, <1>9, InnerStep DEF WorkerInv

\* An exception ends the operation with an error event.
LEMMA RaiseStep == ASSUME IInv, Raise PROVE IInv'
<1>1. pc \in InOperation
  BY DEF Raise, WorkerAt, InOperation
<1>2. pendingOps # <<>> /\ [type |-> "Error", op |-> Op] \in Event
  BY <1>1, EventTypes
<1> QED BY <1>2, EndStep DEF Raise, signalError

\* The last event of an operation that runs to its end.
LEMMA CompleteStep == ASSUME IInv, CompleteOperation PROVE IInv'
<1>1. pc \in InOperation
  BY DEF CompleteOperation, WorkerAt, InOperation
<1>2. pendingOps # <<>> /\ [type |-> "OperationCompleted", op |-> Op, r |-> result] \in Event
  BY <1>1, EventTypes
<1> QED BY <1>2, EndStep DEF CompleteOperation, signalOperationCompleted

\* The next file begins.
LEMMA FileStep == ASSUME IInv, StartFile PROVE IInv'
<1>1. pc = "files" /\ pc' = "open" /\ file' = file + 1
  BY DEF StartFile, WorkerAt
<1>2. file \in Nat /\ entries \in 0 .. MaxFiles
  BY DEF IInv, WorkerInv, WorkerTypeOK
<1>3. file + 1 \in 1 .. MaxFiles
  <2>1. file < MaxFiles
    BY <1>2, SchedulerAssumption DEF StartFile
  <2> QED BY <1>2, <2>1, SchedulerAssumption
<1>4. [type |-> "FileStarted", op |-> Op, file |-> file + 1] \in Event
  BY <1>1, <1>3, EventTypes DEF InOperation
<1>5. EventsTypeOK'
  BY <1>4, SignalType DEF IInv, StartFile, signalFileStarted
<1>6. file' \in 0 .. MaxFiles
  BY <1>1, <1>3
<1>7. reads' \in 0 .. MaxReads /\ hashResult' \in {"None", "DigestReady", "Canceled", "Error"}
  BY DEF IInv, WorkerInv, WorkerTypeOK, StartFile
<1>8. WorkerInv'
  BY <1>1, <1>6, <1>7, MoveStep DEF IInv, StartFile, InOperation
<1> QED BY <1>5, <1>8, InnerStep DEF StartFile

\* A file that cannot be opened is reported and counted.
LEMMA OpenFailsStep == ASSUME IInv, OpenFails PROVE IInv'
<1>1. pc \in InFile /\ pc \in InOperation /\ pc' = "files"
  BY DEF OpenFails, WorkerAt, InFile, InOperation
<1>2. pendingOps # <<>>
  BY <1>1, EventTypes
<1>3. PICK s \in {"Missing", "Bad"} :
        signalFileCompleted(s) /\ Count(IF s = "Missing" THEN "missing" ELSE "bad")
  BY DEF OpenFails
<1>4. EventsTypeOK'
  <2>1. [type |-> "FileCompleted", op |-> Op, file |-> file, status |-> s] \in Event
    BY <1>1, EventTypes DEF Status
  <2> QED BY <1>3, <2>1, SignalType DEF IInv, signalFileCompleted
<1>5. PICK f \in {"ok", "bad", "missing"} : result' = [result EXCEPT ![f] = @ + 1]
  BY <1>3 DEF Count
<1>6. /\ result' \in Result /\ result'.total = result.total
      /\ result'.ok + result'.bad + result'.missing = result.ok + result.bad + result.missing + 1
  BY <1>1, <1>2, <1>5, RoomCounted DEF IInv
<1>7. WorkerBusy' /\ CountsBounded'
  <2>1. result'.total <= result.total + 1
    BY <1>1, <1>2, <1>6, CountsRoom, ResultFields DEF IInv
  <2> QED BY <1>1, <1>2, <1>6, <2>1, CountStep DEF IInv, OpenFails, workVars
<1>8. WorkerTypeOK'
  BY <1>6 DEF IInv, WorkerInv, WorkerTypeOK, OpenFails, workVars
<1> QED BY <1>4, <1>7, <1>8, InnerStep DEF OpenFails, WorkerInv

\* The file is open, or its size is not known.
LEMMA OpenStep == ASSUME IInv, Open PROVE IInv'
<1>1. pc = "open" /\ pc' \in {"hashing", "hashed"} /\ UNCHANGED <<workVars, entries, result, file>>
  BY DEF Open, WorkerAt
<1>2. /\ file' \in 0 .. MaxFiles /\ reads' \in 0 .. MaxReads
      /\ hashResult' \in {"None", "DigestReady", "Canceled", "Error"}
  BY DEF IInv, WorkerInv, WorkerTypeOK, Open
<1>3. WorkerInv'
  BY <1>1, <1>2, MoveStep DEF IInv, InOperation, InFile
<1>4. EventsTypeOK'
  BY EventsKept DEF IInv, Open
<1> QED BY <1>3, <1>4, InnerStep DEF Open

\* hashFile waits for a read, or returns.
LEMMA HashStep == ASSUME IInv, HashRead \/ HashStops PROVE IInv'
<1>1. pc = "hashing" /\ pc' \in {"hashing", "hashed"} /\ UNCHANGED <<workVars, entries, result, file>>
  BY DEF HashRead, HashStops, HashReturns, WorkerAt
<1>2. file \in 0 .. MaxFiles /\ reads \in 0 .. MaxReads /\ 0 \in 0 .. MaxReads
      /\ hashResult \in {"None", "DigestReady", "Canceled", "Error"}
  BY SchedulerAssumption DEF IInv, WorkerInv, WorkerTypeOK
<1>3. /\ file' \in 0 .. MaxFiles /\ reads' \in 0 .. MaxReads
      /\ hashResult' \in {"None", "DigestReady", "Canceled", "Error"}
  BY <1>1, <1>2, SchedulerAssumption DEF HashRead, HashStops, HashReturns
<1>4. WorkerInv'
  BY <1>1, <1>3, MoveStep DEF IInv, InOperation, InFile
<1>5. EventsTypeOK'
  <2>1. CASE UNCHANGED eventVars
    BY <2>1, EventsKept DEF IInv
  <2>2. CASE signalProgress
    <3>1. [type |-> "Progress", op |-> Op] \in Event
      BY <1>1, EventTypes DEF InOperation
    <3> QED BY <2>2, <3>1, SignalType DEF IInv, signalProgress
  <2> QED BY <2>1, <2>2 DEF HashRead, HashStops
<1>6. UNCHANGED <<opsVars, cancelEvent, uiVars>>
  BY DEF HashRead, HashStops
<1> QED BY <1>4, <1>5, <1>6, InnerStep

\* A file that was hashed is reported and counted.
LEMMA FileHashedStep == ASSUME IInv, FileHashed PROVE IInv'
<1>1. pc \in InFile /\ pc \in InOperation /\ pc' = "files"
  BY DEF FileHashed, WorkerAt, InFile, InOperation
<1>2. pendingOps # <<>>
  BY <1>1, EventTypes
<1>3. EventsTypeOK'
  <2>1. \E s \in Status : signalFileCompleted(s)
    BY DEF FileHashed, Status
  <2>2. \A s \in Status : [type |-> "FileCompleted", op |-> Op, file |-> file, status |-> s] \in Event
    BY <1>1, EventTypes
  <2> QED BY <2>1, <2>2, SignalType DEF IInv, signalFileCompleted
<1>4. /\ result' \in Result
      /\ result'.ok + result'.bad + result'.missing = result.ok + result.bad + result.missing + 1
      /\ Op \in Creates => result'.total <= result.total + 1
  <2>1. CASE Op \in Verifies /\ (Count("ok") \/ Count("bad"))
    <3>1. Op \notin Creates
      BY <2>1, SchedulerAssumption
    <3>2. PICK f \in {"ok", "bad"} : result' = [result EXCEPT ![f] = @ + 1]
      BY <2>1 DEF Count
    <3> QED BY <1>1, <1>2, <3>1, <3>2, RoomCounted DEF IInv
  <2>2. CASE Op \in Creates /\ result' = [result EXCEPT !.ok = @ + 1, !.total = @ + 1]
    <3>1. /\ result' \in Result /\ result'.total = result.total + 1
          /\ result'.ok + result'.bad + result'.missing = result.ok + result.bad + result.missing + 1
      BY <1>1, <1>2, <2>2, RoomCountedTotal DEF IInv
    <3>2. result.total \in Nat
      BY ResultFields DEF IInv, WorkerInv, WorkerTypeOK
    <3> QED BY <3>1, <3>2
  <2> QED BY <2>1, <2>2 DEF FileHashed
<1>5. WorkerBusy' /\ CountsBounded'
  BY <1>1, <1>2, <1>4, CountStep DEF IInv, FileHashed, workVars
<1>6. WorkerTypeOK'
  BY <1>4 DEF IInv, WorkerInv, WorkerTypeOK, FileHashed, workVars
<1> QED BY <1>3, <1>5, <1>6, InnerStep DEF FileHashed, WorkerInv

\* A file that could not be read ends a verify, and counts for a create.
LEMMA HashFailedStep == ASSUME IInv, HashFailed PROVE IInv'
<1>1. pc \in InFile /\ pc \in InOperation
  BY DEF HashFailed, WorkerAt, InFile, InOperation
<1>2. /\ pendingOps # <<>>
      /\ [type |-> "FileCompleted", op |-> Op, file |-> file, status |-> "Bad"] \in Event
  BY <1>1, EventTypes DEF Status
<1>3. CASE NextOperation
  BY <1>2, <1>3, EndStep DEF HashFailed, signalFileCompleted
<1>4. CASE /\ Op \in Creates
           /\ result' = [result EXCEPT !.bad = @ + 1, !.total = @ + 1]
           /\ hashResult' = "None"
           /\ pc' = "files"
           /\ UNCHANGED <<workVars, entries, file, reads>>
  <2>1. EventsTypeOK'
    BY <1>2, SignalType DEF IInv, HashFailed, signalFileCompleted
  <2>2. /\ result' \in Result /\ result'.total = result.total + 1
        /\ result'.ok + result'.bad + result'.missing = result.ok + result.bad + result.missing + 1
    BY <1>1, <1>2, <1>4, RoomCountedTotal DEF IInv
  <2>3. result'.total <= result.total + 1
    BY SMTT(30), <2>2, ResultFields DEF IInv, WorkerInv, WorkerTypeOK
  <2>4. WorkerBusy' /\ CountsBounded'
    BY <1>1, <1>2, <1>4, <2>2, <2>3, CountStep DEF IInv
  <2>5. WorkerTypeOK'
    BY <1>4, <2>2 DEF IInv, WorkerInv, WorkerTypeOK, workVars
  <2> QED BY <2>1, <2>4, <2>5, InnerStep DEF HashFailed, WorkerInv
<1> QED BY <1>3, <1>4 DEF HashFailed

\* A cancel ends a create; a verify goes on to report what it has.
LEMMA HashCanceledStep == ASSUME IInv, HashCanceled PROVE IInv'
<1>1. pc \in InFile /\ pc \in InOperation
  BY DEF HashCanceled, WorkerAt, InFile, InOperation
<1>2. pendingOps # <<>> /\ [type |-> "Canceled", op |-> Op] \in Event
  BY <1>1, EventTypes
<1>3. CASE NextOperation
  BY <1>2, <1>3, EndStep DEF HashCanceled, signalCanceled
<1>4. CASE /\ Op \in Verifies
           /\ result' = [result EXCEPT !.was_canceled = TRUE]
           /\ hashResult' = "None"
           /\ pc' = "canceled"
           /\ UNCHANGED <<workVars, entries, file, reads>>
  <2>1. EventsTypeOK'
    BY <1>2, SignalType DEF IInv, HashCanceled, signalCanceled
  <2>2. result \in Result
    BY DEF IInv, WorkerInv, WorkerTypeOK
  <2>3. /\ result' \in Result
        /\ result'.ok = result.ok /\ result'.bad = result.bad
        /\ result'.missing = result.missing /\ result'.total = result.total
    BY <1>4, <2>2, CanceledType
  <2>4. WorkerBusy'
    BY <1>2, <1>4 DEF WorkerBusy, InOperation, workVars
  <2>5. Settled' = Settled /\ Op' = Op /\ pc \in InFile /\ pc' \in InFile
    BY <1>1, <1>4 DEF Settled, InFile, Op, workVars
  <2>6. CountsBounded'
    BY <1>1, <1>4, <2>3, <2>5 DEF IInv, WorkerInv, CountsBounded, InFile, InOperation, workVars
  <2>7. WorkerTypeOK'
    BY <1>4, <2>3 DEF IInv, WorkerInv, WorkerTypeOK, workVars
  <2> QED BY <2>1, <2>4, <2>6, <2>7, InnerStep DEF HashCanceled, WorkerInv
<1> QED BY <1>3, <1>4 DEF HashCanceled

-----------------------------------------------------------------------------
(* The steps of the thread that owns the scheduler.                        *)

\* A notification wakes the worker up, or finds it awake.
LEMMA NotifyInv ==
  ASSUME WorkerInv, Notify, UNCHANGED <<workVars, fileVars>>
  PROVE  WorkerInv'
<1>1. CASE pc = "asleep"
  BY <1>1, IdleInv DEF Notify, WorkerAt
<1>2. CASE pc # "asleep"
  BY <1>2, WorkerKept DEF Notify, WorkerAt, workerVars
<1> QED BY <1>1, <1>2

\* start() brings the worker to its wait.
LEMMA StartsStep == ASSUME IInv, start PROVE IInv'
<1>1. FlagTypeOK'
  BY DEF IInv, FlagTypeOK, start, opsVars
<1>2. OpsTypeOK'
  BY DEF IInv, OpsTypeOK, start, opsVars
<1>3. WorkerInv'
  BY DEF IInv, start, WorkerAt, WorkerInv, WorkerTypeOK, WorkerBusy, CountsBounded, InOperation,
         InFile, Settled, Op, workVars, fileVars
<1> QED BY <1>1, <1>2, <1>3, EventsKept, UiKept DEF IInv, start

\* A posted operation joins the queue.
LEMMA PostStep == ASSUME IInv, NEW op \in Ops, Post(op) PROVE IInv'
<1>1. FlagTypeOK'
  BY DEF IInv, FlagTypeOK, Post
<1>2. OpsTypeOK'
  BY DEF IInv, OpsTypeOK, Post
<1>3. WorkerInv'
  BY NotifyInv DEF IInv, Post
<1> QED BY <1>1, <1>2, <1>3, EventsKept, UiKept DEF IInv, Post

\* Setting the cancel event leaves everything else alone.
LEMMA PostCancelStep == ASSUME IInv, PostCancel PROVE IInv'
<1>1. FlagTypeOK'
  BY DEF IInv, FlagTypeOK, PostCancel, opsVars
<1>2. OpsTypeOK'
  BY DEF IInv, OpsTypeOK, PostCancel, SetCancelEvent, opsVars
<1> QED BY <1>1, <1>2, WorkerKept, EventsKept, UiKept DEF IInv, PostCancel

\* run() takes all events there are, and dispatches only if there are any.
LEMMA SwapEventsStep == ASSUME IInv, SwapEvents PROVE IInv'
<1>1. EventsTypeOK'
  BY DEF IInv, EventsTypeOK, SwapEvents
<1>2. UiInv'
  BY DEF IInv, UiInv, UiTypeOK, ClientBusy, EventsTypeOK, SwapEvents, shownVars
<1> QED BY <1>1, <1>2, OpsKept, WorkerKept DEF IInv, SwapEvents

\* A callback updates what the handler shows.
LEMMA DispatchEventStep == ASSUME IInv, DispatchEvent PROVE IInv'
<1> DEFINE e == Head(pendingEvents)
<1>1. /\ client = "run" /\ shown' = Seen(shown, e)
      /\ reported' = IF IsCurrent(e.op) THEN reported ELSE Append(reported, e.op)
      /\ pendingEvents' = Tail(pendingEvents)
      /\ client' = IF Tail(pendingEvents) = <<>> THEN "free" ELSE "run"
  BY DEF DispatchEvent
<1>2. e \in Event /\ Tail(pendingEvents) \in Seq(Event)
  BY <1>1 DEF IInv, UiInv, UiTypeOK, ClientBusy
<1>3. e.op \in Ops
  BY <1>2 DEF Event
<1> HIDE DEF e
<1>4. shown' \in View
  BY <1>1, <1>2, SeenType DEF IInv, UiInv, UiTypeOK
<1>5. reported' \in Seq(Ops)
  BY <1>1, <1>3 DEF IInv, UiInv, UiTypeOK
<1>6. UiInv'
  BY <1>1, <1>2, <1>4, <1>5 DEF UiInv, UiTypeOK, ClientBusy
<1> QED BY <1>6, OpsKept, EventsKept, WorkerKept DEF IInv, DispatchEvent

\* Shutting down, and taking a wakeup out of the message queue.
LEMMA ShutdownStep ==
  ASSUME IInv, RequestShutdown \/ CancelForShutdown \/ Join \/ TakeWakeup PROVE IInv'
<1>1. CASE RequestShutdown
  <2>1. FlagTypeOK'
    BY <1>1 DEF FlagTypeOK, RequestShutdown
  <2>2. OpsTypeOK'
    BY <1>1 DEF IInv, OpsTypeOK, RequestShutdown
  <2>3. UiInv'
    BY <1>1 DEF IInv, UiInv, UiTypeOK, ClientBusy, RequestShutdown, shownVars
  <2> QED BY <1>1, <2>1, <2>2, <2>3, EventsKept, WorkerKept DEF IInv, RequestShutdown
<1>2. CASE CancelForShutdown
  <2>1. FlagTypeOK'
    BY <1>2 DEF IInv, FlagTypeOK, CancelForShutdown, opsVars
  <2>2. OpsTypeOK'
    BY <1>2 DEF IInv, OpsTypeOK, CancelForShutdown, SetCancelEvent, opsVars
  <2>3. UiInv'
    BY <1>2 DEF IInv, UiInv, UiTypeOK, ClientBusy, CancelForShutdown, shownVars
  <2>4. WorkerInv'
    BY <1>2, NotifyInv DEF IInv, CancelForShutdown
  <2> QED BY <1>2, <2>1, <2>2, <2>3, <2>4, EventsKept DEF IInv, CancelForShutdown
<1>3. CASE Join
  <2>1. UiInv'
    BY <1>3 DEF IInv, UiInv, UiTypeOK, ClientBusy, Join, shownVars
  <2> QED BY <1>3, <2>1, OpsKept, EventsKept, WorkerKept DEF IInv, Join
<1>4. CASE TakeWakeup
  <2>1. EventsTypeOK'
    BY <1>4, SchedulerAssumption DEF IInv, EventsTypeOK, TakeWakeup
  <2> QED BY <1>4, <2>1, OpsKept, UiKept, WorkerKept DEF IInv, TakeWakeup
<1> QED BY <1>1, <1>2, <1>3, <1>4

\* Every step of the specification preserves the inductive invariant.
LEMMA NextIInv == ASSUME IInv, [Next]_vars PROVE IInv'
<1>1. ASSUME Worker \/ SpuriousWakeup PROVE IInv'
  BY <1>1, IdleStep, StartStep, RaiseStep, FileStep, OpenFailsStep, OpenStep, HashStep,
     FileHashedStep, HashFailedStep, HashCanceledStep, CompleteStep DEF Worker
<1>2. ASSUME Client PROVE IInv'
  BY <1>2, StartsStep, PostStep, PostCancelStep, SwapEventsStep, DispatchEventStep, ShutdownStep
     DEF Client
<1>3. ASSUME UNCHANGED vars PROVE IInv'
  <2>1. UNCHANGED <<opsVars, cancelEvent, eventVars, workerVars, uiVars>>
    BY <1>3 DEF vars
  <2> QED BY <2>1, OpsKept, EventsKept, WorkerKept, UiKept DEF IInv
<1> QED BY <1>1, <1>2, <1>3 DEF Next

-----------------------------------------------------------------------------
(* Theorems.                                                               *)

\* The inductive invariant holds in every reachable state.
LEMMA Invariance == Spec => []IInv
<1>1. Init => IInv
  BY InitIInv
<1>2. IInv /\ [Next]_vars => IInv'
  BY NextIInv
<1> QED BY <1>1, <1>2, PTL DEF Spec

\* The scheduler is type-correct: worker() and the EventHandler only ever see
\* operations and events of the right shape, the counts of a result never
\* exceed the number of files, and the message queue its limit.
THEOREM TypeCorrect == Spec => []TypeOK
<1>1. IInv => TypeOK
  BY DEF IInv, WorkerInv, UiInv, TypeOK
<1> QED BY <1>1, Invariance, PTL

\* No file is counted twice and none before it was started, for a verify and
\* for a create.
THEOREM CountsAreBounded == Spec => []CountsBounded
<1>1. IInv => CountsBounded
  BY DEF IInv, WorkerInv
<1> QED BY <1>1, Invariance, PTL

\* Moving the first operation at hand to the finished ones keeps the order.
LEMMA FinishInOrder ==
  ASSUME NEW s \in Seq(Ops), NEW t \in Seq(Ops), t # <<>>
  PROVE  Append(s, Head(t)) \o Tail(t) = s \o t
<1>1. Head(t) \in Ops /\ Tail(t) \in Seq(Ops)
  OBVIOUS
<1>2. Append(s, Head(t)) \o Tail(t) = (s \o <<Head(t)>>) \o Tail(t)
  BY <1>1, AppendIsConcat
<1>3. (s \o <<Head(t)>>) \o Tail(t) = s \o (<<Head(t)>> \o Tail(t))
  BY <1>1, ConcatAssociative
<1>4. <<Head(t)>> \o Tail(t) = t
  BY <1>1
<1> QED BY <1>2, <1>3, <1>4

\* The order of the work, step by step.
LEMMA NextInOrder == ASSUME IInv, WorkInOrder, [Next]_vars PROVE WorkInOrder'
<1>1. finished \in Seq(Ops) /\ pendingOps \in Seq(Ops) /\ opsQueue \in Seq(Ops)
  BY DEF IInv, WorkerInv, WorkerTypeOK, OpsTypeOK
<1>2. CASE UNCHANGED <<opsQueue, posted, workVars>>
  BY <1>2 DEF WorkInOrder, workVars
<1>3. CASE TakeOps
  <2>1. pendingOps = <<>>
    BY <1>3 DEF IInv, WorkerInv, WorkerBusy, TakeOps, WorkerAt, InOperation
  <2>2. finished \o pendingOps = finished /\ finished \o opsQueue \in Seq(Ops)
    BY <1>1, <2>1, ConcatEmptySeq, ConcatProperties
  <2>3. (finished \o opsQueue) \o <<>> = finished \o opsQueue
    BY <2>2, ConcatEmptySeq
  <2>4. posted' = posted /\ finished' = finished /\ pendingOps' = opsQueue /\ opsQueue' = <<>>
    BY <1>3 DEF TakeOps
  <2> QED BY <2>2, <2>3, <2>4 DEF WorkInOrder
<1>4. CASE NextOperation /\ pc \in InOperation /\ UNCHANGED opsVars
  <2>1. pendingOps # <<>>
    BY <1>4, EventTypes
  <2>2. /\ posted' = posted /\ opsQueue' = opsQueue
        /\ finished' = Append(finished, Head(pendingOps)) /\ pendingOps' = Tail(pendingOps)
    BY <1>4 DEF NextOperation, Op, opsVars
  <2>3. finished' \o pendingOps' = finished \o pendingOps
    BY <1>1, <2>1, <2>2, FinishInOrder
  <2> QED BY <2>2, <2>3 DEF WorkInOrder
<1>5. ASSUME NEW op \in Ops, Post(op) PROVE WorkInOrder'
  <2>1. /\ posted' = Append(posted, op) /\ opsQueue' = Append(opsQueue, op)
        /\ finished' = finished /\ pendingOps' = pendingOps
    BY <1>5 DEF Post, workVars
  <2> DEFINE work == finished \o pendingOps
  <2>2. work \in Seq(Ops)
    BY <1>1, ConcatProperties
  <2> HIDE DEF work
  <2>3. work \o Append(opsQueue, op) = Append(work \o opsQueue, op)
    <3>1. work \o Append(opsQueue, op) = work \o (opsQueue \o <<op>>)
      BY <1>1, AppendIsConcat
    <3>2. work \o (opsQueue \o <<op>>) = (work \o opsQueue) \o <<op>>
      BY <1>1, <2>2, ConcatAssociative
    <3>3. work \o opsQueue \in Seq(Ops)
      BY <1>1, <2>2, ConcatProperties
    <3> QED BY <3>1, <3>2, <3>3, AppendIsConcat
  <2> QED BY <2>1, <2>3 DEF WorkInOrder, work
<1>6. ASSUME Worker PROVE WorkInOrder'
  <2>1. ASSUME \/ Sleep \/ Exit \/ StartVerify \/ StartCreate \/ StartFile \/ OpenFails \/ Open
               \/ HashRead \/ HashStops \/ FileHashed
        PROVE  WorkInOrder'
    <3>1. UNCHANGED <<opsQueue, posted, workVars>>
      BY <2>1 DEF Sleep, Exit, StartVerify, StartCreate, StartOperation, StartFile, OpenFails,
                  Open, HashRead, HashStops, FileHashed, opsVars
    <3> QED BY <1>2, <3>1
  <2>2. ASSUME Raise \/ CompleteOperation \/ HashFailed \/ HashCanceled PROVE WorkInOrder'
    <3>1. pc \in InOperation /\ UNCHANGED opsVars
      BY <2>2 DEF Raise, CompleteOperation, HashFailed, HashCanceled, WorkerAt, InOperation
    <3>2. NextOperation \/ UNCHANGED workVars
      BY <2>2 DEF Raise, CompleteOperation, HashFailed, HashCanceled
    <3> QED BY <1>2, <1>4, <3>1, <3>2 DEF opsVars
  <2> QED BY <1>3, <1>6, <2>1, <2>2 DEF Worker
<1>7. ASSUME \/ SpuriousWakeup \/ start \/ PostCancel \/ SwapEvents \/ DispatchEvent
             \/ RequestShutdown \/ CancelForShutdown \/ Join \/ TakeWakeup \/ UNCHANGED vars
      PROVE  WorkInOrder'
  <2>1. UNCHANGED <<opsQueue, posted, workVars>>
    BY <1>7 DEF SpuriousWakeup, start, PostCancel, SwapEvents, DispatchEvent, RequestShutdown,
                CancelForShutdown, Join, TakeWakeup, opsVars, workerVars, vars
  <2> QED BY <1>2, <2>1
<1> QED BY <1>5, <1>6, <1>7 DEF Next, Client

\* Across batches, exceptions and cancels, the worker carries out what was
\* posted, each operation once and in posting order.
THEOREM WorkStaysInOrder == Spec => []WorkInOrder
<1>1. Init => WorkInOrder
  BY DEF Init, WorkInOrder
<1>2. IInv /\ WorkInOrder /\ [Next]_vars => WorkInOrder'
  BY NextInOrder
<1> QED BY <1>1, <1>2, Invariance, PTL DEF Spec

-----------------------------------------------------------------------------
(***************************************************************************)
(* The OperationScheduler implements EventProtocol: what an EventHandler   *)
(* receives is in order and complete, however the worker thread, the       *)
(* queues and the thread that runs the callbacks interleave.               *)
(***************************************************************************)

(* The invariant: the events that were signaled and not yet dispatched     *)
(* lead, each by a callback the contract allows, from what the handler     *)
(* shows to where the worker is.                                           *)

\* The events on their way, oldest first.
OnTheWay == pendingEvents \o eventsQueue

UnderWay == InOperation \ {"operation"}

\* The event e takes a handler that shows v and has heard of the first m
\* operations to the view w and the first n operations, as the contract allows.
Allowed(v, m, e, w, n) ==
  /\ w = Seen(v, e)
  /\ n \in 1 .. Len(posted) /\ posted[n] = e.op
  /\ \/ /\ n = m + 1
        /\ \/ e.type = "OperationStarted" /\ (e.op \in Creates => e.n_files = 0)
           \/ e.type = "Error"
     \/ /\ n = m
        /\ \/ e.type = "Progress" /\ v.phase = "InFile"
           \/ /\ e.type = "FileStarted" /\ v.phase = "Started" /\ e.file = v.file + 1
              /\ e.op \in Verifies => v.file < v.n_files
           \/ /\ e.type = "FileCompleted" /\ v.phase = "InFile"
              /\ e.status = "Missing" => e.op \in Verifies
           \/ e.type = "Canceled" /\ v.phase = "InFile"
           \/ e.type = "Error" /\ v.phase \in {"Started", "InFile"}
           \/ /\ e.type = "OperationCompleted"
              /\ e.r.ok = v.ok /\ e.r.bad = v.bad /\ e.r.missing = v.missing
              /\ \/ /\ v.phase = "Started" /\ e.r.was_canceled = v.was_canceled
                    /\ v.ok + v.bad + v.missing = v.file
                    /\ e.op \in Verifies => v.file = v.n_files
                 \/ /\ v.phase = "Canceled" /\ e.r.was_canceled /\ e.op \in Verifies
                    /\ v.ok + v.bad + v.missing = v.file - 1

\* The worker is where a handler would think it is that has received everything:
\* it shows v and has heard of m operations.
WorkerShows(v, m) ==
  /\ m = Len(finished) + (IF pc \in UnderWay THEN 1 ELSE 0)
  /\ pc \in UnderWay =>
       /\ v.phase = CASE pc = "files" -> "Started" [] pc = "canceled" -> "Canceled" [] OTHER -> "InFile"
       /\ v.n_files = entries /\ v.file = file
       /\ v.ok = result.ok /\ v.bad = result.bad /\ v.missing = result.missing
       /\ ~v.was_canceled /\ (result.was_canceled <=> pc = "canceled")
       /\ v.ok + v.bad + v.missing = Settled
       /\ Op \in Creates => entries = 0 /\ pc # "canceled"

\* views and heard are what the handler will go through.
Leads(views, heard) ==
  /\ views \in [0 .. Len(OnTheWay) -> View]
  /\ heard \in [0 .. Len(OnTheWay) -> Nat]
  /\ views[0] = shown /\ heard[0] = Len(reported)
  /\ \A k \in 1 .. Len(OnTheWay) :
       Allowed(views[k - 1], heard[k - 1], OnTheWay[k], views[k], heard[k])
  /\ WorkerShows(views[Len(OnTheWay)], heard[Len(OnTheWay)])

PostedOnce == \A i, j \in 1 .. Len(posted) : posted[i] = posted[j] => i = j

Dispatching == client = "run" <=> pendingEvents # <<>>

WayInv ==
  /\ PostedOnce /\ Dispatching /\ ReportedInOrder
  /\ \E views, heard : Leads(views, heard)

FullInv == IInv /\ WorkInOrder /\ WayInv

-----------------------------------------------------------------------------
(* A callback that is allowed is a step of the contract.                   *)

\* What PostedOnce and ReportedInOrder say of the operation of an event.
LEMMA OperationOfEvent ==
  ASSUME FullInv, NEW n \in 1 .. Len(posted)
  PROVE  /\ reported \in Seq(Ops) /\ Len(reported) \in Nat
         /\ n = Len(reported) => reported # <<>> /\ reported[Len(reported)] = posted[n]
         /\ n = Len(reported) + 1 =>
              /\ posted[n] \notin EventHandlerContract!ToSet(reported)
              /\ ~IsCurrent(posted[n])
<1>1. reported \in Seq(Ops) /\ posted \in Seq(Ops)
  BY DEF FullInv, IInv, UiInv, UiTypeOK, OpsTypeOK
<1>2. Len(reported) \in Nat /\ Len(posted) \in Nat /\ DOMAIN reported = 1 .. Len(reported)
  BY <1>1, LenProperties
<1>3. Len(reported) <= Len(posted) /\ reported = SubSeq(posted, 1, Len(reported))
  BY DEF FullInv, WayInv, ReportedInOrder
<1> DEFINE m == Len(reported)
<1>4. \A i \in 1 .. m : reported[i] = posted[i]
  <2>1. \A i \in 1 .. m : posted[i] \in Ops
    BY <1>1, <1>2, <1>3, ElementOfSeq
  <2>2. \A i \in 1 .. m - 1 + 1 : SubSeq(posted, 1, m)[i] = posted[1 + i - 1]
    BY <1>2, <2>1, SubSeqProperties
  <2> QED BY <1>2, <1>3, <2>2
<1>5. ASSUME n = m + 1, NEW i \in 1 .. m PROVE reported[i] # posted[n]
  BY <1>2, <1>3, <1>4, <1>5 DEF FullInv, WayInv, PostedOnce
<1>6. n = m => reported # <<>> /\ reported[m] = posted[n]
  BY <1>1, <1>2, <1>4
<1>7. n = m + 1 => posted[n] \notin EventHandlerContract!ToSet(reported)
  BY <1>2, <1>5 DEF EventHandlerContract!ToSet
<1>8. n = m + 1 => ~IsCurrent(posted[n])
  <2>1. reported # <<>> => m \in 1 .. m
    BY <1>1, EmptySeq
  <2> QED BY <1>5, <2>1 DEF IsCurrent
<1> QED BY <1>1, <1>2, <1>6, <1>7, <1>8

LEMMA AllowedIsStep ==
  ASSUME FullInv, NEW e \in Event, NEW n \in Nat, NEW w,
         Allowed(shown, Len(reported), e, w, n), shown' = w,
         reported' = IF n = Len(reported) THEN reported ELSE Append(reported, e.op)
  PROVE  EventHandlerContract!Next \/ UNCHANGED <<shown, reported>>
<1> DEFINE m == Len(reported)
<1>1. /\ e.op \in Ops /\ shown \in View /\ shown' = Seen(shown, e)
      /\ n \in 1 .. Len(posted) /\ posted[n] = e.op
      /\ m \in Nat
  BY OperationOfEvent DEF Event, FullInv, IInv, UiInv, UiTypeOK, Allowed
<1>2. CASE n = m + 1
  <2>1. EventHandlerContract!Another(e.op)
    BY <1>1, <1>2, OperationOfEvent DEF EventHandlerContract!Another
  <2>2. CASE e.type = "OperationStarted" /\ (e.op \in Creates => e.n_files = 0)
    <3>1. e.n_files \in 0 .. MaxFiles
      BY <2>2 DEF Event
    <3>2. shown' = [phase |-> "Started", n_files |-> e.n_files, file |-> 0,
                    ok |-> 0, bad |-> 0, missing |-> 0, was_canceled |-> FALSE]
      BY <1>1, <2>2 DEF Seen, FreshView
    <3>3. EventHandlerContract!onOperationStarted(e.op, e.n_files)
      BY <2>1, <2>2, <3>2 DEF EventHandlerContract!onOperationStarted
    <3> QED BY <1>1, <3>1, <3>3 DEF EventHandlerContract!Next, Ops
  <2>3. CASE e.type = "Error"
    <3>1. shown' = [shown EXCEPT !.phase = "Failed"]
      BY <1>1, <2>3 DEF Seen
    <3>2. EventHandlerContract!onError(e.op)
      BY <2>1, <3>1 DEF EventHandlerContract!onError
    <3> QED BY <1>1, <3>2 DEF EventHandlerContract!Next, Ops
  <2> QED BY <1>1, <1>2, <2>2, <2>3 DEF Allowed
<1>3. CASE n = m
  <2>1. /\ reported # <<>> /\ EventHandlerContract!Last(reported) = e.op /\ UNCHANGED reported
        /\ EventHandlerContract!ByVerify <=> e.op \in Verifies
    BY <1>1, <1>3, OperationOfEvent DEF EventHandlerContract!Last, EventHandlerContract!ByVerify
  <2>2. \A p : EventHandlerContract!In(p) <=> shown.phase = p
    BY <2>1 DEF EventHandlerContract!In
  <2>3. CASE e.type = "Progress"
    BY <1>1, <2>1, <2>3 DEF Seen
  <2>4. CASE e.type = "FileStarted" /\ shown.phase = "Started" /\ e.file = shown.file + 1
             /\ (e.op \in Verifies => shown.file < shown.n_files)
    <3>1. shown' = [shown EXCEPT !.phase = "InFile", !.file = @ + 1]
      BY <1>1, <2>4 DEF Seen
    <3>2. EventHandlerContract!onFileStarted
      BY <2>1, <2>2, <2>4, <3>1 DEF EventHandlerContract!onFileStarted
    <3> QED BY <3>2 DEF EventHandlerContract!Next
  <2>5. CASE e.type = "FileCompleted" /\ shown.phase = "InFile"
             /\ (e.status = "Missing" => e.op \in Verifies)
    <3>1. e.status \in {"Ok", "Bad", "Missing"}
      BY <2>5 DEF Event, Status
    <3>2. shown' = [shown EXCEPT !.phase = "Started",
                                 !.ok = IF e.status = "Ok" THEN @ + 1 ELSE @,
                                 !.bad = IF e.status = "Bad" THEN @ + 1 ELSE @,
                                 !.missing = IF e.status = "Missing" THEN @ + 1 ELSE @]
      BY <1>1, <2>5 DEF Seen
    <3>3. \/ e.status = "Ok" /\ shown' = [shown EXCEPT !.phase = "Started", !["ok"] = @ + 1]
          \/ e.status = "Bad" /\ shown' = [shown EXCEPT !.phase = "Started", !["bad"] = @ + 1]
          \/ e.status = "Missing" /\ shown' = [shown EXCEPT !.phase = "Started", !["missing"] = @ + 1]
      <4>1. CASE e.status = "Ok"
        <5>1. shown' = [shown EXCEPT !.phase = "Started", !.ok = @ + 1, !.bad = @, !.missing = @]
          BY <3>2, <4>1
        <5>2. shown' = [shown EXCEPT !.phase = "Started", !["ok"] = @ + 1]
          BY <1>1, <5>1 DEF View
        <5> QED BY <4>1, <5>2
      <4>2. CASE e.status = "Bad"
        <5>1. shown' = [shown EXCEPT !.phase = "Started", !.ok = @, !.bad = @ + 1, !.missing = @]
          BY <3>2, <4>2
        <5>2. shown' = [shown EXCEPT !.phase = "Started", !["bad"] = @ + 1]
          BY <1>1, <5>1 DEF View
        <5> QED BY <4>2, <5>2
      <4>3. CASE e.status = "Missing"
        <5>1. shown' = [shown EXCEPT !.phase = "Started", !.ok = @, !.bad = @, !.missing = @ + 1]
          BY <3>2, <4>3
        <5>2. shown' = [shown EXCEPT !.phase = "Started", !["missing"] = @ + 1]
          BY <1>1, <5>1 DEF View
        <5> QED BY <4>3, <5>2
      <4> QED BY <3>1, <4>1, <4>2, <4>3
    <3>4. \E status \in {"ok", "bad", "missing"} : EventHandlerContract!onFileCompleted(status)
      BY <2>1, <2>2, <2>5, <3>3 DEF EventHandlerContract!onFileCompleted
    <3> QED BY <3>4 DEF EventHandlerContract!Next
  <2>6. CASE e.type = "Canceled" /\ shown.phase = "InFile"
    <3>1. shown' = [shown EXCEPT !.phase = "Canceled"]
      BY <1>1, <2>6 DEF Seen
    <3>2. EventHandlerContract!onCanceled
      BY <2>1, <2>2, <2>6, <3>1 DEF EventHandlerContract!onCanceled, EventHandlerContract!Continue
    <3> QED BY <3>2 DEF EventHandlerContract!Next
  <2>7. CASE e.type = "Error" /\ shown.phase \in {"Started", "InFile"}
    <3>1. shown' = [shown EXCEPT !.phase = "Failed"]
      BY <1>1, <2>7 DEF Seen
    <3>2. EventHandlerContract!onError(e.op)
      BY <2>1, <2>2, <2>7, <3>1 DEF EventHandlerContract!onError, EventHandlerContract!Continue
    <3> QED BY <1>1, <3>2 DEF EventHandlerContract!Next, Ops
  <2>8. CASE /\ e.type = "OperationCompleted"
             /\ e.r.ok = shown.ok /\ e.r.bad = shown.bad /\ e.r.missing = shown.missing
             /\ \/ /\ shown.phase = "Started" /\ e.r.was_canceled = shown.was_canceled
                   /\ shown.ok + shown.bad + shown.missing = shown.file
                   /\ e.op \in Verifies => shown.file = shown.n_files
                \/ /\ shown.phase = "Canceled" /\ e.r.was_canceled /\ e.op \in Verifies
                   /\ shown.ok + shown.bad + shown.missing = shown.file - 1
    <3>1. shown' = [shown EXCEPT !.phase = "Completed", !.ok = e.r.ok, !.bad = e.r.bad,
                                 !.missing = e.r.missing, !.was_canceled = e.r.was_canceled]
      BY <1>1, <2>8 DEF Seen
    <3>2. shown' = [shown EXCEPT !.phase = "Completed", !.was_canceled = e.r.was_canceled]
      BY <1>1, <2>8, <3>1 DEF View
    <3>3. CASE shown.phase = "Started"
      <4>1. shown' = [shown EXCEPT !.phase = "Completed"]
        BY <1>1, <2>8, <3>2, <3>3 DEF View
      <4>2. EventHandlerContract!onOperationCompleted
        BY <2>1, <2>2, <2>8, <3>3, <4>1
           DEF EventHandlerContract!onOperationCompleted, EventHandlerContract!Reported,
               EventHandlerContract!Continue
      <4> QED BY <4>2 DEF EventHandlerContract!Next
    <3>4. CASE shown.phase = "Canceled"
      <4>1. shown' = [shown EXCEPT !.phase = "Completed", !.was_canceled = TRUE]
        <5>1. e.r.was_canceled = TRUE
          BY <2>8, <3>4 DEF Event, Result
        <5> QED BY <3>2, <5>1
      <4>2. EventHandlerContract!onOperationCompleted
        BY <2>1, <2>2, <2>8, <3>4, <4>1
           DEF EventHandlerContract!onOperationCompleted, EventHandlerContract!Reported
      <4> QED BY <4>2 DEF EventHandlerContract!Next
    <3> QED BY <2>8, <3>3, <3>4
  <2> QED BY <1>1, <1>3, <2>3, <2>4, <2>5, <2>6, <2>7, <2>8 DEF Allowed
<1> QED BY <1>2, <1>3 DEF Allowed

-----------------------------------------------------------------------------
(* The events on their way.                                                *)

LEMMA OnTheWayType ==
  ASSUME IInv
  PROVE  /\ OnTheWay \in Seq(Event) /\ Len(OnTheWay) \in Nat
         /\ pendingEvents \in Seq(Event) /\ eventsQueue \in Seq(Event)
<1>1. pendingEvents \in Seq(Event) /\ eventsQueue \in Seq(Event)
  BY DEF IInv, EventsTypeOK, UiInv, UiTypeOK
<1> QED BY <1>1, ConcatProperties, LenProperties DEF OnTheWay

\* A signal prolongs them by a callback that is allowed where the worker was.
LEMMA WaySignaled ==
  ASSUME IInv, NEW e \in Event, NEW views, NEW heard, Leads(views, heard),
         OnTheWay' = Append(OnTheWay, e), UNCHANGED <<shown, reported, posted>>,
         \A v \in View, m \in Nat : WorkerShows(v, m) =>
           \E n \in Nat : Allowed(v, m, e, Seen(v, e), n) /\ WorkerShows(Seen(v, e), n)'
  PROVE  \E vs, hs : Leads(vs, hs)'
<1> PICK l : l = Len(OnTheWay)
  OBVIOUS
<1>1. OnTheWay \in Seq(Event) /\ l \in Nat
  BY OnTheWayType
<1>2. /\ Len(OnTheWay') = l + 1 /\ OnTheWay'[l + 1] = e
      /\ \A k \in 1 .. l : OnTheWay'[k] = OnTheWay[k]
  BY <1>1, AppendProperties
<1>3. /\ views \in [0 .. l -> View] /\ heard \in [0 .. l -> Nat]
      /\ views[0] = shown /\ heard[0] = Len(reported)
      /\ \A k \in 1 .. l : Allowed(views[k - 1], heard[k - 1], OnTheWay[k], views[k], heard[k])
      /\ WorkerShows(views[l], heard[l])
  BY DEF Leads
<1>4. views[l] \in View /\ heard[l] \in Nat
  BY <1>1, <1>3
<1>5. PICK n \in Nat : /\ Allowed(views[l], heard[l], e, Seen(views[l], e), n)
                       /\ WorkerShows(Seen(views[l], e), n)'
  BY <1>3, <1>4
<1> PICK vs, hs :
       /\ vs = [k \in 0 .. l + 1 |-> IF k = l + 1 THEN Seen(views[l], e) ELSE views[k]]
       /\ hs = [k \in 0 .. l + 1 |-> IF k = l + 1 THEN n ELSE heard[k]]
  OBVIOUS
<1>6. vs \in [0 .. l + 1 -> View] /\ hs \in [0 .. l + 1 -> Nat]
  <2>1. Seen(views[l], e) \in View
    BY <1>4, SeenType
  <2>2. \A k \in 0 .. l + 1 : k # l + 1 => k \in 0 .. l
    BY <1>1
  <2> QED BY <1>3, <1>5, <2>1, <2>2
<1>7. /\ vs[0] = shown /\ hs[0] = Len(reported) /\ vs[l + 1] = Seen(views[l], e) /\ hs[l + 1] = n
      /\ \A k \in 0 .. l : vs[k] = views[k] /\ hs[k] = heard[k]
  BY <1>1, <1>3
<1>8. ASSUME NEW k \in 1 .. l + 1
      PROVE  Allowed(vs[k - 1], hs[k - 1], OnTheWay'[k], vs[k], hs[k])
  <2>1. CASE k = l + 1
    BY <1>1, <1>2, <1>5, <1>7, <2>1
  <2>2. CASE k \in 1 .. l
    <3>1. k - 1 \in 0 .. l /\ k \in 0 .. l
      BY <1>1, <2>2
    <3> QED BY <1>2, <1>3, <1>7, <2>2, <3>1
  <2> QED BY <1>1, <2>1, <2>2
<1>9. \A k \in 1 .. l + 1 : Allowed(vs[k - 1], hs[k - 1], OnTheWay[k], vs[k], hs[k])'
  <2>1. \A v, m, f, w, i : Allowed(v, m, f, w, i)' <=> Allowed(v, m, f, w, i)
    BY DEF Allowed
  <2> QED BY <1>8, <2>1
<1>10. WorkerShows(vs[l + 1], hs[l + 1])'
  BY <1>5, <1>7
<1>11. Leads(vs, hs)'
  BY <1>2, <1>6, <1>7, <1>9, <1>10 DEF Leads
<1> QED BY <1>11

\* They stay as they are while nothing is signaled or dispatched.
LEMMA WayKept ==
  ASSUME IInv, NEW views, NEW heard, Leads(views, heard),
         OnTheWay' = OnTheWay, UNCHANGED <<shown, reported>>,
         Len(posted) \in Nat, Len(posted') \in Nat, Len(posted) <= Len(posted'),
         \A i \in 1 .. Len(posted) : posted'[i] = posted[i],
         \A v \in View, m \in Nat : WorkerShows(v, m) => WorkerShows(v, m)'
  PROVE  Leads(views, heard)'
<1> PICK l : l = Len(OnTheWay)
  OBVIOUS
<1>1. /\ views \in [0 .. l -> View] /\ heard \in [0 .. l -> Nat]
      /\ views[0] = shown /\ heard[0] = Len(reported)
      /\ \A k \in 1 .. l : Allowed(views[k - 1], heard[k - 1], OnTheWay[k], views[k], heard[k])
      /\ WorkerShows(views[l], heard[l]) /\ l \in Nat /\ Len(OnTheWay') = l
  BY OnTheWayType DEF Leads
<1>2. \A k \in 1 .. l : Allowed(views[k - 1], heard[k - 1], OnTheWay[k], views[k], heard[k])'
  <2> SUFFICES ASSUME NEW k \in 1 .. l
               PROVE  Allowed(views[k - 1], heard[k - 1], OnTheWay[k], views[k], heard[k])'
    OBVIOUS
  <2>1. Allowed(views[k - 1], heard[k - 1], OnTheWay[k], views[k], heard[k])
    BY <1>1
  <2>2. heard[k] \in 1 .. Len(posted)
    BY <2>1 DEF Allowed
  <2>3. heard[k] \in 1 .. Len(posted') /\ posted'[heard[k]] = posted[heard[k]]
    BY <2>2
  <2> QED BY <2>1, <2>3 DEF Allowed
<1>3. WorkerShows(views[l], heard[l])'
  BY <1>1
<1> QED BY <1>1, <1>2, <1>3 DEF Leads

\* A dispatched event takes the handler to the next of its views.
LEMMA WayDispatched ==
  ASSUME FullInv, NEW views, NEW heard, Leads(views, heard), DispatchEvent
  PROVE  LET e == Head(pendingEvents) IN
           /\ e \in Event /\ Len(OnTheWay) > 0 /\ OnTheWay[1] = e
           /\ OnTheWay' = Tail(OnTheWay)
           /\ shown' = views[1] /\ heard[1] \in Nat
           /\ Allowed(shown, Len(reported), e, shown', heard[1])
           /\ reported' = IF heard[1] = Len(reported) THEN reported ELSE Append(reported, e.op)
<1> DEFINE e == Head(pendingEvents)
<1>1. pendingEvents \in Seq(Event) /\ eventsQueue \in Seq(Event) /\ pendingEvents # <<>>
  BY OnTheWayType DEF FullInv, WayInv, Dispatching, DispatchEvent
<1>2. /\ shown' = Seen(shown, e) /\ pendingEvents' = Tail(pendingEvents) /\ eventsQueue' = eventsQueue
      /\ reported' = IF IsCurrent(e.op) THEN reported ELSE Append(reported, e.op)
  BY DEF DispatchEvent, eventVars
<1>3. e \in Event /\ Len(pendingEvents) > 0 /\ e = pendingEvents[1]
  BY <1>1, HeadTailProperties, EmptySeq
<1>4. OnTheWay \in Seq(Event) /\ Len(OnTheWay) > 0 /\ OnTheWay[1] = e
  BY <1>1, <1>3, ConcatProperties DEF OnTheWay
<1>5. Tail(OnTheWay) = Tail(pendingEvents) \o eventsQueue
  BY <1>1 DEF OnTheWay
<1>6. /\ views[0] = shown /\ heard[0] = Len(reported) /\ heard[1] \in Nat /\ views[1] \in View
      /\ Allowed(views[0], heard[0], e, views[1], heard[1])
  BY <1>4 DEF Leads
<1>7. views[1] = Seen(shown, e) /\ heard[1] \in 1 .. Len(posted) /\ posted[heard[1]] = e.op
      /\ heard[1] \in {Len(reported), Len(reported) + 1}
  BY <1>6 DEF Allowed
<1>8. IsCurrent(e.op) <=> heard[1] = Len(reported)
  BY <1>7, OperationOfEvent DEF IsCurrent
<1> QED BY <1>2, <1>3, <1>4, <1>5, <1>6, <1>7, <1>8 DEF OnTheWay

-----------------------------------------------------------------------------
(* What the steps of the worker mean for a handler that has received       *)
(* everything.                                                             *)

\* The operation under way is the next one posted.
LEMMA Position ==
  ASSUME FullInv, pc \in InOperation
  PROVE  /\ Len(finished) \in Nat /\ Len(finished) + 1 \in 1 .. Len(posted)
         /\ posted[Len(finished) + 1] = Op /\ Op \in Ops /\ pendingOps # <<>>
<1>1. /\ finished \in Seq(Ops) /\ pendingOps \in Seq(Ops) /\ opsQueue \in Seq(Ops)
      /\ posted = (finished \o pendingOps) \o opsQueue
  BY DEF FullInv, IInv, WorkerInv, WorkerTypeOK, OpsTypeOK, WorkInOrder
<1>2. pendingOps # <<>> /\ Op \in Ops
  BY EventTypes DEF FullInv
<1>3. /\ Len(finished) \in Nat /\ Len(pendingOps) \in Nat \ {0} /\ Len(opsQueue) \in Nat
      /\ pendingOps[1] = Op
  BY <1>1, <1>2, EmptySeq, LenProperties DEF Op
<1> DEFINE work == finished \o pendingOps
           n == Len(finished) + 1
<1>4. /\ work \in Seq(Ops) /\ Len(work) = Len(finished) + Len(pendingOps)
      /\ work[n] = pendingOps[1]
  BY <1>1, <1>3, ConcatProperties
<1> HIDE DEF work
<1>5. posted = work \o opsQueue
  BY <1>1 DEF work
<1>6. Len(posted) = Len(work) + Len(opsQueue) /\ posted[n] = work[n]
  <2> HIDE DEF n
  <2>3. work \in Seq(Ops) /\ opsQueue \in Seq(Ops)
    BY <1>1, <1>4
  <2>1. /\ Len(work \o opsQueue) = Len(work) + Len(opsQueue)
        /\ \A i \in 1 .. Len(work) + Len(opsQueue) :
             (work \o opsQueue)[i] = IF i <= Len(work) THEN work[i] ELSE opsQueue[i - Len(work)]
    BY <2>3, ConcatProperties
  <2>2. n \in 1 .. Len(work) + Len(opsQueue) /\ n <= Len(work)
    BY <1>3, <1>4 DEF n
  <2> QED BY <1>5, <2>1, <2>2
<1> QED BY <1>2, <1>3, <1>4, <1>6

\* A signal keeps the invariant if the contract allows it where the worker was,
\* and it takes a handler to where the worker is then.
LEMMA SignalKeepsWay ==
  ASSUME FullInv, NEW e \in Event, eventsQueue' = Append(eventsQueue, e),
         UNCHANGED <<opsVars, uiVars>>,
         \A v \in View, m \in Nat : WorkerShows(v, m) =>
           \E n \in Nat : Allowed(v, m, e, Seen(v, e), n) /\ WorkerShows(Seen(v, e), n)'
  PROVE  WayInv'
<1>1. /\ pendingEvents' = pendingEvents /\ client' = client /\ posted' = posted
      /\ UNCHANGED <<shown, reported, posted>>
  BY DEF uiVars, shownVars, opsVars
<1>2. PICK views, heard : Leads(views, heard)
  BY DEF FullInv, WayInv
<1>3. IInv /\ pendingEvents \in Seq(Event) /\ eventsQueue \in Seq(Event)
  BY OnTheWayType DEF FullInv
<1>4. OnTheWay' = Append(OnTheWay, e)
  <2>1. pendingEvents \o Append(eventsQueue, e) = pendingEvents \o (eventsQueue \o <<e>>)
    BY <1>3, AppendIsConcat
  <2>2. <<e>> \in Seq(Event)
    OBVIOUS
  <2>3. pendingEvents \o (eventsQueue \o <<e>>) = (pendingEvents \o eventsQueue) \o <<e>>
    BY <1>3, <2>2, ConcatAssociative
  <2>4. (pendingEvents \o eventsQueue) \o <<e>> = Append(pendingEvents \o eventsQueue, e)
    BY <1>3, ConcatProperties, AppendIsConcat
  <2> QED BY <1>1, <2>1, <2>3, <2>4 DEF OnTheWay
<1>5. \E vs, hs : Leads(vs, hs)'
  BY <1>1, <1>2, <1>3, <1>4, WaySignaled
<1>6. PostedOnce' /\ Dispatching' /\ ReportedInOrder'
  BY <1>1 DEF FullInv, WayInv, PostedOnce, Dispatching, ReportedInOrder
<1> QED BY <1>5, <1>6 DEF WayInv

\* A step that signals nothing keeps it if it does not change what the worker has
\* made known.
LEMMA SilentKeepsWay ==
  ASSUME FullInv, UNCHANGED <<eventsQueue, posted, uiVars>>,
         \A v \in View, m \in Nat : WorkerShows(v, m) => WorkerShows(v, m)'
  PROVE  WayInv'
<1>1. /\ pendingEvents' = pendingEvents /\ client' = client /\ posted' = posted
      /\ UNCHANGED <<shown, reported, posted>>
  BY DEF uiVars, shownVars
<1>2. PICK views, heard : Leads(views, heard)
  BY DEF FullInv, WayInv
<1>3. posted \in Seq(Ops) /\ Len(posted) \in Nat /\ OnTheWay' = OnTheWay
  BY <1>1, LenProperties DEF FullInv, IInv, OpsTypeOK, OnTheWay
<1>4. Leads(views, heard)'
  BY <1>1, <1>2, <1>3, WayKept DEF FullInv
<1>5. PostedOnce' /\ Dispatching' /\ ReportedInOrder'
  BY <1>1 DEF FullInv, WayInv, PostedOnce, Dispatching, ReportedInOrder
<1> QED BY <1>4, <1>5 DEF WayInv

\* Between two operations nothing is owed to the handler.
LEMMA IdleKeepsWay ==
  ASSUME FullInv, UNCHANGED <<eventsQueue, posted, uiVars, finished>>,
         pc \notin UnderWay, pc' \notin UnderWay
  PROVE  WayInv'
<1>1. \A v \in View, m \in Nat : WorkerShows(v, m) => WorkerShows(v, m)'
  BY DEF WorkerShows
<1> QED BY <1>1, SilentKeepsWay

\* Within a file, hashFile goes on without a word.
LEMMA WithinFile ==
  ASSUME pc \in {"open", "hashing", "hashed"}, pc' \in {"open", "hashing", "hashed"},
         UNCHANGED <<workVars, entries, file, result>>, NEW v, NEW m, WorkerShows(v, m)
  PROVE  WorkerShows(v, m)'
  BY DEF WorkerShows, UnderWay, InOperation, InFile, Settled, Op, workVars

\* Once an operation is over, the handler has heard of it, whatever it shows.
LEMMA EndShows ==
  ASSUME FullInv, pc \in InOperation, NextOperation, NEW w, NEW n, n = Len(finished) + 1
  PROVE  WorkerShows(w, n)'
<1>1. finished \in Seq(Ops) /\ Op \in Ops /\ finished' = Append(finished, Op)
  BY Position DEF FullInv, IInv, WorkerInv, WorkerTypeOK, NextOperation
<1>2. Len(finished') = Len(finished) + 1 /\ Len(finished) \in Nat
  BY <1>1, AppendProperties, LenProperties
<1>3. pc' \notin UnderWay
  BY DEF NextOperation, UnderWay, InOperation
<1> QED BY <1>2, <1>3 DEF WorkerShows

\* doVerify and doCreate begin.
LEMMA StartKeepsWay == ASSUME FullInv, StartVerify \/ StartCreate PROVE WayInv'
<1> PICK f \in 0 .. MaxFiles : StartOperation(f) /\ pc = "operation" /\ (Op \in Creates => f = 0)
  <2>1. CASE StartVerify
    BY <2>1, SchedulerAssumption DEF StartVerify, WorkerAt
  <2>2. CASE StartCreate
    BY <2>2, SchedulerAssumption DEF StartCreate, WorkerAt
  <2> QED BY <2>1, <2>2
<1> PICK e : e = [type |-> "OperationStarted", op |-> Op, n_files |-> f]
  OBVIOUS
<1>1. /\ eventsQueue' = Append(eventsQueue, e) /\ UNCHANGED <<opsVars, workVars, uiVars>>
      /\ entries' = f /\ file' = 0 /\ result' = [NoResult EXCEPT !.total = f] /\ pc' = "files"
  BY DEF StartOperation, signalOperationStarted
<1>2. e \in Event /\ e.type = "OperationStarted" /\ e.op = Op /\ e.n_files = f
  BY EventTypes DEF FullInv, InOperation
<1>3. ASSUME NEW v \in View, NEW m \in Nat, WorkerShows(v, m)
      PROVE  \E n \in Nat : Allowed(v, m, e, Seen(v, e), n) /\ WorkerShows(Seen(v, e), n)'
  <2> PICK n : n = Len(finished) + 1
    OBVIOUS
  <2> PICK w : w = Seen(v, e)
    OBVIOUS
  <2>1. /\ n \in 1 .. Len(posted) /\ posted[n] = Op /\ n \in Nat /\ Len(finished) \in Nat
        /\ n = m + 1
    BY <1>3, Position DEF InOperation, UnderWay, WorkerShows
  <2>2. w = [FreshView EXCEPT !.phase = "Started", !.n_files = f]
    BY <1>2 DEF Seen
  <2>3. /\ w.phase = "Started" /\ w.n_files = f /\ w.file = 0 /\ w.ok = 0 /\ w.bad = 0
        /\ w.missing = 0 /\ w.was_canceled = FALSE
    BY <2>2 DEF FreshView
  <2>4. /\ result'.ok = 0 /\ result'.bad = 0 /\ result'.missing = 0 /\ result'.was_canceled = FALSE
    BY <1>1 DEF NoResult
  <2>5. finished' = finished /\ Op' = Op
    BY <1>1 DEF workVars, Op
  <2>6. WorkerShows(w, n)'
    BY <1>1, <2>1, <2>3, <2>4, <2>5 DEF WorkerShows, UnderWay, InOperation, Settled, InFile
  <2>7. Allowed(v, m, e, w, n)
    BY <1>2, <2>1 DEF Allowed
  <2> QED BY <2>1, <2>6, <2>7
<1> QED BY <1>1, <1>2, <1>3, SignalKeepsWay

\* An exception ends the operation at any of the places where it may be raised.
LEMMA RaiseKeepsWay == ASSUME FullInv, Raise PROVE WayInv'
<1> PICK e : e = [type |-> "Error", op |-> Op]
  OBVIOUS
<1>1. /\ eventsQueue' = Append(eventsQueue, e) /\ UNCHANGED <<opsVars, uiVars>> /\ NextOperation
      /\ pc \in {"operation", "files", "hashing", "hashed"} /\ pc \in InOperation
  BY DEF Raise, signalError, Signal, WorkerAt, InOperation
<1>2. e \in Event /\ e.type = "Error" /\ e.op = Op
  BY <1>1, EventTypes DEF FullInv
<1>3. ASSUME NEW v \in View, NEW m \in Nat, WorkerShows(v, m)
      PROVE  \E n \in Nat : Allowed(v, m, e, Seen(v, e), n) /\ WorkerShows(Seen(v, e), n)'
  <2> PICK n : n = Len(finished) + 1
    OBVIOUS
  <2>1. /\ n \in 1 .. Len(posted) /\ posted[n] = Op /\ n \in Nat /\ Len(finished) \in Nat
        /\ n = IF pc = "operation" THEN m + 1 ELSE m
        /\ pc # "operation" => v.phase \in {"Started", "InFile"}
    BY <1>1, <1>3, Position DEF InOperation, UnderWay, WorkerShows
  <2>2. Allowed(v, m, e, Seen(v, e), n)
    BY <1>2, <2>1 DEF Allowed
  <2> QED BY <1>1, <2>1, <2>2, EndShows
<1> QED BY <1>1, <1>2, <1>3, SignalKeepsWay

\* The next file.
LEMMA StartFileKeepsWay == ASSUME FullInv, StartFile PROVE WayInv'
<1> PICK e : e = [type |-> "FileStarted", op |-> Op, file |-> file + 1]
  OBVIOUS
<1>1. /\ eventsQueue' = Append(eventsQueue, e) /\ UNCHANGED <<opsVars, workVars, uiVars>>
      /\ UNCHANGED <<entries, result>>
      /\ pc = "files" /\ pc' = "open" /\ file' = file + 1
      /\ file < (IF Op \in Verifies THEN entries ELSE MaxFiles)
  BY DEF StartFile, signalFileStarted, Signal, WorkerAt
<1>2. file \in Nat /\ file + 1 \in 1 .. MaxFiles /\ result \in Result
  BY <1>1, SchedulerAssumption DEF FullInv, IInv, WorkerInv, WorkerTypeOK
<1>3. e \in Event /\ e.type = "FileStarted" /\ e.op = Op /\ e.file = file + 1
  BY <1>1, <1>2, EventTypes DEF FullInv, InOperation
<1>4. ASSUME NEW v \in View, NEW m \in Nat, WorkerShows(v, m)
      PROVE  \E n \in Nat : Allowed(v, m, e, Seen(v, e), n) /\ WorkerShows(Seen(v, e), n)'
  <2> PICK w : w = Seen(v, e)
    OBVIOUS
  <2>1. /\ m \in 1 .. Len(posted) /\ posted[m] = Op /\ m = Len(finished) + 1
    BY <1>1, <1>4, Position DEF InOperation, UnderWay, WorkerShows
  <2>2. /\ v.phase = "Started" /\ v.n_files = entries /\ v.file = file
        /\ v.ok = result.ok /\ v.bad = result.bad /\ v.missing = result.missing
        /\ ~v.was_canceled /\ ~result.was_canceled /\ v.ok + v.bad + v.missing = file
        /\ (Op \in Creates => entries = 0)
    BY <1>1, <1>4 DEF WorkerShows, UnderWay, InOperation, Settled, InFile
  <2>3. w = [v EXCEPT !.phase = "InFile", !.file = file + 1]
    BY <1>3 DEF Seen
  <2>4. /\ w.phase = "InFile" /\ w.n_files = v.n_files /\ w.file = file + 1 /\ w.ok = v.ok
        /\ w.bad = v.bad /\ w.missing = v.missing /\ w.was_canceled = v.was_canceled
    BY <2>3 DEF View
  <2>5. finished' = finished /\ Op' = Op /\ Settled' = file
    BY <1>1, <1>2 DEF workVars, Op, Settled, InFile
  <2>6. WorkerShows(w, m)'
    BY <1>1, <2>1, <2>2, <2>4, <2>5 DEF WorkerShows, UnderWay, InOperation
  <2>7. Allowed(v, m, e, w, m)
    BY <1>1, <1>3, <2>1, <2>2 DEF Allowed
  <2> QED BY <2>6, <2>7
<1> QED BY <1>1, <1>3, <1>4, SignalKeepsWay

\* A file is settled: the handler counts it as the result does.
LEMMA SettledShows ==
  ASSUME FullInv, NEW s \in Status, NEW e, e = [type |-> "FileCompleted", op |-> Op, file |-> file, status |-> s],
         pc \in {"open", "hashed"}, pc' = "files", UNCHANGED <<workVars, entries, file>>,
         result'.ok = IF s = "Ok" THEN result.ok + 1 ELSE result.ok,
         result'.bad = IF s = "Bad" THEN result.bad + 1 ELSE result.bad,
         result'.missing = IF s = "Missing" THEN result.missing + 1 ELSE result.missing,
         result'.was_canceled = result.was_canceled,
         s = "Missing" => Op \in Verifies,
         NEW v \in View, NEW m \in Nat, WorkerShows(v, m)
  PROVE  Allowed(v, m, e, Seen(v, e), m) /\ WorkerShows(Seen(v, e), m)'
<1> PICK w : w = Seen(v, e)
  OBVIOUS
<1>1. /\ m \in 1 .. Len(posted) /\ posted[m] = Op /\ m = Len(finished) + 1 /\ pc \in UnderWay
  BY Position DEF InOperation, UnderWay, WorkerShows
<1>2. /\ v.phase = "InFile" /\ v.n_files = entries /\ v.file = file
      /\ v.ok = result.ok /\ v.bad = result.bad /\ v.missing = result.missing
      /\ ~v.was_canceled /\ ~result.was_canceled /\ v.ok + v.bad + v.missing = file - 1
      /\ (Op \in Creates => entries = 0)
  BY <1>1 DEF WorkerShows, Settled, InFile
<1>3. w = [v EXCEPT !.phase = "Started", !.ok = IF s = "Ok" THEN @ + 1 ELSE @,
                    !.bad = IF s = "Bad" THEN @ + 1 ELSE @,
                    !.missing = IF s = "Missing" THEN @ + 1 ELSE @]
  BY DEF Seen
<1>4. /\ w.phase = "Started" /\ w.n_files = v.n_files /\ w.file = v.file
      /\ w.ok = (IF s = "Ok" THEN v.ok + 1 ELSE v.ok) /\ w.bad = (IF s = "Bad" THEN v.bad + 1 ELSE v.bad)
      /\ w.missing = (IF s = "Missing" THEN v.missing + 1 ELSE v.missing)
      /\ w.was_canceled = v.was_canceled
  BY <1>3 DEF View
<1>5. v.ok \in Nat /\ v.bad \in Nat /\ v.missing \in Nat /\ file \in Nat
  BY DEF View, FullInv, IInv, WorkerInv, WorkerTypeOK
<1>6. w.ok + w.bad + w.missing = file
  BY <1>2, <1>4, <1>5 DEF Status
<1>7. finished' = finished /\ Op' = Op /\ Settled' = file
  BY DEF workVars, Op, Settled, InFile
<1>8. /\ w.ok = result'.ok /\ w.bad = result'.bad /\ w.missing = result'.missing
  BY <1>2, <1>4
<1>9. WorkerShows(w, m)'
  BY <1>1, <1>2, <1>4, <1>6, <1>7, <1>8 DEF WorkerShows, UnderWay, InOperation
<1>10. Allowed(v, m, e, w, m)
  BY <1>1, <1>2 DEF Allowed
<1> QED BY <1>9, <1>10

\* The files that are settled at once, or once they are hashed.
LEMMA SettledKeepsWay == ASSUME FullInv, OpenFails \/ FileHashed \/ HashFailed PROVE WayInv'
<1>1. result \in Result /\ Verifies \cap Creates = {}
  BY SchedulerAssumption DEF FullInv, IInv, WorkerInv, WorkerTypeOK
<1>2. pc \in {"open", "hashed"} /\ pc \in InFile /\ pc \in InOperation /\ UNCHANGED <<opsVars, uiVars>>
  BY DEF OpenFails, FileHashed, HashFailed, WorkerAt, InFile, InOperation
<1>3. PICK s \in Status :
        /\ signalFileCompleted(s) /\ (s = "Missing" => Op \in Verifies)
        /\ \/ /\ pc' = "files" /\ UNCHANGED <<workVars, entries, file>>
              /\ result'.ok = IF s = "Ok" THEN result.ok + 1 ELSE result.ok
              /\ result'.bad = IF s = "Bad" THEN result.bad + 1 ELSE result.bad
              /\ result'.missing = IF s = "Missing" THEN result.missing + 1 ELSE result.missing
              /\ result'.was_canceled = result.was_canceled
           \/ s = "Bad" /\ NextOperation
  <2>1. CASE OpenFails
    <3>1. PICK s \in {"Missing", "Bad"} :
            /\ s = "Missing" => Op \in Verifies
            /\ signalFileCompleted(s)
            /\ Count(IF s = "Missing" THEN "missing" ELSE "bad")
      BY <2>1 DEF OpenFails
    <3>2. pc' = "files" /\ UNCHANGED <<workVars, entries, file>>
      BY <2>1 DEF OpenFails
    <3>3. CASE s = "Missing"
      <4>1. result' = [result EXCEPT !["missing"] = @ + 1]
        BY <3>1, <3>3 DEF Count
      <4>2. /\ result'.ok = result.ok /\ result'.bad = result.bad
            /\ result'.missing = result.missing + 1 /\ result'.was_canceled = result.was_canceled
        BY <1>1, <4>1 DEF Result
      <4> QED BY <3>1, <3>2, <3>3, <4>2 DEF Status
    <3>4. CASE s = "Bad"
      <4>1. result' = [result EXCEPT !["bad"] = @ + 1]
        BY <3>1, <3>4 DEF Count
      <4>2. /\ result'.ok = result.ok /\ result'.bad = result.bad + 1
            /\ result'.missing = result.missing /\ result'.was_canceled = result.was_canceled
        BY <1>1, <4>1 DEF Result
      <4> QED BY <3>1, <3>2, <3>4, <4>2 DEF Status
    <3> QED BY <3>1, <3>3, <3>4
  <2>2. CASE FileHashed
    <3>1. pc' = "files" /\ UNCHANGED <<workVars, entries, file>>
      BY <2>2 DEF FileHashed
    <3>2. \/ /\ signalFileCompleted("Ok")
             /\ \/ result' = [result EXCEPT !["ok"] = @ + 1]
                \/ result' = [result EXCEPT !.ok = @ + 1, !.total = @ + 1]
          \/ signalFileCompleted("Bad") /\ result' = [result EXCEPT !["bad"] = @ + 1]
      BY <2>2 DEF FileHashed, Count
    <3>3. CASE /\ signalFileCompleted("Ok")
               /\ \/ result' = [result EXCEPT !["ok"] = @ + 1]
                  \/ result' = [result EXCEPT !.ok = @ + 1, !.total = @ + 1]
      <4>1. /\ result'.ok = result.ok + 1 /\ result'.bad = result.bad
            /\ result'.missing = result.missing /\ result'.was_canceled = result.was_canceled
        BY <1>1, <3>3 DEF Result
      <4> QED BY <3>1, <3>3, <4>1 DEF Status
    <3>4. CASE signalFileCompleted("Bad") /\ result' = [result EXCEPT !["bad"] = @ + 1]
      <4>1. /\ result'.ok = result.ok /\ result'.bad = result.bad + 1
            /\ result'.missing = result.missing /\ result'.was_canceled = result.was_canceled
        BY <1>1, <3>4 DEF Result
      <4> QED BY <3>1, <3>4, <4>1 DEF Status
    <3> QED BY <3>2, <3>3, <3>4
  <2>3. CASE HashFailed
    <3>1. signalFileCompleted("Bad")
      BY <2>3 DEF HashFailed
    <3>2. \/ NextOperation
          \/ /\ result' = [result EXCEPT !.bad = @ + 1, !.total = @ + 1]
             /\ pc' = "files" /\ UNCHANGED <<workVars, entries, file>>
      BY <2>3 DEF HashFailed
    <3>3. CASE NextOperation
      BY <3>1, <3>3 DEF Status
    <3>4. CASE /\ result' = [result EXCEPT !.bad = @ + 1, !.total = @ + 1]
               /\ pc' = "files" /\ UNCHANGED <<workVars, entries, file>>
      <4>1. /\ result'.ok = result.ok /\ result'.bad = result.bad + 1
            /\ result'.missing = result.missing /\ result'.was_canceled = result.was_canceled
        BY <1>1, <3>4 DEF Result
      <4> QED BY <3>1, <3>4, <4>1 DEF Status
    <3> QED BY <3>2, <3>3, <3>4
  <2> QED BY <2>1, <2>2, <2>3
<1> PICK e : e = [type |-> "FileCompleted", op |-> Op, file |-> file, status |-> s]
  OBVIOUS
<1>4. e \in Event /\ eventsQueue' = Append(eventsQueue, e)
      /\ e.type = "FileCompleted" /\ e.op = Op /\ e.status = s
  BY <1>2, <1>3, EventTypes DEF FullInv, signalFileCompleted, Signal
<1>5. ASSUME NEW v \in View, NEW m \in Nat, WorkerShows(v, m)
      PROVE  \E n \in Nat : Allowed(v, m, e, Seen(v, e), n) /\ WorkerShows(Seen(v, e), n)'
  <2>1. CASE NextOperation
    <3>1. /\ m \in 1 .. Len(posted) /\ posted[m] = Op /\ m = Len(finished) + 1 /\ v.phase = "InFile"
      BY <1>2, <1>5, Position DEF InOperation, UnderWay, WorkerShows
    <3>2. Allowed(v, m, e, Seen(v, e), m)
      BY <1>3, <1>4, <3>1 DEF Allowed
    <3> QED BY <1>2, <2>1, <3>1, <3>2, EndShows
  <2>2. CASE ~NextOperation
    BY <1>2, <1>3, <1>5, <2>2, SettledShows
  <2> QED BY <2>1, <2>2
<1> QED BY <1>2, <1>4, <1>5, SignalKeepsWay

\* The operation ends with its result.
LEMMA CompleteKeepsWay == ASSUME FullInv, CompleteOperation PROVE WayInv'
<1> PICK e : e = [type |-> "OperationCompleted", op |-> Op, r |-> result]
  OBVIOUS
<1>1. /\ eventsQueue' = Append(eventsQueue, e) /\ UNCHANGED <<opsVars, uiVars>> /\ NextOperation
      /\ \/ pc = "files" /\ (Op \in Verifies => file = entries)
         \/ pc = "canceled"
      /\ pc \in InOperation /\ pc \in UnderWay
  BY DEF CompleteOperation, signalOperationCompleted, Signal, WorkerAt, InOperation, UnderWay
<1>2. e \in Event /\ e.type = "OperationCompleted" /\ e.op = Op /\ e.r = result
  BY <1>1, EventTypes DEF FullInv
<1>3. ASSUME NEW v \in View, NEW m \in Nat, WorkerShows(v, m)
      PROVE  \E n \in Nat : Allowed(v, m, e, Seen(v, e), n) /\ WorkerShows(Seen(v, e), n)'
  <2>1. /\ m \in 1 .. Len(posted) /\ posted[m] = Op /\ Op \in Ops /\ m = Len(finished) + 1
    BY <1>1, <1>3, Position DEF WorkerShows
  <2>2. /\ v.phase = (CASE pc = "files" -> "Started" [] pc = "canceled" -> "Canceled" [] OTHER -> "InFile")
        /\ v.n_files = entries /\ v.file = file
        /\ v.ok = result.ok /\ v.bad = result.bad /\ v.missing = result.missing
        /\ ~v.was_canceled /\ (result.was_canceled <=> pc = "canceled")
        /\ v.ok + v.bad + v.missing = Settled
        /\ Op \in Creates => pc # "canceled"
    BY <1>1, <1>3 DEF WorkerShows
  <2>3. CASE pc = "files"
    <3>1. v.was_canceled = FALSE /\ result.was_canceled = FALSE /\ Settled = file
      <4>1. v.was_canceled \in BOOLEAN /\ result.was_canceled \in BOOLEAN
        BY DEF View, FullInv, IInv, WorkerInv, WorkerTypeOK, Result
      <4>2. Settled = file
        BY <2>3 DEF Settled, InFile
      <4> QED BY <2>2, <2>3, <4>1, <4>2
    <3>2. Allowed(v, m, e, Seen(v, e), m)
      BY <1>1, <1>2, <2>1, <2>2, <2>3, <3>1 DEF Allowed
    <3> QED BY <1>1, <2>1, <3>2, EndShows
  <2>4. CASE pc = "canceled"
    <3>1. Settled = file - 1 /\ Op \in Verifies
      BY <2>1, <2>2, <2>4 DEF Settled, InFile, Ops
    <3>2. Allowed(v, m, e, Seen(v, e), m)
      BY <1>2, <2>1, <2>2, <2>4, <3>1 DEF Allowed
    <3> QED BY <1>1, <2>1, <3>2, EndShows
  <2> QED BY <1>1, <2>3, <2>4
<1> QED BY <1>1, <1>2, <1>3, SignalKeepsWay

\* The file is hashed until hashFile returns, with or without a signal of progress.
LEMMA HashingKeepsWay == ASSUME FullInv, Open \/ HashRead \/ HashStops PROVE WayInv'
<1>1. /\ pc \in {"open", "hashing"} /\ pc' \in {"hashing", "hashed"}
      /\ UNCHANGED <<opsVars, uiVars, workVars, entries, file, result>>
      /\ eventsQueue' = eventsQueue \/ signalProgress
  BY DEF Open, HashRead, HashStops, HashReturns, WorkerAt, eventVars
<1>2. ASSUME NEW v \in View, NEW m \in Nat, WorkerShows(v, m) PROVE WorkerShows(v, m)'
  BY <1>1, <1>2, WithinFile
<1>3. CASE eventsQueue' = eventsQueue
  BY <1>1, <1>2, <1>3, SilentKeepsWay DEF opsVars
<1>4. CASE signalProgress
  <2> PICK e : e = [type |-> "Progress", op |-> Op]
    OBVIOUS
  <2>1. e \in Event /\ e.type = "Progress" /\ e.op = Op /\ eventsQueue' = Append(eventsQueue, e)
    BY <1>1, <1>4, EventTypes DEF FullInv, InOperation, signalProgress, Signal
  <2>2. ASSUME NEW v \in View, NEW m \in Nat, WorkerShows(v, m)
        PROVE  \E n \in Nat : Allowed(v, m, e, Seen(v, e), n) /\ WorkerShows(Seen(v, e), n)'
    <3>1. m \in 1 .. Len(posted) /\ posted[m] = Op /\ v.phase = "InFile"
      BY <1>1, <2>2, Position DEF InOperation, UnderWay, WorkerShows
    <3>2. Allowed(v, m, e, Seen(v, e), m) /\ Seen(v, e) = v
      BY <2>1, <3>1 DEF Allowed, Seen
    <3> QED BY <1>2, <2>2, <3>2
  <2> QED BY <1>1, <2>1, <2>2, SignalKeepsWay
<1> QED BY <1>1, <1>3, <1>4

\* The cancel event was seen: a verify will report its result, a create is over.
LEMMA CanceledKeepsWay == ASSUME FullInv, HashCanceled PROVE WayInv'
<1> PICK e : e = [type |-> "Canceled", op |-> Op]
  OBVIOUS
<1>1. /\ eventsQueue' = Append(eventsQueue, e) /\ UNCHANGED <<opsVars, uiVars>>
      /\ pc = "hashed" /\ pc \in InOperation /\ pc \in UnderWay
      /\ \/ /\ Op \in Verifies /\ result' = [result EXCEPT !.was_canceled = TRUE] /\ pc' = "canceled"
            /\ UNCHANGED <<workVars, entries, file>>
         \/ NextOperation
  BY DEF HashCanceled, signalCanceled, Signal, WorkerAt, InOperation, UnderWay
<1>2. e \in Event /\ e.type = "Canceled" /\ e.op = Op
  BY <1>1, EventTypes DEF FullInv
<1>3. ASSUME NEW v \in View, NEW m \in Nat, WorkerShows(v, m)
      PROVE  \E n \in Nat : Allowed(v, m, e, Seen(v, e), n) /\ WorkerShows(Seen(v, e), n)'
  <2> PICK w : w = Seen(v, e)
    OBVIOUS
  <2>1. /\ m \in 1 .. Len(posted) /\ posted[m] = Op /\ m = Len(finished) + 1
    BY <1>1, <1>3, Position DEF WorkerShows
  <2>2. /\ v.phase = "InFile" /\ v.n_files = entries /\ v.file = file
        /\ v.ok = result.ok /\ v.bad = result.bad /\ v.missing = result.missing
        /\ ~v.was_canceled /\ v.ok + v.bad + v.missing = file - 1
    BY <1>1, <1>3 DEF WorkerShows, Settled, InFile
  <2>3. Allowed(v, m, e, w, m)
    BY <1>2, <2>1, <2>2 DEF Allowed
  <2>4. CASE NextOperation
    BY <1>1, <2>1, <2>3, <2>4, EndShows
  <2>5. CASE /\ Op \in Verifies /\ result' = [result EXCEPT !.was_canceled = TRUE] /\ pc' = "canceled"
             /\ UNCHANGED <<workVars, entries, file>>
    <3>1. w = [v EXCEPT !.phase = "Canceled"]
      BY <1>2 DEF Seen
    <3>2. /\ w.phase = "Canceled" /\ w.n_files = v.n_files /\ w.file = v.file /\ w.ok = v.ok
          /\ w.bad = v.bad /\ w.missing = v.missing /\ w.was_canceled = v.was_canceled
      BY <3>1 DEF View
    <3>3. result \in Result /\ Op \notin Creates
      BY <2>5, SchedulerAssumption DEF FullInv, IInv, WorkerInv, WorkerTypeOK
    <3>4. /\ result'.ok = result.ok /\ result'.bad = result.bad /\ result'.missing = result.missing
          /\ result'.was_canceled = TRUE
      BY <2>5, <3>3 DEF Result
    <3>5. finished' = finished /\ Op' = Op /\ Settled' = file - 1
      BY <2>5 DEF workVars, Op, Settled, InFile
    <3>6. WorkerShows(w, m)'
      BY <2>1, <2>2, <2>5, <3>2, <3>3, <3>4, <3>5 DEF WorkerShows, UnderWay, InOperation
    <3> QED BY <2>3, <3>6
  <2> QED BY <1>1, <2>4, <2>5
<1> QED BY <1>1, <1>2, <1>3, SignalKeepsWay

-----------------------------------------------------------------------------
(* The steps of the thread that owns the scheduler, and of a worker that   *)
(* has nothing to do.                                                      *)

\* A client that neither posts nor dispatches.
LEMMA ClientKeepsWay ==
  ASSUME FullInv, UNCHANGED <<OnTheWay, posted, shown, reported, workVars, fileVars>>,
         pc' = pc \/ (pc \notin UnderWay /\ pc' \notin UnderWay), Dispatching'
  PROVE  WayInv'
<1>1. \A v \in View, m \in Nat : WorkerShows(v, m) => WorkerShows(v, m)'
  BY DEF WorkerShows, Settled, Op, workVars, fileVars
<1>2. PICK views, heard : Leads(views, heard)
  BY DEF FullInv, WayInv
<1>3. posted \in Seq(Ops) /\ Len(posted) \in Nat
  BY LenProperties DEF FullInv, IInv, OpsTypeOK
<1>4. Leads(views, heard)'
  BY <1>1, <1>2, <1>3, WayKept DEF FullInv
<1>5. PostedOnce' /\ ReportedInOrder'
  BY DEF FullInv, WayInv, PostedOnce, ReportedInOrder
<1> QED BY <1>4, <1>5 DEF WayInv

\* A notification is no news for the handler.
LEMMA NotifyIsSilent == ASSUME Notify PROVE pc' = pc \/ (pc \notin UnderWay /\ pc' \notin UnderWay)
  BY DEF Notify, WorkerAt, UnderWay, InOperation

LEMMA OwnerKeepsWay ==
  ASSUME FullInv, start \/ PostCancel \/ RequestShutdown \/ CancelForShutdown \/ Join \/ TakeWakeup
  PROVE  WayInv'
<1>1. /\ UNCHANGED <<pendingEvents, eventsQueue, posted, shown, reported, workVars, fileVars>>
      /\ client' = client \/ (client # "run" /\ client' # "run")
  BY DEF start, PostCancel, RequestShutdown, CancelForShutdown, Join, TakeWakeup, opsVars, eventVars,
         workerVars, uiVars, shownVars
<1>2. pc' = pc \/ (pc \notin UnderWay /\ pc' \notin UnderWay)
  BY NotifyIsSilent DEF start, PostCancel, RequestShutdown, CancelForShutdown, Join, TakeWakeup,
     workerVars, WorkerAt, UnderWay, InOperation
<1>3. Dispatching'
  BY <1>1 DEF FullInv, WayInv, Dispatching
<1> QED BY <1>1, <1>2, <1>3, ClientKeepsWay DEF OnTheWay

LEMMA WaitingKeepsWay ==
  ASSUME FullInv, Sleep \/ TakeOps \/ Exit \/ SpuriousWakeup PROVE WayInv'
<1>1. UNCHANGED <<eventsQueue, posted, uiVars, finished>>
  BY DEF Sleep, TakeOps, Exit, SpuriousWakeup, opsVars, eventVars, workVars
<1>2. pc \notin UnderWay /\ pc' \notin UnderWay
  BY DEF Sleep, TakeOps, Exit, SpuriousWakeup, Notify, WorkerAt, UnderWay, InOperation
<1> QED BY <1>1, <1>2, IdleKeepsWay

\* run() swaps the queue out: the events are on their way as before.
LEMMA SwapKeepsWay == ASSUME FullInv, SwapEvents PROVE WayInv'
<1>1. /\ client = "free" /\ pendingEvents' = eventsQueue /\ eventsQueue' = <<>>
      /\ client' = IF eventsQueue = <<>> THEN "free" ELSE "run"
      /\ UNCHANGED <<posted, shown, reported, workVars, fileVars, pc>>
  BY DEF SwapEvents, opsVars, workerVars, shownVars
<1>2. pendingEvents = <<>> /\ eventsQueue \in Seq(Event)
  BY <1>1, OnTheWayType DEF FullInv, WayInv, Dispatching
<1>3. OnTheWay' = OnTheWay
  BY <1>1, <1>2, ConcatEmptySeq DEF OnTheWay
<1>4. Dispatching'
  BY <1>1 DEF Dispatching
<1> QED BY <1>1, <1>3, <1>4, ClientKeepsWay

\* post(): the handler will hear of the new operation after all the others.
LEMMA PostKeepsWay == ASSUME FullInv, NEW op \in Ops, Post(op) PROVE WayInv'
<1> PICK n : n = Len(posted)
  OBVIOUS
<1>1. posted \in Seq(Ops) /\ n \in Nat /\ posted' = Append(posted, op)
  BY LenProperties DEF FullInv, IInv, OpsTypeOK, Post
<1>2. /\ Len(posted') = n + 1 /\ posted'[n + 1] = op
      /\ \A i \in 1 .. n : posted'[i] = posted[i]
  BY <1>1, AppendProperties
<1>3. /\ UNCHANGED <<OnTheWay, shown, reported, workVars, fileVars>>
      /\ UNCHANGED <<pendingEvents, client>>
      /\ (pc' = pc \/ (pc \notin UnderWay /\ pc' \notin UnderWay))
  BY NotifyIsSilent DEF Post, OnTheWay, eventVars, uiVars, shownVars
<1>4. \A v \in View, m \in Nat : WorkerShows(v, m) => WorkerShows(v, m)'
  BY <1>3 DEF WorkerShows, Settled, Op, workVars, fileVars
<1>5. PICK views, heard : Leads(views, heard)
  BY DEF FullInv, WayInv
<1>6. Leads(views, heard)'
  BY <1>1, <1>2, <1>3, <1>4, <1>5, WayKept DEF FullInv
<1>7. PostedOnce'
  <2>1. \A i \in 1 .. n : posted[i] # op
    BY <1>1, LenProperties DEF Post
  <2> QED BY <1>1, <1>2, <2>1 DEF FullInv, WayInv, PostedOnce
<1>8. ReportedInOrder'
  <2> PICK m : m = Len(reported)
    OBVIOUS
  <2>1. reported \in Seq(Ops) /\ m \in Nat /\ m <= n /\ reported = SubSeq(posted, 1, m)
    BY LenProperties DEF FullInv, WayInv, ReportedInOrder, IInv, UiInv, UiTypeOK
  <2>2. SubSeq(Append(posted, op), 1, m) = SubSeq(posted, 1, m)
    <3>1. <<op>> \in Seq(Ops) /\ posted' = posted \o <<op>>
      BY <1>1, AppendIsConcat
    <3> QED BY <1>1, <2>1, <3>1, SubSeqOfConcat1
  <2> QED BY <1>1, <1>2, <1>3, <2>1, <2>2 DEF ReportedInOrder
<1>9. Dispatching'
  BY <1>3 DEF FullInv, WayInv, Dispatching
<1> QED BY <1>6, <1>7, <1>8, <1>9 DEF WayInv

\* A callback: the handler goes to the next of its views.
LEMMA DispatchKeepsWay == ASSUME FullInv, DispatchEvent PROVE WayInv'
<1> PICK views, heard : Leads(views, heard)
  BY DEF FullInv, WayInv
<1> PICK l, m, h, e :
       l = Len(OnTheWay) /\ m = Len(reported) /\ h = heard[1] /\ e = Head(pendingEvents)
  OBVIOUS
<1>1. /\ OnTheWay \in Seq(Event) /\ l \in Nat /\ l > 0
      /\ OnTheWay' = Tail(OnTheWay) /\ shown' = views[1] /\ h \in Nat
      /\ Allowed(shown, m, e, shown', h)
      /\ reported' = IF h = m THEN reported ELSE Append(reported, e.op)
  BY OnTheWayType, WayDispatched DEF FullInv
<1>2. /\ views \in [0 .. l -> View] /\ heard \in [0 .. l -> Nat]
      /\ \A k \in 1 .. l : Allowed(views[k - 1], heard[k - 1], OnTheWay[k], views[k], heard[k])
      /\ WorkerShows(views[l], heard[l])
  BY DEF Leads
<1>3. /\ UNCHANGED <<posted, pc, workVars, fileVars>>
      /\ client = "run" /\ pendingEvents' = Tail(pendingEvents)
      /\ client' = IF Tail(pendingEvents) = <<>> THEN "free" ELSE "run"
  BY DEF DispatchEvent, opsVars, workerVars
<1>4. /\ reported \in Seq(Ops) /\ m \in Nat /\ posted \in Seq(Ops) /\ Len(posted) \in Nat
      /\ m <= Len(posted) /\ reported = SubSeq(posted, 1, m)
  BY LenProperties DEF FullInv, WayInv, ReportedInOrder, IInv, OpsTypeOK, UiInv, UiTypeOK
<1>5. h \in 1 .. Len(posted) /\ posted[h] = e.op /\ h \in {m, m + 1}
  BY <1>1 DEF Allowed
<1>6. Len(reported') = h /\ reported' = SubSeq(posted, 1, h)
  <2>1. CASE h = m
    BY <1>1, <1>4, <2>1
  <2>2. CASE h # m
    <3>1. h = m + 1 /\ reported' = Append(reported, posted[h]) /\ posted[h] \in Ops
      BY <1>1, <1>4, <1>5, <2>2, ElementOfSeq
    <3>2. Len(reported') = h
      BY <1>4, <3>1, AppendProperties
    <3>3. SubSeq(posted, 1, h) = SubSeq(posted, 1, h - 1) \o <<posted[h]>>
      <4>1. 1 \in 1 .. Len(posted) /\ h \in 1 .. Len(posted) /\ posted \in Seq(Ops)
        BY <1>4, <1>5
      <4> QED BY <4>1, SubSeqRecursiveSecond
    <3>4. reported' = reported \o <<posted[h]>>
      <4>1. reported \in Seq(Ops) /\ posted[h] \in Ops
        BY <1>4, <3>1
      <4>2. Append(reported, posted[h]) = reported \o <<posted[h]>>
        BY <4>1, AppendIsConcat
      <4> QED BY <3>1, <4>2
    <3>5. h - 1 = m
      BY <1>4, <3>1
    <3> QED BY <1>4, <3>2, <3>3, <3>4, <3>5
  <2> QED BY <2>1, <2>2
<1> PICK vs, hs : /\ vs = [k \in 0 .. l - 1 |-> views[k + 1]]
                  /\ hs = [k \in 0 .. l - 1 |-> heard[k + 1]]
  OBVIOUS
<1>7. /\ Len(OnTheWay') = l - 1
      /\ \A k \in 1 .. l - 1 : OnTheWay'[k] = OnTheWay[k + 1]
  BY <1>1, HeadTailProperties, EmptySeq
<1>8. /\ vs \in [0 .. l - 1 -> View] /\ hs \in [0 .. l - 1 -> Nat]
      /\ vs[0] = shown' /\ hs[0] = Len(reported')
      /\ vs[l - 1] = views[l] /\ hs[l - 1] = heard[l]
      /\ \A k \in 1 .. l - 1 : /\ vs[k] = views[k + 1] /\ vs[k - 1] = views[k]
                               /\ hs[k] = heard[k + 1] /\ hs[k - 1] = heard[k]
  <2>1. \A k \in 0 .. l - 1 : k + 1 \in 0 .. l
    BY <1>1
  <2>2. vs \in [0 .. l - 1 -> View] /\ hs \in [0 .. l - 1 -> Nat]
    BY <1>2, <2>1
  <2>3. 0 \in 0 .. l - 1 /\ l - 1 \in 0 .. l - 1 /\ (l - 1) + 1 = l
    BY <1>1
  <2>4. \A k \in 1 .. l - 1 : k \in 0 .. l - 1 /\ k - 1 \in 0 .. l - 1 /\ (k - 1) + 1 = k
    BY <1>1
  <2> QED BY <1>1, <1>6, <2>2, <2>3, <2>4
<1>9. \A k \in 1 .. l - 1 : Allowed(vs[k - 1], hs[k - 1], OnTheWay[k], vs[k], hs[k])'
  <2> SUFFICES ASSUME NEW k \in 1 .. l - 1
               PROVE  Allowed(vs[k - 1], hs[k - 1], OnTheWay[k], vs[k], hs[k])'
    OBVIOUS
  <2>1. k + 1 \in 1 .. l /\ (k + 1) - 1 = k
    BY <1>1
  <2>2. Allowed(views[k], heard[k], OnTheWay[k + 1], views[k + 1], heard[k + 1])
    BY <1>2, <2>1
  <2> QED BY <1>3, <1>7, <1>8, <2>2 DEF Allowed
<1>10. WorkerShows(vs[l - 1], hs[l - 1])'
  BY <1>2, <1>3, <1>8 DEF WorkerShows, Settled, Op, workVars, fileVars
<1>11. Leads(vs, hs)'
  BY <1>7, <1>8, <1>9, <1>10 DEF Leads
<1>12. PostedOnce' /\ Dispatching' /\ ReportedInOrder'
  <2>1. Dispatching'
    BY <1>3 DEF Dispatching
  <2>2. ReportedInOrder'
    BY <1>3, <1>5, <1>6 DEF ReportedInOrder
  <2>3. PostedOnce'
    BY <1>3 DEF FullInv, WayInv, PostedOnce
  <2> QED BY <2>1, <2>2, <2>3
<1> QED BY <1>11, <1>12 DEF WayInv

-----------------------------------------------------------------------------
(* Theorems.                                                               *)

\* Nothing is on its way at first.
LEMMA InitWay == Init => WayInv
<1> SUFFICES ASSUME Init PROVE WayInv
  OBVIOUS
<1> PICK views, heard : views = [k \in 0 .. 0 |-> FreshView] /\ heard = [k \in 0 .. 0 |-> 0]
  OBVIOUS
<1>1. OnTheWay = <<>> /\ Len(OnTheWay) = 0
  BY DEF Init, OnTheWay
<1>2. /\ views \in [0 .. 0 -> View] /\ heard \in [0 .. 0 -> Nat]
      /\ views[0] = shown /\ heard[0] = Len(reported)
  BY EmptyTypes DEF Init
<1>3. WorkerShows(views[0], heard[0])
  BY DEF Init, WorkerShows, UnderWay, InOperation
<1>4. Leads(views, heard)
  BY <1>1, <1>2, <1>3 DEF Leads
<1>5. PostedOnce /\ Dispatching
  BY DEF Init, PostedOnce, Dispatching
<1>6. ReportedInOrder
  <2>1. reported = <<>> /\ posted = <<>> /\ Len(reported) = 0 /\ Len(posted) = 0
    BY DEF Init
  <2>2. SubSeq(posted, 1, 0) = <<>>
    BY SubSeqEmpty
  <2> QED BY <2>1, <2>2 DEF ReportedInOrder
<1> QED BY <1>4, <1>5, <1>6 DEF WayInv

LEMMA NextFullInv == ASSUME FullInv, [Next]_vars PROVE FullInv'
<1>1. IInv' /\ WorkInOrder'
  BY NextIInv, NextInOrder DEF FullInv
<1>2. ASSUME Worker \/ SpuriousWakeup PROVE WayInv'
  BY <1>2, WaitingKeepsWay, StartKeepsWay, RaiseKeepsWay, StartFileKeepsWay, SettledKeepsWay,
     CompleteKeepsWay, HashingKeepsWay, CanceledKeepsWay DEF Worker
<1>3. ASSUME Client PROVE WayInv'
  BY <1>3, OwnerKeepsWay, PostKeepsWay, SwapKeepsWay, DispatchKeepsWay DEF Client
<1>4. ASSUME UNCHANGED vars PROVE WayInv'
  <2>1. UNCHANGED <<pendingEvents, eventsQueue, client, posted, shown, reported, workVars, fileVars, pc>>
    BY <1>4 DEF vars, opsVars, eventVars, workerVars, uiVars, shownVars
  <2>2. Dispatching'
    BY <2>1 DEF FullInv, WayInv, Dispatching
  <2> QED BY <2>1, <2>2, ClientKeepsWay DEF OnTheWay
<1> QED BY <1>1, <1>2, <1>3, <1>4 DEF Next, FullInv

LEMMA FullInvariance == Spec => []FullInv
<1>1. Init => FullInv
  BY InitIInv, InitWay DEF FullInv, Init, WorkInOrder
<1>2. FullInv /\ [Next]_vars => FullInv'
  BY NextFullInv
<1> QED BY <1>1, <1>2, PTL DEF Spec

\* The handler hears of the operations in posting order and of each once,
\* whatever batch, exception or cancel each of them met and however far it lags
\* behind the worker.
THEOREM ReportedStaysInOrder == Spec => []ReportedInOrder
<1>1. FullInv => ReportedInOrder
  BY DEF FullInv, WayInv
<1> QED BY <1>1, FullInvariance, PTL

\* Every step of the program is one callback of the contract, or none.
LEMMA StepOfContract ==
  ASSUME FullInv, [Next]_vars
  PROVE  [EventHandlerContract!Next]_(EventHandlerContract!protocolVars)
<1>1. ASSUME DispatchEvent PROVE EventHandlerContract!Next \/ UNCHANGED <<shown, reported>>
  <2> PICK views, heard : Leads(views, heard)
    BY DEF FullInv, WayInv
  <2> PICK e, n : e = Head(pendingEvents) /\ n = heard[1]
    OBVIOUS
  <2>1. /\ e \in Event /\ n \in Nat /\ Allowed(shown, Len(reported), e, shown', n)
        /\ reported' = IF n = Len(reported) THEN reported ELSE Append(reported, e.op)
    BY <1>1, WayDispatched
  <2> QED BY <2>1, AllowedIsStep
<1>2. ASSUME Worker \/ SpuriousWakeup PROVE UNCHANGED <<shown, reported>>
  BY <1>2 DEF Worker, SpuriousWakeup, Sleep, TakeOps, Exit, StartVerify, StartCreate, StartOperation, Raise,
              StartFile, OpenFails, Open, HashRead, HashStops, FileHashed, HashFailed, HashCanceled,
              CompleteOperation, uiVars, shownVars
<1>3. ASSUME Client, ~DispatchEvent PROVE UNCHANGED <<shown, reported>>
  BY <1>3 DEF Client, start, Post, PostCancel, SwapEvents, RequestShutdown, CancelForShutdown, Join,
              TakeWakeup, uiVars, shownVars
<1>4. ASSUME UNCHANGED vars PROVE UNCHANGED <<shown, reported>>
  BY <1>4 DEF vars, uiVars, shownVars
<1> QED BY <1>1, <1>2, <1>3, <1>4 DEF Next, EventHandlerContract!protocolVars

\* Two queues, two threads and a swap later, what an EventHandler receives is
\* what event_handler.hpp lets it rely on: the callbacks come in the order of the
\* contract and the totals at the end are those of the files it was told about.
THEOREM HandlersContractHolds == Spec => HandlerContract
<1>1. Init => EventHandlerContract!Init
  BY DEF Init, FreshView, EventHandlerContract!Init
<1>2. FullInv /\ [Next]_vars => [EventHandlerContract!Next]_(EventHandlerContract!protocolVars)
  BY StepOfContract
<1> QED BY <1>1, <1>2, FullInvariance, PTL DEF Spec, HandlerContract, EventHandlerContract!Spec

-----------------------------------------------------------------------------
(* The main thread is a client of the scheduler.                           *)

LEMMA LoopStep == ASSUME [LoopNext]_allVars PROVE [Next]_vars
<1>1. ASSUME WorkerStep \/ (SpuriousWakeup /\ UNCHANGED loopVars) PROVE Next
  BY <1>1 DEF WorkerStep, Next
<1>2. ASSUME MainStep PROVE Client \/ UNCHANGED vars
  BY <1>2 DEF MainStep, StartScheduler, ArgumentsPosted, Run, Dispatch, GetMessage, Wakeup,
              LeaveLoop, Shutdown, Client
<1>3. ASSUME PostArgument \/ OtherMessage \/ DialogWakeup \/ UserStep PROVE Client \/ UNCHANGED vars
  <2>1. ASSUME \E op \in Verifies : Post(op) PROVE Client
    BY <2>1 DEF Client, Ops
  <2> QED BY <1>3, <2>1 DEF PostArgument, OtherMessage, DialogWakeup, UserStep, OpenDialog,
              CloseDialog, CloseWindow, Client
<1>4. ASSUME UNCHANGED allVars PROVE UNCHANGED vars
  BY <1>4 DEF allVars
<1> QED BY <1>1, <1>2, <1>3, <1>4 DEF LoopNext, Next

\* Whatever the user does and whatever arrives on the command line, the
\* application uses the scheduler as its specification has it: what is proved of
\* the scheduler holds in the application.
THEOREM LoopUsesScheduler == LoopSpec => Spec
<1>1. LoopInit => Init
  BY DEF LoopInit
<1>2. [LoopNext]_allVars => [Next]_vars
  BY LoopStep
<1> QED BY <1>1, <1>2, PTL DEF LoopSpec, Spec

LEMMA LoopFullInvariance == LoopSpec => []FullInv
  BY LoopUsesScheduler, FullInvariance, PTL

-----------------------------------------------------------------------------
(* The types, and the wakeups.                                             *)

MainTypeOK ==
  /\ ui \in {"startup", "arguments", "run", "dispatch", "message", "dialog", "shutdown"}
  /\ noGui \in BOOLEAN /\ quit \in BOOLEAN /\ written \in BOOLEAN
  /\ opened \in 0 .. MaxOpen

LEMMA InitMainType == LoopInit => MainTypeOK
<1> SUFFICES ASSUME LoopInit PROVE MainTypeOK
  OBVIOUS
<1>1. ui = "startup" /\ opened \in 0 .. MaxOpen
  BY LoopAssumption DEF LoopInit
<1>2. noGui \in BOOLEAN /\ quit \in BOOLEAN /\ written \in BOOLEAN
  BY DEF LoopInit
<1> QED BY <1>1, <1>2 DEF MainTypeOK

LEMMA NextMainType == ASSUME MainTypeOK, [LoopNext]_allVars PROVE MainTypeOK'
<1> USE LoopAssumption DEF MainTypeOK, loopVars, Quiet, Go, MainAt
<1>1. CASE WorkerStep \/ (SpuriousWakeup /\ UNCHANGED loopVars)
  BY <1>1 DEF WorkerStep
<1>2. CASE StartScheduler \/ ArgumentsPosted \/ Run \/ GetMessage \/ Shutdown
  BY <1>2 DEF StartScheduler, ArgumentsPosted, Run, GetMessage, Wakeup, LeaveLoop, Shutdown
<1>3. CASE Dispatch
  <2>1. Completes \in BOOLEAN
    BY DEF Completes
  <2> QED BY <1>3, <2>1 DEF Dispatch
<1>4. CASE PostArgument \/ OtherMessage \/ DialogWakeup
  BY <1>4 DEF PostArgument, OtherMessage, DialogWakeup
<1>5. CASE OpenDialog
  BY <1>5 DEF OpenDialog
<1>7. CASE CloseDialog
  BY <1>7 DEF CloseDialog
<1>8. CASE CloseWindow
  <2>1. quit' \in BOOLEAN
    BY <1>8 DEF CloseWindow
  <2>2. ui' = "run" /\ UNCHANGED <<noGui, written, opened>>
    BY <1>8 DEF CloseWindow
  <2> QED BY <2>1, <2>2
<1>6. CASE UNCHANGED allVars
  BY <1>6 DEF allVars
<1> QED BY <1>1, <1>2, <1>3, <1>4, <1>5, <1>6, <1>7, <1>8 DEF LoopNext, MainStep, UserStep

\* The application is type-correct, its dialogs included.
THEOREM LoopTypeCorrect == LoopSpec => []LoopTypeOK
<1>1. FullInv /\ MainTypeOK => LoopTypeOK
  BY DEF FullInv, IInv, WorkerInv, UiInv, TypeOK, MainTypeOK, LoopTypeOK
<1>2. LoopInit => MainTypeOK
  BY InitMainType
<1>3. MainTypeOK /\ [LoopNext]_allVars => MainTypeOK'
  BY NextMainType
<1> QED BY <1>1, <1>2, <1>3, LoopFullInvariance, PTL DEF LoopSpec

\* NoLostWakeup is not inductive: the thread comes to GetMessage() from the
\* dispatch of a batch, during which the queue fills again.
WakeupInv ==
  ui \in {"message", "dispatch"} /\ wakeups = 0 /\ eventsQueue # <<>>
    => /\ Len(eventsQueue) = 1
       /\ eventsQueue[1].type = "OperationStarted"
       /\ pc = "files" /\ file = 0

\* Every signal but the one that starts an operation leaves a wakeup in the queue.
LEMMA WorkerWakes ==
  ASSUME EventsTypeOK, Worker \/ SpuriousWakeup
  PROVE  \/ wakeups' > 0
         \/ wakeups' = wakeups /\ eventsQueue' = eventsQueue
            /\ (pc # "files" \/ (pc' = pc /\ file' = file))
         \/ /\ pc' = "files" /\ file' = 0 /\ wakeups' = wakeups /\ pc = "operation"
            /\ \E n \in 0 .. MaxFiles : signalOperationStarted(n)
<1>1. ASSUME NEW e, Signal(e) PROVE wakeups' > 0
  BY <1>1, SchedulerAssumption DEF EventsTypeOK, Signal, PostWakeup
<1>2. CASE Raise \/ StartFile \/ OpenFails \/ FileHashed \/ HashFailed \/ HashCanceled \/ CompleteOperation
  BY <1>1, <1>2 DEF Raise, StartFile, OpenFails, FileHashed, HashFailed, HashCanceled, CompleteOperation,
                    signalError, signalFileStarted, signalFileCompleted, signalCanceled,
                    signalOperationCompleted
<1>3. CASE HashRead
  BY <1>1, <1>3 DEF HashRead, signalProgress, eventVars, WorkerAt
<1>4. CASE Sleep \/ TakeOps \/ Exit \/ Open \/ HashStops \/ SpuriousWakeup
  BY <1>4 DEF Sleep, TakeOps, Exit, Open, HashStops, SpuriousWakeup, eventVars, WorkerAt
<1>5. CASE StartVerify \/ StartCreate
  <2>1. PICK n \in 0 .. MaxFiles : StartOperation(n) /\ pc = "operation"
    BY <1>5, SchedulerAssumption DEF StartVerify, StartCreate, WorkerAt
  <2> QED BY <2>1 DEF StartOperation, signalOperationStarted
<1> QED BY <1>2, <1>3, <1>4, <1>5 DEF Worker

LEMMA NextWakeup == ASSUME FullInv, WakeupInv, [LoopNext]_allVars PROVE WakeupInv'
<1>1. EventsTypeOK /\ eventsQueue \in Seq(Event) /\ wakeups \in Nat /\ pendingOps \in Seq(Ops)
  BY SchedulerAssumption DEF FullInv, IInv, EventsTypeOK, WorkerInv, WorkerTypeOK
<1>2. CASE WorkerStep \/ (SpuriousWakeup /\ UNCHANGED loopVars)
  <2>1. (Worker \/ SpuriousWakeup) /\ ui' = ui
    BY <1>2 DEF WorkerStep, loopVars
  <2>2. CASE wakeups' > 0
    BY <2>2 DEF WakeupInv
  <2>3. CASE /\ wakeups' = wakeups /\ eventsQueue' = eventsQueue
             /\ (pc # "files" \/ (pc' = pc /\ file' = file))
    BY <2>1, <2>3 DEF WakeupInv
  <2>4. CASE /\ pc' = "files" /\ file' = 0 /\ wakeups' = wakeups /\ pc = "operation"
             /\ \E n \in 0 .. MaxFiles : signalOperationStarted(n)
    <3>1. PICK e : eventsQueue' = Append(eventsQueue, e) /\ e.type = "OperationStarted"
      <4>1. PICK n \in 0 .. MaxFiles : signalOperationStarted(n)
        BY <2>4
      <4> QED BY <4>1 DEF signalOperationStarted
    <3>2. eventsQueue = <<>> => Len(eventsQueue') = 1 /\ eventsQueue'[1] = e
      BY <3>1
    <3> QED BY <2>1, <2>4, <3>1, <3>2 DEF WakeupInv
  <2> QED BY <1>1, <2>1, <2>2, <2>3, <2>4, WorkerWakes
<1>3. CASE Run
  BY <1>3 DEF Run, SwapEvents, Go, WakeupInv
<1>4. CASE Dispatch
  BY <1>4 DEF Dispatch, MainAt, Go, DispatchEvent, eventVars, workerVars, fileVars, WakeupInv
<1>5. CASE StartScheduler \/ ArgumentsPosted \/ PostArgument \/ OtherMessage \/ DialogWakeup \/ OpenDialog
           \/ CloseDialog \/ CloseWindow \/ GetMessage \/ Shutdown
  <2>1. ui' \notin {"message", "dispatch"}
    BY <1>5 DEF StartScheduler, ArgumentsPosted, PostArgument, OtherMessage, DialogWakeup, OpenDialog,
                CloseDialog, CloseWindow, GetMessage, Wakeup, LeaveLoop, Shutdown, Go, MainAt, loopVars
  <2> QED BY <2>1 DEF WakeupInv
<1>6. CASE UNCHANGED allVars
  BY <1>6 DEF WakeupInv, allVars, vars, eventVars, workerVars, fileVars, loopVars
<1> QED BY <1>2, <1>3, <1>4, <1>5, <1>6 DEF LoopNext, MainStep, UserStep

\* A main thread that sits in GetMessage() with no message to come has nothing
\* to dispatch but the start of an operation, whose next event will wake it:
\* taking the wakeups away in a dialog or while others are posted loses none.
THEOREM WakeupsAreNotLost == LoopSpec => []NoLostWakeup
<1>1. LoopInit => WakeupInv
  BY DEF LoopInit, WakeupInv
<1>2. FullInv /\ WakeupInv /\ [LoopNext]_allVars => WakeupInv'
  BY NextWakeup
<1>3. WakeupInv => NoLostWakeup
  BY DEF WakeupInv, NoLostWakeup, MainAt, WorkerAt
<1> QED BY <1>1, <1>2, <1>3, LoopFullInvariance, PTL DEF LoopSpec

-----------------------------------------------------------------------------
(* Without a window.                                                       *)

\* Nothing is canceled, and nothing is about to be.
NoCancel ==
  /\ cancelEvent # "set" /\ hashResult # "Canceled" /\ shown.phase # "Canceled"
  /\ \A k \in 1 .. Len(eventsQueue) : eventsQueue[k].type # "Canceled"
  /\ \A k \in 1 .. Len(pendingEvents) : pendingEvents[k].type # "Canceled"

\* The one operation there is has been completed, and nothing is left of it.
Over ==
  /\ OutputIsComplete /\ posted # <<>>
  /\ pendingEvents = <<>> /\ pendingOps = <<>> /\ opsQueue = <<>>

\* One operation at most is posted, a verify, and it runs to its end.
NoGuiInv ==
  /\ ui = "shutdown" => quit
  /\ noGui =>
       /\ Len(posted) <= 1
       /\ \A i \in 1 .. Len(posted) : posted[i] \in Verifies
       /\ ui # "dialog"
       /\ IF quit THEN Over ELSE NoCancel

LEMMA OneIsNotEmpty == ASSUME NEW S, NEW s \in Seq(S), Len(s) = 1 PROVE s # <<>>
  BY EmptySeq

\* The last event of the only operation: what it shows is complete, no event is
\* behind it and the worker has nothing to do.
LEMMA CompletionIsLast ==
  ASSUME FullInv, DispatchEvent, Head(pendingEvents).type = "OperationCompleted",
         Len(posted) <= 1, \A i \in 1 .. Len(posted) : posted[i] \in Verifies,
         shown.phase # "Canceled"
  PROVE  /\ shown'.ok + shown'.bad + shown'.missing = shown'.n_files
         /\ eventsQueue = <<>> /\ Tail(pendingEvents) = <<>>
         /\ posted # <<>> /\ pendingOps = <<>> /\ opsQueue = <<>>
<1> PICK views, heard : Leads(views, heard)
  BY DEF FullInv, WayInv
<1> PICK l, e : l = Len(OnTheWay) /\ e = Head(pendingEvents)
  OBVIOUS
<1>1. /\ OnTheWay \in Seq(Event) /\ l \in Nat /\ l > 0 /\ e \in Event
      /\ pendingEvents \in Seq(Event) /\ eventsQueue \in Seq(Event) /\ pendingEvents # <<>>
      /\ shown' = views[1] /\ Allowed(shown, Len(reported), e, shown', heard[1])
  BY OnTheWayType, WayDispatched DEF FullInv, WayInv, Dispatching, DispatchEvent
<1>2. /\ \A k \in 1 .. l : Allowed(views[k - 1], heard[k - 1], OnTheWay[k], views[k], heard[k])
      /\ WorkerShows(views[l], heard[l])
  BY DEF Leads
<1>3. posted \in Seq(Ops) /\ Len(posted) \in Nat /\ shown \in View
  BY LenProperties DEF FullInv, IInv, OpsTypeOK, UiInv, UiTypeOK
<1>4. /\ heard[1] = 1 /\ Len(posted) = 1 /\ posted # <<>> /\ e.op \in Verifies
  <2>1. heard[1] \in 1 .. Len(posted) /\ posted[heard[1]] = e.op
    BY <1>1 DEF Allowed
  <2>2. heard[1] = 1 /\ Len(posted) = 1
    <3>1. ASSUME NEW a \in Nat, NEW h \in 1 .. a, a <= 1 PROVE h = 1 /\ a = 1
      BY <3>1
    <3> QED BY <1>3, <2>1, <3>1
  <2>3. posted # <<>>
    BY <1>3, <2>2, OneIsNotEmpty
  <2> QED BY <2>1, <2>2, <2>3
<1>5. /\ shown' = Seen(shown, e) /\ e.type = "OperationCompleted"
      /\ e.r.ok = shown.ok /\ e.r.bad = shown.bad /\ e.r.missing = shown.missing
      /\ shown.ok + shown.bad + shown.missing = shown.file /\ shown.file = shown.n_files
  <2>1. shown' = Seen(shown, e) /\ e.type = "OperationCompleted"
    BY <1>1 DEF Allowed
  <2>2. /\ e.r.ok = shown.ok /\ e.r.bad = shown.bad /\ e.r.missing = shown.missing
        /\ shown.ok + shown.bad + shown.missing = shown.file
        /\ e.op \in Verifies => shown.file = shown.n_files
    BY <1>1, <2>1 DEF Allowed
  <2> QED BY <1>4, <2>1, <2>2
<1>6. /\ shown' = [shown EXCEPT !.phase = "Completed", !.ok = e.r.ok, !.bad = e.r.bad,
                                !.missing = e.r.missing, !.was_canceled = e.r.was_canceled]
  BY <1>5 DEF Seen
<1>7. /\ shown'.phase = "Completed" /\ shown'.n_files = shown.n_files
      /\ shown'.ok = shown.ok /\ shown'.bad = shown.bad /\ shown'.missing = shown.missing
  BY <1>3, <1>5, <1>6 DEF View
<1>8. l = 1
  <2> SUFFICES ASSUME l >= 2 PROVE FALSE
    BY <1>1
  <2>1. Allowed(views[1], heard[1], OnTheWay[2], views[2], heard[2])
    BY <1>1, <1>2
  <2>2. heard[2] = 1
    BY <1>4, <2>1 DEF Allowed
  <2>3. views[1].phase = "Completed"
    BY <1>1, <1>7
  <2> QED BY <1>4, <2>1, <2>2, <2>3 DEF Allowed
<1>9. Len(pendingEvents) = 1 /\ Len(eventsQueue) = 0
  <2>1. l = Len(pendingEvents) + Len(eventsQueue)
    BY <1>1, ConcatProperties DEF OnTheWay
  <2>2. Len(pendingEvents) \in Nat \ {0} /\ Len(eventsQueue) \in Nat
    BY <1>1, EmptySeq, LenProperties
  <2>3. ASSUME NEW a \in Nat \ {0}, NEW b \in Nat, a + b = 1 PROVE a = 1 /\ b = 0
    BY <2>3
  <2> QED BY <1>8, <2>1, <2>2, <2>3
<1>10. eventsQueue = <<>> /\ Tail(pendingEvents) = <<>>
  <2>1. Tail(pendingEvents) \in Seq(Event) /\ Len(Tail(pendingEvents)) = 0
    BY <1>1, <1>9, HeadTailProperties
  <2> QED BY <1>1, <1>9, <2>1, EmptySeq
<1>11. pendingOps = <<>> /\ opsQueue = <<>>
  <2>1. pc \notin UnderWay /\ Len(finished) = 1
    <3>1. WorkerShows(shown', 1)
      BY <1>1, <1>2, <1>4, <1>8
    <3>2. pc \notin UnderWay
      BY <1>7, <3>1 DEF WorkerShows
    <3>3. finished \in Seq(Ops) /\ Len(finished) \in Nat
      BY LenProperties DEF FullInv, IInv, WorkerInv, WorkerTypeOK
    <3> QED BY <3>1, <3>2, <3>3 DEF WorkerShows
  <2>2. /\ finished \in Seq(Ops) /\ pendingOps \in Seq(Ops) /\ opsQueue \in Seq(Ops)
        /\ posted = (finished \o pendingOps) \o opsQueue
    BY DEF FullInv, IInv, WorkerInv, WorkerTypeOK, OpsTypeOK, WorkInOrder
  <2> DEFINE work == finished \o pendingOps
  <2>3. work \in Seq(Ops) /\ Len(work) = Len(finished) + Len(pendingOps)
    BY <2>2, ConcatProperties
  <2> HIDE DEF work
  <2>4. Len(posted) = Len(work) + Len(opsQueue)
    BY <2>2, <2>3, ConcatProperties DEF work
  <2>5. Len(pendingOps) \in Nat /\ Len(opsQueue) \in Nat
    BY <2>2, LenProperties
  <2>6. Len(pendingOps) = 0 /\ Len(opsQueue) = 0
    <3>1. ASSUME NEW a \in Nat, NEW b \in Nat, (1 + a) + b = 1 PROVE a = 0 /\ b = 0
      BY <3>1
    <3>2. (1 + Len(pendingOps)) + Len(opsQueue) = 1
      BY <1>4, <2>1, <2>3, <2>4
    <3> QED BY <2>5, <3>1, <3>2
  <2> QED BY <2>2, <2>6, EmptySeq
<1> QED BY <1>4, <1>5, <1>7, <1>10, <1>11

\* The worker cancels nothing on its own.
LEMMA WorkerCancelsNothing ==
  ASSUME FullInv, NoCancel, Worker \/ SpuriousWakeup PROVE NoCancel'
<1>1. /\ eventsQueue \in Seq(Event) /\ UNCHANGED <<cancelEvent, shown, pendingEvents>>
      /\ hashResult' # "Canceled"
  <2>1. eventsQueue \in Seq(Event)
    BY DEF FullInv, IInv, EventsTypeOK
  <2>2. UNCHANGED <<cancelEvent, uiVars>>
    BY DEF Worker, SpuriousWakeup, Sleep, TakeOps, Exit, StartVerify, StartCreate, StartOperation, Raise,
           StartFile, OpenFails, Open, HashRead, HashStops, FileHashed, HashFailed, HashCanceled,
           CompleteOperation
  <2>3. hashResult' # "Canceled"
    BY DEF NoCancel, Worker, SpuriousWakeup, Sleep, TakeOps, Exit, StartVerify, StartCreate,
           StartOperation, Raise, StartFile, OpenFails, Open, HashRead, HashStops, HashReturns,
           FileHashed, HashFailed, HashCanceled, CompleteOperation, NextOperation, fileVars
  <2> QED BY <2>1, <2>2, <2>3 DEF uiVars, shownVars
<1>2. \/ eventsQueue' = eventsQueue
      \/ \E e : eventsQueue' = Append(eventsQueue, e) /\ e.type # "Canceled"
  <2>1. CASE Raise \/ CompleteOperation
    BY <2>1 DEF Raise, CompleteOperation, signalError, signalOperationCompleted, Signal
  <2>2. CASE StartVerify \/ StartCreate
    <3>1. PICK n : StartOperation(n)
      BY <2>2 DEF StartVerify, StartCreate
    <3> QED BY <3>1 DEF StartOperation, signalOperationStarted
  <2>3. CASE StartFile
    BY <2>3 DEF StartFile, signalFileStarted, Signal
  <2>4. CASE OpenFails \/ FileHashed \/ HashFailed
    <3>1. PICK s : signalFileCompleted(s)
      BY <2>4 DEF OpenFails, FileHashed, HashFailed
    <3> QED BY <3>1 DEF signalFileCompleted, Signal
  <2>5. CASE HashRead
    BY <2>5 DEF HashRead, signalProgress, Signal, eventVars
  <2>6. CASE Sleep \/ TakeOps \/ Exit \/ Open \/ HashStops \/ SpuriousWakeup
    BY <2>6 DEF Sleep, TakeOps, Exit, Open, HashStops, SpuriousWakeup, eventVars
  <2>7. CASE HashCanceled
    BY <2>7 DEF HashCanceled, NoCancel
  <2> QED BY <2>1, <2>2, <2>3, <2>4, <2>5, <2>6, <2>7 DEF Worker
<1>3. \A k \in 1 .. Len(eventsQueue') : eventsQueue'[k].type # "Canceled"
  <2>1. CASE eventsQueue' = eventsQueue
    BY <2>1 DEF NoCancel
  <2>2. ASSUME NEW e, eventsQueue' = Append(eventsQueue, e), e.type # "Canceled",
               NEW k \in 1 .. Len(eventsQueue')
        PROVE  eventsQueue'[k].type # "Canceled"
    <3>1. /\ Len(eventsQueue) \in Nat /\ Len(eventsQueue') = Len(eventsQueue) + 1
          /\ eventsQueue'[Len(eventsQueue) + 1] = e
          /\ \A i \in 1 .. Len(eventsQueue) : eventsQueue'[i] = eventsQueue[i]
      BY <1>1, <2>2
    <3> QED BY <2>2, <3>1 DEF NoCancel
  <2> QED BY <1>2, <2>1, <2>2
<1> QED BY <1>1, <1>3 DEF NoCancel

\* With nothing left to do it says nothing more.
LEMMA WorkerStaysQuiet ==
  ASSUME FullInv, pendingOps = <<>>, opsQueue = <<>>, Worker \/ SpuriousWakeup
  PROVE  UNCHANGED <<opsQueue, posted, pendingOps, eventsQueue, uiVars>>
<1>1. pc \notin InOperation
  BY DEF FullInv, IInv, WorkerInv, WorkerBusy
<1>2. Sleep \/ Exit \/ SpuriousWakeup
  BY <1>1 DEF Worker, TakeOps, StartVerify, StartCreate, Raise, StartFile, OpenFails, Open, HashRead,
              HashStops, FileHashed, HashFailed, HashCanceled, CompleteOperation, WorkerAt, InOperation
<1> QED BY <1>2 DEF Sleep, Exit, SpuriousWakeup, opsVars, eventVars, workVars

LEMMA WorkerKeepsNoGui ==
  ASSUME FullInv, NoGuiInv, Worker \/ SpuriousWakeup, UNCHANGED loopVars PROVE NoGuiInv'
<1>1. UNCHANGED <<noGui, ui, quit, written, posted>>
  BY DEF loopVars, opsVars, Worker, SpuriousWakeup, Sleep, TakeOps, Exit, StartVerify, StartCreate,
         StartOperation, Raise, StartFile, OpenFails, Open, HashRead, HashStops, FileHashed, HashFailed,
         HashCanceled, CompleteOperation
<1>2. NoCancel => NoCancel'
  BY WorkerCancelsNothing
<1>3. ASSUME Over PROVE Over'
  <2>1. UNCHANGED <<opsQueue, posted, pendingOps, eventsQueue, uiVars>>
    BY <1>3, WorkerStaysQuiet DEF Over
  <2> QED BY <1>1, <1>3, <2>1 DEF Over, OutputIsComplete, uiVars, shownVars
<1> QED BY <1>1, <1>2, <1>3 DEF NoGuiInv

\* A main thread that neither posts, cancels nor dispatches.
LEMMA QuietKeepsNoGui ==
  ASSUME NoGuiInv, UNCHANGED <<noGui, quit, written, posted, opsQueue, pendingOps, hashResult, shown,
                               eventsQueue, pendingEvents>>,
         ui' = "shutdown" => quit, noGui => ui' # "dialog",
         cancelEvent' # "set" \/ cancelEvent' = cancelEvent \/ quit
  PROVE  NoGuiInv'
<1>1. ~quit => (NoCancel => NoCancel')
  BY DEF NoCancel
<1>2. Over => Over'
  BY DEF Over, OutputIsComplete
<1> QED BY <1>1, <1>2 DEF NoGuiInv

LEMMA RunKeepsNoGui == ASSUME FullInv, NoGuiInv, Run PROVE NoGuiInv'
<1>1. /\ UNCHANGED <<noGui, quit, written, posted, opsQueue, pendingOps, hashResult, cancelEvent, shown>>
      /\ ui' \notin {"shutdown", "dialog"}
      /\ pendingEvents' = eventsQueue /\ eventsQueue' = <<>>
  BY DEF Run, SwapEvents, Go, Quiet, opsVars, workerVars, workVars, fileVars, shownVars
<1>2. NoCancel => NoCancel'
  <2>1. Len(eventsQueue') = 0
    BY <1>1
  <2> QED BY <1>1, <2>1 DEF NoCancel
<1>3. Over => (noGui /\ quit => Over')
  BY <1>1 DEF Over, OutputIsComplete
<1> QED BY <1>1, <1>2, <1>3 DEF NoGuiInv

\* A handler shows a cancel only after it was told of one.
LEMMA SeenIsNotCanceled ==
  ASSUME NEW v \in View, NEW e \in Event, v.phase # "Canceled", e.type # "Canceled"
  PROVE  Seen(v, e).phase # "Canceled"
<1>1. FreshView \in View
  BY EmptyTypes
<1>2. e.type \in {"OperationStarted", "FileStarted", "FileCompleted", "OperationCompleted", "Progress", "Error"}
  BY DEF Event
<1> QED BY <1>1, <1>2 DEF Seen, View

LEMMA DispatchKeepsNoGui == ASSUME FullInv, NoGuiInv, Dispatch PROVE NoGuiInv'
<1> PICK e : e = Head(pendingEvents)
  OBVIOUS
<1>1. /\ UNCHANGED <<noGui, posted, opsQueue, pendingOps, hashResult, cancelEvent, eventsQueue>>
      /\ ui' \notin {"shutdown", "dialog"}
      /\ pendingEvents' = Tail(pendingEvents) /\ shown' = Seen(shown, e) /\ DispatchEvent
      /\ quit' = (quit \/ Completes) /\ written' = (written \/ Completes)
      /\ Completes <=> noGui /\ e.type = "OperationCompleted"
  BY DEF Dispatch, DispatchEvent, Go, Completes, opsVars, eventVars, workerVars, workVars, fileVars
<1>2. pendingEvents \in Seq(Event) /\ pendingEvents # <<>>
  BY <1>1, OnTheWayType DEF FullInv, WayInv, Dispatching, DispatchEvent
<1>3. CASE ~noGui
  BY <1>1, <1>3 DEF NoGuiInv
<1>4. CASE noGui
  <2>1. /\ ~quit /\ NoCancel /\ Len(posted) <= 1
        /\ \A i \in 1 .. Len(posted) : posted[i] \in Verifies
    BY <1>2, <1>4 DEF NoGuiInv, Over
  <2>2. CASE Completes
    <3>1. /\ shown'.ok + shown'.bad + shown'.missing = shown'.n_files
          /\ eventsQueue = <<>> /\ Tail(pendingEvents) = <<>>
          /\ posted # <<>> /\ pendingOps = <<>> /\ opsQueue = <<>>
      BY <1>1, <2>1, <2>2, CompletionIsLast DEF NoCancel
    <3>2. Over'
      BY <1>1, <2>2, <3>1 DEF Over, OutputIsComplete
    <3> QED BY <1>1, <1>4, <2>1, <2>2, <3>2 DEF NoGuiInv
  <2>3. CASE ~Completes
    <3>1. /\ Len(pendingEvents) \in Nat \ {0} /\ e = pendingEvents[1]
          /\ Len(pendingEvents') = Len(pendingEvents) - 1
          /\ \A k \in 1 .. Len(pendingEvents') : pendingEvents'[k] = pendingEvents[k + 1]
      BY <1>1, <1>2, HeadTailProperties, EmptySeq, LenProperties
    <3>2. e \in Event /\ e.type # "Canceled"
      <4>1. 1 \in 1 .. Len(pendingEvents)
        BY <3>1
      <4> QED BY <1>2, <2>1, <3>1, <4>1, ElementOfSeq DEF NoCancel
    <3>3. shown'.phase # "Canceled"
      <4>1. shown \in View /\ shown.phase # "Canceled"
        BY <2>1 DEF NoCancel, FullInv, IInv, UiInv, UiTypeOK
      <4> QED BY <1>1, <3>2, <4>1, SeenIsNotCanceled
    <3>4. \A k \in 1 .. Len(pendingEvents') : pendingEvents'[k].type # "Canceled"
      <4> SUFFICES ASSUME NEW k \in 1 .. Len(pendingEvents') PROVE pendingEvents'[k].type # "Canceled"
        OBVIOUS
      <4>1. k + 1 \in 1 .. Len(pendingEvents)
        BY <3>1
      <4> QED BY <2>1, <3>1, <4>1 DEF NoCancel
    <3>5. NoCancel'
      BY <1>1, <2>1, <3>3, <3>4 DEF NoCancel
    <3> QED BY <1>1, <1>4, <2>1, <2>3, <3>5 DEF NoGuiInv
  <2> QED BY <2>2, <2>3
<1> QED BY <1>3, <1>4

LEMMA PostKeepsNoGui ==
  ASSUME FullInv, NoGuiInv, NEW op \in Ops, Post(op), UNCHANGED <<noGui, quit, written>>,
         noGui => op \in Verifies /\ posted = <<>> /\ ui' # "dialog", ui' # "shutdown"
  PROVE  NoGuiInv'
<1>1. posted' = Append(posted, op) /\ UNCHANGED <<hashResult, cancelEvent, shown, eventsQueue, pendingEvents>>
  BY DEF Post, eventVars, fileVars, uiVars, shownVars
<1>2. ASSUME noGui PROVE ~quit
  BY <1>2 DEF NoGuiInv, Over
<1>3. ASSUME noGui PROVE Len(posted') = 1 /\ posted'[1] = op
  BY <1>1, <1>3
<1>4. NoCancel => NoCancel'
  BY <1>1 DEF NoCancel
<1>5. ASSUME noGui PROVE Len(posted') <= 1 /\ \A i \in 1 .. Len(posted') : posted'[i] \in Verifies
  <2>1. Len(posted') = 1 /\ posted'[1] = op /\ op \in Verifies
    BY <1>3, <1>5
  <2> QED BY <2>1
<1>6. ASSUME noGui PROVE ~quit' /\ NoCancel' /\ ui' # "dialog"
  BY <1>2, <1>4, <1>6 DEF NoGuiInv
<1> QED BY <1>5, <1>6 DEF NoGuiInv

LEMMA NextNoGui == ASSUME FullInv, NoGuiInv, [LoopNext]_allVars PROVE NoGuiInv'
<1>1. CASE WorkerStep \/ (SpuriousWakeup /\ UNCHANGED loopVars)
  BY <1>1, WorkerKeepsNoGui DEF WorkerStep
<1>2. CASE StartScheduler
  <2>1. /\ UNCHANGED <<noGui, quit, written, posted, opsQueue, pendingOps, hashResult, shown,
                       eventsQueue, pendingEvents>>
        /\ ui' = "arguments" /\ cancelEvent' = "reset"
    BY <1>2 DEF StartScheduler, start, Go, Quiet, opsVars, eventVars, workVars, fileVars, uiVars, shownVars
  <2> QED BY <2>1, QuietKeepsNoGui
<1>3. CASE ArgumentsPosted \/ OtherMessage \/ OpenDialog
  <2>1. /\ UNCHANGED <<noGui, quit, written, posted, opsQueue, pendingOps, hashResult, shown,
                       eventsQueue, pendingEvents, cancelEvent>>
        /\ ui' # "shutdown" /\ (noGui => ui' # "dialog")
    BY <1>3 DEF ArgumentsPosted, OtherMessage, OpenDialog, Go, Quiet, vars, opsVars, eventVars, workerVars,
                workVars, fileVars, uiVars, shownVars
  <2> QED BY <2>1, QuietKeepsNoGui
<1>4. CASE Wakeup \/ DialogWakeup \/ LeaveLoop \/ (Shutdown /\ Join)
  <2>1. /\ UNCHANGED <<noGui, quit, written, posted, opsQueue, pendingOps, hashResult, shown,
                       eventsQueue, pendingEvents, cancelEvent>>
        /\ ui' = "shutdown" => quit \/ ui = "shutdown"
        /\ ui' = "dialog" => ui = "dialog"
    BY <1>4 DEF Wakeup, DialogWakeup, LeaveLoop, Shutdown, TakeWakeup, RequestShutdown, Join, MainAt, Go,
                Quiet, loopVars, opsVars, eventVars, workerVars, workVars, fileVars, uiVars, shownVars
  <2> QED BY <2>1, QuietKeepsNoGui DEF NoGuiInv
<1>5. CASE Shutdown /\ CancelForShutdown
  <2>1. /\ UNCHANGED <<noGui, quit, written, posted, opsQueue, pendingOps, hashResult, shown,
                       eventsQueue, pendingEvents>>
        /\ ui = "shutdown" /\ ui' = "shutdown"
    BY <1>5 DEF Shutdown, CancelForShutdown, MainAt, loopVars, opsVars, eventVars, workVars, fileVars,
                shownVars
  <2> QED BY <2>1, QuietKeepsNoGui DEF NoGuiInv
<1>6. CASE PostArgument
  <2>1. PICK op \in Verifies : Post(op) /\ UNCHANGED loopVars /\ ui = "arguments"
                               /\ (noGui => posted = <<>>)
    BY <1>6 DEF PostArgument, MainAt
  <2> QED BY <2>1, PostKeepsNoGui DEF loopVars, Ops
<1>7. CASE CloseDialog
  <2>1. ~noGui /\ noGui' = noGui /\ ui' = "run"
    BY <1>7 DEF CloseDialog, MainAt, Go, Quiet, NoGuiInv
  <2> QED BY <2>1 DEF NoGuiInv
<1>8. CASE CloseWindow
  <2>1. ~noGui /\ noGui' = noGui /\ ui' = "run"
    BY <1>8 DEF CloseWindow, Go
  <2> QED BY <2>1 DEF NoGuiInv
<1>9. CASE UNCHANGED allVars
  <2>1. UNCHANGED <<noGui, ui, quit, written, posted, opsQueue, pendingOps, hashResult, shown,
                    eventsQueue, pendingEvents, cancelEvent>>
    BY <1>9 DEF allVars, loopVars, vars, opsVars, eventVars, workerVars, workVars, fileVars, uiVars,
                shownVars
  <2> QED BY <2>1, QuietKeepsNoGui DEF NoGuiInv
<1> QED BY <1>1, <1>2, <1>3, <1>4, <1>5, <1>6, <1>7, <1>8, <1>9, RunKeepsNoGui, DispatchKeepsNoGui
        DEF LoopNext, MainStep, GetMessage, Shutdown, UserStep

\* Without a window the process that ends on its own has written the results of
\* the whole checksum file: the completion is the last event there is, nothing of
\* the operation is left in either queue, and nothing can have canceled it.
THEOREM OutputIsAlwaysComplete == LoopSpec => []OutputIsComplete
<1>1. LoopInit => NoGuiInv
  <2> SUFFICES ASSUME LoopInit PROVE NoGuiInv
    OBVIOUS
  <2>1. /\ ui = "startup" /\ quit = FALSE /\ posted = <<>> /\ Len(posted) = 0
        /\ eventsQueue = <<>> /\ pendingEvents = <<>> /\ cancelEvent = "null" /\ hashResult = "None"
        /\ shown.phase = "Idle"
    BY DEF LoopInit, Init, FreshView
  <2>2. NoCancel
    BY <2>1 DEF NoCancel
  <2> QED BY <2>1, <2>2 DEF NoGuiInv
<1>2. FullInv /\ NoGuiInv /\ [LoopNext]_allVars => NoGuiInv'
  BY NextNoGui
<1>3. NoGuiInv => OutputIsComplete
  BY DEF NoGuiInv, Over, OutputIsComplete
<1> QED BY <1>1, <1>2, <1>3, LoopFullInvariance, PTL DEF LoopSpec
=============================================================================
