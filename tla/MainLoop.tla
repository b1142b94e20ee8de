------------------------------ MODULE MainLoop ------------------------------
(***************************************************************************)
(* The application around the scheduler (client_gui/QuickerSFV.cpp): the   *)
(* main thread starts the scheduler, posts the operations of the command   *)
(* line and then alternates between OperationScheduler::run() and          *)
(* GetMessage().  In a window the user posts operations from dialogs and   *)
(* closes the window; without one (an output file was given) the completed *)
(* operation writes the file and ends the loop.                            *)
(*                                                                         *)
(* Every step of the scheduler and of its client is an action of           *)
(* OperationScheduler; this module says when the main thread takes which.  *)
(***************************************************************************)
EXTENDS OperationScheduler

CONSTANT
  MaxOpen  \* bound: dialogs the user opens

ASSUME LoopAssumption == MaxOpen \in Nat

VARIABLES
  noGui,   \* no_gui_window: an output file was given on the command line
  ui,      \* where the main thread is
  quit,    \* WM_QUIT is pending: PostQuitMessage was called
  written, \* writeResultsToFile has run
  opened   \* dialogs opened so far

loopVars == <<noGui, ui, quit, written, opened>>
allVars  == <<vars, loopVars>>

MainAt(l) == ui = l
Go(l) == ui' = l
Quiet == UNCHANGED <<noGui, quit, written, opened>>

-----------------------------------------------------------------------------
(* Startup: WinMainImpl up to the message loop.                            *)

StartScheduler == MainAt("startup") /\ start /\ Go("arguments") /\ Quiet

\* One verify for each file to check; with an output file there is at most one.
PostArgument ==
  /\ MainAt("arguments")
  /\ noGui => posted = <<>>
  /\ \E op \in Verifies : Post(op)
  /\ UNCHANGED loopVars

ArgumentsPosted == MainAt("arguments") /\ Go("run") /\ Quiet /\ UNCHANGED vars

-----------------------------------------------------------------------------
(* The message loop.                                                       *)

Run ==
  /\ MainAt("run") /\ SwapEvents
  /\ Go(IF eventsQueue = <<>> THEN "message" ELSE "dispatch")
  /\ Quiet

\* Without a window onOperationCompleted() also writes the results and quits.
Completes == noGui /\ Head(pendingEvents).type = "OperationCompleted"

Dispatch ==
  /\ MainAt("dispatch") /\ DispatchEvent
  /\ quit' = (quit \/ Completes)
  /\ written' = (written \/ Completes)
  /\ Go(IF Tail(pendingEvents) = <<>> THEN "message" ELSE "dispatch")
  /\ UNCHANGED <<noGui, opened>>

\* Mutant: run() is not called after a message of the thread itself.
WakeupWithoutRun == MainAt("message") /\ TakeWakeup /\ Go("message") /\ Quiet

\* GetMessage() returns a wakeup; nobody handles it, the loop just turns.
Wakeup == MainAt("message") /\ TakeWakeup /\ Go("run") /\ Quiet

\* Any other message of the window: the loop turns, too.
OtherMessage == MainAt("message") /\ ~noGui /\ ~quit /\ Go("run") /\ Quiet /\ UNCHANGED vars

\* A command of the user starts a dialog, whose own message loop takes the
\* wakeups away and does not call run().  So does the message box for an
\* argument that no provider fits.
OpenDialog ==
  /\ MainAt("message") /\ ~noGui /\ ~quit /\ opened < MaxOpen
  /\ opened' = opened + 1
  /\ Go("dialog")
  /\ UNCHANGED <<vars, noGui, quit, written>>

DialogWakeup == (MainAt("dialog") \/ MainAt("arguments")) /\ TakeWakeup /\ UNCHANGED loopVars

\* The dialog was canceled or no provider fits; or the operation is posted.
CloseDialog ==
  /\ MainAt("dialog")
  /\ UNCHANGED vars \/ \E op \in Ops : Post(op)
  /\ Go("run") /\ Quiet

\* WM_DESTROY: the running operation is canceled and the loop told to end.
CloseWindow ==
  /\ MainAt("message") /\ ~noGui /\ ~quit
  /\ PostCancel
  /\ quit' = TRUE
  /\ Go("run") /\ UNCHANGED <<noGui, written, opened>>

\* GetMessage() returns WM_QUIT only when no posted message is left.
LeaveLoop ==
  /\ MainAt("message") /\ quit /\ wakeups = 0
  /\ RequestShutdown
  /\ Go("shutdown") /\ Quiet

Shutdown == MainAt("shutdown") /\ (CancelForShutdown \/ Join) /\ UNCHANGED loopVars

-----------------------------------------------------------------------------
WorkerStep == Worker /\ UNCHANGED loopVars

GetMessage == Wakeup \/ LeaveLoop
MainStep == StartScheduler \/ ArgumentsPosted \/ Run \/ Dispatch \/ GetMessage \/ Shutdown

UserStep == OpenDialog \/ CloseDialog \/ CloseWindow

LoopInit ==
  /\ Init
  /\ noGui \in BOOLEAN
  /\ ui = "startup" /\ quit = FALSE /\ written = FALSE /\ opened = 0

LoopNext ==
  \/ WorkerStep \/ (SpuriousWakeup /\ UNCHANGED loopVars)
  \/ MainStep \/ PostArgument \/ OtherMessage \/ DialogWakeup \/ UserStep

\* Both threads run whenever they can, and the user does not leave a dialog
\* open forever.  Nothing obliges the user to open one or to close the window.
LoopFairness ==
  /\ WF_allVars(WorkerStep)
  /\ WF_allVars(MainStep)
  /\ WF_allVars(CloseDialog)

LoopSpec == LoopInit /\ [][LoopNext]_allVars
FairLoopSpec == LoopSpec /\ LoopFairness

-----------------------------------------------------------------------------
(* Properties.                                                             *)

LoopTypeOK ==
  /\ TypeOK
  /\ ui \in {"startup", "arguments", "run", "dispatch", "message", "dialog", "shutdown"}
  /\ noGui \in BOOLEAN /\ quit \in BOOLEAN /\ written \in BOOLEAN
  /\ opened \in 0 .. MaxOpen

\* A main thread that sits in GetMessage() with no message to come has nothing
\* to dispatch, but for the start of an operation, which signals no wakeup and
\* whose next event will.
NoLostWakeup ==
  MainAt("message") /\ wakeups = 0 /\ eventsQueue # <<>>
    => /\ Len(eventsQueue) = 1
       /\ eventsQueue[1].type = "OperationStarted"
       /\ WorkerAt("files") /\ file = 0

\* Without a window, the process that ends on its own has written the result
\* of each entry of the checksum file: no event of the operation was still in
\* the queue, and none was dispatched twice.
OutputIsComplete ==
  noGui /\ quit => /\ written
                   /\ shown.ok + shown.bad + shown.missing = shown.n_files
                   /\ eventsQueue = <<>>

\* The application ends with the worker gone.
ShutdownReturns == shutdownRequested ~> client = "joined"

\* No event is left behind as long as the loop runs.
EventsAreDispatched == eventsQueue # <<>> ~> (eventsQueue = <<>> \/ quit)

\* Every operation the user or the command line posts is finished, unless the
\* window is closed first.
PostedIsFinished == \A op \in Ops :
  (\E i \in DOMAIN posted : posted[i] = op)
    ~> (\E i \in DOMAIN finished : finished[i] = op) \/ quit

\* QuickerSFV.cpp: in no-gui mode the results are written to the file and the
\* process quits.  The code breaks this: an operation that ends with an error,
\* or with a file that cannot be read, leaves the loop waiting forever.
NoGuiQuits == noGui /\ posted # <<>> ~> quit
=============================================================================
