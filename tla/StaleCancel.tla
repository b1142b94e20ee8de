---------------------------- MODULE StaleCancel -----------------------------
(***************************************************************************)
(* Which operations were under way when a cancel was asked for: the        *)
(* history that tells an operation canceled by a call from one canceled by *)
(* a call made before it began.                                            *)
(***************************************************************************)
EXTENDS OperationScheduler

VARIABLE canceledWhile  \* the operations running at a call of post(Cancel) or shutdown()

Running == IF pc \in InOperation THEN {Op} ELSE {}

StaleInit == Init /\ canceledWhile = {}

StaleNext ==
  \/ (PostCancel \/ CancelForShutdown) /\ canceledWhile' = canceledWhile \cup Running
  \/ /\ \/ Worker \/ start \/ (\E op \in Ops : Post(op)) \/ RequestShutdown
        \/ SwapEvents \/ DispatchEvent
     /\ UNCHANGED canceledWhile

StaleSpec == StaleInit /\ [][StaleNext]_<<vars, canceledWhile>>

\* operation_scheduler.hpp: Cancel cancels the currently running operation.  The
\* code breaks this: nothing resets the cancel event, so an operation posted
\* after the canceled one has ended is canceled too.
OnlyRunningIsCanceled ==
  \A i \in DOMAIN eventsQueue :
    eventsQueue[i].type = "Canceled" => eventsQueue[i].op \in canceledWhile
=============================================================================
