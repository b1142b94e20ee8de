------------------------ MODULE MCOperationScheduler ------------------------
(***************************************************************************)
(* OperationScheduler for TLC.  The client may call run() as rarely as it  *)
(* likes, so the queue of events grows with the work; the constraint       *)
(* bounds how far the client may fall behind.                              *)
(***************************************************************************)
EXTENDS OperationScheduler

CONSTANT MaxLag  \* bound: events the client may leave in the queue

LagBound == Len(eventsQueue) <= MaxLag
=============================================================================
