-------------------------- MODULE MCJobQueueRecords --------------------------
(***************************************************************************)
(* Instances of JobQueue with the history of StopRequests.                 *)
(***************************************************************************)
EXTENDS MCJobQueue, StopRequests
=============================================================================
