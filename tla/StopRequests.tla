----------------------------- MODULE StopRequests -----------------------------
(***************************************************************************)
(* JobQueue with a history: the jobs for which a stop request was on disk  *)
(* while their record was queued.                                          *)
(***************************************************************************)
EXTENDS JobQueue

VARIABLE stopped

Requested == {j \in Jobs : status[j] = "queued" /\ control[j] # "none"}

HistoryInit == Init /\ stopped = Requested
HistoryNext == Next /\ stopped' = stopped \cup Requested'
HistorySpec == HistoryInit /\ [][HistoryNext]_<<vars, stopped>>

\* A stop request that reached control.jsonl while the job was queued holds
\* even when the server dies before it marks the record: the job never
\* completes.
StopSurvivesCrash == \A j \in stopped : status[j] # "completed"

=============================================================================
