--------------------------- MODULE JobQueueProofs ---------------------------
(***************************************************************************)
(* Theorems about JobQueue, for every set of jobs, servers and directories.*)
(*                                                                         *)
(* BaseInv is inductive whatever fails: it ties execution.lock to the      *)
(* child that holds it and a dispatch to its one job.  RecordInv adds what *)
(* relates the records on disk to the computations; it needs writes that   *)
(* succeed and calls that end before the worker gives owner.lock back.     *)
(***************************************************************************)
EXTENDS StopRequests, TLAPS

USE DEF disk, locks, processes, children

-----------------------------------------------------------------------------
(* The inductive invariants.                                               *)

\* A child past the lock holds it, and so does the worker that recovers.
LockInv ==
    /\ \A s \in Servers, j \in Jobs :
          child[s][j] \in HoldsLock => execLock = ChildLock(s, j)
    /\ \A s \in Servers :
          worker[s] = "recover" => execLock = RecoveryLock(s)

\* A job that was not dispatched has no child and never ran.
FreshInv ==
    \A j \in Jobs, s \in Servers :
        status[j] \in {"absent", "queued"} =>
            runs[j] = 0 /\ child[s][j] = "none" /\ wjob[s] # j

\* A worker that spawns or waits does so for a job that it owns.
DispatchInv ==
    \A s \in Servers :
        /\ worker[s] \in {"spawn", "wait"} =>
              wjob[s] \in Jobs /\ owner[wjob[s]] = s
        /\ worker[s] = "spawn" => child[s][wjob[s]] = "none"

\* A job's children are its owner's, and only an executing child has a timer.
ChildInv ==
    \A s \in Servers, j \in Jobs :
        /\ child[s][j] # "none" => owner[j] = s
        /\ timer[s][j] # "off" => child[s][j] \in {"running", "decided"}
        /\ j \in Benchmarks => timer[s][j] = "off"

\* A child that is about to write has decided on a settled status.
MemInv ==
    \A s \in Servers, j \in Jobs :
        child[s][j] \in {"decided", "final"} \/ timer[s][j] = "fired" =>
            mem[s][j].status \in Terminal

\* A job is computed at most once, not before its child holds the lock.
RunsInv ==
    \A j \in Jobs :
        /\ runs[j] <= 1
        /\ (\A s \in Servers : child[s][j] \in {"none", "spawned", "locked"})
              => runs[j] = 0

\* A control call under way has a job and a request.
CallInv ==
    \A s \in Servers :
        api[s].op \in {"appendQueued", "appendRunning", "mark"} =>
            api[s].job \in Jobs /\ api[s].act \in Requests

BaseInv ==
    TypeOK /\ LockInv /\ FreshInv /\ DispatchInv /\ ChildInv /\ RunsInv
      /\ MemInv /\ CallInv

\* The server that works or answers holds owner.lock, and its mutex keeps its
\* worker and its calls apart.
OwnerInv ==
    /\ \A s \in Servers :
          worker[s] \notin {"none", "exited"} => ownerLock = s
    /\ \A s \in Servers : server[s] = "new" => worker[s] = "none"
    /\ \A s \in Servers : server[s] \in {"up", "closed"} => worker[s] # "none"
    /\ \A s \in Servers : server[s] = "up" => worker[s] # "exited"
    /\ \A s \in Servers : api[s].op # "free" => ownerLock = s
    /\ \A s \in Servers :
          worker[s] \in {"recover", "scan"} => api[s].op = "free"

\* A control call about to mark a record marks one that is still queued.
ControlInv ==
    \A s \in Servers :
        api[s].op \in {"appendQueued", "mark"} =>
            api[s].job \in Jobs /\ status[api[s].job] = "queued"

\* A computation, and a dispatch before its child, has a running record.
RunningInv ==
    /\ \A s \in Servers, j \in Jobs :
          ExecutesJob(s, j) => status[j] = "running"
    /\ \A s \in Servers : worker[s] = "spawn" => status[wjob[s]] = "running"

\* One record runs at a time; after recovery it is the one the worker awaits.
SerialInv ==
    /\ \A s \in Servers :
          worker[s] \notin {"spawn", "wait"} => wjob[s] = None
    /\ \A s \in Servers : worker[s] = "scan" => ~recovering[s]
    /\ OneRunning

\* Two active benchmarks have two directories, and every benchmark has one.
ReserveInv ==
    /\ \A j \in Benchmarks : status[j] # "absent" => output[j] \in Outputs
    /\ \A j, k \in Benchmarks :
          status[j] \in Active /\ status[k] \in Active
            /\ output[j] = output[k] => j = k

\* Nobody reads a directory that a running record names.
ReadInv ==
    \A s \in Servers, j \in Benchmarks :
        api[s].op = "read" /\ status[j] = "running" => api[s].out # output[j]

RecordInv ==
    BaseInv /\ OwnerInv /\ ControlInv /\ RunningInv /\ SerialInv
      /\ ReserveInv /\ ReadInv

-----------------------------------------------------------------------------
(* BaseInv.                                                                *)

\* What a child writes is a settled status, a damaged record or no change.
LEMMA RecordedStatus ==
    ASSUME NEW m \in [status : {"running"} \cup Terminal, summary : BOOLEAN]
    PROVE  Recorded(m) \in {"running"} \cup Finished
  BY DEF Recorded, Finished

\* Every step preserves BaseInv.
LEMMA BaseInvStep ==
    ASSUME BaseInv, [Next]_vars PROVE BaseInv'
<1>1. ASSUME NEW s \in Servers, Start(s) PROVE BaseInv'
  <2>1. FreshInv' /\ ChildInv' /\ RunsInv' /\ MemInv' /\ CallInv'
    BY <1>1 DEF Start, BaseInv, FreshInv, ChildInv, RunsInv, MemInv, CallInv
  <2>2. TypeOK'
    BY <1>1 DEF Start, BaseInv, TypeOK
  <2>3. LockInv'
    BY <1>1 DEF Start, BaseInv, LockInv, TypeOK, HoldsLock, NoLock, ChildLock,
       RecoveryLock
  <2>4. DispatchInv'
    BY <1>1, QueueAssumption DEF Start, BaseInv, FreshInv, DispatchInv,
       ChildInv, TypeOK
  <2> QED
    BY <2>1, <2>2, <2>3, <2>4 DEF BaseInv
<1>2. ASSUME NEW s \in Servers, Close(s) PROVE BaseInv'
  <2>1. LockInv' /\ FreshInv' /\ DispatchInv' /\ ChildInv' /\ RunsInv' /\
     MemInv' /\ CallInv'
    BY <1>2 DEF Close, BaseInv, LockInv, FreshInv, DispatchInv, ChildInv,
       RunsInv, MemInv, CallInv
  <2>2. TypeOK'
    BY <1>2 DEF Close, BaseInv, TypeOK
  <2> QED
    BY <2>1, <2>2 DEF BaseInv
<1>3. ASSUME NEW s \in Servers, ServerDies(s) PROVE BaseInv'
  <2>1. ChildInv' /\ RunsInv' /\ MemInv'
    BY <1>3 DEF ServerDies, BaseInv, ChildInv, RunsInv, MemInv
  <2>2. TypeOK'
    BY <1>3 DEF ServerDies, BaseInv, TypeOK, NoLock, ChildLock, RecoveryLock,
       NoCall, Requests
  <2>3. LockInv'
    BY <1>3 DEF ServerDies, BaseInv, LockInv, TypeOK, HoldsLock, NoLock,
       ChildLock, RecoveryLock
  <2>4. FreshInv'
    BY <1>3, QueueAssumption DEF ServerDies, BaseInv, FreshInv, DispatchInv,
       ChildInv, TypeOK
  <2>5. DispatchInv'
    BY <1>3, QueueAssumption DEF ServerDies, BaseInv, FreshInv, DispatchInv,
       ChildInv, TypeOK
  <2>6. CallInv'
    BY <1>3 DEF ServerDies, BaseInv, CallInv, TypeOK, NoCall, Requests
  <2> QED
    BY <2>1, <2>2, <2>3, <2>4, <2>5, <2>6 DEF BaseInv
<1>4. ASSUME NEW s \in Servers, WorkerStops(s) PROVE BaseInv'
  <2>1. ChildInv' /\ RunsInv' /\ MemInv' /\ CallInv'
    BY <1>4 DEF WorkerStops, WorkerEnds, BaseInv, ChildInv, RunsInv, MemInv,
       CallInv
  <2>2. TypeOK'
    BY <1>4 DEF WorkerStops, WorkerEnds, BaseInv, TypeOK
  <2>3. LockInv'
    BY <1>4 DEF WorkerStops, WorkerEnds, BaseInv, LockInv, TypeOK, HoldsLock,
       NoLock, ChildLock, RecoveryLock
  <2>4. FreshInv'
    BY <1>4, QueueAssumption DEF WorkerStops, WorkerEnds, BaseInv, FreshInv,
       DispatchInv, ChildInv, TypeOK
  <2>5. DispatchInv'
    BY <1>4, QueueAssumption DEF WorkerStops, WorkerEnds, BaseInv, FreshInv,
       DispatchInv, ChildInv, TypeOK
  <2> QED
    BY <2>1, <2>2, <2>3, <2>4, <2>5 DEF BaseInv
<1>5. ASSUME NEW s \in Servers, RecoverBegin(s) PROVE BaseInv'
  <2>1. FreshInv' /\ ChildInv' /\ RunsInv' /\ MemInv' /\ CallInv'
    BY <1>5 DEF RecoverBegin, MutexFree, BaseInv, FreshInv, ChildInv, RunsInv,
       MemInv, CallInv
  <2>2. TypeOK'
    BY <1>5 DEF RecoverBegin, MutexFree, BaseInv, TypeOK, NoLock, ChildLock,
       RecoveryLock
  <2>3. LockInv'
    BY <1>5 DEF RecoverBegin, MutexFree, BaseInv, LockInv, TypeOK, HoldsLock,
       NoLock, ChildLock, RecoveryLock
  <2>4. DispatchInv'
    BY <1>5, QueueAssumption DEF RecoverBegin, MutexFree, BaseInv, FreshInv,
       DispatchInv, ChildInv, TypeOK
  <2> QED
    BY <2>1, <2>2, <2>3, <2>4 DEF BaseInv
<1>6. ASSUME NEW s \in Servers, RecoverEnd(s) PROVE BaseInv'
  <2>1. FreshInv' /\ ChildInv' /\ RunsInv' /\ MemInv' /\ CallInv'
    BY <1>6 DEF RecoverEnd, BaseInv, FreshInv, ChildInv, RunsInv, MemInv,
       CallInv
  <2>2. TypeOK'
    BY <1>6 DEF RecoverEnd, BaseInv, TypeOK, NoLock, ChildLock, RecoveryLock
  <2>3. LockInv'
    BY <1>6 DEF RecoverEnd, BaseInv, LockInv, TypeOK, HoldsLock, NoLock,
       ChildLock, RecoveryLock
  <2>4. DispatchInv'
    BY <1>6, QueueAssumption DEF RecoverEnd, BaseInv, FreshInv, DispatchInv,
       ChildInv, TypeOK
  <2> QED
    BY <2>1, <2>2, <2>3, <2>4 DEF BaseInv
<1>7. ASSUME NEW s \in Servers, ScanEmpty(s) PROVE BaseInv'
  <2>1. FreshInv' /\ ChildInv' /\ RunsInv' /\ MemInv' /\ CallInv'
    BY <1>7 DEF ScanEmpty, Queued, BaseInv, FreshInv, ChildInv, RunsInv,
       MemInv, CallInv
  <2>2. TypeOK'
    BY <1>7 DEF ScanEmpty, Queued, BaseInv, TypeOK
  <2>3. LockInv'
    BY <1>7 DEF ScanEmpty, Queued, BaseInv, LockInv, TypeOK, HoldsLock,
       NoLock, ChildLock, RecoveryLock
  <2>4. DispatchInv'
    BY <1>7, QueueAssumption DEF ScanEmpty, Queued, BaseInv, FreshInv,
       DispatchInv, ChildInv, TypeOK
  <2> QED
    BY <2>1, <2>2, <2>3, <2>4 DEF BaseInv
<1>8. ASSUME NEW s \in Servers, Spawn(s) PROVE BaseInv'
  <2>1. CallInv'
    BY <1>8 DEF Spawn, BaseInv, CallInv
  <2>2. TypeOK'
    BY <1>8 DEF Spawn, BaseInv, TypeOK, ChildState, Alive, HoldsLock,
       Executing, DispatchInv
  <2>3. LockInv'
    BY <1>8 DEF Spawn, BaseInv, LockInv, TypeOK, Executing, HoldsLock, NoLock,
       ChildLock, RecoveryLock
  <2>4. FreshInv'
    BY <1>8, QueueAssumption DEF Spawn, BaseInv, FreshInv, DispatchInv,
       ChildInv, TypeOK, Executing, HoldsLock
  <2>5. DispatchInv'
    BY <1>8, QueueAssumption DEF Spawn, BaseInv, FreshInv, DispatchInv,
       ChildInv, TypeOK, Executing, HoldsLock
  <2>6. ChildInv'
    BY <1>8 DEF Spawn, BaseInv, FreshInv, DispatchInv, ChildInv, TypeOK,
       Executing, HoldsLock
  <2>7. RunsInv'
    BY <1>8 DEF Spawn, BaseInv, FreshInv, DispatchInv, ChildInv, RunsInv,
       TypeOK, Executing, HoldsLock
  <2>8. MemInv'
    BY <1>8 DEF Spawn, BaseInv, FreshInv, ChildInv, MemInv, TypeOK, Terminal
  <2> QED
    BY <2>1, <2>2, <2>3, <2>4, <2>5, <2>6, <2>7, <2>8 DEF BaseInv
<1>9. ASSUME NEW s \in Servers, Reap(s) PROVE BaseInv'
  <2>1. ChildInv' /\ RunsInv' /\ MemInv' /\ CallInv'
    BY <1>9 DEF Reap, MutexFree, BaseInv, ChildInv, RunsInv, MemInv, CallInv
  <2>2. TypeOK'
    BY <1>9 DEF Reap, MutexFree, BaseInv, TypeOK, Status, Finished, Terminal,
       DispatchInv
  <2>3. LockInv'
    BY <1>9 DEF Reap, MutexFree, BaseInv, LockInv, TypeOK, HoldsLock, NoLock,
       ChildLock, RecoveryLock
  <2>4. FreshInv'
    BY <1>9, QueueAssumption DEF Reap, MutexFree, BaseInv, FreshInv,
       DispatchInv, ChildInv, TypeOK, Terminal, Finished
  <2>5. DispatchInv'
    BY <1>9, QueueAssumption DEF Reap, MutexFree, BaseInv, FreshInv,
       DispatchInv, ChildInv, TypeOK
  <2> QED
    BY <2>1, <2>2, <2>3, <2>4, <2>5 DEF BaseInv
<1>10. ASSUME NEW s \in Servers, ControlAppend(s) PROVE BaseInv'
  <2>1. LockInv' /\ FreshInv' /\ DispatchInv' /\ ChildInv' /\ RunsInv' /\
     MemInv'
    BY <1>10 DEF ControlAppend, BaseInv, LockInv, FreshInv, DispatchInv,
       ChildInv, RunsInv, MemInv
  <2>2. TypeOK'
    BY <1>10 DEF ControlAppend, BaseInv, TypeOK, NoCall, Requests, CallInv
  <2>3. CallInv'
    BY <1>10 DEF ControlAppend, BaseInv, CallInv, TypeOK, NoCall, Requests
  <2> QED
    BY <2>1, <2>2, <2>3 DEF BaseInv
<1>11. ASSUME NEW s \in Servers, ControlMark(s) PROVE BaseInv'
  <2>1. LockInv' /\ DispatchInv' /\ ChildInv' /\ RunsInv' /\ MemInv'
    BY <1>11 DEF ControlMark, StopStatus, BaseInv, LockInv, DispatchInv,
       ChildInv, RunsInv, MemInv
  <2>2. TypeOK'
    BY <1>11 DEF ControlMark, StopStatus, BaseInv, TypeOK, Status, Finished,
       Terminal, NoCall, Requests, CallInv
  <2>3. FreshInv'
    BY <1>11, QueueAssumption DEF ControlMark, StopStatus, BaseInv, FreshInv,
       DispatchInv, ChildInv, TypeOK, Terminal, Finished
  <2>4. CallInv'
    BY <1>11 DEF ControlMark, StopStatus, BaseInv, CallInv, TypeOK, NoCall,
       Requests
  <2> QED
    BY <2>1, <2>2, <2>3, <2>4 DEF BaseInv
<1>12. ASSUME NEW s \in Servers, ReadEnd(s) PROVE BaseInv'
  <2>1. LockInv' /\ FreshInv' /\ DispatchInv' /\ ChildInv' /\ RunsInv' /\
     MemInv'
    BY <1>12 DEF ReadEnd, BaseInv, LockInv, FreshInv, DispatchInv, ChildInv,
       RunsInv, MemInv
  <2>2. TypeOK'
    BY <1>12 DEF ReadEnd, BaseInv, TypeOK, NoCall, Requests
  <2>3. CallInv'
    BY <1>12 DEF ReadEnd, BaseInv, CallInv, TypeOK, NoCall, Requests
  <2> QED
    BY <2>1, <2>2, <2>3 DEF BaseInv
<1>13. ASSUME NEW s \in Servers, SpawnFails(s) PROVE BaseInv'
  <2>1. ChildInv' /\ RunsInv' /\ MemInv' /\ CallInv'
    BY <1>13 DEF SpawnFails, MutexFree, BaseInv, ChildInv, RunsInv, MemInv,
       CallInv
  <2>2. TypeOK'
    BY <1>13 DEF SpawnFails, MutexFree, BaseInv, TypeOK, Status, Finished,
       Terminal, DispatchInv
  <2>3. LockInv'
    BY <1>13 DEF SpawnFails, MutexFree, BaseInv, LockInv, TypeOK, HoldsLock,
       NoLock, ChildLock, RecoveryLock
  <2>4. FreshInv'
    BY <1>13, QueueAssumption DEF SpawnFails, MutexFree, BaseInv, FreshInv,
       DispatchInv, ChildInv, TypeOK, Terminal, Finished
  <2>5. DispatchInv'
    BY <1>13, QueueAssumption DEF SpawnFails, MutexFree, BaseInv, FreshInv,
       DispatchInv, ChildInv, TypeOK
  <2> QED
    BY <2>1, <2>2, <2>3, <2>4, <2>5 DEF BaseInv
<1>14. ASSUME NEW s \in Servers, WorkerFaults(s) PROVE BaseInv'
  <2>1. ChildInv' /\ RunsInv' /\ MemInv' /\ CallInv'
    BY <1>14 DEF WorkerFaults, WorkerEnds, MayScan, MutexFree, BaseInv,
       ChildInv, RunsInv, MemInv, CallInv
  <2>2. TypeOK'
    BY <1>14 DEF WorkerFaults, WorkerEnds, MayScan, MutexFree, BaseInv,
       TypeOK, NoLock, ChildLock, RecoveryLock
  <2>3. LockInv'
    BY <1>14 DEF WorkerFaults, WorkerEnds, MayScan, MutexFree, BaseInv,
       LockInv, TypeOK, HoldsLock, NoLock, ChildLock, RecoveryLock
  <2>4. FreshInv'
    BY <1>14, QueueAssumption DEF WorkerFaults, WorkerEnds, MayScan,
       MutexFree, BaseInv, FreshInv, DispatchInv, ChildInv, TypeOK
  <2>5. DispatchInv'
    BY <1>14, QueueAssumption DEF WorkerFaults, WorkerEnds, MayScan,
       MutexFree, BaseInv, FreshInv, DispatchInv, ChildInv, TypeOK
  <2> QED
    BY <2>1, <2>2, <2>3, <2>4, <2>5 DEF BaseInv
<1>15. ASSUME NEW s \in Servers, NEW j \in Jobs, RecoverMark(s, j) PROVE
   BaseInv'
  <2>1. LockInv' /\ DispatchInv' /\ ChildInv' /\ RunsInv' /\ MemInv' /\
     CallInv'
    BY <1>15 DEF RecoverMark, BaseInv, LockInv, DispatchInv, ChildInv,
       RunsInv, MemInv, CallInv
  <2>2. TypeOK'
    BY <1>15 DEF RecoverMark, BaseInv, TypeOK, Status, Finished, Terminal
  <2>3. FreshInv'
    BY <1>15, QueueAssumption DEF RecoverMark, BaseInv, FreshInv, DispatchInv,
       ChildInv, TypeOK, Terminal, Finished
  <2> QED
    BY <2>1, <2>2, <2>3 DEF BaseInv
<1>16. ASSUME NEW s \in Servers, NEW j \in Jobs, Dispatch(s, j) PROVE BaseInv'
  <2>1. RunsInv' /\ MemInv' /\ CallInv'
    BY <1>16 DEF Dispatch, MayScan, MutexFree, Queued, BaseInv, RunsInv,
       MemInv, CallInv
  <2>2. TypeOK'
    BY <1>16 DEF Dispatch, MayScan, MutexFree, Queued, BaseInv, TypeOK,
       Status, Finished, Terminal
  <2>3. LockInv'
    BY <1>16 DEF Dispatch, MayScan, MutexFree, Queued, BaseInv, LockInv,
       TypeOK, HoldsLock, NoLock, ChildLock, RecoveryLock
  <2>4. FreshInv'
    BY <1>16, QueueAssumption DEF Dispatch, MayScan, MutexFree, Queued,
       BaseInv, FreshInv, DispatchInv, ChildInv, TypeOK, Terminal, Finished
  <2>5. DispatchInv'
    BY <1>16, QueueAssumption DEF Dispatch, MayScan, MutexFree, Queued,
       BaseInv, FreshInv, DispatchInv, ChildInv, TypeOK
  <2>6. ChildInv'
    BY <1>16 DEF Dispatch, MayScan, MutexFree, Queued, BaseInv, FreshInv,
       DispatchInv, ChildInv, TypeOK
  <2> QED
    BY <2>1, <2>2, <2>3, <2>4, <2>5, <2>6 DEF BaseInv
<1>17. ASSUME NEW s \in Servers, NEW j \in Jobs, ChildTakesLock(s, j) PROVE
   BaseInv'
  <2>1. CallInv'
    BY <1>17 DEF ChildTakesLock, BaseInv, CallInv
  <2>2. TypeOK'
    BY <1>17 DEF ChildTakesLock, BaseInv, TypeOK, ChildState, Alive,
       HoldsLock, Executing, NoLock, ChildLock, RecoveryLock
  <2>3. LockInv'
    BY <1>17 DEF ChildTakesLock, BaseInv, LockInv, TypeOK, Executing,
       HoldsLock, NoLock, ChildLock, RecoveryLock
  <2>4. FreshInv'
    BY <1>17, QueueAssumption DEF ChildTakesLock, BaseInv, FreshInv,
       DispatchInv, ChildInv, TypeOK, Executing, HoldsLock
  <2>5. DispatchInv'
    BY <1>17, QueueAssumption DEF ChildTakesLock, BaseInv, FreshInv,
       DispatchInv, ChildInv, TypeOK, Executing, HoldsLock
  <2>6. ChildInv'
    BY <1>17 DEF ChildTakesLock, BaseInv, FreshInv, DispatchInv, ChildInv,
       TypeOK, Executing, HoldsLock
  <2>7. RunsInv'
    BY <1>17 DEF ChildTakesLock, BaseInv, FreshInv, DispatchInv, ChildInv,
       RunsInv, TypeOK, Executing, HoldsLock
  <2>8. MemInv'
    BY <1>17 DEF ChildTakesLock, BaseInv, FreshInv, ChildInv, MemInv, TypeOK,
       Terminal
  <2> QED
    BY <2>1, <2>2, <2>3, <2>4, <2>5, <2>6, <2>7, <2>8 DEF BaseInv
<1>18. ASSUME NEW s \in Servers, NEW j \in Jobs, ChildRefused(s, j) PROVE
   BaseInv'
  <2>1. CallInv'
    BY <1>18 DEF ChildRefused, Gone, BaseInv, CallInv
  <2>2. TypeOK'
    BY <1>18 DEF ChildRefused, Gone, BaseInv, TypeOK, ChildState, Alive,
       HoldsLock, Executing, Terminal, FreshMem, NoLock, ChildLock,
       RecoveryLock
  <2>3. LockInv'
    BY <1>18 DEF ChildRefused, Gone, BaseInv, LockInv, TypeOK, Executing,
       HoldsLock, NoLock, ChildLock, RecoveryLock
  <2>4. FreshInv'
    BY <1>18, QueueAssumption DEF ChildRefused, Gone, BaseInv, FreshInv,
       DispatchInv, ChildInv, TypeOK, Executing, HoldsLock
  <2>5. DispatchInv'
    BY <1>18, QueueAssumption DEF ChildRefused, Gone, BaseInv, FreshInv,
       DispatchInv, ChildInv, TypeOK, Executing, HoldsLock
  <2>6. ChildInv'
    BY <1>18 DEF ChildRefused, Gone, BaseInv, FreshInv, DispatchInv, ChildInv,
       TypeOK, Executing, HoldsLock
  <2>7. RunsInv'
    BY <1>18 DEF ChildRefused, Gone, BaseInv, FreshInv, DispatchInv, ChildInv,
       RunsInv, TypeOK, Executing, HoldsLock
  <2>8. MemInv'
    BY <1>18 DEF ChildRefused, Gone, BaseInv, FreshInv, ChildInv, MemInv,
       TypeOK, Terminal, FreshMem
  <2> QED
    BY <2>1, <2>2, <2>3, <2>4, <2>5, <2>6, <2>7, <2>8 DEF BaseInv
<1>19. ASSUME NEW s \in Servers, NEW j \in Jobs, ChildBegins(s, j) PROVE
   BaseInv'
  <2>1. CallInv'
    BY <1>19 DEF ChildBegins, BaseInv, CallInv
  <2>2. TypeOK'
    BY <1>19 DEF ChildBegins, BaseInv, TypeOK, ChildState, Alive, HoldsLock,
       Executing
  <2>3. LockInv'
    BY <1>19 DEF ChildBegins, BaseInv, LockInv, TypeOK, Executing, HoldsLock,
       NoLock, ChildLock, RecoveryLock
  <2>4. FreshInv'
    BY <1>19, QueueAssumption DEF ChildBegins, BaseInv, FreshInv, DispatchInv,
       ChildInv, TypeOK, Executing, HoldsLock
  <2>5. DispatchInv'
    BY <1>19, QueueAssumption DEF ChildBegins, BaseInv, FreshInv, DispatchInv,
       ChildInv, TypeOK, Executing, HoldsLock
  <2>6. ChildInv'
    BY <1>19 DEF ChildBegins, BaseInv, FreshInv, DispatchInv, ChildInv,
       TypeOK, Executing, HoldsLock
  <2>7. RunsInv'
    BY <1>19 DEF ChildBegins, BaseInv, FreshInv, DispatchInv, ChildInv,
       RunsInv, TypeOK, Executing, HoldsLock
  <2>8. MemInv'
    BY <1>19 DEF ChildBegins, BaseInv, FreshInv, ChildInv, MemInv, TypeOK,
       Terminal
  <2> QED
    BY <2>1, <2>2, <2>3, <2>4, <2>5, <2>6, <2>7, <2>8 DEF BaseInv
<1>20. ASSUME NEW s \in Servers, NEW j \in Jobs, ChildDeclines(s, j) PROVE
   BaseInv'
  <2>1. CallInv'
    BY <1>20 DEF ChildDeclines, Gone, BaseInv, CallInv
  <2>2. TypeOK'
    BY <1>20 DEF ChildDeclines, Gone, BaseInv, TypeOK, ChildState, Alive,
       HoldsLock, Executing, Terminal, FreshMem, NoLock, ChildLock,
       RecoveryLock
  <2>3. LockInv'
    BY <1>20 DEF ChildDeclines, Gone, BaseInv, LockInv, TypeOK, Executing,
       HoldsLock, NoLock, ChildLock, RecoveryLock
  <2>4. FreshInv'
    BY <1>20, QueueAssumption DEF ChildDeclines, Gone, BaseInv, FreshInv,
       DispatchInv, ChildInv, TypeOK, Executing, HoldsLock
  <2>5. DispatchInv'
    BY <1>20, QueueAssumption DEF ChildDeclines, Gone, BaseInv, FreshInv,
       DispatchInv, ChildInv, TypeOK, Executing, HoldsLock
  <2>6. ChildInv'
    BY <1>20 DEF ChildDeclines, Gone, BaseInv, FreshInv, DispatchInv,
       ChildInv, TypeOK, Executing, HoldsLock
  <2>7. RunsInv'
    BY <1>20 DEF ChildDeclines, Gone, BaseInv, FreshInv, DispatchInv,
       ChildInv, RunsInv, TypeOK, Executing, HoldsLock
  <2>8. MemInv'
    BY <1>20 DEF ChildDeclines, Gone, BaseInv, FreshInv, ChildInv, MemInv,
       TypeOK, Terminal, FreshMem
  <2> QED
    BY <2>1, <2>2, <2>3, <2>4, <2>5, <2>6, <2>7, <2>8 DEF BaseInv
<1>21. ASSUME NEW s \in Servers, NEW j \in Jobs, BenchmarkStops(s, j) PROVE
   BaseInv'
  <2>1. CallInv'
    BY <1>21 DEF BenchmarkStops, Decide, StopStatus, BaseInv, CallInv
  <2>2. TypeOK'
    BY <1>21 DEF BenchmarkStops, Decide, StopStatus, BaseInv, TypeOK,
       ChildState, Alive, HoldsLock, Executing, Terminal, FreshMem
  <2>3. LockInv'
    BY <1>21 DEF BenchmarkStops, Decide, StopStatus, BaseInv, LockInv, TypeOK,
       Executing, HoldsLock, NoLock, ChildLock, RecoveryLock
  <2>4. FreshInv'
    BY <1>21, QueueAssumption DEF BenchmarkStops, Decide, StopStatus, BaseInv,
       FreshInv, DispatchInv, ChildInv, TypeOK, Executing, HoldsLock
  <2>5. DispatchInv'
    BY <1>21, QueueAssumption DEF BenchmarkStops, Decide, StopStatus, BaseInv,
       FreshInv, DispatchInv, ChildInv, TypeOK, Executing, HoldsLock
  <2>6. ChildInv'
    BY <1>21 DEF BenchmarkStops, Decide, StopStatus, BaseInv, FreshInv,
       DispatchInv, ChildInv, TypeOK, Executing, HoldsLock
  <2>7. RunsInv'
    BY <1>21 DEF BenchmarkStops, Decide, StopStatus, BaseInv, FreshInv,
       DispatchInv, ChildInv, RunsInv, TypeOK, Executing, HoldsLock
  <2>8. MemInv'
    BY <1>21 DEF BenchmarkStops, Decide, StopStatus, BaseInv, FreshInv,
       ChildInv, MemInv, TypeOK, Terminal, FreshMem
  <2> QED
    BY <2>1, <2>2, <2>3, <2>4, <2>5, <2>6, <2>7, <2>8 DEF BaseInv
<1>22. ASSUME NEW s \in Servers, NEW j \in Jobs, BenchmarkCompletes(s, j)
   PROVE BaseInv'
  <2>1. CallInv'
    BY <1>22 DEF BenchmarkCompletes, Decide, BaseInv, CallInv
  <2>2. TypeOK'
    BY <1>22 DEF BenchmarkCompletes, Decide, BaseInv, TypeOK, ChildState,
       Alive, HoldsLock, Executing, Terminal, FreshMem
  <2>3. LockInv'
    BY <1>22 DEF BenchmarkCompletes, Decide, BaseInv, LockInv, TypeOK,
       Executing, HoldsLock, NoLock, ChildLock, RecoveryLock
  <2>4. FreshInv'
    BY <1>22, QueueAssumption DEF BenchmarkCompletes, Decide, BaseInv,
       FreshInv, DispatchInv, ChildInv, TypeOK, Executing, HoldsLock
  <2>5. DispatchInv'
    BY <1>22, QueueAssumption DEF BenchmarkCompletes, Decide, BaseInv,
       FreshInv, DispatchInv, ChildInv, TypeOK, Executing, HoldsLock
  <2>6. ChildInv'
    BY <1>22 DEF BenchmarkCompletes, Decide, BaseInv, FreshInv, DispatchInv,
       ChildInv, TypeOK, Executing, HoldsLock
  <2>7. RunsInv'
    BY <1>22 DEF BenchmarkCompletes, Decide, BaseInv, FreshInv, DispatchInv,
       ChildInv, RunsInv, TypeOK, Executing, HoldsLock
  <2>8. MemInv'
    BY <1>22 DEF BenchmarkCompletes, Decide, BaseInv, FreshInv, ChildInv,
       MemInv, TypeOK, Terminal, FreshMem
  <2> QED
    BY <2>1, <2>2, <2>3, <2>4, <2>5, <2>6, <2>7, <2>8 DEF BaseInv
<1>23. ASSUME NEW s \in Servers, NEW j \in Jobs, BenchmarkFails(s, j) PROVE
   BaseInv'
  <2>1. CallInv'
    BY <1>23 DEF BenchmarkFails, Decide, BaseInv, CallInv
  <2>2. TypeOK'
    BY <1>23 DEF BenchmarkFails, Decide, BaseInv, TypeOK, ChildState, Alive,
       HoldsLock, Executing, Terminal, FreshMem
  <2>3. LockInv'
    BY <1>23 DEF BenchmarkFails, Decide, BaseInv, LockInv, TypeOK, Executing,
       HoldsLock, NoLock, ChildLock, RecoveryLock
  <2>4. FreshInv'
    BY <1>23, QueueAssumption DEF BenchmarkFails, Decide, BaseInv, FreshInv,
       DispatchInv, ChildInv, TypeOK, Executing, HoldsLock
  <2>5. DispatchInv'
    BY <1>23, QueueAssumption DEF BenchmarkFails, Decide, BaseInv, FreshInv,
       DispatchInv, ChildInv, TypeOK, Executing, HoldsLock
  <2>6. ChildInv'
    BY <1>23 DEF BenchmarkFails, Decide, BaseInv, FreshInv, DispatchInv,
       ChildInv, TypeOK, Executing, HoldsLock
  <2>7. RunsInv'
    BY <1>23 DEF BenchmarkFails, Decide, BaseInv, FreshInv, DispatchInv,
       ChildInv, RunsInv, TypeOK, Executing, HoldsLock
  <2>8. MemInv'
    BY <1>23 DEF BenchmarkFails, Decide, BaseInv, FreshInv, ChildInv, MemInv,
       TypeOK, Terminal, FreshMem
  <2> QED
    BY <2>1, <2>2, <2>3, <2>4, <2>5, <2>6, <2>7, <2>8 DEF BaseInv
<1>24. ASSUME NEW s \in Servers, NEW j \in Jobs, SearchEnds(s, j) PROVE
   BaseInv'
  <2>1. CallInv'
    BY <1>24 DEF SearchEnds, Decide, BaseInv, CallInv
  <2>2. TypeOK'
    BY <1>24 DEF SearchEnds, Decide, BaseInv, TypeOK, ChildState, Alive,
       HoldsLock, Executing, Terminal, FreshMem
  <2>3. LockInv'
    BY <1>24 DEF SearchEnds, Decide, BaseInv, LockInv, TypeOK, Executing,
       HoldsLock, NoLock, ChildLock, RecoveryLock
  <2>4. FreshInv'
    BY <1>24, QueueAssumption DEF SearchEnds, Decide, BaseInv, FreshInv,
       DispatchInv, ChildInv, TypeOK, Executing, HoldsLock
  <2>5. DispatchInv'
    BY <1>24, QueueAssumption DEF SearchEnds, Decide, BaseInv, FreshInv,
       DispatchInv, ChildInv, TypeOK, Executing, HoldsLock
  <2>6. ChildInv'
    BY <1>24 DEF SearchEnds, Decide, BaseInv, FreshInv, DispatchInv, ChildInv,
       TypeOK, Executing, HoldsLock
  <2>7. RunsInv'
    BY <1>24 DEF SearchEnds, Decide, BaseInv, FreshInv, DispatchInv, ChildInv,
       RunsInv, TypeOK, Executing, HoldsLock
  <2>8. MemInv'
    BY <1>24 DEF SearchEnds, Decide, BaseInv, FreshInv, ChildInv, MemInv,
       TypeOK, Terminal, FreshMem
  <2> QED
    BY <2>1, <2>2, <2>3, <2>4, <2>5, <2>6, <2>7, <2>8 DEF BaseInv
<1>25. ASSUME NEW s \in Servers, NEW j \in Jobs, SearchFinishes(s, j) PROVE
   BaseInv'
  <2>1. CallInv'
    BY <1>25 DEF SearchFinishes, BaseInv, CallInv
  <2>2. TypeOK'
    BY <1>25 DEF SearchFinishes, BaseInv, TypeOK, ChildState, Alive,
       HoldsLock, Executing
  <2>3. LockInv'
    BY <1>25 DEF SearchFinishes, BaseInv, LockInv, TypeOK, Executing,
       HoldsLock, NoLock, ChildLock, RecoveryLock
  <2>4. FreshInv'
    BY <1>25, QueueAssumption DEF SearchFinishes, BaseInv, FreshInv,
       DispatchInv, ChildInv, TypeOK, Executing, HoldsLock
  <2>5. DispatchInv'
    BY <1>25, QueueAssumption DEF SearchFinishes, BaseInv, FreshInv,
       DispatchInv, ChildInv, TypeOK, Executing, HoldsLock
  <2>6. ChildInv'
    BY <1>25 DEF SearchFinishes, BaseInv, FreshInv, DispatchInv, ChildInv,
       TypeOK, Executing, HoldsLock
  <2>7. RunsInv'
    BY <1>25 DEF SearchFinishes, BaseInv, FreshInv, DispatchInv, ChildInv,
       RunsInv, TypeOK, Executing, HoldsLock
  <2>8. MemInv'
    BY <1>25 DEF SearchFinishes, BaseInv, FreshInv, ChildInv, MemInv, TypeOK,
       Terminal
  <2> QED
    BY <2>1, <2>2, <2>3, <2>4, <2>5, <2>6, <2>7, <2>8 DEF BaseInv
<1>26. ASSUME NEW s \in Servers, NEW j \in Jobs, TimerFires(s, j) PROVE
   BaseInv'
  <2>1. LockInv' /\ FreshInv' /\ DispatchInv' /\ RunsInv' /\ CallInv'
    BY <1>26 DEF TimerFires, BaseInv, LockInv, FreshInv, DispatchInv, RunsInv,
       CallInv
  <2>2. TypeOK'
    BY <1>26 DEF TimerFires, BaseInv, TypeOK, Terminal, FreshMem
  <2>3. ChildInv'
    BY <1>26 DEF TimerFires, BaseInv, FreshInv, DispatchInv, ChildInv, TypeOK
  <2>4. MemInv'
    BY <1>26 DEF TimerFires, BaseInv, FreshInv, ChildInv, MemInv, TypeOK,
       Terminal, FreshMem
  <2> QED
    BY <2>1, <2>2, <2>3, <2>4 DEF BaseInv
<1>27. ASSUME NEW s \in Servers, NEW j \in Jobs, TimerExits(s, j) PROVE
   BaseInv'
  <2>a. Recorded(mem[s][j]) \in {"running"} \cup Finished
    BY <1>27, RecordedStatus DEF BaseInv, TypeOK
  <2>b. status' = [status EXCEPT ![j] = Recorded(mem[s][j])]
    BY <1>27 DEF TimerExits, ChildWrites
  <2>c. status[j] \notin {"absent", "queued"}
    BY <1>27 DEF BaseInv, FreshInv, ChildInv, TimerExits, ChildWrites,
       Executing
  <2>d. status'[j] \notin {"absent", "queued"}
    BY <1>27, <2>a, <2>b DEF BaseInv, TypeOK, Finished, Terminal
  <2>e. child[s][j] # "none"
    BY <1>27 DEF BaseInv, ChildInv, TimerExits, ChildWriteFails
  <2>1. CallInv'
    BY <1>27 DEF TimerExits, Gone, BaseInv, CallInv
  <2>2. TypeOK'
    BY <1>27, <2>a, <2>b, <2>c, <2>d, <2>e DEF TimerExits, Gone, BaseInv,
       TypeOK, Status, Finished, Terminal, ChildState, Alive, HoldsLock,
       Executing, FreshMem, NoLock, ChildLock, RecoveryLock
  <2>3. LockInv'
    BY <1>27, <2>a, <2>b, <2>c, <2>d, <2>e DEF TimerExits, Gone, BaseInv,
       LockInv, TypeOK, Executing, HoldsLock, NoLock, ChildLock, RecoveryLock
  <2>4. FreshInv'
    BY <1>27, <2>a, <2>b, <2>c, <2>d, <2>e, QueueAssumption DEF TimerExits,
       Gone, BaseInv, FreshInv, DispatchInv, ChildInv, TypeOK, Terminal,
       Finished, Executing, HoldsLock
  <2>5. DispatchInv'
    BY <1>27, <2>a, <2>b, <2>c, <2>d, <2>e, QueueAssumption DEF TimerExits,
       Gone, BaseInv, FreshInv, DispatchInv, ChildInv, TypeOK, Executing,
       HoldsLock
  <2>6. ChildInv'
    BY <1>27, <2>a, <2>b, <2>c, <2>d, <2>e DEF TimerExits, Gone, BaseInv,
       FreshInv, DispatchInv, ChildInv, TypeOK, Executing, HoldsLock
  <2>7. RunsInv'
    BY <1>27, <2>a, <2>b, <2>c, <2>d, <2>e DEF TimerExits, Gone, BaseInv,
       FreshInv, DispatchInv, ChildInv, RunsInv, TypeOK, Executing, HoldsLock
  <2>8. MemInv'
    BY <1>27, <2>a, <2>b, <2>c, <2>d, <2>e DEF TimerExits, Gone, BaseInv,
       FreshInv, ChildInv, MemInv, TypeOK, Terminal, FreshMem
  <2> QED
    BY <2>1, <2>2, <2>3, <2>4, <2>5, <2>6, <2>7, <2>8 DEF BaseInv
<1>28. ASSUME NEW s \in Servers, NEW j \in Jobs, ChildWrites(s, j) PROVE
   BaseInv'
  <2>a. Recorded(mem[s][j]) \in {"running"} \cup Finished
    BY <1>28, RecordedStatus DEF BaseInv, TypeOK
  <2>b. status' = [status EXCEPT ![j] = Recorded(mem[s][j])]
    BY <1>28 DEF TimerExits, ChildWrites
  <2>c. status[j] \notin {"absent", "queued"}
    BY <1>28 DEF BaseInv, FreshInv, ChildInv, TimerExits, ChildWrites,
       Executing
  <2>d. status'[j] \notin {"absent", "queued"}
    BY <1>28, <2>a, <2>b DEF BaseInv, TypeOK, Finished, Terminal
  <2>1. CallInv'
    BY <1>28 DEF ChildWrites, BaseInv, CallInv
  <2>2. TypeOK'
    BY <1>28, <2>a, <2>b, <2>c, <2>d DEF ChildWrites, BaseInv, TypeOK, Status,
       Finished, Terminal, ChildState, Alive, HoldsLock, Executing
  <2>3. LockInv'
    BY <1>28, <2>a, <2>b, <2>c, <2>d DEF ChildWrites, BaseInv, LockInv,
       TypeOK, Executing, HoldsLock, NoLock, ChildLock, RecoveryLock
  <2>4. FreshInv'
    BY <1>28, <2>a, <2>b, <2>c, <2>d, QueueAssumption DEF ChildWrites,
       BaseInv, FreshInv, DispatchInv, ChildInv, TypeOK, Terminal, Finished,
       Executing, HoldsLock
  <2>5. DispatchInv'
    BY <1>28, <2>a, <2>b, <2>c, <2>d, QueueAssumption DEF ChildWrites,
       BaseInv, FreshInv, DispatchInv, ChildInv, TypeOK, Executing, HoldsLock
  <2>6. ChildInv'
    BY <1>28, <2>a, <2>b, <2>c, <2>d DEF ChildWrites, BaseInv, FreshInv,
       DispatchInv, ChildInv, TypeOK, Executing, HoldsLock
  <2>7. RunsInv'
    BY <1>28, <2>a, <2>b, <2>c, <2>d DEF ChildWrites, BaseInv, FreshInv,
       DispatchInv, ChildInv, RunsInv, TypeOK, Executing, HoldsLock
  <2>8. MemInv'
    BY <1>28, <2>a, <2>b, <2>c, <2>d DEF ChildWrites, BaseInv, FreshInv,
       ChildInv, MemInv, TypeOK, Terminal
  <2> QED
    BY <2>1, <2>2, <2>3, <2>4, <2>5, <2>6, <2>7, <2>8 DEF BaseInv
<1>29. ASSUME NEW s \in Servers, NEW j \in Jobs, ChildExits(s, j) PROVE
   BaseInv'
  <2>1. CallInv'
    BY <1>29 DEF ChildExits, Gone, BaseInv, CallInv
  <2>2. TypeOK'
    BY <1>29 DEF ChildExits, Gone, BaseInv, TypeOK, ChildState, Alive,
       HoldsLock, Executing, Terminal, FreshMem, NoLock, ChildLock,
       RecoveryLock
  <2>3. LockInv'
    BY <1>29 DEF ChildExits, Gone, BaseInv, LockInv, TypeOK, Executing,
       HoldsLock, NoLock, ChildLock, RecoveryLock
  <2>4. FreshInv'
    BY <1>29, QueueAssumption DEF ChildExits, Gone, BaseInv, FreshInv,
       DispatchInv, ChildInv, TypeOK, Executing, HoldsLock
  <2>5. DispatchInv'
    BY <1>29, QueueAssumption DEF ChildExits, Gone, BaseInv, FreshInv,
       DispatchInv, ChildInv, TypeOK, Executing, HoldsLock
  <2>6. ChildInv'
    BY <1>29 DEF ChildExits, Gone, BaseInv, FreshInv, DispatchInv, ChildInv,
       TypeOK, Executing, HoldsLock
  <2>7. RunsInv'
    BY <1>29 DEF ChildExits, Gone, BaseInv, FreshInv, DispatchInv, ChildInv,
       RunsInv, TypeOK, Executing, HoldsLock
  <2>8. MemInv'
    BY <1>29 DEF ChildExits, Gone, BaseInv, FreshInv, ChildInv, MemInv,
       TypeOK, Terminal, FreshMem
  <2> QED
    BY <2>1, <2>2, <2>3, <2>4, <2>5, <2>6, <2>7, <2>8 DEF BaseInv
<1>30. ASSUME NEW s \in Servers, NEW j \in Jobs, ChildWriteFails(s, j) PROVE
   BaseInv'
  <2>a. child[s][j] # "none"
    BY <1>30 DEF BaseInv, ChildInv, TimerExits, ChildWriteFails
  <2>1. CallInv'
    BY <1>30 DEF ChildWriteFails, Gone, BaseInv, CallInv
  <2>2. TypeOK'
    BY <1>30, <2>a DEF ChildWriteFails, Gone, BaseInv, TypeOK, ChildState,
       Alive, HoldsLock, Executing, Terminal, FreshMem, NoLock, ChildLock,
       RecoveryLock
  <2>3. LockInv'
    BY <1>30, <2>a DEF ChildWriteFails, Gone, BaseInv, LockInv, TypeOK,
       Executing, HoldsLock, NoLock, ChildLock, RecoveryLock
  <2>4. FreshInv'
    BY <1>30, <2>a, QueueAssumption DEF ChildWriteFails, Gone, BaseInv,
       FreshInv, DispatchInv, ChildInv, TypeOK, Executing, HoldsLock
  <2>5. DispatchInv'
    BY <1>30, <2>a, QueueAssumption DEF ChildWriteFails, Gone, BaseInv,
       FreshInv, DispatchInv, ChildInv, TypeOK, Executing, HoldsLock
  <2>6. ChildInv'
    BY <1>30, <2>a DEF ChildWriteFails, Gone, BaseInv, FreshInv, DispatchInv,
       ChildInv, TypeOK, Executing, HoldsLock
  <2>7. RunsInv'
    BY <1>30, <2>a DEF ChildWriteFails, Gone, BaseInv, FreshInv, DispatchInv,
       ChildInv, RunsInv, TypeOK, Executing, HoldsLock
  <2>8. MemInv'
    BY <1>30, <2>a DEF ChildWriteFails, Gone, BaseInv, FreshInv, ChildInv,
       MemInv, TypeOK, Terminal, FreshMem
  <2> QED
    BY <2>1, <2>2, <2>3, <2>4, <2>5, <2>6, <2>7, <2>8 DEF BaseInv
<1>31. ASSUME NEW s \in Servers, NEW j \in Jobs, ChildCrashes(s, j) PROVE
   BaseInv'
  <2>1. CallInv'
    BY <1>31 DEF ChildCrashes, Gone, BaseInv, CallInv
  <2>2. TypeOK'
    BY <1>31 DEF ChildCrashes, Gone, BaseInv, TypeOK, ChildState, Alive,
       HoldsLock, Executing, Terminal, FreshMem, NoLock, ChildLock,
       RecoveryLock
  <2>3. LockInv'
    BY <1>31 DEF ChildCrashes, Gone, BaseInv, LockInv, TypeOK, Executing,
       HoldsLock, NoLock, ChildLock, RecoveryLock
  <2>4. FreshInv'
    BY <1>31, QueueAssumption DEF ChildCrashes, Gone, BaseInv, FreshInv,
       DispatchInv, ChildInv, TypeOK, Terminal, Finished, Executing,
       HoldsLock, Alive
  <2>5. DispatchInv'
    BY <1>31, QueueAssumption DEF ChildCrashes, Gone, BaseInv, FreshInv,
       DispatchInv, ChildInv, TypeOK, Executing, HoldsLock, Alive
  <2>6. ChildInv'
    BY <1>31 DEF ChildCrashes, Gone, BaseInv, FreshInv, DispatchInv, ChildInv,
       TypeOK, Executing, HoldsLock, Alive
  <2>7. RunsInv'
    BY <1>31 DEF ChildCrashes, Gone, BaseInv, FreshInv, DispatchInv, ChildInv,
       RunsInv, TypeOK, Executing, HoldsLock
  <2>8. MemInv'
    BY <1>31 DEF ChildCrashes, Gone, BaseInv, FreshInv, ChildInv, MemInv,
       TypeOK, Terminal, FreshMem
  <2> QED
    BY <2>1, <2>2, <2>3, <2>4, <2>5, <2>6, <2>7, <2>8 DEF BaseInv
<1>32. ASSUME NEW s \in Servers, NEW j \in Jobs, NEW o \in Outputs \cup
   {None}, Enqueue(s, j, o) PROVE BaseInv'
  <2>1. LockInv' /\ DispatchInv' /\ ChildInv' /\ RunsInv' /\ MemInv' /\
     CallInv'
    BY <1>32 DEF Enqueue, MutexFree, Reserved, BaseInv, LockInv, DispatchInv,
       ChildInv, RunsInv, MemInv, CallInv
  <2>2. TypeOK'
    BY <1>32 DEF Enqueue, MutexFree, Reserved, BaseInv, TypeOK, Status,
       Finished, Terminal
  <2>3. FreshInv'
    BY <1>32, QueueAssumption DEF Enqueue, MutexFree, Reserved, BaseInv,
       FreshInv, DispatchInv, ChildInv, TypeOK, Terminal, Finished
  <2> QED
    BY <2>1, <2>2, <2>3 DEF BaseInv
<1>33. ASSUME NEW s \in Servers, NEW j \in Jobs, NEW a \in Requests,
   ControlBegin(s, j, a) PROVE BaseInv'
  <2>1. LockInv' /\ FreshInv' /\ DispatchInv' /\ ChildInv' /\ RunsInv' /\
     MemInv'
    BY <1>33 DEF ControlBegin, Answering, MutexFree, BaseInv, LockInv,
       FreshInv, DispatchInv, ChildInv, RunsInv, MemInv
  <2>2. TypeOK'
    BY <1>33 DEF ControlBegin, Answering, MutexFree, BaseInv, TypeOK, NoCall,
       Requests
  <2>3. CallInv'
    BY <1>33 DEF ControlBegin, Answering, MutexFree, BaseInv, CallInv, TypeOK,
       NoCall, Requests
  <2> QED
    BY <2>1, <2>2, <2>3 DEF BaseInv
<1>34. ASSUME NEW s \in Servers, NEW o \in Outputs, ReadBegin(s, o) PROVE
   BaseInv'
  <2>1. LockInv' /\ FreshInv' /\ DispatchInv' /\ ChildInv' /\ RunsInv' /\
     MemInv'
    BY <1>34 DEF ReadBegin, Answering, MutexFree, BaseInv, LockInv, FreshInv,
       DispatchInv, ChildInv, RunsInv, MemInv
  <2>2. TypeOK'
    BY <1>34 DEF ReadBegin, Answering, MutexFree, BaseInv, TypeOK, NoCall,
       Requests
  <2>3. CallInv'
    BY <1>34 DEF ReadBegin, Answering, MutexFree, BaseInv, CallInv, TypeOK,
       NoCall, Requests
  <2> QED
    BY <2>1, <2>2, <2>3 DEF BaseInv
<1>35. ASSUME UNCHANGED vars PROVE BaseInv'
  <2>1. TypeOK' /\ LockInv' /\ FreshInv' /\ DispatchInv' /\ ChildInv' /\
     RunsInv' /\ MemInv' /\ CallInv'
    BY <1>35 DEF vars, BaseInv, TypeOK, LockInv, FreshInv, DispatchInv,
       ChildInv, RunsInv, MemInv, CallInv
  <2> QED
    BY <2>1 DEF BaseInv
<1>36. ASSUME NEW s \in Servers, NEW j \in Jobs, Submit(s, j)
       PROVE  BaseInv'
  BY <1>36, <1>32 DEF Submit
<1>37. ASSUME NEW s \in Servers, NEW p \in Jobs, NEW j \in Jobs,
               Retry(s, p, j)
       PROVE  BaseInv'
  BY <1>37, <1>32 DEF Retry
<1>38. ASSUME NEW s \in Servers, NEW p \in Jobs, NEW j \in Jobs,
               Resume(s, p, j)
       PROVE  BaseInv'
  <2>1. output[p] \in Outputs \cup {None}
    BY DEF BaseInv, TypeOK
  <2> QED
    BY <1>38, <1>32, <2>1 DEF Resume
<1> QED
  BY <1>1, <1>2, <1>3, <1>4, <1>5, <1>6, <1>7, <1>8, <1>9, <1>10, <1>11,
     <1>12, <1>13, <1>14, <1>15, <1>16, <1>17, <1>18, <1>19, <1>20, <1>21,
     <1>22, <1>23, <1>24, <1>25, <1>26, <1>27, <1>28, <1>29, <1>30, <1>31,
     <1>33, <1>34, <1>35, <1>36, <1>37, <1>38 DEF Next, Operator, Worker,
     Call, Child, Fault

\* Every step preserves RecordInv when writes succeed and calls end in time.
LEMMA RecordInvStep ==
    ASSUME ~FaultyDisk, ~LateCalls, RecordInv, BaseInv', [Next]_vars PROVE
       RecordInv'
<1>1. ASSUME NEW s \in Servers, Start(s) PROVE RecordInv'
  <2>1. ControlInv' /\ ReserveInv' /\ ReadInv'
    BY <1>1 DEF Start, RecordInv, ControlInv, ReserveInv, ReadInv
  <2>2. OwnerInv'
    BY <1>1, QueueAssumption DEF Start, TypeOK, BaseInv, RecordInv, OwnerInv
  <2>3. RunningInv'
    BY <1>1, QueueAssumption DEF Start, TypeOK, BaseInv, RecordInv, OwnerInv,
       ControlInv, FreshInv, DispatchInv, ChildInv, LockInv, RunningInv,
       ExecutesJob, Executing, HoldsLock, ChildLock, RecoveryLock
  <2>4. SerialInv'
    BY <1>1, QueueAssumption DEF Start, TypeOK, BaseInv, RecordInv, OwnerInv,
       ControlInv, FreshInv, DispatchInv, ChildInv, SerialInv, OneRunning,
       RunningInv, ExecutesJob
  <2> QED
    BY <2>1, <2>2, <2>3, <2>4 DEF RecordInv
<1>2. ASSUME NEW s \in Servers, Close(s) PROVE RecordInv'
  <2>1. ControlInv' /\ RunningInv' /\ SerialInv' /\ ReserveInv' /\ ReadInv'
    BY <1>2 DEF Close, RecordInv, ControlInv, RunningInv, SerialInv,
       ReserveInv, ReadInv, ExecutesJob, OneRunning
  <2>2. OwnerInv'
    BY <1>2 DEF Close, TypeOK, BaseInv, RecordInv, OwnerInv
  <2> QED
    BY <2>1, <2>2 DEF RecordInv
<1>3. ASSUME NEW s \in Servers, ServerDies(s) PROVE RecordInv'
  <2>1. ReserveInv'
    BY <1>3 DEF ServerDies, RecordInv, ReserveInv
  <2>2. OwnerInv'
    BY <1>3, QueueAssumption DEF ServerDies, TypeOK, BaseInv, RecordInv,
       OwnerInv, NoCall
  <2>3. ControlInv'
    BY <1>3, QueueAssumption DEF ServerDies, TypeOK, BaseInv, RecordInv,
       OwnerInv, ControlInv, FreshInv, DispatchInv, RunningInv, NoCall
  <2>4. RunningInv'
    BY <1>3, QueueAssumption DEF ServerDies, TypeOK, BaseInv, RecordInv,
       OwnerInv, ControlInv, FreshInv, DispatchInv, ChildInv, LockInv,
       RunningInv, ExecutesJob, Executing, HoldsLock, ChildLock, RecoveryLock
  <2>5. SerialInv'
    BY <1>3, QueueAssumption DEF ServerDies, TypeOK, BaseInv, RecordInv,
       OwnerInv, ControlInv, FreshInv, DispatchInv, ChildInv, SerialInv,
       OneRunning, RunningInv, ExecutesJob
  <2>6. ReadInv'
    BY <1>3, QueueAssumption DEF ServerDies, TypeOK, BaseInv, RecordInv,
       OwnerInv, ControlInv, FreshInv, ChildInv, RunningInv, ExecutesJob,
       ReadInv, NoCall
  <2> QED
    BY <2>1, <2>2, <2>3, <2>4, <2>5, <2>6 DEF RecordInv
<1>4. ASSUME NEW s \in Servers, WorkerStops(s) PROVE RecordInv'
  <2>1. ControlInv' /\ ReserveInv' /\ ReadInv'
    BY <1>4 DEF WorkerStops, WorkerEnds, RecordInv, ControlInv, ReserveInv,
       ReadInv
  <2>2. OwnerInv'
    BY <1>4 DEF WorkerStops, WorkerEnds, TypeOK, BaseInv, RecordInv, OwnerInv
  <2>3. RunningInv'
    BY <1>4, QueueAssumption DEF WorkerStops, WorkerEnds, TypeOK, BaseInv,
       RecordInv, OwnerInv, ControlInv, FreshInv, DispatchInv, ChildInv,
       LockInv, RunningInv, ExecutesJob, Executing, HoldsLock, ChildLock,
       RecoveryLock
  <2>4. SerialInv'
    BY <1>4, QueueAssumption DEF WorkerStops, WorkerEnds, TypeOK, BaseInv,
       RecordInv, OwnerInv, ControlInv, FreshInv, DispatchInv, ChildInv,
       SerialInv, OneRunning, RunningInv, ExecutesJob
  <2> QED
    BY <2>1, <2>2, <2>3, <2>4 DEF RecordInv
<1>5. ASSUME NEW s \in Servers, RecoverBegin(s) PROVE RecordInv'
  <2>1. ControlInv' /\ ReserveInv' /\ ReadInv'
    BY <1>5 DEF RecoverBegin, MutexFree, RecordInv, ControlInv, ReserveInv,
       ReadInv
  <2>2. OwnerInv'
    BY <1>5 DEF RecoverBegin, MutexFree, TypeOK, BaseInv, RecordInv, OwnerInv
  <2>3. RunningInv'
    BY <1>5, QueueAssumption DEF RecoverBegin, MutexFree, TypeOK, BaseInv,
       RecordInv, OwnerInv, ControlInv, FreshInv, DispatchInv, ChildInv,
       LockInv, RunningInv, ExecutesJob, Executing, HoldsLock, ChildLock,
       RecoveryLock
  <2>4. SerialInv'
    BY <1>5, QueueAssumption DEF RecoverBegin, MutexFree, TypeOK, BaseInv,
       RecordInv, OwnerInv, ControlInv, FreshInv, DispatchInv, ChildInv,
       SerialInv, OneRunning, RunningInv, ExecutesJob
  <2> QED
    BY <2>1, <2>2, <2>3, <2>4 DEF RecordInv
<1>6. ASSUME NEW s \in Servers, RecoverEnd(s) PROVE RecordInv'
  <2>1. ControlInv' /\ ReserveInv' /\ ReadInv'
    BY <1>6 DEF RecoverEnd, RecordInv, ControlInv, ReserveInv, ReadInv
  <2>2. OwnerInv'
    BY <1>6 DEF RecoverEnd, TypeOK, BaseInv, RecordInv, OwnerInv
  <2>3. RunningInv'
    BY <1>6, QueueAssumption DEF RecoverEnd, TypeOK, BaseInv, RecordInv,
       OwnerInv, ControlInv, FreshInv, DispatchInv, ChildInv, LockInv,
       RunningInv, ExecutesJob, Executing, HoldsLock, ChildLock, RecoveryLock
  <2>4. SerialInv'
    BY <1>6, QueueAssumption DEF RecoverEnd, TypeOK, BaseInv, RecordInv,
       OwnerInv, ControlInv, FreshInv, DispatchInv, ChildInv, SerialInv,
       OneRunning, RunningInv, ExecutesJob
  <2> QED
    BY <2>1, <2>2, <2>3, <2>4 DEF RecordInv
<1>7. ASSUME NEW s \in Servers, ScanEmpty(s) PROVE RecordInv'
  <2>1. ControlInv' /\ ReserveInv' /\ ReadInv'
    BY <1>7 DEF ScanEmpty, Queued, RecordInv, ControlInv, ReserveInv, ReadInv
  <2>2. OwnerInv'
    BY <1>7 DEF ScanEmpty, Queued, TypeOK, BaseInv, RecordInv, OwnerInv
  <2>3. RunningInv'
    BY <1>7, QueueAssumption DEF ScanEmpty, Queued, TypeOK, BaseInv,
       RecordInv, OwnerInv, ControlInv, FreshInv, DispatchInv, ChildInv,
       LockInv, RunningInv, ExecutesJob, Executing, HoldsLock, ChildLock,
       RecoveryLock
  <2>4. SerialInv'
    BY <1>7, QueueAssumption DEF ScanEmpty, Queued, TypeOK, BaseInv,
       RecordInv, OwnerInv, ControlInv, FreshInv, DispatchInv, ChildInv,
       SerialInv, OneRunning, RunningInv, ExecutesJob
  <2> QED
    BY <2>1, <2>2, <2>3, <2>4 DEF RecordInv
<1>8. ASSUME NEW s \in Servers, Spawn(s) PROVE RecordInv'
  <2>1. ControlInv' /\ ReserveInv' /\ ReadInv'
    BY <1>8 DEF Spawn, RecordInv, ControlInv, ReserveInv, ReadInv
  <2>2. OwnerInv'
    BY <1>8 DEF Spawn, TypeOK, BaseInv, RecordInv, OwnerInv
  <2>3. RunningInv'
    BY <1>8, QueueAssumption DEF Spawn, TypeOK, BaseInv, RecordInv, OwnerInv,
       ControlInv, FreshInv, DispatchInv, ChildInv, LockInv, RunningInv,
       ExecutesJob, Executing, HoldsLock, ChildLock, RecoveryLock
  <2>4. SerialInv'
    BY <1>8, QueueAssumption DEF Spawn, TypeOK, BaseInv, RecordInv, OwnerInv,
       ControlInv, FreshInv, DispatchInv, ChildInv, SerialInv, OneRunning,
       RunningInv, ExecutesJob, Executing
  <2> QED
    BY <2>1, <2>2, <2>3, <2>4 DEF RecordInv
<1>9. ASSUME NEW s \in Servers, Reap(s) PROVE RecordInv'
  <2>1. OwnerInv'
    BY <1>9 DEF Reap, MutexFree, TypeOK, BaseInv, RecordInv, OwnerInv
  <2>2. ControlInv'
    BY <1>9, QueueAssumption DEF Reap, MutexFree, TypeOK, BaseInv, RecordInv,
       OwnerInv, ControlInv, FreshInv, DispatchInv, RunningInv
  <2>3. RunningInv'
    <3>1. wjob[s] \in Jobs /\ owner[wjob[s]] = s /\ child[s][wjob[s]] = "exited"
      BY <1>9 DEF Reap, RecordInv, BaseInv, DispatchInv
    <3>2. \A k \in Jobs : k # wjob[s] => status'[k] = status[k]
      BY <1>9 DEF Reap, RecordInv, BaseInv, TypeOK
    <3>3. \A t \in Servers : ~ExecutesJob(t, wjob[s])
      BY <3>1 DEF RecordInv, BaseInv, ChildInv, ExecutesJob, Executing
    <3>4. \A t \in Servers :
             t # s /\ worker[t] = "spawn" =>
               wjob[t] \in Jobs /\ wjob[t] # wjob[s]
      BY <3>1 DEF RecordInv, BaseInv, DispatchInv
    <3>5. \A t \in Servers, k \in Jobs :
             (ExecutesJob(t, k))' => status'[k] = "running"
      BY <1>9, <3>2, <3>3 DEF Reap, RecordInv, RunningInv, ExecutesJob
    <3>6. \A t \in Servers :
             worker'[t] = "spawn" => status'[wjob'[t]] = "running"
      BY <1>9, <3>2, <3>4 DEF Reap, RecordInv, RunningInv, BaseInv, TypeOK
    <3> QED
      BY <3>5, <3>6 DEF RunningInv
  <2>4. SerialInv'
    BY <1>9, QueueAssumption DEF Reap, MutexFree, TypeOK, BaseInv, RecordInv,
       OwnerInv, ControlInv, FreshInv, DispatchInv, ChildInv, SerialInv,
       OneRunning, RunningInv, ExecutesJob, Terminal, Finished
  <2>5. ReserveInv'
    BY <1>9, QueueAssumption DEF Reap, MutexFree, TypeOK, BaseInv, RecordInv,
       OwnerInv, ControlInv, FreshInv, DispatchInv, ChildInv, RunningInv,
       ExecutesJob, ReserveInv, Active, Terminal, Finished
  <2>6. ReadInv'
    BY <1>9, QueueAssumption DEF Reap, MutexFree, TypeOK, BaseInv, RecordInv,
       OwnerInv, ControlInv, FreshInv, ChildInv, RunningInv, ExecutesJob,
       ReadInv, Terminal, Finished, Active
  <2> QED
    BY <2>1, <2>2, <2>3, <2>4, <2>5, <2>6 DEF RecordInv
<1>10. ASSUME NEW s \in Servers, ControlAppend(s) PROVE RecordInv'
  <2>1. RunningInv' /\ SerialInv' /\ ReserveInv'
    BY <1>10 DEF ControlAppend, RecordInv, RunningInv, SerialInv, ReserveInv,
       ExecutesJob, OneRunning
  <2>2. OwnerInv'
    BY <1>10 DEF ControlAppend, TypeOK, BaseInv, RecordInv, OwnerInv
  <2>3. ControlInv'
    BY <1>10, QueueAssumption DEF ControlAppend, TypeOK, BaseInv, RecordInv,
       OwnerInv, ControlInv, FreshInv, DispatchInv, RunningInv, NoCall
  <2>4. ReadInv'
    BY <1>10, QueueAssumption DEF ControlAppend, TypeOK, BaseInv, RecordInv,
       OwnerInv, ControlInv, FreshInv, ChildInv, RunningInv, ExecutesJob,
       ReadInv, NoCall
  <2> QED
    BY <2>1, <2>2, <2>3, <2>4 DEF RecordInv
<1>11. ASSUME NEW s \in Servers, ControlMark(s) PROVE RecordInv'
  <2>1. OwnerInv'
    BY <1>11 DEF ControlMark, StopStatus, TypeOK, BaseInv, RecordInv, OwnerInv
  <2>2. ControlInv'
    BY <1>11, QueueAssumption DEF ControlMark, StopStatus, TypeOK, BaseInv,
       RecordInv, OwnerInv, ControlInv, FreshInv, DispatchInv, RunningInv,
       CallInv, NoCall, Executing
  <2>3. RunningInv'
    BY <1>11, QueueAssumption DEF ControlMark, StopStatus, TypeOK, BaseInv,
       RecordInv, OwnerInv, ControlInv, FreshInv, DispatchInv, ChildInv,
       LockInv, RunningInv, ExecutesJob, Executing, HoldsLock, ChildLock,
       RecoveryLock, Terminal, Finished
  <2>4. SerialInv'
    BY <1>11, QueueAssumption DEF ControlMark, StopStatus, TypeOK, BaseInv,
       RecordInv, OwnerInv, ControlInv, FreshInv, DispatchInv, ChildInv,
       SerialInv, OneRunning, RunningInv, ExecutesJob, Terminal, Finished
  <2>5. ReserveInv'
    BY <1>11, QueueAssumption DEF ControlMark, StopStatus, TypeOK, BaseInv,
       RecordInv, OwnerInv, ControlInv, FreshInv, DispatchInv, ChildInv,
       RunningInv, ExecutesJob, ReserveInv, Active, Terminal, Finished
  <2>6. ReadInv'
    BY <1>11, QueueAssumption DEF ControlMark, StopStatus, TypeOK, BaseInv,
       RecordInv, OwnerInv, ControlInv, FreshInv, ChildInv, RunningInv,
       ExecutesJob, ReadInv, NoCall, Terminal, Finished, Active
  <2> QED
    BY <2>1, <2>2, <2>3, <2>4, <2>5, <2>6 DEF RecordInv
<1>12. ASSUME NEW s \in Servers, ReadEnd(s) PROVE RecordInv'
  <2>1. RunningInv' /\ SerialInv' /\ ReserveInv'
    BY <1>12 DEF ReadEnd, RecordInv, RunningInv, SerialInv, ReserveInv,
       ExecutesJob, OneRunning
  <2>2. OwnerInv'
    BY <1>12 DEF ReadEnd, TypeOK, BaseInv, RecordInv, OwnerInv
  <2>3. ControlInv'
    BY <1>12, QueueAssumption DEF ReadEnd, TypeOK, BaseInv, RecordInv,
       OwnerInv, ControlInv, FreshInv, DispatchInv, RunningInv, NoCall
  <2>4. ReadInv'
    BY <1>12, QueueAssumption DEF ReadEnd, TypeOK, BaseInv, RecordInv,
       OwnerInv, ControlInv, FreshInv, ChildInv, RunningInv, ExecutesJob,
       ReadInv, NoCall
  <2> QED
    BY <2>1, <2>2, <2>3, <2>4 DEF RecordInv
<1>13. ASSUME NEW s \in Servers, SpawnFails(s) PROVE RecordInv'
  <2>1. OwnerInv'
    BY <1>13 DEF SpawnFails, MutexFree, TypeOK, BaseInv, RecordInv, OwnerInv
  <2>2. ControlInv'
    BY <1>13, QueueAssumption DEF SpawnFails, MutexFree, TypeOK, BaseInv,
       RecordInv, OwnerInv, ControlInv, FreshInv, DispatchInv, RunningInv
  <2>3. RunningInv'
    <3>1. wjob[s] \in Jobs /\ owner[wjob[s]] = s /\ child[s][wjob[s]] = "none"
      BY <1>13 DEF SpawnFails, RecordInv, BaseInv, DispatchInv
    <3>2. \A k \in Jobs : k # wjob[s] => status'[k] = status[k]
      BY <1>13 DEF SpawnFails, RecordInv, BaseInv, TypeOK
    <3>3. \A t \in Servers : ~ExecutesJob(t, wjob[s])
      BY <3>1 DEF RecordInv, BaseInv, ChildInv, ExecutesJob, Executing
    <3>4. \A t \in Servers :
             t # s /\ worker[t] = "spawn" =>
               wjob[t] \in Jobs /\ wjob[t] # wjob[s]
      BY <3>1 DEF RecordInv, BaseInv, DispatchInv
    <3>5. \A t \in Servers, k \in Jobs :
             (ExecutesJob(t, k))' => status'[k] = "running"
      BY <1>13, <3>2, <3>3 DEF SpawnFails, RecordInv, RunningInv, ExecutesJob
    <3>6. \A t \in Servers :
             worker'[t] = "spawn" => status'[wjob'[t]] = "running"
      BY <1>13, <3>2, <3>4 DEF SpawnFails, RecordInv, RunningInv, BaseInv, TypeOK
    <3> QED
      BY <3>5, <3>6 DEF RunningInv
  <2>4. SerialInv'
    BY <1>13, QueueAssumption DEF SpawnFails, MutexFree, TypeOK, BaseInv,
       RecordInv, OwnerInv, ControlInv, FreshInv, DispatchInv, ChildInv,
       SerialInv, OneRunning, RunningInv, ExecutesJob, Terminal, Finished
  <2>5. ReserveInv'
    BY <1>13, QueueAssumption DEF SpawnFails, MutexFree, TypeOK, BaseInv,
       RecordInv, OwnerInv, ControlInv, FreshInv, DispatchInv, ChildInv,
       RunningInv, ExecutesJob, ReserveInv, Active, Terminal, Finished
  <2>6. ReadInv'
    BY <1>13, QueueAssumption DEF SpawnFails, MutexFree, TypeOK, BaseInv,
       RecordInv, OwnerInv, ControlInv, FreshInv, ChildInv, RunningInv,
       ExecutesJob, ReadInv, Terminal, Finished, Active
  <2> QED
    BY <2>1, <2>2, <2>3, <2>4, <2>5, <2>6 DEF RecordInv
<1>14. ASSUME NEW s \in Servers, WorkerFaults(s) PROVE RecordInv'
  <2>1. ControlInv' /\ ReserveInv' /\ ReadInv'
    BY <1>14 DEF WorkerFaults, WorkerEnds, MayScan, MutexFree, RecordInv,
       ControlInv, ReserveInv, ReadInv
  <2>2. OwnerInv'
    BY <1>14 DEF WorkerFaults, WorkerEnds, MayScan, MutexFree, TypeOK,
       BaseInv, RecordInv, OwnerInv
  <2>3. RunningInv'
    BY <1>14, QueueAssumption DEF WorkerFaults, WorkerEnds, MayScan,
       MutexFree, TypeOK, BaseInv, RecordInv, OwnerInv, ControlInv, FreshInv,
       DispatchInv, ChildInv, LockInv, RunningInv, ExecutesJob, Executing,
       HoldsLock, ChildLock, RecoveryLock
  <2>4. SerialInv'
    BY <1>14, QueueAssumption DEF WorkerFaults, WorkerEnds, MayScan,
       MutexFree, TypeOK, BaseInv, RecordInv, OwnerInv, ControlInv, FreshInv,
       DispatchInv, ChildInv, SerialInv, OneRunning, RunningInv, ExecutesJob
  <2> QED
    BY <2>1, <2>2, <2>3, <2>4 DEF RecordInv
<1>15. ASSUME NEW s \in Servers, NEW j \in Jobs, RecoverMark(s, j) PROVE
   RecordInv'
  <2>1. OwnerInv'
    BY <1>15 DEF RecoverMark, RecordInv, OwnerInv
  <2>2. ControlInv'
    BY <1>15, QueueAssumption DEF RecoverMark, TypeOK, BaseInv, RecordInv,
       OwnerInv, ControlInv, FreshInv, DispatchInv, RunningInv
  <2>3. RunningInv'
    <3>1. execLock = RecoveryLock(s) /\ ownerLock = s
      BY <1>15 DEF RecoverMark, RecordInv, BaseInv, LockInv, OwnerInv
    <3>2. \A t \in Servers, k \in Jobs : ~ExecutesJob(t, k)
      BY <3>1 DEF RecordInv, BaseInv, LockInv, ExecutesJob, Executing,
         HoldsLock, ChildLock, RecoveryLock
    <3>3. \A t \in Servers : worker[t] # "spawn"
      BY <1>15, <3>1 DEF RecoverMark, RecordInv, OwnerInv
    <3> QED
      BY <1>15, <3>2, <3>3 DEF RecoverMark, RunningInv, ExecutesJob
  <2>4. SerialInv'
    BY <1>15, QueueAssumption DEF RecoverMark, TypeOK, BaseInv, RecordInv,
       OwnerInv, ControlInv, FreshInv, DispatchInv, ChildInv, SerialInv,
       OneRunning, RunningInv, ExecutesJob, Terminal, Finished
  <2>5. ReserveInv'
    BY <1>15, QueueAssumption DEF RecoverMark, TypeOK, BaseInv, RecordInv,
       OwnerInv, ControlInv, FreshInv, DispatchInv, ChildInv, RunningInv,
       ExecutesJob, ReserveInv, Active, Terminal, Finished
  <2>6. ReadInv'
    BY <1>15, QueueAssumption DEF RecoverMark, TypeOK, BaseInv, RecordInv,
       OwnerInv, ControlInv, FreshInv, ChildInv, RunningInv, ExecutesJob,
       ReadInv, Terminal, Finished, Active
  <2> QED
    BY <2>1, <2>2, <2>3, <2>4, <2>5, <2>6 DEF RecordInv
<1>16. ASSUME NEW s \in Servers, NEW j \in Jobs, Dispatch(s, j) PROVE
   RecordInv'
  <2>1. OwnerInv'
    BY <1>16 DEF Dispatch, MayScan, MutexFree, Queued, TypeOK, BaseInv,
       RecordInv, OwnerInv
  <2>2. ControlInv'
    <3>1. ownerLock = s /\ api[s].op = "free"
      BY <1>16 DEF Dispatch, MayScan, MutexFree, RecordInv, OwnerInv
    <3>2. \A t \in Servers : api[t].op = "free"
      BY <3>1 DEF RecordInv, OwnerInv
    <3> QED
      BY <1>16, <3>2 DEF Dispatch, ControlInv
  <2>3. RunningInv'
    BY <1>16, QueueAssumption DEF Dispatch, MayScan, MutexFree, Queued,
       TypeOK, BaseInv, RecordInv, OwnerInv, ControlInv, FreshInv,
       DispatchInv, ChildInv, LockInv, RunningInv, ExecutesJob, Executing,
       HoldsLock, ChildLock, RecoveryLock, Terminal, Finished
  <2>4. SerialInv'
    <3>1. ownerLock = s /\ wjob[s] = None /\ ~recovering[s]
      BY <1>16 DEF Dispatch, MayScan, RecordInv, OwnerInv, SerialInv
    <3>2. \A k \in Jobs : status[k] # "running"
      BY <3>1, QueueAssumption DEF RecordInv, SerialInv, OneRunning
    <3>3. \A k \in Jobs : status'[k] = "running" => k = j
      BY <1>16, <3>2 DEF Dispatch, Queued, RecordInv, BaseInv, TypeOK
    <3>4. wjob' = [wjob EXCEPT ![s] = j] /\ worker' = [worker EXCEPT ![s] = "spawn"]
      BY <1>16 DEF Dispatch
    <3>5. OneRunning'
      BY <1>16, <3>1, <3>3, <3>4 DEF Dispatch, OneRunning, RecordInv, BaseInv,
         TypeOK
    <3> QED
      BY <1>16, <3>4, <3>5 DEF Dispatch, SerialInv, RecordInv, BaseInv, TypeOK
  <2>5. ReserveInv'
    BY <1>16, QueueAssumption DEF Dispatch, MayScan, MutexFree, Queued,
       TypeOK, BaseInv, RecordInv, OwnerInv, ControlInv, FreshInv,
       DispatchInv, ChildInv, RunningInv, ExecutesJob, ReserveInv, Active,
       Terminal, Finished
  <2>6. ReadInv'
    <3>1. ownerLock = s /\ api[s].op = "free"
      BY <1>16 DEF Dispatch, MayScan, MutexFree, RecordInv, OwnerInv
    <3>2. \A t \in Servers : api[t].op = "free"
      BY <3>1 DEF RecordInv, OwnerInv
    <3> QED
      BY <1>16, <3>2 DEF Dispatch, ReadInv
  <2> QED
    BY <2>1, <2>2, <2>3, <2>4, <2>5, <2>6 DEF RecordInv
<1>17. ASSUME NEW s \in Servers, NEW j \in Jobs, ChildTakesLock(s, j) PROVE
   RecordInv'
  <2>1. OwnerInv' /\ ControlInv' /\ SerialInv' /\ ReserveInv' /\ ReadInv'
    BY <1>17 DEF ChildTakesLock, RecordInv, OwnerInv, ControlInv, SerialInv,
       ReserveInv, ReadInv, OneRunning
  <2>2. RunningInv'
    BY <1>17, QueueAssumption DEF ChildTakesLock, TypeOK, BaseInv, RecordInv,
       OwnerInv, ControlInv, FreshInv, DispatchInv, ChildInv, LockInv,
       RunningInv, ExecutesJob, Executing, HoldsLock, ChildLock, RecoveryLock
  <2> QED
    BY <2>1, <2>2 DEF RecordInv
<1>18. ASSUME NEW s \in Servers, NEW j \in Jobs, ChildRefused(s, j) PROVE
   RecordInv'
  <2>1. OwnerInv' /\ ControlInv' /\ SerialInv' /\ ReserveInv' /\ ReadInv'
    BY <1>18 DEF ChildRefused, Gone, RecordInv, OwnerInv, ControlInv,
       SerialInv, ReserveInv, ReadInv, OneRunning
  <2>2. RunningInv'
    BY <1>18, QueueAssumption DEF ChildRefused, Gone, TypeOK, BaseInv,
       RecordInv, OwnerInv, ControlInv, FreshInv, DispatchInv, ChildInv,
       LockInv, RunningInv, ExecutesJob, Executing, HoldsLock, ChildLock,
       RecoveryLock
  <2> QED
    BY <2>1, <2>2 DEF RecordInv
<1>19. ASSUME NEW s \in Servers, NEW j \in Jobs, ChildBegins(s, j) PROVE
   RecordInv'
  <2>1. OwnerInv' /\ ControlInv' /\ SerialInv' /\ ReserveInv' /\ ReadInv'
    BY <1>19 DEF ChildBegins, RecordInv, OwnerInv, ControlInv, SerialInv,
       ReserveInv, ReadInv, OneRunning
  <2>2. RunningInv'
    BY <1>19, QueueAssumption DEF ChildBegins, TypeOK, BaseInv, RecordInv,
       OwnerInv, ControlInv, FreshInv, DispatchInv, ChildInv, LockInv,
       RunningInv, ExecutesJob, Executing, HoldsLock, ChildLock, RecoveryLock
  <2> QED
    BY <2>1, <2>2 DEF RecordInv
<1>20. ASSUME NEW s \in Servers, NEW j \in Jobs, ChildDeclines(s, j) PROVE
   RecordInv'
  <2>1. OwnerInv' /\ ControlInv' /\ SerialInv' /\ ReserveInv' /\ ReadInv'
    BY <1>20 DEF ChildDeclines, Gone, RecordInv, OwnerInv, ControlInv,
       SerialInv, ReserveInv, ReadInv, OneRunning
  <2>2. RunningInv'
    BY <1>20, QueueAssumption DEF ChildDeclines, Gone, TypeOK, BaseInv,
       RecordInv, OwnerInv, ControlInv, FreshInv, DispatchInv, ChildInv,
       LockInv, RunningInv, ExecutesJob, Executing, HoldsLock, ChildLock,
       RecoveryLock
  <2> QED
    BY <2>1, <2>2 DEF RecordInv
<1>21. ASSUME NEW s \in Servers, NEW j \in Jobs, BenchmarkStops(s, j) PROVE
   RecordInv'
  <2>1. OwnerInv' /\ ControlInv' /\ SerialInv' /\ ReserveInv' /\ ReadInv'
    BY <1>21 DEF BenchmarkStops, Decide, StopStatus, RecordInv, OwnerInv,
       ControlInv, SerialInv, ReserveInv, ReadInv, OneRunning
  <2>2. RunningInv'
    BY <1>21, QueueAssumption DEF BenchmarkStops, Decide, StopStatus, TypeOK,
       BaseInv, RecordInv, OwnerInv, ControlInv, FreshInv, DispatchInv,
       ChildInv, LockInv, RunningInv, ExecutesJob, Executing, HoldsLock,
       ChildLock, RecoveryLock
  <2> QED
    BY <2>1, <2>2 DEF RecordInv
<1>22. ASSUME NEW s \in Servers, NEW j \in Jobs, BenchmarkCompletes(s, j)
   PROVE RecordInv'
  <2>1. OwnerInv' /\ ControlInv' /\ SerialInv' /\ ReserveInv' /\ ReadInv'
    BY <1>22 DEF BenchmarkCompletes, Decide, RecordInv, OwnerInv, ControlInv,
       SerialInv, ReserveInv, ReadInv, OneRunning
  <2>2. RunningInv'
    BY <1>22, QueueAssumption DEF BenchmarkCompletes, Decide, TypeOK, BaseInv,
       RecordInv, OwnerInv, ControlInv, FreshInv, DispatchInv, ChildInv,
       LockInv, RunningInv, ExecutesJob, Executing, HoldsLock, ChildLock,
       RecoveryLock
  <2> QED
    BY <2>1, <2>2 DEF RecordInv
<1>23. ASSUME NEW s \in Servers, NEW j \in Jobs, BenchmarkFails(s, j) PROVE
   RecordInv'
  <2>1. OwnerInv' /\ ControlInv' /\ SerialInv' /\ ReserveInv' /\ ReadInv'
    BY <1>23 DEF BenchmarkFails, Decide, RecordInv, OwnerInv, ControlInv,
       SerialInv, ReserveInv, ReadInv, OneRunning
  <2>2. RunningInv'
    BY <1>23, QueueAssumption DEF BenchmarkFails, Decide, TypeOK, BaseInv,
       RecordInv, OwnerInv, ControlInv, FreshInv, DispatchInv, ChildInv,
       LockInv, RunningInv, ExecutesJob, Executing, HoldsLock, ChildLock,
       RecoveryLock
  <2> QED
    BY <2>1, <2>2 DEF RecordInv
<1>24. ASSUME NEW s \in Servers, NEW j \in Jobs, SearchEnds(s, j) PROVE
   RecordInv'
  <2>1. OwnerInv' /\ ControlInv' /\ SerialInv' /\ ReserveInv' /\ ReadInv'
    BY <1>24 DEF SearchEnds, Decide, RecordInv, OwnerInv, ControlInv,
       SerialInv, ReserveInv, ReadInv, OneRunning
  <2>2. RunningInv'
    BY <1>24, QueueAssumption DEF SearchEnds, Decide, TypeOK, BaseInv,
       RecordInv, OwnerInv, ControlInv, FreshInv, DispatchInv, ChildInv,
       LockInv, RunningInv, ExecutesJob, Executing, HoldsLock, ChildLock,
       RecoveryLock
  <2> QED
    BY <2>1, <2>2 DEF RecordInv
<1>25. ASSUME NEW s \in Servers, NEW j \in Jobs, SearchFinishes(s, j) PROVE
   RecordInv'
  <2>1. OwnerInv' /\ ControlInv' /\ SerialInv' /\ ReserveInv' /\ ReadInv'
    BY <1>25 DEF SearchFinishes, RecordInv, OwnerInv, ControlInv, SerialInv,
       ReserveInv, ReadInv, OneRunning
  <2>2. RunningInv'
    BY <1>25, QueueAssumption DEF SearchFinishes, TypeOK, BaseInv, RecordInv,
       OwnerInv, ControlInv, FreshInv, DispatchInv, ChildInv, LockInv,
       RunningInv, ExecutesJob, Executing, HoldsLock, ChildLock, RecoveryLock
  <2> QED
    BY <2>1, <2>2 DEF RecordInv
<1>26. ASSUME NEW s \in Servers, NEW j \in Jobs, TimerFires(s, j) PROVE
   RecordInv'
  <2>1. OwnerInv' /\ ControlInv' /\ RunningInv' /\ SerialInv' /\ ReserveInv'
     /\ ReadInv'
    BY <1>26 DEF TimerFires, RecordInv, OwnerInv, ControlInv, RunningInv,
       SerialInv, ReserveInv, ReadInv, ExecutesJob, OneRunning
  <2> QED
    BY <2>1 DEF RecordInv
<1>27. ASSUME NEW s \in Servers, NEW j \in Jobs, TimerExits(s, j) PROVE
   RecordInv'
  <2>a. Recorded(mem[s][j]) \in {"running"} \cup Finished
    BY <1>27, RecordedStatus DEF RecordInv, BaseInv, TypeOK
  <2>b. status' = [status EXCEPT ![j] = Recorded(mem[s][j])]
    BY <1>27 DEF TimerExits, ChildWrites
  <2>c. status[j] \notin {"absent", "queued"}
    BY <1>27 DEF RecordInv, BaseInv, FreshInv, ChildInv, TimerExits,
       ChildWrites, Executing
  <2>d. status'[j] \notin {"absent", "queued"}
    BY <1>27, <2>a, <2>b DEF RecordInv, BaseInv, TypeOK, Finished, Terminal
  <2>e. child[s][j] # "none"
    BY <1>27 DEF RecordInv, BaseInv, ChildInv, TimerExits, ChildWriteFails
  <2>1. OwnerInv'
    BY <1>27 DEF TimerExits, Gone, RecordInv, OwnerInv
  <2>2. ControlInv'
    BY <1>27, <2>a, <2>b, <2>c, <2>d, <2>e, QueueAssumption DEF TimerExits,
       Gone, TypeOK, BaseInv, RecordInv, OwnerInv, ControlInv, FreshInv,
       DispatchInv, RunningInv, Executing
  <2>3. RunningInv'
    BY <1>27, <2>a, <2>b, <2>c, <2>d, <2>e, QueueAssumption DEF TimerExits,
       Gone, TypeOK, BaseInv, RecordInv, OwnerInv, ControlInv, FreshInv,
       DispatchInv, ChildInv, LockInv, RunningInv, ExecutesJob, Executing,
       HoldsLock, ChildLock, RecoveryLock, Terminal, Finished
  <2>4. SerialInv'
    BY <1>27, <2>a, <2>b, <2>c, <2>d, <2>e, QueueAssumption DEF TimerExits,
       Gone, TypeOK, BaseInv, RecordInv, OwnerInv, ControlInv, FreshInv,
       DispatchInv, ChildInv, SerialInv, OneRunning, RunningInv, ExecutesJob,
       Executing, Terminal, Finished
  <2>5. ReserveInv'
    BY <1>27, <2>a, <2>b, <2>c, <2>d, <2>e, QueueAssumption DEF TimerExits,
       Gone, TypeOK, BaseInv, RecordInv, OwnerInv, ControlInv, FreshInv,
       DispatchInv, ChildInv, RunningInv, ExecutesJob, Executing, ReserveInv,
       Active, Terminal, Finished
  <2>6. ReadInv'
    BY <1>27, <2>a, <2>b, <2>c, <2>d, <2>e, QueueAssumption DEF TimerExits,
       Gone, TypeOK, BaseInv, RecordInv, OwnerInv, ControlInv, FreshInv,
       ChildInv, RunningInv, ExecutesJob, Executing, ReadInv, Terminal,
       Finished, Active
  <2> QED
    BY <2>1, <2>2, <2>3, <2>4, <2>5, <2>6 DEF RecordInv
<1>28. ASSUME NEW s \in Servers, NEW j \in Jobs, ChildWrites(s, j) PROVE
   RecordInv'
  <2>a. Recorded(mem[s][j]) \in {"running"} \cup Finished
    BY <1>28, RecordedStatus DEF RecordInv, BaseInv, TypeOK
  <2>b. status' = [status EXCEPT ![j] = Recorded(mem[s][j])]
    BY <1>28 DEF TimerExits, ChildWrites
  <2>c. status[j] \notin {"absent", "queued"}
    BY <1>28 DEF RecordInv, BaseInv, FreshInv, ChildInv, TimerExits,
       ChildWrites, Executing
  <2>d. status'[j] \notin {"absent", "queued"}
    BY <1>28, <2>a, <2>b DEF RecordInv, BaseInv, TypeOK, Finished, Terminal
  <2>1. OwnerInv'
    BY <1>28 DEF ChildWrites, RecordInv, OwnerInv
  <2>2. ControlInv'
    BY <1>28, <2>a, <2>b, <2>c, <2>d, QueueAssumption DEF ChildWrites, TypeOK,
       BaseInv, RecordInv, OwnerInv, ControlInv, FreshInv, DispatchInv,
       RunningInv, Executing
  <2>3. RunningInv'
    BY <1>28, <2>a, <2>b, <2>c, <2>d, QueueAssumption DEF ChildWrites, TypeOK,
       BaseInv, RecordInv, OwnerInv, ControlInv, FreshInv, DispatchInv,
       ChildInv, LockInv, RunningInv, ExecutesJob, Executing, HoldsLock,
       ChildLock, RecoveryLock, Terminal, Finished
  <2>4. SerialInv'
    BY <1>28, <2>a, <2>b, <2>c, <2>d, QueueAssumption DEF ChildWrites, TypeOK,
       BaseInv, RecordInv, OwnerInv, ControlInv, FreshInv, DispatchInv,
       ChildInv, SerialInv, OneRunning, RunningInv, ExecutesJob, Executing,
       Terminal, Finished
  <2>5. ReserveInv'
    BY <1>28, <2>a, <2>b, <2>c, <2>d, QueueAssumption DEF ChildWrites, TypeOK,
       BaseInv, RecordInv, OwnerInv, ControlInv, FreshInv, DispatchInv,
       ChildInv, RunningInv, ExecutesJob, Executing, ReserveInv, Active,
       Terminal, Finished
  <2>6. ReadInv'
    BY <1>28, <2>a, <2>b, <2>c, <2>d, QueueAssumption DEF ChildWrites, TypeOK,
       BaseInv, RecordInv, OwnerInv, ControlInv, FreshInv, ChildInv,
       RunningInv, ExecutesJob, Executing, ReadInv, Terminal, Finished, Active
  <2> QED
    BY <2>1, <2>2, <2>3, <2>4, <2>5, <2>6 DEF RecordInv
<1>29. ASSUME NEW s \in Servers, NEW j \in Jobs, ChildExits(s, j) PROVE
   RecordInv'
  <2>1. OwnerInv' /\ ControlInv' /\ SerialInv' /\ ReserveInv' /\ ReadInv'
    BY <1>29 DEF ChildExits, Gone, RecordInv, OwnerInv, ControlInv, SerialInv,
       ReserveInv, ReadInv, OneRunning
  <2>2. RunningInv'
    BY <1>29, QueueAssumption DEF ChildExits, Gone, TypeOK, BaseInv,
       RecordInv, OwnerInv, ControlInv, FreshInv, DispatchInv, ChildInv,
       LockInv, RunningInv, ExecutesJob, Executing, HoldsLock, ChildLock,
       RecoveryLock
  <2> QED
    BY <2>1, <2>2 DEF RecordInv
<1>30. ASSUME NEW s \in Servers, NEW j \in Jobs, ChildWriteFails(s, j) PROVE
   RecordInv'
  <2>a. child[s][j] # "none"
    BY <1>30 DEF RecordInv, BaseInv, ChildInv, TimerExits, ChildWriteFails
  <2>1. OwnerInv' /\ ControlInv' /\ SerialInv' /\ ReserveInv' /\ ReadInv'
    BY <1>30 DEF ChildWriteFails, Gone, RecordInv, OwnerInv, ControlInv,
       SerialInv, ReserveInv, ReadInv, OneRunning
  <2>2. RunningInv'
    BY <1>30, <2>a, QueueAssumption DEF ChildWriteFails, Gone, TypeOK,
       BaseInv, RecordInv, OwnerInv, ControlInv, FreshInv, DispatchInv,
       ChildInv, LockInv, RunningInv, ExecutesJob, Executing, HoldsLock,
       ChildLock, RecoveryLock
  <2> QED
    BY <2>1, <2>2 DEF RecordInv
<1>31. ASSUME NEW s \in Servers, NEW j \in Jobs, ChildCrashes(s, j) PROVE
   RecordInv'
  <2>1. OwnerInv' /\ ControlInv' /\ SerialInv' /\ ReserveInv' /\ ReadInv'
    BY <1>31 DEF ChildCrashes, Gone, RecordInv, OwnerInv, ControlInv,
       SerialInv, ReserveInv, ReadInv, OneRunning
  <2>2. RunningInv'
    BY <1>31, QueueAssumption DEF ChildCrashes, Gone, TypeOK, BaseInv,
       RecordInv, OwnerInv, ControlInv, FreshInv, DispatchInv, ChildInv,
       LockInv, RunningInv, ExecutesJob, Executing, HoldsLock, ChildLock,
       RecoveryLock
  <2> QED
    BY <2>1, <2>2 DEF RecordInv
<1>32. ASSUME NEW s \in Servers, NEW j \in Jobs, NEW o \in Outputs \cup
   {None}, (j \in Benchmarks => o \in Outputs), Enqueue(s, j, o) PROVE
   RecordInv'
  <2>1. OwnerInv'
    BY <1>32 DEF Enqueue, MutexFree, Reserved, RecordInv, OwnerInv
  <2>2. ControlInv'
    BY <1>32, QueueAssumption DEF Enqueue, MutexFree, Reserved, TypeOK,
       BaseInv, RecordInv, OwnerInv, ControlInv, FreshInv, DispatchInv,
       RunningInv
  <2>3. RunningInv'
    BY <1>32, QueueAssumption DEF Enqueue, MutexFree, Reserved, TypeOK,
       BaseInv, RecordInv, OwnerInv, ControlInv, FreshInv, DispatchInv,
       ChildInv, LockInv, RunningInv, ExecutesJob, Executing, HoldsLock,
       ChildLock, RecoveryLock, Terminal, Finished
  <2>4. SerialInv'
    BY <1>32, QueueAssumption DEF Enqueue, MutexFree, Reserved, TypeOK,
       BaseInv, RecordInv, OwnerInv, ControlInv, FreshInv, DispatchInv,
       ChildInv, SerialInv, OneRunning, RunningInv, ExecutesJob, Terminal,
       Finished
  <2>5. ReserveInv'
    BY <1>32, QueueAssumption DEF Enqueue, MutexFree, Reserved, TypeOK,
       BaseInv, RecordInv, OwnerInv, ControlInv, FreshInv, DispatchInv,
       ChildInv, RunningInv, ExecutesJob, ReserveInv, Active, Terminal,
       Finished
  <2>6. ReadInv'
    BY <1>32, QueueAssumption DEF Enqueue, MutexFree, Reserved, TypeOK,
       BaseInv, RecordInv, OwnerInv, ControlInv, FreshInv, ChildInv,
       RunningInv, ExecutesJob, ReadInv, Terminal, Finished, Active
  <2> QED
    BY <2>1, <2>2, <2>3, <2>4, <2>5, <2>6 DEF RecordInv
<1>33. ASSUME NEW s \in Servers, NEW j \in Jobs, NEW a \in Requests,
   ControlBegin(s, j, a) PROVE RecordInv'
  <2>1. RunningInv' /\ SerialInv' /\ ReserveInv'
    BY <1>33 DEF ControlBegin, Answering, MutexFree, RecordInv, RunningInv,
       SerialInv, ReserveInv, ExecutesJob, OneRunning
  <2>2. OwnerInv'
    BY <1>33 DEF ControlBegin, Answering, MutexFree, TypeOK, BaseInv,
       RecordInv, OwnerInv
  <2>3. ControlInv'
    BY <1>33, QueueAssumption DEF ControlBegin, Answering, MutexFree, TypeOK,
       BaseInv, RecordInv, OwnerInv, ControlInv, FreshInv, DispatchInv,
       RunningInv, NoCall
  <2>4. ReadInv'
    BY <1>33, QueueAssumption DEF ControlBegin, Answering, MutexFree, TypeOK,
       BaseInv, RecordInv, OwnerInv, ControlInv, FreshInv, ChildInv,
       RunningInv, ExecutesJob, ReadInv, NoCall
  <2> QED
    BY <2>1, <2>2, <2>3, <2>4 DEF RecordInv
<1>34. ASSUME NEW s \in Servers, NEW o \in Outputs, ReadBegin(s, o) PROVE
   RecordInv'
  <2>1. RunningInv' /\ SerialInv' /\ ReserveInv'
    BY <1>34 DEF ReadBegin, Answering, MutexFree, RecordInv, RunningInv,
       SerialInv, ReserveInv, ExecutesJob, OneRunning
  <2>2. OwnerInv'
    BY <1>34 DEF ReadBegin, Answering, MutexFree, TypeOK, BaseInv, RecordInv,
       OwnerInv
  <2>3. ControlInv'
    BY <1>34, QueueAssumption DEF ReadBegin, Answering, MutexFree, TypeOK,
       BaseInv, RecordInv, OwnerInv, ControlInv, FreshInv, DispatchInv,
       RunningInv, NoCall
  <2>4. ReadInv'
    BY <1>34, QueueAssumption DEF ReadBegin, Answering, MutexFree, TypeOK,
       BaseInv, RecordInv, OwnerInv, ControlInv, FreshInv, ChildInv,
       RunningInv, ExecutesJob, ReadInv, NoCall
  <2> QED
    BY <2>1, <2>2, <2>3, <2>4 DEF RecordInv
<1>35. ASSUME UNCHANGED vars PROVE RecordInv'
  <2>1. OwnerInv' /\ ControlInv' /\ RunningInv' /\ SerialInv' /\ ReserveInv'
     /\ ReadInv'
    BY <1>35 DEF vars, RecordInv, OwnerInv, ControlInv, RunningInv, SerialInv,
       ReserveInv, ReadInv, ExecutesJob, OneRunning
  <2> QED
    BY <2>1 DEF RecordInv
<1>36. ASSUME NEW s \in Servers, NEW j \in Jobs, Submit(s, j)
       PROVE  RecordInv'
  BY <1>36, <1>32 DEF Submit
<1>37. ASSUME NEW s \in Servers, NEW p \in Jobs, NEW j \in Jobs,
               Retry(s, p, j)
       PROVE  RecordInv'
  BY <1>37, <1>32 DEF Retry
<1>38. ASSUME NEW s \in Servers, NEW p \in Jobs, NEW j \in Jobs,
               Resume(s, p, j)
       PROVE  RecordInv'
  <2>1. output[p] \in Outputs \cup {None}
    BY DEF BaseInv, RecordInv, TypeOK
  <2>2. j \in Benchmarks => output[p] \in Outputs
    BY <1>38 DEF Resume, RecordInv, ReserveInv, Terminal
  <2> QED
    BY <1>38, <1>32, <2>1, <2>2 DEF Resume
<1> QED
  BY <1>1, <1>2, <1>3, <1>4, <1>5, <1>6, <1>7, <1>8, <1>9, <1>10, <1>11,
     <1>12, <1>13, <1>14, <1>15, <1>16, <1>17, <1>18, <1>19, <1>20, <1>21,
     <1>22, <1>23, <1>24, <1>25, <1>26, <1>27, <1>28, <1>29, <1>30, <1>31,
     <1>33, <1>34, <1>35, <1>36, <1>37, <1>38 DEF Next, Operator, Worker,
     Call, Child, Fault

-----------------------------------------------------------------------------
(* Theorems.                                                               *)

\* An empty store, without children or locks, satisfies BaseInv.
LEMMA BaseInvInit == Init => BaseInv
  BY QueueAssumption DEF Init, BaseInv, TypeOK, LockInv, FreshInv, DispatchInv,
     ChildInv, RunsInv, MemInv, CallInv, Status, Finished, Terminal,
     ChildState, Alive, HoldsLock, Executing, FreshMem, NoCall, NoLock

\* An empty store satisfies RecordInv.
LEMMA RecordInvInit == Init => RecordInv
  BY BaseInvInit, QueueAssumption DEF Init, RecordInv, OwnerInv, ControlInv,
     RunningInv, SerialInv, OneRunning, ReserveInv, ReadInv, NoCall,
     ExecutesJob, Executing, Active

\* The locks, children and dispatches stay tied together, whatever fails.
THEOREM BaseInvariant == Spec => []BaseInv
<1>1. BaseInv /\ [Next]_vars => BaseInv'
  BY BaseInvStep
<1> QED
  BY BaseInvInit, <1>1, PTL DEF Spec

\* The records stay tied to the computations when writes succeed and calls
\* end before the worker gives owner.lock back.
THEOREM RecordInvariant ==
    ASSUME ~FaultyDisk, ~LateCalls
    PROVE  Spec => []RecordInv
<1>1. RecordInv /\ BaseInv' /\ [Next]_vars => RecordInv'
  BY RecordInvStep
<1> QED
  BY RecordInvInit, BaseInvariant, <1>1, PTL DEF Spec

\* Every variable of the queue keeps its type, whatever crashes or fails.
THEOREM TypeCorrect == Spec => []TypeOK
<1>1. BaseInv => TypeOK
  BY DEF BaseInv
<1> QED
  BY BaseInvariant, <1>1, PTL

\* execution.lock serialises the computations and no job is computed twice,
\* even with failing writes and calls that outlive their server's worker.
THEOREM SerialComputation == Spec => []OneExecution
<1>1. BaseInv => OneExecution
  <2> SUFFICES ASSUME BaseInv PROVE OneExecution
    OBVIOUS
  <2>1. ASSUME NEW s \in Servers, NEW t \in Servers, NEW j \in Jobs,
               NEW k \in Jobs, ExecutesJob(s, j), ExecutesJob(t, k)
        PROVE  s = t /\ j = k
    <3>1. execLock = ChildLock(s, j) /\ execLock = ChildLock(t, k)
      BY <2>1 DEF BaseInv, LockInv, ExecutesJob, HoldsLock
    <3> QED
      BY <3>1 DEF ChildLock
  <2>2. \A j \in Jobs : runs[j] <= 1
    BY DEF BaseInv, RunsInv
  <2> QED
    BY <2>1, <2>2 DEF OneExecution
<1> QED
  BY BaseInvariant, <1>1, PTL

\* A computation goes on under a running record of its owner, and a record
\* runs alone: recovery and dispatch wait for orphans that compute.
THEOREM RecordsFollowComputations ==
    ASSUME ~FaultyDisk, ~LateCalls
    PROVE  Spec => [](ExecutingIsRunning /\ OneRunning)
<1>1. RecordInv => ExecutingIsRunning /\ OneRunning
  BY DEF RecordInv, BaseInv, RunningInv, ChildInv, SerialInv,
     ExecutingIsRunning, ExecutesJob, Executing
<1> QED
  BY RecordInvariant, <1>1, PTL

\* No active record names the directory that a benchmark is writing.
LEMMA WritersAreReserved ==
    ASSUME ~FaultyDisk, ~LateCalls
    PROVE  Spec => []WritersReserved
<1>1. RecordInv => WritersReserved
  BY QueueAssumption DEF RecordInv, RunningInv, ReserveInv, WritersReserved,
     Active
<1> QED
  BY RecordInvariant, <1>1, PTL

\* A directory has no reader while it is written.
LEMMA ReadersAreExcluded ==
    ASSUME ~FaultyDisk, ~LateCalls
    PROVE  Spec => []ReadersExcludeWriters
<1>1. RecordInv => ReadersExcludeWriters
  BY QueueAssumption DEF RecordInv, RunningInv, ReadInv, ReadersExcludeWriters
<1> QED
  BY RecordInvariant, <1>1, PTL

\* A directory has one writer, no other job that would write it, and no reader.
THEOREM OneWriterNoReader ==
    ASSUME ~FaultyDisk, ~LateCalls
    PROVE  Spec => []DirectoriesExclusive
<1>1. WritersReserved /\ ReadersExcludeWriters => DirectoriesExclusive
  BY DEF DirectoriesExclusive
<1> QED
  BY WritersAreReserved, ReadersAreExcluded, <1>1, PTL

-----------------------------------------------------------------------------
(* The queue implements SerialQueue.                                       *)

\* What each record status is to the serial executor.
LEMMA PhaseSettled ==
    /\ PhaseOf("absent") = "absent"
    /\ PhaseOf("queued") = "waiting"
    /\ PhaseOf("running") = "dispatched"
    /\ PhaseOf("completed") = "succeeded"
    /\ \A st \in Finished \ {"completed"} : PhaseOf(st) = "stopped"
  BY DEF PhaseOf, Finished, Terminal

\* A step that changes no status, no count and no computation is a stutter.
LEMMA StutterStep ==
    ASSUME UNCHANGED <<status, runs>>,
           \A s \in Servers, j \in Jobs : ExecutesJob(s, j)' <=> ExecutesJob(s, j)
    PROVE  UNCHANGED <<Phase, Busy, Tried>>
  BY DEF Phase, Busy, Tried

\* When j alone changes its status, Phase changes at j alone.
LEMMA PhaseStep ==
    ASSUME NEW j \in Jobs, status' \in [Jobs -> Status],
           \A k \in Jobs \ {j} : status'[k] = status[k]
    PROVE  Phase' = [Phase EXCEPT ![j] = PhaseOf(status'[j])]
  BY DEF Phase

\* A step settles only records that were not settled.
LEMMA SettledStep ==
    ASSUME ~FaultyDisk, ~LateCalls, RecordInv, [Next]_vars
    PROVE  \A k \in Jobs : status[k] \in Finished => status'[k] = status[k]
<1> DEFINE Kept == \A k \in Jobs : status[k] \in Finished => status'[k] = status[k]
<1> USE DEF Finished, Terminal
<1>1. ASSUME NEW s \in Servers,
               \/ Start(s) \/ Close(s) \/ ServerDies(s) \/ WorkerStops(s)
               \/ RecoverBegin(s) \/ RecoverEnd(s) \/ ScanEmpty(s)
               \/ Spawn(s) \/ ControlAppend(s) \/ ReadEnd(s)
               \/ WorkerFaults(s)
      PROVE  Kept
  BY <1>1 DEF Start, Close, ServerDies, WorkerStops, RecoverBegin, RecoverEnd,
     ScanEmpty, Spawn, ControlAppend, ReadEnd, WorkerFaults
<1>2. ASSUME NEW s \in Servers, NEW j \in Jobs,
               \/ ChildTakesLock(s, j) \/ ChildRefused(s, j)
               \/ ChildBegins(s, j) \/ ChildDeclines(s, j)
               \/ BenchmarkStops(s, j) \/ BenchmarkCompletes(s, j)
               \/ BenchmarkFails(s, j) \/ SearchEnds(s, j)
               \/ SearchFinishes(s, j) \/ TimerFires(s, j)
               \/ ChildExits(s, j) \/ ChildWriteFails(s, j)
               \/ ChildCrashes(s, j)
      PROVE  Kept
  BY <1>2 DEF ChildTakesLock, ChildRefused, ChildBegins, ChildDeclines,
     BenchmarkStops, BenchmarkCompletes, BenchmarkFails, SearchEnds,
     SearchFinishes, TimerFires, ChildExits, ChildWriteFails, ChildCrashes,
     Gone, Decide
<1>3. ASSUME NEW s \in Servers, Reap(s) PROVE Kept
  BY <1>3 DEF Reap, RecordInv, BaseInv, TypeOK
<1>4. ASSUME NEW s \in Servers, ControlMark(s) PROVE Kept
  BY <1>4 DEF ControlMark, ControlInv, RecordInv, BaseInv, TypeOK
<1>5. ASSUME NEW s \in Servers, SpawnFails(s) PROVE Kept
  BY <1>5 DEF SpawnFails, RunningInv, RecordInv, BaseInv, TypeOK
<1>6. ASSUME NEW s \in Servers, NEW j \in Jobs, RecoverMark(s, j) PROVE Kept
  BY <1>6 DEF RecoverMark, RecordInv, BaseInv, TypeOK
<1>7. ASSUME NEW s \in Servers, NEW j \in Jobs, Dispatch(s, j) PROVE Kept
  BY <1>7 DEF Dispatch, Queued, RecordInv, BaseInv, TypeOK
<1>8. ASSUME NEW s \in Servers, NEW j \in Jobs, TimerExits(s, j) PROVE Kept
  <2>1. ExecutesJob(s, j)
    BY <1>8 DEF TimerExits, ChildInv, ExecutesJob, Executing, RecordInv, BaseInv
  <2>2. status[j] = "running"
    BY <2>1 DEF RunningInv, RecordInv
  <2> QED
    BY <1>8, <2>2 DEF TimerExits, RecordInv, BaseInv, TypeOK
<1>9. ASSUME NEW s \in Servers, NEW j \in Jobs, ChildWrites(s, j) PROVE Kept
  BY <1>9 DEF ChildWrites, RunningInv, ExecutesJob, Executing, RecordInv,
     BaseInv, TypeOK
<1>10. ASSUME NEW s \in Servers, NEW j \in Jobs, NEW o \in Outputs \cup
   {None}, Enqueue(s, j, o) PROVE Kept
  BY <1>10 DEF Enqueue, RecordInv, BaseInv, TypeOK
<1>11. ASSUME NEW s \in Servers, NEW j \in Jobs, NEW a \in Requests,
   ControlBegin(s, j, a) PROVE Kept
  BY <1>11 DEF ControlBegin
<1>12. ASSUME NEW s \in Servers, NEW o \in Outputs, ReadBegin(s, o) PROVE Kept
  BY <1>12 DEF ReadBegin
<1>13. ASSUME UNCHANGED vars PROVE Kept
  BY <1>13 DEF vars
<1>14. ASSUME NEW s \in Servers, NEW j \in Jobs, Submit(s, j) PROVE Kept
  BY <1>14, <1>10 DEF Submit
<1>15. ASSUME NEW s \in Servers, NEW p \in Jobs, NEW j \in Jobs, Retry(s, p,
   j) PROVE Kept
  BY <1>15, <1>10 DEF Retry
<1>16. ASSUME NEW s \in Servers, NEW p \in Jobs, NEW j \in Jobs, Resume(s, p,
   j) PROVE Kept
  <2>1. output[p] \in Outputs \cup {None}
    BY DEF RecordInv, BaseInv, TypeOK
  <2> QED
    BY <1>16, <1>10, <2>1 DEF Resume
<1> QED
  BY <1>1, <1>2, <1>3, <1>4, <1>5, <1>6, <1>7, <1>8, <1>9, <1>11, <1>12,
     <1>13, <1>14, <1>15, <1>16 DEF Next, Operator, Worker, Call, Child, Fault

\* A settled record is never reopened nor settled differently.
THEOREM SettledStays ==
    ASSUME ~FaultyDisk, ~LateCalls
    PROVE  Spec => TerminalStable
<1> DEFINE Kept == \A j \in Jobs :
                   status[j] \in Finished => status'[j] = status[j]
<1>1. RecordInv /\ [Next]_vars => [Kept]_vars
  BY SettledStep
<1> QED
  BY RecordInvariant, <1>1, PTL DEF Spec, TerminalStable

\* A computing job is the only one, and its record is running.
LEMMA BusyJob ==
    ASSUME RecordInv, NEW s \in Servers, NEW j \in Jobs, ExecutesJob(s, j)
    PROVE  Busy = {j} /\ status[j] = "running"
<1>1. ASSUME NEW t \in Servers, NEW k \in Jobs, ExecutesJob(t, k)
      PROVE  t = s /\ k = j
  BY <1>1 DEF RecordInv, BaseInv, LockInv, ExecutesJob, HoldsLock, ChildLock
<1> QED
  BY <1>1 DEF Busy, RecordInv, RunningInv

\* When the child of a computing job stops computing, nobody computes.
LEMMA BusyEnds ==
    ASSUME RecordInv, NEW s \in Servers, NEW j \in Jobs, ExecutesJob(s, j),
           ~ExecutesJob(s, j)',
           \A t \in Servers, k \in Jobs :
               ExecutesJob(t, k)' => ExecutesJob(t, k)
    PROVE  Busy' = {}
<1>1. ASSUME NEW t \in Servers, NEW k \in Jobs, ExecutesJob(t, k)
      PROVE  t = s /\ k = j
  BY <1>1 DEF RecordInv, BaseInv, LockInv, ExecutesJob, HoldsLock, ChildLock
<1>2. ASSUME NEW t \in Servers, NEW k \in Jobs PROVE ~ExecutesJob(t, k)'
  BY <1>1
<1> QED
  BY <1>2 DEF Busy

\* A record that leaves "running" while nobody computes is a Stop.
LEMMA StopStep ==
    ASSUME RecordInv, NEW j \in Jobs, NEW st \in Finished \ {"completed"},
           status[j] = "running", status' = [status EXCEPT ![j] = st],
           UNCHANGED runs, Busy \subseteq {j}, Busy' = {}
    PROVE  Serial!Next
<1>1. /\ status' \in [Jobs -> Status]
      /\ status'[j] = st
      /\ \A k \in Jobs \ {j} : status'[k] = status[k]
  BY DEF RecordInv, BaseInv, TypeOK, Status
<1>2. Phase' = [Phase EXCEPT ![j] = "stopped"] /\ Phase[j] = "dispatched"
  BY <1>1, PhaseStep, PhaseSettled DEF Phase
<1>3. Tried' = Tried
  BY DEF Tried
<1> QED
  BY <1>2, <1>3 DEF Serial!Next, Serial!Stop

\* A child that publishes its outcome and stops computing succeeds or stops.
LEMMA PublishStep ==
    ASSUME RecordInv, NEW s \in Servers, NEW j \in Jobs, ExecutesJob(s, j),
           mem[s][j].status \in Terminal,
           status' = [status EXCEPT ![j] = Recorded(mem[s][j])],
           UNCHANGED runs, Busy' = {}
    PROVE  Serial!Next
<1> DEFINE st == Recorded(mem[s][j])
<1>1. st \in Finished
  BY DEF Recorded, Finished
<1>2. Busy = {j} /\ status[j] = "running"
  BY BusyJob
<1>3. CASE st = "completed"
  <2>0. /\ status' \in [Jobs -> Status]
        /\ status'[j] = "completed"
        /\ \A k \in Jobs \ {j} : status'[k] = status[k]
    BY <1>1, <1>3 DEF RecordInv, BaseInv, TypeOK, Status
  <2>1. Phase' = [Phase EXCEPT ![j] = "succeeded"] /\ Phase[j] = "dispatched"
    BY <1>2, <2>0, PhaseStep, PhaseSettled DEF Phase
  <2>2. Tried' = Tried
    BY DEF Tried
  <2> QED
    BY <1>2, <2>1, <2>2 DEF Serial!Next, Serial!Succeed
<1>4. CASE st # "completed"
  BY <1>1, <1>2, <1>4, StopStep
<1> QED
  BY <1>3, <1>4

\* Every step is a step of the serial executor or a stutter.
LEMMA SerialStep ==
    ASSUME ~FaultyDisk, ~LateCalls, RecordInv, [Next]_vars
    PROVE  [Serial!Next]_<<Phase, Busy, Tried>>
<1> DEFINE Goal == [Serial!Next]_<<Phase, Busy, Tried>>
<1>1. ASSUME NEW s \in Servers,
               \/ Start(s) \/ Close(s) \/ ServerDies(s) \/ WorkerStops(s)
               \/ RecoverBegin(s) \/ RecoverEnd(s) \/ ScanEmpty(s)
               \/ ControlAppend(s) \/ ReadEnd(s)
      PROVE  Goal
  <2>1. UNCHANGED <<status, runs, child>>
    BY <1>1 DEF Start, Close, ServerDies, WorkerStops, RecoverBegin,
       RecoverEnd, ScanEmpty, ControlAppend, ReadEnd
  <2> QED
    BY <2>1, StutterStep DEF ExecutesJob
<1>2. ASSUME NEW s \in Servers, NEW j \in Jobs,
               \/ TimerFires(s, j)
      PROVE  Goal
  <2>1. UNCHANGED <<status, runs, child>>
    BY <1>2 DEF TimerFires
  <2> QED
    BY <2>1, StutterStep DEF ExecutesJob
<1>3. ASSUME NEW s \in Servers, Spawn(s) PROVE Goal
  <2>1. UNCHANGED <<status, runs>>
    BY <1>3 DEF Spawn
  <2>2. \A t \in Servers, k \in Jobs : ExecutesJob(t, k)' <=> ExecutesJob(t, k)
    BY <1>3 DEF Spawn, ExecutesJob, Executing, RecordInv, BaseInv, TypeOK,
       DispatchInv
  <2> QED
    BY <2>1, <2>2, StutterStep
<1>4. ASSUME NEW s \in Servers, Reap(s) PROVE Goal
  <2> DEFINE j == wjob[s]
  <2>1. j \in Jobs /\ owner[j] = s /\ child[s][j] = "exited"
    BY <1>4 DEF Reap, RecordInv, BaseInv, DispatchInv
  <2>2. UNCHANGED <<runs, child>>
    BY <1>4 DEF Reap
  <2>3. CASE status[j] \in Finished
    <3>1. status' = status
      BY <1>4, <2>1, <2>3 DEF Reap, RecordInv, BaseInv, TypeOK
    <3>2. \A t \in Servers, k \in Jobs : ExecutesJob(t, k)' <=> ExecutesJob(t, k)
      BY <2>2 DEF ExecutesJob
    <3> QED
      BY <2>2, <3>1, <3>2, StutterStep
  <2>4. CASE status[j] \notin Finished
    <3>1. status[j] = "running"
      BY <1>4, <2>1, <2>4 DEF Reap, RecordInv, BaseInv, TypeOK, FreshInv, Status
    <3>2. status' = [status EXCEPT ![j] = "failed"]
      BY <1>4, <2>1, <2>4 DEF Reap, RecordInv, BaseInv, TypeOK
    <3>3. Busy = {}
      <4>1. ASSUME NEW t \in Servers, NEW k \in Jobs, ExecutesJob(t, k)
            PROVE  FALSE
        <5>1. k = j
          BY <4>1, <3>1, <2>1 DEF RecordInv, RunningInv, SerialInv, OneRunning
        <5>2. t = s
          BY <4>1, <5>1, <2>1 DEF RecordInv, BaseInv, ChildInv, ExecutesJob,
             Executing
        <5> QED
          BY <4>1, <5>1, <5>2, <2>1 DEF ExecutesJob, Executing
      <4> QED
        BY <4>1 DEF Busy
    <3>4. Busy' = Busy
      BY <2>2 DEF Busy, ExecutesJob
    <3> QED
      BY <2>1, <2>2, <3>1, <3>2, <3>3, <3>4, StopStep DEF Finished, Terminal
  <2> QED
    BY <2>3, <2>4
<1>5. ASSUME NEW s \in Servers, ControlMark(s) PROVE Goal
  <2> DEFINE j == api[s].job
  <2> DEFINE st == StopStatus(api[s].act)
  <2>1. j \in Jobs /\ status[j] = "queued"
    BY <1>5 DEF ControlMark, RecordInv, ControlInv
  <2>2. status' = [status EXCEPT ![j] = st] /\ UNCHANGED <<runs, child>>
    BY <1>5 DEF ControlMark
  <2>3. st \in Finished \ {"completed"}
    BY DEF StopStatus, Finished, Terminal
  <2>a. /\ status' \in [Jobs -> Status]
        /\ status'[j] = st
        /\ \A k \in Jobs \ {j} : status'[k] = status[k]
    BY <2>1, <2>2, <2>3 DEF RecordInv, BaseInv, TypeOK, Status, Active
  <2>4. Phase' = [Phase EXCEPT ![j] = PhaseOf(st)]
    BY <2>1, <2>a, PhaseStep
  <2>5. PhaseOf(st) = "stopped" /\ Phase[j] = "waiting"
    BY <2>1, <2>3, PhaseSettled DEF Phase
  <2>6. Busy' = Busy /\ Tried' = Tried
    BY <2>2 DEF Busy, Tried, ExecutesJob
  <2> QED
    BY <2>1, <2>4, <2>5, <2>6 DEF Serial!Next, Serial!Withdraw
<1>6. ASSUME NEW s \in Servers, SpawnFails(s) PROVE Goal
  <2> DEFINE j == wjob[s]
  <2>1. j \in Jobs /\ status[j] = "running" /\ child[s][j] = "none"
    BY <1>6 DEF SpawnFails, RecordInv, BaseInv, DispatchInv, RunningInv
  <2>2. status' = [status EXCEPT ![j] = "failed"] /\ UNCHANGED <<runs, child>>
    BY <1>6, <2>1 DEF SpawnFails, RecordInv, BaseInv, TypeOK
  <2>3. Busy = {}
    <3>1. ASSUME NEW t \in Servers, NEW k \in Jobs, ExecutesJob(t, k)
          PROVE  FALSE
      <4>1. k = j
        BY <3>1, <2>1 DEF RecordInv, RunningInv, SerialInv, OneRunning
      <4>2. t = s
        BY <1>6, <3>1, <4>1 DEF SpawnFails, RecordInv, BaseInv, DispatchInv,
           ChildInv, ExecutesJob, Executing
      <4> QED
        BY <3>1, <4>1, <4>2, <2>1 DEF ExecutesJob, Executing
    <3> QED
      BY <3>1 DEF Busy
  <2>4. Busy' = Busy
    BY <2>2 DEF Busy, ExecutesJob
  <2> QED
    BY <2>1, <2>2, <2>3, <2>4, StopStep DEF Finished, Terminal
<1>7. ASSUME NEW s \in Servers, WorkerFaults(s) PROVE Goal
  BY <1>7 DEF WorkerFaults
<1>8. ASSUME NEW s \in Servers, NEW j \in Jobs, RecoverMark(s, j) PROVE Goal
  <2>1. status[j] = "running" /\ UNCHANGED <<runs, child>>
    BY <1>8 DEF RecoverMark
  <2>2. status' = [status EXCEPT ![j] = "interrupted"]
    BY <1>8 DEF RecoverMark
  <2>3. Busy = {}
    <3>1. execLock = RecoveryLock(s)
      BY <1>8 DEF RecoverMark, RecordInv, BaseInv, LockInv
    <3> QED
      BY <3>1 DEF RecordInv, BaseInv, LockInv, Busy, ExecutesJob, Executing,
         HoldsLock, ChildLock, RecoveryLock
  <2>4. Busy' = Busy
    BY <2>1 DEF Busy, ExecutesJob
  <2> QED
    BY <2>1, <2>2, <2>3, <2>4, StopStep DEF Finished, Terminal
<1>9. ASSUME NEW s \in Servers, NEW j \in Jobs, Dispatch(s, j) PROVE Goal
  <2>1. j \in Jobs /\ status[j] = "queued" /\ UNCHANGED <<runs, child>>
    BY <1>9 DEF Dispatch, Queued
  <2>2. status' = [status EXCEPT ![j] = "running"]
    BY <1>9 DEF Dispatch
  <2>3. ownerLock = s /\ wjob[s] = None /\ ~recovering[s]
    BY <1>9 DEF Dispatch, MayScan, RecordInv, OwnerInv, SerialInv
  <2>4. \A k \in Jobs : status[k] # "running"
    BY <2>3, QueueAssumption DEF RecordInv, SerialInv, OneRunning
  <2>5. Busy = {}
    BY <2>4 DEF Busy, RecordInv, RunningInv
  <2>6. \A k \in Jobs : Phase[k] # "dispatched"
    BY <2>4 DEF Phase, PhaseOf
  <2>a. /\ status' \in [Jobs -> Status]
        /\ status'[j] = "running"
        /\ \A k \in Jobs \ {j} : status'[k] = status[k]
    BY <2>1, <2>2 DEF RecordInv, BaseInv, TypeOK, Status, Active
  <2>7. Phase' = [Phase EXCEPT ![j] = "dispatched"] /\ Phase[j] = "waiting"
    BY <2>1, <2>a, PhaseStep, PhaseSettled DEF Phase
  <2>8. Busy' = Busy /\ Tried' = Tried
    BY <2>1 DEF Busy, Tried, ExecutesJob
  <2> QED
    BY <2>5, <2>6, <2>7, <2>8 DEF Serial!Next, Serial!Dispatch
<1>10. ASSUME NEW s \in Servers, NEW j \in Jobs, ChildTakesLock(s, j) PROVE
   Goal
  <2>1. UNCHANGED <<status, runs>>
    BY <1>10 DEF ChildTakesLock
  <2>2. \A t \in Servers, k \in Jobs : ExecutesJob(t, k)' <=> ExecutesJob(t, k)
    BY <1>10 DEF ChildTakesLock, ExecutesJob, Executing, RecordInv, BaseInv,
       TypeOK
  <2> QED
    BY <2>1, <2>2, StutterStep
<1>11. ASSUME NEW s \in Servers, NEW j \in Jobs, ChildRefused(s, j) PROVE Goal
  <2>1. UNCHANGED <<status, runs>>
    BY <1>11 DEF ChildRefused, Gone
  <2>2. \A t \in Servers, k \in Jobs : ExecutesJob(t, k)' <=> ExecutesJob(t, k)
    BY <1>11 DEF ChildRefused, Gone, ExecutesJob, Executing, RecordInv, BaseInv,
       TypeOK
  <2> QED
    BY <2>1, <2>2, StutterStep
<1>12. ASSUME NEW s \in Servers, NEW j \in Jobs, ChildBegins(s, j) PROVE Goal
  <2>1. child[s][j] = "locked" /\ status[j] = "running" /\ UNCHANGED status
    BY <1>12 DEF ChildBegins
  <2>2. \A t \in Servers, k \in Jobs : ~ExecutesJob(t, k)
    BY <2>1 DEF RecordInv, BaseInv, LockInv, ExecutesJob, Executing, HoldsLock,
       ChildLock
  <2>3. \A t \in Servers, k \in Jobs :
          ExecutesJob(t, k)' <=> t = s /\ k = j
    BY <1>12, <2>2 DEF ChildBegins, ExecutesJob, Executing, RecordInv, BaseInv,
       TypeOK
  <2>4. Busy = {} /\ Busy' = {j}
    BY <2>2, <2>3 DEF Busy
  <2>5. \A t \in Servers : child[t][j] \in {"none", "spawned", "locked"}
    BY <2>1 DEF RecordInv, BaseInv, ChildInv
  <2>6. runs[j] = 0
    BY <2>5 DEF RecordInv, BaseInv, RunsInv
  <2>7. runs' = [runs EXCEPT ![j] = 1]
    BY <1>12, <2>6 DEF ChildBegins
  <2>8. j \notin Tried /\ Tried' = Tried \cup {j}
    BY <2>6, <2>7 DEF Tried, RecordInv, BaseInv, TypeOK
  <2>9. Phase' = Phase /\ Phase[j] = "dispatched"
    BY <2>1, PhaseSettled DEF Phase
  <2> QED
    BY <2>4, <2>8, <2>9 DEF Serial!Next, Serial!Begin
<1>13. ASSUME NEW s \in Servers, NEW j \in Jobs, ChildDeclines(s, j) PROVE
   Goal
  <2>1. UNCHANGED <<status, runs>>
    BY <1>13 DEF ChildDeclines, Gone
  <2>2. \A t \in Servers, k \in Jobs : ExecutesJob(t, k)' <=> ExecutesJob(t, k)
    BY <1>13 DEF ChildDeclines, Gone, ExecutesJob, Executing, RecordInv, BaseInv,
       TypeOK
  <2> QED
    BY <2>1, <2>2, StutterStep
<1>14. ASSUME NEW s \in Servers, NEW j \in Jobs, BenchmarkStops(s, j) PROVE
   Goal
  <2>1. UNCHANGED <<status, runs>>
    BY <1>14 DEF BenchmarkStops, Decide
  <2>2. \A t \in Servers, k \in Jobs : ExecutesJob(t, k)' <=> ExecutesJob(t, k)
    BY <1>14 DEF BenchmarkStops, Decide, ExecutesJob, Executing, RecordInv,
       BaseInv, TypeOK
  <2> QED
    BY <2>1, <2>2, StutterStep
<1>15. ASSUME NEW s \in Servers, NEW j \in Jobs, BenchmarkCompletes(s, j)
   PROVE Goal
  <2>1. UNCHANGED <<status, runs>>
    BY <1>15 DEF BenchmarkCompletes, Decide
  <2>2. \A t \in Servers, k \in Jobs : ExecutesJob(t, k)' <=> ExecutesJob(t, k)
    BY <1>15 DEF BenchmarkCompletes, Decide, ExecutesJob, Executing, RecordInv,
       BaseInv, TypeOK
  <2> QED
    BY <2>1, <2>2, StutterStep
<1>16. ASSUME NEW s \in Servers, NEW j \in Jobs, BenchmarkFails(s, j) PROVE
   Goal
  <2>1. UNCHANGED <<status, runs>>
    BY <1>16 DEF BenchmarkFails, Decide
  <2>2. \A t \in Servers, k \in Jobs : ExecutesJob(t, k)' <=> ExecutesJob(t, k)
    BY <1>16 DEF BenchmarkFails, Decide, ExecutesJob, Executing, RecordInv,
       BaseInv, TypeOK
  <2> QED
    BY <2>1, <2>2, StutterStep
<1>17. ASSUME NEW s \in Servers, NEW j \in Jobs, SearchEnds(s, j) PROVE Goal
  <2>1. UNCHANGED <<status, runs>>
    BY <1>17 DEF SearchEnds, Decide
  <2>2. \A t \in Servers, k \in Jobs : ExecutesJob(t, k)' <=> ExecutesJob(t, k)
    BY <1>17 DEF SearchEnds, Decide, ExecutesJob, Executing, RecordInv, BaseInv,
       TypeOK
  <2> QED
    BY <2>1, <2>2, StutterStep
<1>18. ASSUME NEW s \in Servers, NEW j \in Jobs, SearchFinishes(s, j) PROVE
   Goal
  <2>1. UNCHANGED <<status, runs>>
    BY <1>18 DEF SearchFinishes
  <2>2. \A t \in Servers, k \in Jobs : ExecutesJob(t, k)' <=> ExecutesJob(t, k)
    BY <1>18 DEF SearchFinishes, ExecutesJob, Executing, RecordInv, BaseInv,
       TypeOK
  <2> QED
    BY <2>1, <2>2, StutterStep
<1>19. ASSUME NEW s \in Servers, NEW j \in Jobs, TimerExits(s, j) PROVE Goal
  <2>1. ExecutesJob(s, j) /\ mem[s][j].status \in Terminal
    BY <1>19 DEF TimerExits, RecordInv, BaseInv, ChildInv, MemInv, ExecutesJob,
       Executing
  <2>a. /\ ~ExecutesJob(s, j)'
        /\ \A t \in Servers, k \in Jobs :
              ExecutesJob(t, k)' => ExecutesJob(t, k)
    BY <1>19 DEF TimerExits, Gone, ExecutesJob, Executing, RecordInv, BaseInv, TypeOK
  <2>2. Busy' = {}
    BY <2>1, <2>a, BusyEnds
  <2> QED
    BY <1>19, <2>1, <2>2, PublishStep DEF TimerExits, Gone
<1>20. ASSUME NEW s \in Servers, NEW j \in Jobs, ChildWrites(s, j) PROVE Goal
  <2>1. ExecutesJob(s, j) /\ mem[s][j].status \in Terminal
    BY <1>20 DEF ChildWrites, RecordInv, BaseInv, MemInv, ExecutesJob, Executing
  <2>a. /\ ~ExecutesJob(s, j)'
        /\ \A t \in Servers, k \in Jobs :
              ExecutesJob(t, k)' => ExecutesJob(t, k)
    BY <1>20 DEF ChildWrites, ExecutesJob, Executing, RecordInv, BaseInv, TypeOK
  <2>2. Busy' = {}
    BY <2>1, <2>a, BusyEnds
  <2> QED
    BY <1>20, <2>1, <2>2, PublishStep DEF ChildWrites
<1>21. ASSUME NEW s \in Servers, NEW j \in Jobs, ChildExits(s, j) PROVE Goal
  <2>1. UNCHANGED <<status, runs>>
    BY <1>21 DEF ChildExits, Gone
  <2>2. \A t \in Servers, k \in Jobs : ExecutesJob(t, k)' <=> ExecutesJob(t, k)
    BY <1>21 DEF ChildExits, Gone, ExecutesJob, Executing, RecordInv, BaseInv,
       TypeOK
  <2> QED
    BY <2>1, <2>2, StutterStep
<1>22. ASSUME NEW s \in Servers, NEW j \in Jobs, ChildWriteFails(s, j) PROVE
   Goal
  BY <1>22 DEF ChildWriteFails
<1>23. ASSUME NEW s \in Servers, NEW j \in Jobs, ChildCrashes(s, j) PROVE Goal
  <2>1. UNCHANGED <<status, runs>> /\ child' = [child EXCEPT ![s][j] = "exited"]
    BY <1>23 DEF ChildCrashes, Gone
  <2>2. CASE ExecutesJob(s, j)
    <3>0. /\ ~ExecutesJob(s, j)'
          /\ \A t \in Servers, k \in Jobs :
                ExecutesJob(t, k)' => ExecutesJob(t, k)
      BY <1>23 DEF ChildCrashes, Gone, ExecutesJob, Executing, RecordInv, BaseInv, TypeOK
    <3>1. Busy = {j} /\ Busy' = {}
      BY <2>2, <3>0, BusyJob, BusyEnds
    <3>2. Phase' = Phase /\ Tried' = Tried
      BY <2>1 DEF Phase, Tried
    <3> QED
      BY <3>1, <3>2 DEF Serial!Next, Serial!Abandon
  <2>3. CASE ~ExecutesJob(s, j)
    <3>1. \A t \in Servers, k \in Jobs : ExecutesJob(t, k)' <=> ExecutesJob(t, k)
      BY <2>1, <2>3 DEF ExecutesJob, Executing, RecordInv, BaseInv, TypeOK
    <3> QED
      BY <2>1, <3>1, StutterStep
  <2> QED
    BY <2>2, <2>3
<1>24. ASSUME NEW s \in Servers, NEW j \in Jobs, NEW o \in Outputs \cup
   {None}, Enqueue(s, j, o) PROVE Goal
  <2>1. status[j] = "absent" /\ UNCHANGED <<runs, child>>
    BY <1>24 DEF Enqueue
  <2>2. status' = [status EXCEPT ![j] = "queued"]
    BY <1>24 DEF Enqueue
  <2>a. /\ status' \in [Jobs -> Status]
        /\ status'[j] = "queued"
        /\ \A k \in Jobs \ {j} : status'[k] = status[k]
    BY <2>1, <2>2 DEF RecordInv, BaseInv, TypeOK, Status, Active
  <2>3. Phase' = [Phase EXCEPT ![j] = "waiting"] /\ Phase[j] = "absent"
    BY <2>1, <2>a, PhaseStep, PhaseSettled DEF Phase
  <2>4. Busy' = Busy /\ Tried' = Tried
    BY <2>1 DEF Busy, Tried, ExecutesJob
  <2> QED
    BY <2>3, <2>4 DEF Serial!Next, Serial!Submit
<1>25. ASSUME NEW s \in Servers, NEW j \in Jobs, NEW a \in Requests,
   ControlBegin(s, j, a) PROVE Goal
  <2>1. UNCHANGED <<status, runs>>
    BY <1>25 DEF ControlBegin
  <2>2. \A t \in Servers, k \in Jobs : ExecutesJob(t, k)' <=> ExecutesJob(t, k)
    BY <1>25 DEF ControlBegin, ExecutesJob, Executing, RecordInv, BaseInv, TypeOK
  <2> QED
    BY <2>1, <2>2, StutterStep
<1>26. ASSUME NEW s \in Servers, NEW o \in Outputs, ReadBegin(s, o) PROVE Goal
  <2>1. UNCHANGED <<status, runs>>
    BY <1>26 DEF ReadBegin
  <2>2. \A t \in Servers, k \in Jobs : ExecutesJob(t, k)' <=> ExecutesJob(t, k)
    BY <1>26 DEF ReadBegin, ExecutesJob, Executing, RecordInv, BaseInv, TypeOK
  <2> QED
    BY <2>1, <2>2, StutterStep
<1>27. ASSUME UNCHANGED vars PROVE Goal
  BY <1>27, StutterStep DEF vars, ExecutesJob
<1>28. ASSUME NEW s \in Servers, NEW j \in Jobs, Submit(s, j) PROVE Goal
  BY <1>28, <1>24 DEF Submit
<1>29. ASSUME NEW s \in Servers, NEW p \in Jobs, NEW j \in Jobs, Retry(s, p,
   j) PROVE Goal
  BY <1>29, <1>24 DEF Retry
<1>30. ASSUME NEW s \in Servers, NEW p \in Jobs, NEW j \in Jobs, Resume(s, p,
   j) PROVE Goal
  <2>1. output[p] \in Outputs \cup {None}
    BY DEF RecordInv, BaseInv, TypeOK
  <2> QED
    BY <1>30, <1>24, <2>1 DEF Resume
<1> QED
  BY <1>1, <1>2, <1>3, <1>4, <1>5, <1>6, <1>7, <1>8, <1>9, <1>10, <1>11,
     <1>12, <1>13, <1>14, <1>15, <1>16, <1>17, <1>18, <1>19, <1>20, <1>21,
     <1>22, <1>23, <1>25, <1>26, <1>27, <1>28, <1>29, <1>30 DEF Next,
     Operator, Worker, Call, Child, Fault

\* The queue does nothing that the serial executor of SerialQueue may not do.
THEOREM QueueImplementsSerial ==
    ASSUME ~FaultyDisk, ~LateCalls
    PROVE  Spec => ImplementsSerial
<1>1. Init => Serial!Init
  BY DEF Init, Serial!Init, Phase, PhaseOf, Busy, Tried, ExecutesJob, Executing
<1>2. RecordInv /\ [Next]_vars => [Serial!Next]_<<Phase, Busy, Tried>>
  BY SerialStep
<1> QED
  BY RecordInvariant, <1>1, <1>2, PTL DEF Spec, ImplementsSerial, Serial!Spec,
     Serial!serialVars

-----------------------------------------------------------------------------
(* Stop requests.                                                          *)

\* Only benchmarks are asked to stop.
StopsBenchmarks ==
    /\ \A j \in Jobs : control[j] # "none" => j \in Benchmarks
    /\ \A s \in Servers :
          api[s].op \in {"appendQueued", "appendRunning"} =>
              api[s].job \in Benchmarks

\* A child that was not spawned has decided nothing.
FreshMemory ==
    \A s \in Servers, j \in Jobs : child[s][j] = "none" => mem[s][j] = FreshMem

\* A job whose next control check, if any, finds a request.
Stopping(j) ==
    /\ control[j] # "none" /\ status[j] # "completed"
    /\ \A s \in Servers : mem[s][j].status # "completed"

StopInv ==
    /\ StopsBenchmarks /\ FreshMemory
    /\ stopped \subseteq Jobs /\ \A j \in stopped : Stopping(j)

\* Requests are for benchmarks, since _control refuses other jobs.
LEMMA StopsBenchmarksStep ==
    ASSUME BaseInv, StopsBenchmarks, Next PROVE StopsBenchmarks'
<1>1. PICK s \in Servers :
        \/ Operator(s) \/ Worker(s) \/ Call(s) \/ Fault(s)
        \/ \E j \in Jobs : Child(s, j)
  BY DEF Next
<1>2. CASE ControlAppend(s)
  BY <1>2 DEF ControlAppend, StopsBenchmarks, BaseInv, TypeOK, NoCall
<1>3. ASSUME NEW j \in Jobs, NEW a \in Requests, ControlBegin(s, j, a)
      PROVE  StopsBenchmarks'
  BY <1>3 DEF ControlBegin, StopsBenchmarks, BaseInv, TypeOK
<1>4. ASSUME control' = control,
             \A t \in Servers : api'[t] = api[t] \/ api'[t].op \in {"free", "read"}
      PROVE  StopsBenchmarks'
  BY <1>4 DEF StopsBenchmarks
<1>5. CASE Operator(s)
  BY <1>4, <1>5 DEF Operator, Start, Close, ServerDies, NoCall, BaseInv, TypeOK
<1>6. CASE Worker(s)
  BY <1>4, <1>6 DEF Worker, WorkerStops, RecoverBegin, RecoverEnd, RecoverMark,
     Dispatch, ScanEmpty, Spawn, Reap
<1>7. CASE Fault(s)
  BY <1>4, <1>7 DEF Fault, SpawnFails, WorkerFaults, ChildWriteFails, ChildCrashes
<1>8. CASE \E j \in Jobs : Child(s, j)
  BY <1>4, <1>8 DEF Child, ChildTakesLock, ChildRefused, ChildBegins,
     ChildDeclines, BenchmarkStops, BenchmarkCompletes, BenchmarkFails,
     SearchEnds, SearchFinishes, TimerFires, TimerExits, ChildWrites,
     ChildExits, Decide
<1>9. CASE Call(s)
  <2>1. ASSUME NEW j \in Jobs, NEW o, Enqueue(s, j, o) PROVE StopsBenchmarks'
    BY <1>4, <2>1 DEF Enqueue
  <2>2. ASSUME NEW j \in Jobs,
               Submit(s, j) \/ \E q \in Jobs : Retry(s, q, j) \/ Resume(s, q, j)
        PROVE  StopsBenchmarks'
    BY <2>1, <2>2 DEF Submit, Retry, Resume
  <2>3. CASE ControlMark(s) \/ ReadEnd(s) \/ \E o \in Outputs : ReadBegin(s, o)
    BY <1>4, <2>3 DEF ControlMark, ReadEnd, ReadBegin, NoCall, BaseInv, TypeOK
  <2> QED
    BY <1>2, <1>3, <1>9, <2>2, <2>3 DEF Call
<1> QED
  BY <1>1, <1>5, <1>6, <1>7, <1>8, <1>9

\* What a child remembers changes once it computes, and is lost when it ends.
LEMMA FreshMemoryStep ==
    ASSUME BaseInv, FreshMemory, Next PROVE FreshMemory'
<1>1. PICK s \in Servers :
        \/ Operator(s) \/ Worker(s) \/ Call(s) \/ Fault(s)
        \/ \E j \in Jobs : Child(s, j)
  BY DEF Next
<1>2. ASSUME child' = child, mem' = mem PROVE FreshMemory'
  BY <1>2 DEF FreshMemory
<1>3. ASSUME NEW j \in Jobs, child'[s][j] # "none",
             \A t \in Servers, k \in Jobs :
                 t # s \/ k # j =>
                     child'[t][k] = child[t][k] /\ mem'[t][k] = mem[t][k]
      PROVE  FreshMemory'
  BY <1>3 DEF FreshMemory
<1>4. CASE Operator(s)
  BY <1>2, <1>4 DEF Operator, Start, Close, ServerDies
<1>5. CASE Spawn(s)
  BY <1>5 DEF Spawn, FreshMemory, BaseInv, TypeOK
<1>6. CASE Worker(s)
  BY <1>2, <1>5, <1>6 DEF Worker, WorkerStops, RecoverBegin, RecoverEnd,
     RecoverMark, Dispatch, ScanEmpty, Reap
<1>7. CASE Call(s)
  <2>1. ASSUME NEW j \in Jobs, NEW o, Enqueue(s, j, o) PROVE FreshMemory'
    BY <1>2, <2>1 DEF Enqueue
  <2>2. ASSUME NEW j \in Jobs,
               Submit(s, j) \/ \E q \in Jobs : Retry(s, q, j) \/ Resume(s, q, j)
        PROVE  FreshMemory'
    BY <2>1, <2>2 DEF Submit, Retry, Resume
  <2> QED
    BY <1>2, <1>7, <2>2 DEF Call, ControlBegin, ControlAppend, ControlMark,
       ReadBegin, ReadEnd
<1>8. ASSUME NEW j \in Jobs, Gone(s, j) PROVE FreshMemory'
  <2>1. child'[s][j] # "none"
    BY <1>8 DEF Gone, BaseInv, TypeOK
  <2>2. \A t \in Servers, k \in Jobs :
            t # s \/ k # j =>
                child'[t][k] = child[t][k] /\ mem'[t][k] = mem[t][k]
    BY <1>8 DEF Gone, BaseInv, TypeOK
  <2> QED
    BY <1>3, <2>1, <2>2
<1>9. CASE Fault(s)
  BY <1>2, <1>8, <1>9 DEF Fault, SpawnFails, WorkerFaults, ChildWriteFails,
     ChildCrashes
<1>10. ASSUME NEW j \in Jobs, NEW st, NEW to \in {"decided", "final"},
              Decide(s, j, st, to)
       PROVE  FreshMemory'
  <2>1. child'[s][j] # "none"
    BY <1>10 DEF Decide, BaseInv, TypeOK
  <2>2. \A t \in Servers, k \in Jobs :
            t # s \/ k # j =>
                child'[t][k] = child[t][k] /\ mem'[t][k] = mem[t][k]
    BY <1>10 DEF Decide, BaseInv, TypeOK
  <2> QED
    BY <1>3, <2>1, <2>2
<1>11. ASSUME NEW j \in Jobs, Child(s, j) PROVE FreshMemory'
  <2>1. CASE BenchmarkStops(s, j) \/ BenchmarkCompletes(s, j)
             \/ BenchmarkFails(s, j) \/ SearchEnds(s, j)
    BY <1>10, <2>1 DEF BenchmarkStops, BenchmarkCompletes, BenchmarkFails,
       SearchEnds
  <2>2. CASE ChildRefused(s, j) \/ ChildDeclines(s, j) \/ TimerExits(s, j)
             \/ ChildExits(s, j)
    BY <1>8, <2>2 DEF ChildRefused, ChildDeclines, TimerExits, ChildExits
  <2>3. CASE ChildTakesLock(s, j) \/ ChildBegins(s, j) \/ SearchFinishes(s, j)
             \/ ChildWrites(s, j) \/ TimerFires(s, j)
    <3>1. child'[s][j] # "none"
      BY <2>3 DEF ChildTakesLock, ChildBegins, SearchFinishes, ChildWrites,
         TimerFires, BaseInv, TypeOK
    <3>2. \A t \in Servers, k \in Jobs :
              t # s \/ k # j =>
                  child'[t][k] = child[t][k] /\ mem'[t][k] = mem[t][k]
      BY <2>3 DEF ChildTakesLock, ChildBegins, SearchFinishes, ChildWrites,
         TimerFires, BaseInv, TypeOK
    <3> QED
      BY <1>3, <3>1, <3>2
  <2> QED
    BY <1>11, <2>1, <2>2, <2>3 DEF Child
<1> QED
  BY <1>1, <1>4, <1>6, <1>7, <1>9, <1>11

\* What is stopping stays so: a request is never taken back, and a child that
\* had not decided before it finds it at its last control check.
LEMMA StoppingStep ==
    ASSUME BaseInv, Next, NEW j \in Benchmarks, Stopping(j) PROVE Stopping(j)'
<1>1. PICK s \in Servers :
        \/ Operator(s) \/ Worker(s) \/ Call(s) \/ Fault(s)
        \/ \E k \in Jobs : Child(s, k)
  BY DEF Next
<1>2. ASSUME control' = control, mem' = mem, status'[j] # "completed"
      PROVE  Stopping(j)'
  BY <1>2 DEF Stopping
<1>3. j \in Jobs /\ status[j] # "completed"
  BY QueueAssumption DEF Stopping
<1>4. CASE Operator(s)
  BY <1>2, <1>3, <1>4 DEF Operator, Start, Close, ServerDies
<1>5. CASE Worker(s)
  <2>1. control' = control /\ mem' = mem
    BY <1>5 DEF Worker, WorkerStops, RecoverBegin, RecoverEnd, RecoverMark,
       Dispatch, ScanEmpty, Spawn, Reap
  <2>2. status'[j] # "completed"
    BY <1>3, <1>5 DEF Worker, WorkerStops, RecoverBegin, RecoverEnd,
       RecoverMark, Dispatch, ScanEmpty, Spawn, Reap, BaseInv, TypeOK
  <2> QED
    BY <1>2, <2>1, <2>2
<1>6. CASE Call(s)
  <2>1. ASSUME NEW k \in Jobs, NEW o, Enqueue(s, k, o) PROVE Stopping(j)'
    BY <1>2, <1>3, <2>1 DEF Enqueue, BaseInv, TypeOK
  <2>2. ASSUME NEW k \in Jobs,
               Submit(s, k) \/ \E q \in Jobs : Retry(s, q, k) \/ Resume(s, q, k)
        PROVE  Stopping(j)'
    BY <2>1, <2>2 DEF Submit, Retry, Resume
  <2>3. CASE ControlAppend(s)
    <3>1. api[s].act \in Requests
      BY <2>3 DEF ControlAppend, BaseInv, CallInv
    <3>2. control'[j] # "none"
      BY <1>3, <2>3, <3>1 DEF ControlAppend, Stopping, Requests, BaseInv, TypeOK
    <3> QED
      BY <2>3, <3>2 DEF ControlAppend, Stopping
  <2>4. CASE ControlMark(s)
    BY <1>2, <1>3, <2>4 DEF ControlMark, StopStatus, BaseInv, TypeOK
  <2>5. CASE ReadEnd(s) \/ \E o \in Outputs : ReadBegin(s, o)
    BY <1>2, <1>3, <2>5 DEF ReadEnd, ReadBegin
  <2>6. CASE \E k \in Jobs, a \in Requests : ControlBegin(s, k, a)
    BY <1>2, <1>3, <2>6 DEF ControlBegin
  <2> QED
    BY <1>6, <2>2, <2>3, <2>4, <2>5, <2>6 DEF Call
<1>7. ASSUME NEW k \in Jobs, Gone(s, k), control' = control,
             status'[j] # "completed"
      PROVE  Stopping(j)'
  BY <1>3, <1>7 DEF Gone, FreshMem, Stopping, BaseInv, TypeOK
<1>8. CASE Fault(s)
  <2>1. CASE SpawnFails(s) \/ WorkerFaults(s)
    BY <1>2, <1>3, <2>1 DEF SpawnFails, WorkerFaults, BaseInv, TypeOK
  <2>2. ASSUME NEW k \in Jobs, ChildWriteFails(s, k) \/ ChildCrashes(s, k)
        PROVE  Stopping(j)'
    BY <1>3, <1>7, <2>2 DEF ChildWriteFails, ChildCrashes
  <2> QED
    BY <1>8, <2>1, <2>2 DEF Fault
<1>9. ASSUME NEW k \in Jobs, NEW st \in Terminal, NEW to, Decide(s, k, st, to),
             k = j => st # "completed"
      PROVE  Stopping(j)'
  <2>1. \A t \in Servers : mem'[t][j].status # "completed"
    BY <1>3, <1>9 DEF Decide, Stopping, BaseInv, TypeOK
  <2> QED
    BY <1>9, <2>1 DEF Decide, Stopping
<1>10. ASSUME NEW k \in Jobs, Child(s, k) PROVE Stopping(j)'
  <2>1. CASE BenchmarkStops(s, k) \/ BenchmarkCompletes(s, k)
             \/ BenchmarkFails(s, k)
    BY <1>9, <2>1 DEF BenchmarkStops, BenchmarkCompletes, BenchmarkFails,
       StopStatus, Stopping, Terminal
  <2>2. CASE SearchEnds(s, k)
    BY <1>9, <2>2 DEF SearchEnds, Terminal
  <2>3. CASE ChildTakesLock(s, k) \/ ChildBegins(s, k) \/ SearchFinishes(s, k)
    BY <1>2, <1>3, <2>3 DEF ChildTakesLock, ChildBegins, SearchFinishes
  <2>4. CASE ChildRefused(s, k) \/ ChildDeclines(s, k) \/ ChildExits(s, k)
    BY <1>3, <1>7, <2>4 DEF ChildRefused, ChildDeclines, ChildExits
  <2>5. k = j => Recorded(mem[s][k]) # "completed"
    BY DEF Recorded, Stopping
  <2>6. CASE TimerExits(s, k)
    BY <1>3, <1>7, <2>5, <2>6 DEF TimerExits, BaseInv, TypeOK
  <2>7. CASE ChildWrites(s, k)
    BY <1>2, <1>3, <2>5, <2>7 DEF ChildWrites, BaseInv, TypeOK
  <2>8. CASE TimerFires(s, k)
    <3>1. \A t \in Servers : mem'[t][j].status # "completed"
      BY <1>3, <2>8 DEF TimerFires, Stopping, BaseInv, TypeOK
    <3> QED
      BY <2>8, <3>1 DEF TimerFires, Stopping
  <2> QED
    BY <1>10, <2>1, <2>2, <2>3, <2>4, <2>6, <2>7, <2>8 DEF Child
<1> QED
  BY <1>1, <1>4, <1>5, <1>6, <1>8, <1>10

\* A stop request of a queued job holds, whatever crashes or fails before the
\* record is marked.
THEOREM StopsHold == HistorySpec => []StopSurvivesCrash
<1> DEFINE historyVars == <<vars, stopped>>
<1>1. HistoryInit => Init /\ StopInv
  <2> SUFFICES ASSUME HistoryInit PROVE Init /\ StopInv
    OBVIOUS
  <2>1. Init /\ StopsBenchmarks /\ FreshMemory
    BY DEF HistoryInit, Init, StopsBenchmarks, FreshMemory, NoCall
  <2>2. stopped = {}
    BY DEF HistoryInit, Init, Requested
  <2> QED
    BY <2>1, <2>2 DEF StopInv
<1>2. [HistoryNext]_historyVars => [Next]_vars
  BY DEF HistoryNext
<1>3. BaseInv /\ BaseInv' /\ StopInv /\ [HistoryNext]_historyVars => StopInv'
  <2> SUFFICES ASSUME BaseInv, BaseInv', StopInv, [HistoryNext]_historyVars
               PROVE  StopInv'
    OBVIOUS
  <2>1. CASE HistoryNext
    <3>1. StopsBenchmarks' /\ FreshMemory'
      BY <2>1, StopsBenchmarksStep, FreshMemoryStep DEF HistoryNext, StopInv
    <3>2. ASSUME NEW j \in stopped PROVE Stopping(j)'
      <4>1. j \in Benchmarks /\ Stopping(j)
        BY DEF StopInv, StopsBenchmarks, Stopping
      <4> QED
        BY <2>1, <4>1, StoppingStep DEF HistoryNext
    \* A queued job has no child yet, and so nothing was decided.
    <3>3. ASSUME NEW j \in Requested' PROVE Stopping(j)'
      BY <3>1, <3>3 DEF BaseInv, FreshInv, FreshMemory, FreshMem, Requested,
         Stopping
    <3>4. stopped' = stopped \cup Requested' /\ Requested' \subseteq Jobs
      BY <2>1 DEF HistoryNext, Requested
    <3> QED
      BY <3>1, <3>2, <3>3, <3>4 DEF StopInv
  <2>2. CASE UNCHANGED historyVars
    BY <2>2 DEF vars, StopInv, StopsBenchmarks, FreshMemory, Stopping
  <2> QED
    BY <2>1, <2>2
<1>4. StopInv => StopSurvivesCrash
  BY DEF StopInv, Stopping, StopSurvivesCrash
<1>5. HistorySpec => Spec
  BY <1>1, <1>2, PTL DEF HistorySpec, Spec
<1> QED
  BY <1>1, <1>3, <1>4, <1>5, BaseInvariant, PTL DEF HistorySpec

=============================================================================
