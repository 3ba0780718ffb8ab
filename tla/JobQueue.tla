------------------------------ MODULE JobQueue ------------------------------
(***************************************************************************)
(* The persistent local queue of src/src/maxcover/dashboard_jobs.py.       *)
(*                                                                         *)
(* A server process (JobService) holds owner.lock, answers API calls under *)
(* one mutex and runs one worker thread that dispatches the oldest queued  *)
(* record to a child process.  The child holds execution.lock, runs the    *)
(* job and writes its own terminal record.  Servers and children crash at  *)
(* any point; what survives is the job records, the control files and the  *)
(* children of a dead server.                                              *)
(***************************************************************************)
EXTENDS Naturals, FiniteSets

CONSTANTS
    Jobs,        \* job identifiers, each used by one submission at most
    Benchmarks,  \* the jobs of kind "benchmark"; the others are mine/refute
    Servers,     \* server processes, in the order the operator starts them
    Outputs,     \* result directories under results/
    MaxPending,  \* the bound of _enqueue on queued records
    FaultyDisk,  \* may a _write raise?
    LateCalls,   \* may an API call outlive the worker of its closed server?
    None         \* no server, job or directory

ASSUME QueueAssumption ==
    /\ Benchmarks \subseteq Jobs
    /\ MaxPending \in Nat
    /\ FaultyDisk \in BOOLEAN
    /\ LateCalls \in BOOLEAN
    /\ None \notin Jobs \cup Servers \cup Outputs

VARIABLES
    \* On disk, surviving every process.
    status,      \* status[j]: the "status" field of job.json, or its damage
    owner,       \* owner[j]: the server that dispatched j
    created,     \* created[j]: created_at, as a position in time
    output,      \* output[j]: the directory a benchmark writes
    control,     \* control[j]: the last complete line of control.jsonl
    clock,       \* the time of the next submission
    \* Operating-system locks, released when their process ends.
    ownerLock, execLock,
    \* Server processes.
    server,      \* life of the process
    recovering,  \* _recovering
    worker,      \* where the _work thread is
    wjob,        \* the job the worker dispatched
    api,         \* the API call that holds _mutex, if any
    \* Child processes, one per dispatch.
    child,       \* child[s][j]: where the child that s started for j is
    mem,         \* mem[s][j]: the record that child holds in memory
    timer,       \* timer[s][j]: the wall-clock timer of a mine/refute child
    runs         \* runs[j]: how many children went on to execute j

disk == <<status, owner, created, output, control, clock>>
locks == <<ownerLock, execLock>>
processes == <<server, recovering, worker, wjob>>
children == <<child, mem, timer, runs>>
vars == <<status, owner, created, output, control, clock, ownerLock, execLock,
          server, recovering, worker, wjob, api, child, mem, timer, runs>>

-----------------------------------------------------------------------------
Terminal == {"completed", "failed", "interrupted", "paused", "cancelled"}
\* "corrupt" is a record that _validate_record refuses: _records shows it as a
\* failed job whose original file is preserved.
Finished == Terminal \cup {"corrupt"}
Status == {"absent", "queued", "running"} \cup Finished
Active == {"queued", "running"}
Requests == {"pause", "cancel"}
StopStatus(a) == IF a = "pause" THEN "paused" ELSE "cancelled"

NoLock == [by |-> "none", srv |-> None, job |-> None]
ChildLock(s, j) == [by |-> "child", srv |-> s, job |-> j]
RecoveryLock(s) == [by |-> "recovery", srv |-> s, job |-> None]

\* A child computes ("running"), has its outcome in memory ("decided"), holds
\* terminal_lock ("final") or has returned from its last _write ("written").
Executing == {"running", "decided", "final"}
HoldsLock == {"locked", "written"} \cup Executing
Alive == {"spawned"} \cup HoldsLock
ChildState == {"none", "exited"} \cup Alive

FreshMem == [status |-> "running", summary |-> FALSE]
NoCall == [op |-> "free", job |-> None, act |-> "none", out |-> None]

TypeOK ==
    /\ status \in [Jobs -> Status]
    /\ owner \in [Jobs -> Servers \cup {None}]
    /\ created \in [Jobs -> Nat]
    /\ output \in [Jobs -> Outputs \cup {None}]
    /\ control \in [Jobs -> Requests \cup {"none"}]
    /\ clock \in Nat
    /\ ownerLock \in Servers \cup {None}
    /\ execLock \in {NoLock} \cup {RecoveryLock(s) : s \in Servers}
                    \cup {ChildLock(s, j) : s \in Servers, j \in Jobs}
    /\ server \in [Servers -> {"new", "up", "closed", "dead"}]
    /\ recovering \in [Servers -> BOOLEAN]
    /\ worker \in [Servers -> {"none", "idle", "recover", "scan", "spawn",
                               "wait", "exited"}]
    /\ wjob \in [Servers -> Jobs \cup {None}]
    /\ api \in [Servers -> [op : {"free", "appendQueued", "appendRunning",
                                  "mark", "read"},
                            job : Jobs \cup {None},
                            act : Requests \cup {"none"},
                            out : Outputs \cup {None}]]
    /\ child \in [Servers -> [Jobs -> ChildState]]
    /\ mem \in [Servers -> [Jobs -> [status : {"running"} \cup Terminal,
                                     summary : BOOLEAN]]]
    /\ timer \in [Servers -> [Jobs -> {"off", "armed", "fired"}]]
    /\ runs \in [Jobs -> Nat]

Init ==
    /\ status = [j \in Jobs |-> "absent"]
    /\ owner = [j \in Jobs |-> None]
    /\ created = [j \in Jobs |-> 0]
    /\ output = [j \in Jobs |-> None]
    /\ control = [j \in Jobs |-> "none"]
    /\ clock = 0
    /\ ownerLock = None
    /\ execLock = NoLock
    /\ server = [s \in Servers |-> "new"]
    /\ recovering = [s \in Servers |-> FALSE]
    /\ worker = [s \in Servers |-> "none"]
    /\ wjob = [s \in Servers |-> None]
    /\ api = [s \in Servers |-> NoCall]
    /\ child = [s \in Servers |-> [j \in Jobs |-> "none"]]
    /\ mem = [s \in Servers |-> [j \in Jobs |-> FreshMem]]
    /\ timer = [s \in Servers |-> [j \in Jobs |-> "off"]]
    /\ runs = [j \in Jobs |-> 0]

-----------------------------------------------------------------------------
(* The life of a server process.                                           *)

\* JobService.__init__: refused while another process holds owner.lock.
Start(s) ==
    /\ server[s] = "new"
    /\ ownerLock = None
    /\ server' = [server EXCEPT ![s] = "up"]
    /\ ownerLock' = s
    /\ recovering' = [recovering EXCEPT ![s] = TRUE]
    /\ worker' = [worker EXCEPT ![s] = "idle"]
    /\ UNCHANGED <<disk, execLock, wjob, api, children>>

\* close(): dispatching stops, a running child is left to finish.
Close(s) ==
    /\ server[s] = "up"
    /\ server' = [server EXCEPT ![s] = "closed"]
    /\ UNCHANGED <<disk, locks, recovering, worker, wjob, api, children>>

\* The process ends, by a crash or after close() returned: its locks go, the
\* mutex goes, its child goes on.
ServerDies(s) ==
    /\ server[s] \in {"up", "closed"}
    /\ server' = [server EXCEPT ![s] = "dead"]
    /\ ownerLock' = IF ownerLock = s THEN None ELSE ownerLock
    /\ execLock' = IF execLock = RecoveryLock(s) THEN NoLock ELSE execLock
    /\ worker' = [worker EXCEPT ![s] = "none"]
    /\ wjob' = [wjob EXCEPT ![s] = None]
    /\ api' = [api EXCEPT ![s] = NoCall]
    /\ UNCHANGED <<disk, recovering, children>>

\* Whether _mutex of s can be taken: the worker keeps it during recovery and
\* the scan that follows, an API call for as long as it runs.
MutexFree(s) ==
    /\ api[s].op = "free"
    /\ worker[s] \notin {"recover", "scan"}

-----------------------------------------------------------------------------
(* The worker thread.                                                      *)

\* The finally clause of _work, reached by the stop flag or by an exception.
WorkerEnds(s) ==
    /\ worker' = [worker EXCEPT ![s] = "exited"]
    /\ wjob' = [wjob EXCEPT ![s] = None]
    /\ ownerLock' = IF ownerLock = s THEN None ELSE ownerLock

\* The thread does not take _mutex to end: a request thread of the HTTP server
\* may still be inside a call when owner.lock is given back.
WorkerStops(s) ==
    /\ worker[s] = "idle"
    /\ server[s] = "closed"
    /\ LateCalls \/ api[s].op = "free"
    /\ WorkerEnds(s)
    /\ UNCHANGED <<disk, execLock, server, recovering, api, children>>

\* Mutant: recovery does not ask for execution.lock.
RecoverBeginUnlocked(s) ==
    /\ worker[s] = "idle"
    /\ server[s] = "up"
    /\ MutexFree(s)
    /\ recovering[s]
    /\ execLock' = RecoveryLock(s)
    /\ worker' = [worker EXCEPT ![s] = "recover"]
    /\ UNCHANGED <<disk, ownerLock, server, recovering, wjob, api, children>>

\* _recover: nothing happens while another process holds execution.lock.
RecoverBegin(s) ==
    /\ worker[s] = "idle"
    /\ server[s] = "up"
    /\ MutexFree(s)
    /\ recovering[s]
    /\ execLock = NoLock
    /\ execLock' = RecoveryLock(s)
    /\ worker' = [worker EXCEPT ![s] = "recover"]
    /\ UNCHANGED <<disk, ownerLock, server, recovering, wjob, api, children>>

RecoverMark(s, j) ==
    /\ worker[s] = "recover"
    /\ status[j] = "running"
    /\ status' = [status EXCEPT ![j] = "interrupted"]
    /\ UNCHANGED <<owner, created, output, control, clock, locks, processes,
                   api, children>>

RecoverEnd(s) ==
    /\ worker[s] = "recover"
    /\ \A j \in Jobs : status[j] # "running"
    /\ recovering' = [recovering EXCEPT ![s] = FALSE]
    /\ execLock' = NoLock
    /\ worker' = [worker EXCEPT ![s] = "scan"]
    /\ UNCHANGED <<disk, ownerLock, server, wjob, api, children>>

Queued == {j \in Jobs : status[j] = "queued"}
Oldest(j) == \A k \in Queued : created[j] <= created[k]

\* Mutant: a worker that waits is not woken.
MayScanUnwoken(s) == worker[s] = "scan"

\* The dispatch section of _work, under _mutex.
MayScan(s) ==
    \/ worker[s] = "scan"
    \/ /\ worker[s] = "idle"
       /\ MutexFree(s)
       /\ ~recovering[s]

Dispatch(s, j) ==
    /\ MayScan(s)
    /\ server[s] = "up"
    /\ j \in Queued
    /\ Oldest(j)
    /\ status' = [status EXCEPT ![j] = "running"]
    /\ owner' = [owner EXCEPT ![j] = s]
    /\ worker' = [worker EXCEPT ![s] = "spawn"]
    /\ wjob' = [wjob EXCEPT ![s] = j]
    /\ UNCHANGED <<created, output, control, clock, locks, server, recovering,
                   api, children>>

ScanEmpty(s) ==
    /\ worker[s] = "scan"
    /\ server[s] = "closed" \/ Queued = {}
    /\ worker' = [worker EXCEPT ![s] = "idle"]
    /\ UNCHANGED <<disk, locks, server, recovering, wjob, api, children>>

Spawn(s) ==
    /\ worker[s] = "spawn"
    /\ child' = [child EXCEPT ![s][wjob[s]] = "spawned"]
    /\ worker' = [worker EXCEPT ![s] = "wait"]
    /\ UNCHANGED <<disk, locks, server, recovering, wjob, api, mem, timer,
                   runs>>

\* Popen raised: the handler of _work marks the job.
SpawnFails(s) ==
    /\ worker[s] = "spawn"
    /\ MutexFree(s)
    /\ status' = [status EXCEPT ![wjob[s]] =
                     IF @ = "corrupt" THEN @ ELSE "failed"]
    /\ worker' = [worker EXCEPT ![s] = "idle"]
    /\ wjob' = [wjob EXCEPT ![s] = None]
    /\ UNCHANGED <<owner, created, output, control, clock, locks, server,
                   recovering, api, children>>

\* Mutant: the worker settles the record without reading what the child wrote.
ReapBlindly(s) ==
    /\ worker[s] = "wait"
    /\ child[s][wjob[s]] = "exited"
    /\ MutexFree(s)
    /\ status' = [status EXCEPT ![wjob[s]] = "failed"]
    /\ worker' = [worker EXCEPT ![s] = "idle"]
    /\ wjob' = [wjob EXCEPT ![s] = None]
    /\ UNCHANGED <<owner, created, output, control, clock, locks, server,
                   recovering, api, children>>

\* process.wait() returned: a child that left no terminal record has failed.
Reap(s) ==
    /\ worker[s] = "wait"
    /\ child[s][wjob[s]] = "exited"
    /\ MutexFree(s)
    /\ status' = [status EXCEPT ![wjob[s]] =
                     IF @ \in Finished THEN @ ELSE "failed"]
    /\ worker' = [worker EXCEPT ![s] = "idle"]
    /\ wjob' = [wjob EXCEPT ![s] = None]
    /\ UNCHANGED <<owner, created, output, control, clock, locks, server,
                   recovering, api, children>>

\* A _write of the worker raises.  No handler is left: the thread ends and
\* gives owner.lock back, while the server goes on answering API calls.
WorkerFaults(s) ==
    /\ FaultyDisk
    /\ \/ MayScan(s) /\ server[s] = "up" /\ Queued # {}
       \/ worker[s] = "recover" /\ \E j \in Jobs : status[j] = "running"
       \/ /\ worker[s] = "wait"
          /\ child[s][wjob[s]] = "exited"
          /\ MutexFree(s)
          /\ status[wjob[s]] \notin Finished
       \/ /\ worker[s] = "spawn"
          /\ MutexFree(s)
          /\ status[wjob[s]] # "corrupt"
    /\ WorkerEnds(s)
    /\ execLock' = IF execLock = RecoveryLock(s) THEN NoLock ELSE execLock
    /\ UNCHANGED <<disk, server, recovering, api, children>>

-----------------------------------------------------------------------------
(* API calls.  Each holds _mutex from its first to its last step.          *)

\* Mutant: only queued records reserve their directory.
ReservedWhileQueued(o) ==
    \E k \in Benchmarks : status[k] = "queued" /\ output[k] = o

\* _enqueue, for a fresh job identifier.
Reserved(o) ==
    \E k \in Benchmarks : status[k] \in Active /\ output[k] = o

Enqueue(s, j, o) ==
    /\ server[s] = "up"
    /\ MutexFree(s)
    /\ status[j] = "absent"
    /\ Cardinality(Queued) < MaxPending
    /\ o # None => ~Reserved(o)
    /\ status' = [status EXCEPT ![j] = "queued"]
    /\ created' = [created EXCEPT ![j] = clock]
    /\ output' = [output EXCEPT ![j] = o]
    /\ clock' = clock + 1
    /\ UNCHANGED <<owner, control, locks, processes, api, children>>

Submit(s, j) ==
    \/ j \in Benchmarks /\ \E o \in Outputs : Enqueue(s, j, o)
    \/ j \notin Benchmarks /\ Enqueue(s, j, None)

\* Mutant: a retry puts the old record back into the queue.
RetryInPlace(s, p, j) ==
    /\ p = j /\ j \notin Benchmarks
    /\ server[s] = "up" /\ MutexFree(s)
    /\ ~recovering[s]
    /\ status[p] \in {"failed", "interrupted"}
    /\ status' = [status EXCEPT ![p] = "queued"]
    /\ UNCHANGED <<owner, created, output, control, clock, locks, processes,
                   api, children>>

Retry(s, p, j) ==
    /\ p \notin Benchmarks /\ j \notin Benchmarks
    /\ ~recovering[s]
    /\ status[p] \in {"failed", "interrupted"}
    /\ Enqueue(s, j, None)

Resume(s, p, j) ==
    /\ p \in Benchmarks /\ j \in Benchmarks
    /\ ~recovering[s]
    /\ status[p] \in Terminal
    /\ Enqueue(s, j, output[p])

\* A call of a server that was closed since it was received still runs, and
\* with LateCalls even after the worker gave owner.lock back.
Answering(s) ==
    /\ server[s] \in {"up", "closed"}
    /\ LateCalls \/ worker[s] # "exited" \/ server[s] = "up"

\* _control reads the record, appends the request durably, and marks a record
\* that it had read as queued.  Other processes run between these steps.
ControlBegin(s, j, a) ==
    /\ Answering(s)
    /\ MutexFree(s)
    /\ j \in Benchmarks
    /\ status[j] \in Active
    /\ api' = [api EXCEPT ![s] =
                  [op |-> IF status[j] = "queued" THEN "appendQueued"
                                                  ELSE "appendRunning",
                   job |-> j, act |-> a, out |-> None]]
    /\ UNCHANGED <<disk, locks, processes, children>>

ControlAppend(s) ==
    /\ api[s].op \in {"appendQueued", "appendRunning"}
    /\ control' = [control EXCEPT ![api[s].job] = api[s].act]
    /\ api' = [api EXCEPT ![s] = IF api[s].op = "appendQueued"
                                 THEN [op |-> "mark", job |-> api[s].job,
                                       act |-> api[s].act, out |-> None]
                                 ELSE NoCall]
    /\ UNCHANGED <<status, owner, created, output, clock, locks, processes,
                   children>>

ControlMark(s) ==
    /\ api[s].op = "mark"
    /\ status' = [status EXCEPT ![api[s].job] = StopStatus(api[s].act)]
    /\ api' = [api EXCEPT ![s] = NoCall]
    /\ UNCHANGED <<owner, created, output, control, clock, locks, processes,
                   children>>

\* reading_outputs: refused while a running record names the directory.
ReadBegin(s, o) ==
    /\ Answering(s)
    /\ MutexFree(s)
    /\ \A k \in Benchmarks : ~(status[k] = "running" /\ output[k] = o)
    /\ api' = [api EXCEPT ![s] =
                  [op |-> "read", job |-> None, act |-> "none", out |-> o]]
    /\ UNCHANGED <<disk, locks, processes, children>>

ReadEnd(s) ==
    /\ api[s].op = "read"
    /\ api' = [api EXCEPT ![s] = NoCall]
    /\ UNCHANGED <<disk, locks, processes, children>>

-----------------------------------------------------------------------------
(* The child process: _execute, _execute_benchmark and the timer thread.   *)

\* The process ends: memory, timer and execution.lock go.
Gone(s, j) ==
    /\ child' = [child EXCEPT ![s][j] = "exited"]
    /\ mem' = [mem EXCEPT ![s][j] = FreshMem]
    /\ timer' = [timer EXCEPT ![s][j] = "off"]
    /\ execLock' = IF execLock = ChildLock(s, j) THEN NoLock ELSE execLock
    /\ UNCHANGED <<ownerLock, runs>>

\* Mutant: the child does not wait for execution.lock to be free.
ChildTakesLockBlind(s, j) ==
    /\ child[s][j] = "spawned"
    /\ execLock' = ChildLock(s, j)
    /\ child' = [child EXCEPT ![s][j] = "locked"]
    /\ UNCHANGED <<disk, ownerLock, processes, api, mem, timer, runs>>

ChildTakesLock(s, j) ==
    /\ child[s][j] = "spawned"
    /\ execLock = NoLock
    /\ execLock' = ChildLock(s, j)
    /\ child' = [child EXCEPT ![s][j] = "locked"]
    /\ UNCHANGED <<disk, ownerLock, processes, api, mem, timer, runs>>

\* execution.lock is nonblocking: the child ends with a JobConflictError.
ChildRefused(s, j) ==
    /\ child[s][j] = "spawned"
    /\ execLock # NoLock
    /\ Gone(s, j)
    /\ UNCHANGED <<disk, processes, api>>

\* The child executes only a record that is still running in its owner's name.
ChildBegins(s, j) ==
    /\ child[s][j] = "locked"
    /\ status[j] = "running"
    /\ owner[j] = s
    /\ child' = [child EXCEPT ![s][j] = "running"]
    /\ timer' = [timer EXCEPT ![s][j] = IF j \in Benchmarks THEN "off"
                                                            ELSE "armed"]
    /\ runs' = [runs EXCEPT ![j] = @ + 1]
    /\ UNCHANGED <<disk, locks, processes, api, mem>>

ChildDeclines(s, j) ==
    /\ child[s][j] = "locked"
    /\ ~(status[j] = "running" /\ owner[j] = s)
    /\ Gone(s, j)
    /\ UNCHANGED <<disk, processes, api>>

Decide(s, j, st, to) ==
    /\ child[s][j] = "running"
    /\ mem' = [mem EXCEPT ![s][j] = [status |-> st,
                                     summary |-> (st = "completed")]]
    /\ child' = [child EXCEPT ![s][j] = to]
    /\ UNCHANGED <<disk, locks, processes, api, timer, runs>>

\* A benchmark stops at a control check that finds a request, completes at the
\* last check that finds none, or fails; it has no timer.
BenchmarkStops(s, j) ==
    /\ j \in Benchmarks
    /\ control[j] # "none"
    /\ Decide(s, j, StopStatus(control[j]), "final")

\* Mutant: no control check after the runner returned.
BenchmarkCompletesUnchecked(s, j) ==
    /\ j \in Benchmarks
    /\ Decide(s, j, "completed", "final")

BenchmarkCompletes(s, j) ==
    /\ j \in Benchmarks
    /\ control[j] = "none"
    /\ Decide(s, j, "completed", "final")

BenchmarkFails(s, j) ==
    /\ j \in Benchmarks
    /\ Decide(s, j, "failed", "final")

\* A mine/refute child updates the record in memory, then asks for
\* terminal_lock in its finally clause; the timer thread holds it once fired.
SearchEnds(s, j) ==
    /\ j \notin Benchmarks
    /\ \E st \in {"completed", "failed"} : Decide(s, j, st, "decided")

SearchFinishes(s, j) ==
    /\ child[s][j] = "decided"
    /\ timer[s][j] = "armed"
    /\ child' = [child EXCEPT ![s][j] = "final"]
    /\ timer' = [timer EXCEPT ![s][j] = "off"]
    /\ UNCHANGED <<disk, locks, processes, api, mem, runs>>

TimerFires(s, j) ==
    /\ child[s][j] \in {"running", "decided"}
    /\ timer[s][j] = "armed"
    /\ timer' = [timer EXCEPT ![s][j] = "fired"]
    /\ mem' = [mem EXCEPT ![s][j] =
                  [status |-> "failed", summary |-> mem[s][j].summary]]
    /\ UNCHANGED <<disk, locks, processes, api, child, runs>>

\* What _validate_record says of the record a child writes: an unfinished job
\* must have no summary.
Recorded(m) ==
    IF m.summary /\ m.status # "completed" THEN "corrupt" ELSE m.status

\* The timer thread writes the shared record and ends the process.
TimerExits(s, j) ==
    /\ timer[s][j] = "fired"
    /\ status' = [status EXCEPT ![j] = Recorded(mem[s][j])]
    /\ Gone(s, j)
    /\ UNCHANGED <<owner, created, output, control, clock, processes, api>>

ChildWrites(s, j) ==
    /\ child[s][j] = "final"
    /\ status' = [status EXCEPT ![j] = Recorded(mem[s][j])]
    /\ child' = [child EXCEPT ![s][j] = "written"]
    /\ UNCHANGED <<owner, created, output, control, clock, locks, processes,
                   api, mem, timer, runs>>

ChildWriteFails(s, j) ==
    /\ FaultyDisk
    /\ child[s][j] = "final" \/ timer[s][j] = "fired"
    /\ Gone(s, j)
    /\ UNCHANGED <<disk, processes, api>>

ChildExits(s, j) ==
    /\ child[s][j] = "written"
    /\ Gone(s, j)
    /\ UNCHANGED <<disk, processes, api>>

ChildCrashes(s, j) ==
    /\ child[s][j] \in Alive
    /\ Gone(s, j)
    /\ UNCHANGED <<disk, processes, api>>

-----------------------------------------------------------------------------
Operator(s) ==
    \/ Start(s) \/ Close(s) \/ ServerDies(s)

Worker(s) ==
    \/ WorkerStops(s)
    \/ RecoverBegin(s) \/ RecoverEnd(s)
    \/ \E j \in Jobs : RecoverMark(s, j) \/ Dispatch(s, j)
    \/ ScanEmpty(s) \/ Spawn(s) \/ Reap(s)

Call(s) ==
    \/ \E j \in Jobs :
         \/ Submit(s, j)
         \/ \E p \in Jobs : Retry(s, p, j) \/ Resume(s, p, j)
         \/ \E a \in Requests : ControlBegin(s, j, a)
    \/ ControlAppend(s) \/ ControlMark(s)
    \/ \E o \in Outputs : ReadBegin(s, o)
    \/ ReadEnd(s)

Child(s, j) ==
    \/ ChildTakesLock(s, j) \/ ChildRefused(s, j)
    \/ ChildBegins(s, j) \/ ChildDeclines(s, j)
    \/ BenchmarkStops(s, j) \/ BenchmarkCompletes(s, j) \/ BenchmarkFails(s, j)
    \/ SearchEnds(s, j) \/ SearchFinishes(s, j)
    \/ TimerFires(s, j) \/ TimerExits(s, j)
    \/ ChildWrites(s, j) \/ ChildExits(s, j)

Fault(s) ==
    \/ SpawnFails(s) \/ WorkerFaults(s)
    \/ \E j \in Jobs : ChildWriteFails(s, j) \/ ChildCrashes(s, j)

Next ==
    \E s \in Servers :
        \/ Operator(s) \/ Worker(s) \/ Call(s) \/ Fault(s)
        \/ \E j \in Jobs : Child(s, j)

Spec == Init /\ [][Next]_vars

\* A living process keeps going: an API call in progress, a child, and the
\* worker, whose wait for _mutex between API calls is eventually granted (hence
\* strong fairness).  Nothing obliges a user to call or a process to crash.
Fairness ==
    \A s \in Servers :
        /\ SF_vars(Worker(s))
        /\ WF_vars(ControlAppend(s) \/ ControlMark(s) \/ ReadEnd(s))
        /\ \A j \in Jobs : WF_vars(Child(s, j))

FairSpec == Spec /\ Fairness

-----------------------------------------------------------------------------
(* Safety.                                                                 *)

ExecutesJob(s, j) == child[s][j] \in Executing

\* execution.lock serialises the computations of all children, those of dead
\* servers included, and no job is computed twice: a restart, a recovery or a
\* repeated dispatch never starts a second computation of a job.
OneExecution ==
    /\ \A s, t \in Servers, j, k \in Jobs :
          ExecutesJob(s, j) /\ ExecutesJob(t, k) => s = t /\ j = k
    /\ \A j \in Jobs : runs[j] <= 1

\* While a child computes a job, the record on disk says so and names the
\* server that started it: recovery, retry, pause and reaping never settle the
\* record of a computation that is still going on.
ExecutingIsRunning ==
    \A s \in Servers, j \in Jobs :
        ExecutesJob(s, j) => status[j] = "running" /\ owner[j] = s

\* At most one record is running, and a server past its recovery waits for it:
\* nothing is dispatched beside an orphan of an earlier server.
OneRunning ==
    /\ \A j, k \in Jobs : status[j] = "running" /\ status[k] = "running" => j = k
    /\ \A s \in Servers, j \in Jobs :
          ownerLock = s /\ ~recovering[s] /\ status[j] = "running" => wjob[s] = j

\* The directory a benchmark is writing is reserved: no other queued or running
\* record names it, so no second writer waits behind the first.
WritersReserved ==
    \A s \in Servers, j, k \in Benchmarks :
        ExecutesJob(s, j) /\ status[k] \in Active /\ output[k] = output[j]
            => k = j

\* reading_outputs keeps writers out for the whole of a read (docs/cli.md says
\* that active result files stay unavailable until the writer stops).
ReadersExcludeWriters ==
    \A s, t \in Servers, j \in Benchmarks :
        ~(ExecutesJob(s, j) /\ api[t].op = "read" /\ api[t].out = output[j])

\* So a directory that is written is out of reach of every other job and read,
\* whichever server, of those there were, has taken it.
DirectoriesExclusive == WritersReserved /\ ReadersExcludeWriters

\* A settled record is never reopened nor settled differently: retries and
\* resumes use a new identifier (dashboard_local.py relies on it to archive).
TerminalStable ==
    [][\A j \in Jobs : status[j] \in Finished => status'[j] = status[j]]_vars

\* Every record a process writes is one that _validate_record accepts again.
RecordsReadable == \A j \in Jobs : status[j] # "corrupt"

\* Recovery declares interrupted no job whose child is still alive: "a
\* restarted server therefore waits for an orphan child".
RecoveryWaitsForOrphans ==
    [][\A j \in Jobs :
          status[j] = "running" /\ status'[j] = "interrupted"
            => \A s \in Servers : child[s][j] \notin Alive]_vars

-----------------------------------------------------------------------------
(* Liveness.                                                               *)

Serving(s) == server[s] = "up" /\ ownerLock = s

\* Under a server that stays, every job that was accepted is settled, those
\* left running or queued by earlier servers included.
AcceptedJobsSettle ==
    \A s \in Servers : <>[]Serving(s) =>
        \A j \in Jobs : (status[j] \in Active) ~> (status[j] \in Finished)

-----------------------------------------------------------------------------
(* The queue implements a serial executor that tries each job once.        *)

PhaseOf(st) ==
    CASE st = "absent" -> "absent"
      [] st = "queued" -> "waiting"
      [] st = "running" -> "dispatched"
      [] st = "completed" -> "succeeded"
      [] OTHER -> "stopped"

Phase == [j \in Jobs |-> PhaseOf(status[j])]
Busy == {j \in Jobs : \E s \in Servers : ExecutesJob(s, j)}
Tried == {j \in Jobs : runs[j] > 0}

Serial == INSTANCE SerialQueue WITH phase <- Phase, busy <- Busy, tried <- Tried

\* No interleaving of crashes, restarts and orphans makes the queue do more
\* than the serial executor may.
ImplementsSerial == Serial!Spec

=============================================================================
