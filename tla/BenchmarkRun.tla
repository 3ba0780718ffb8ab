---------------------------- MODULE BenchmarkRun ----------------------------
(***************************************************************************)
(* The attempts to run benchmarks in one result directory:                 *)
(* _run_benchmark_controlled of src/src/maxcover/benchmark.py, the files   *)
(* of benchmark_artifacts.py and the adapter of dashboard_jobs.py that     *)
(* runs it for the queue.                                                  *)
(*                                                                         *)
(* An attempt reads raw_results.csv and instances.csv, computes the tasks  *)
(* without a row, rewrites raw_results.csv at checkpoints and writes the   *)
(* derived artifacts at the end.  It may be stopped, raise or crash at any *)
(* point; the next one finds what is on disk, and the workers that a crash *)
(* has orphaned still compute beside it.  The queue lets one attempt at a  *)
(* time into a directory (JobQueue!WritersReserved).                       *)
(***************************************************************************)
EXTENDS Naturals, FiniteSets

CONSTANTS
    Configs,      \* configurations, told apart by config_hash
    Tasks,        \* run identifiers, in the order of the plans
    Plan,         \* Plan[c]: the tasks of configuration c
    Comparing,    \* the configurations whose rows pair two solvers
    Interval,     \* checkpoint_interval
    Workers,      \* workers
    MaxAttempts,  \* bound on the number of attempts
    None

ASSUME RunAssumption ==
    /\ Tasks \subseteq Nat
    /\ Plan \in [Configs -> SUBSET Tasks]
    /\ Comparing \subseteq Configs
    /\ Interval \in Nat \ {0}
    /\ Workers \in Nat \ {0}
    /\ None \notin Configs

VARIABLES
    \* The result directory.
    raw,        \* raw_results.csv: its rows (none if there is no file)
    inst,       \* instances.csv: the configuration it was planned from
    art,        \* art[f]: the configuration and rows f was derived from
    replays,    \* failures/: the tasks that have a replay file
    \* The attempt.
    attempt,    \* how many attempts began
    torn,       \* history: has --force died while it removed files, and has no
                \* later one removed them all?
    pc,         \* where the attempt is
    cfg, force, \* its configuration and --force
    left,       \* files that --force or the last phase has still to treat
    records,    \* the records in memory
    running,    \* the workers that compute: their attempt and their task
    results,    \* rows computed and not yet taken from the executor
    taken,      \* completed_index
    after,      \* where a checkpoint continues
    stop,       \* has pause or cancel been requested?
    verdict,    \* how the attempt ends, or ended
    \* The queue's record of the attempt.
    published,  \* the rows that progress.jsonl claims to be saved
    completed   \* configurations with a completed job

files == <<raw, inst, art, replays>>
history == <<attempt, torn>>
executor == <<running, results>>
job == <<stop, published, completed>>
vars == <<raw, inst, art, replays, attempt, torn, pc, cfg, force, left, records,
          running, results, taken, after, stop, verdict, published, completed>>

-----------------------------------------------------------------------------
\* A row names the attempt that computed it: computed again, it differs.
Row == [cfg : Configs, task : Tasks, try : Nat, failed : BOOLEAN]
TasksOf(rows) == {r.task : r \in rows}

\* The derived artifacts, in the order of RUNNER_OWNED_FILENAMES: one that is
\* always written, the one of _write_search_comparison and a report.
Artifacts == {"summary", "comparison", "report"}
Position ==
    [raw |-> 1, instances |-> 2, summary |-> 3, comparison |-> 4, report |-> 5,
     failures |-> 6]
Owned == DOMAIN Position
First(f, set) == f \in set /\ \A g \in set : Position[f] <= Position[g]

\* The workers of the latest attempt; those of earlier ones are orphans.
Pool == {w \in running : w.try = attempt}

Pending == Plan[cfg] \ TasksOf(records)
IsNext(t, set) == t \in set /\ \A u \in set : t <= u
Looping == {"take", "save", "tell", "poll"}

\* Where an attempt that is not idle may be.
Phases == {"clean", "check", "gate", "last", "derive", "close", "drain"}
          \cup Looping

TypeOK ==
    /\ raw \subseteq Row
    /\ inst \in Configs \cup {None}
    /\ art \in [Artifacts -> {None} \cup [cfg : Configs, rows : SUBSET Row]]
    /\ replays \subseteq Tasks
    /\ attempt \in Nat /\ torn \in BOOLEAN
    /\ pc \in Phases \cup {"idle"}
    /\ cfg \in Configs \cup {None}
    /\ force \in BOOLEAN
    /\ left \subseteq Owned
    /\ records \subseteq Row
    /\ running \subseteq [try : Nat, task : Tasks]
    /\ results \subseteq Row
    /\ taken \in Nat
    /\ after \in {"gate", "poll", "derive", "drain"}
    /\ stop \in BOOLEAN
    /\ verdict \in {"none", "completed", "stopped", "failed", "crashed"}
    /\ published \subseteq Row
    /\ completed \subseteq Configs

Init ==
    /\ raw = {} /\ inst = None /\ replays = {}
    /\ art = [f \in Artifacts |-> None]
    /\ attempt = 0 /\ torn = FALSE /\ pc = "idle" /\ cfg = None /\ force = FALSE
    /\ left = {} /\ records = {} /\ running = {} /\ results = {}
    /\ taken = 0 /\ after = "gate" /\ verdict = "none"
    /\ stop = FALSE /\ published = {} /\ completed = {}

-----------------------------------------------------------------------------
(* Admission.                                                              *)

\* A job or a command starts an attempt; progress.jsonl is its own.
Begin(c, f) ==
    /\ pc = "idle" /\ attempt < MaxAttempts
    /\ attempt' = attempt + 1
    /\ cfg' = c /\ force' = f
    /\ IF f THEN pc' = "clean" /\ left' = Owned
            ELSE pc' = "check" /\ left' = {}
    /\ records' = {} /\ results' = {} /\ taken' = 0
    /\ stop' = FALSE /\ published' = {} /\ verdict' = "none"
    /\ UNCHANGED <<raw, inst, art, replays, torn, running, after, completed>>

\* Mutant: a file that not every attempt writes is missing from the list.
CleanCommonFile ==
    /\ pc = "clean" /\ left # {}
    /\ \E f \in left :
           /\ First(f, left)
           /\ left' = left \ {f}
           /\ raw' = IF f = "raw" THEN {} ELSE raw
           /\ inst' = IF f = "instances" THEN None ELSE inst
           /\ art' = IF f \in Artifacts \ {"comparison"}
                     THEN [art EXCEPT ![f] = None] ELSE art
           /\ replays' = IF f = "failures" THEN {} ELSE replays
    /\ UNCHANGED <<history, pc, cfg, force, records, executor, taken, after,
                   verdict, job>>

\* _clean_runner_owned_artifacts removes one file after the other.
CleanFile ==
    /\ pc = "clean" /\ left # {}
    /\ \E f \in left :
           /\ First(f, left)
           /\ left' = left \ {f}
           /\ raw' = IF f = "raw" THEN {} ELSE raw
           /\ inst' = IF f = "instances" THEN None ELSE inst
           /\ art' = IF f \in Artifacts THEN [art EXCEPT ![f] = None] ELSE art
           /\ replays' = IF f = "failures" THEN {} ELSE replays
    /\ UNCHANGED <<history, pc, cfg, force, records, executor, taken, after,
                   verdict, job>>

CleanEnds ==
    /\ pc = "clean" /\ left = {}
    /\ pc' = "check" /\ torn' = FALSE
    /\ UNCHANGED <<files, attempt, cfg, force, left, records, executor, taken,
                   after, verdict, job>>

\* _validate_run_identity: what a row says of its run is what the plan says.
OfPlan(r) == r.cfg = cfg

\* _read_existing: a missing file and one without rows suit any configuration.
ForeignRows == \E r \in raw : ~OfPlan(r)
\* _validate_existing_instances: without the file any plan will do.
ForeignInstances == inst \notin {None, cfg}
Foreign == ForeignRows \/ ForeignInstances

\* --force is needed.
Refuse ==
    /\ pc = "check" /\ ~force /\ Foreign
    /\ pc' = "drain" /\ verdict' = "failed"
    /\ UNCHANGED <<files, history, cfg, force, left, records, executor, taken,
                   after, job>>

\* Mutant: rows of another configuration are resumed too.
AdmitAnyone ==
    /\ pc = "check"
    /\ inst' = cfg
    /\ records' = IF force THEN {} ELSE raw
    /\ pc' = "tell" /\ after' = "gate"
    /\ UNCHANGED <<raw, art, replays, history, cfg, force, left, executor,
                   taken, verdict, job>>

\* Mutant: a resumed attempt forgets the rows of the checkpoint.
AdmitEmpty ==
    /\ pc = "check" /\ (force \/ ~Foreign)
    /\ inst' = cfg
    /\ records' = {}
    /\ pc' = "tell" /\ after' = "gate"
    /\ UNCHANGED <<raw, art, replays, history, cfg, force, left, executor,
                   taken, verdict, job>>

\* instances.csv is written and the rows of the checkpoint are kept.
Admit ==
    /\ pc = "check" /\ (force \/ ~Foreign)
    /\ inst' = cfg
    /\ records' = IF force THEN {} ELSE raw
    /\ pc' = "tell" /\ after' = "gate"
    /\ UNCHANGED <<raw, art, replays, history, cfg, force, left, executor,
                   taken, verdict, job>>

\* publish_checkpoint, which follows every write of raw_results.csv.
Publish ==
    /\ pc = "tell"
    /\ published' = records
    /\ pc' = after
    /\ left' = IF after = "derive" THEN Artifacts ELSE left
    /\ UNCHANGED <<files, history, cfg, force, records, executor, taken, after,
                   stop, verdict, completed>>

\* No stop was requested before the first task.
Launch ==
    /\ pc = "gate" /\ ~stop
    /\ pc' = "take"
    /\ UNCHANGED <<files, history, cfg, force, left, records, executor, taken,
                   after, verdict, job>>

-----------------------------------------------------------------------------
(* The loop over completed runs.                                           *)

\* One worker computes a task when the loop asks for it (map); a pool computes
\* ahead of the loop (executor.map), in the order of the plan.
StartTask(t) ==
    /\ pc \in Looping /\ (pc = "tell" => taken > 0)
    /\ IsNext(t, Pending \ TasksOf(Pool \cup results))
    /\ Cardinality(Pool) < Workers
    /\ Workers = 1 => pc = "take" /\ results = {}
    /\ running' = running \cup {[try |-> attempt, task |-> t]}
    /\ UNCHANGED <<files, history, pc, cfg, force, left, records, results,
                   taken, after, verdict, job>>

\* Mutant: a task that failed gives no row.
FinishSilently(w, failed) ==
    /\ pc # "idle" /\ w \in Pool
    /\ running' = running \ {w}
    /\ results' = IF pc = "drain" \/ failed THEN results
                  ELSE results \cup {[cfg |-> cfg, task |-> w.task,
                                      try |-> attempt, failed |-> failed]}
    /\ UNCHANGED <<files, history, pc, cfg, force, left, records, taken, after,
                   verdict, job>>

\* _execute_task: an exception or a timeout gives a row that failed.
FinishTask(w, failed) ==
    /\ pc # "idle" /\ w \in Pool
    /\ running' = running \ {w}
    /\ results' = IF pc = "drain" THEN results
                  ELSE results \cup {[cfg |-> cfg, task |-> w.task,
                                      try |-> attempt, failed |-> failed]}
    /\ UNCHANGED <<files, history, pc, cfg, force, left, records, taken, after,
                   verdict, job>>

\* _execute_task in a worker whose attempt was killed: nobody is there to take
\* the result, and the worker itself writes nothing into the directory.
FinishOrphan(w) ==
    /\ w \in running /\ (w \in Pool => pc = "idle")
    /\ running' = running \ {w}
    /\ UNCHANGED <<files, history, pc, cfg, force, left, records, results,
                   taken, after, verdict, job>>

\* _write_replay_artifact.
WithReplay(r) == IF r.failed THEN replays \cup {r.task} ELSE replays

\* Mutant: a checkpoint is due after Interval unsaved runs, not with them.
TakeLate(r) ==
    /\ pc = "take"
    /\ r \in results /\ IsNext(r.task, Pending)
    /\ results' = results \ {r}
    /\ records' = records \cup {r}
    /\ replays' = WithReplay(r)
    /\ taken' = taken + 1
    /\ pc' = IF taken' % (Interval + 1) = 0 THEN "save" ELSE "poll"
    /\ UNCHANGED <<raw, inst, art, history, cfg, force, left, running, after,
                   verdict, job>>

\* The next run in plan order becomes a record, and a replay if it failed.
Take(r) ==
    /\ pc = "take"
    /\ r \in results /\ IsNext(r.task, Pending)
    /\ results' = results \ {r}
    /\ records' = records \cup {r}
    /\ replays' = WithReplay(r)
    /\ taken' = taken + 1
    /\ pc' = IF taken' % Interval = 0 THEN "save" ELSE "poll"
    /\ UNCHANGED <<raw, inst, art, history, cfg, force, left, running, after,
                   verdict, job>>

\* Mutant: progress is published ahead of the write.
SaveAfterTelling ==
    /\ pc = "save"
    /\ published' = records
    /\ pc' = "tell" /\ after' = "poll"
    /\ raw' = raw
    /\ UNCHANGED <<inst, art, replays, history, cfg, force, left, records,
                   executor, taken, stop, verdict, completed>>

\* The periodic checkpoint rewrites raw_results.csv from memory.
Save ==
    /\ pc = "save"
    /\ raw' = records
    /\ pc' = "tell" /\ after' = "poll"
    /\ UNCHANGED <<inst, art, replays, history, cfg, force, left, records,
                   executor, taken, verdict, job>>

\* stop_if_requested finds nothing.
Continue ==
    /\ pc = "poll" /\ ~stop
    /\ pc' = "take"
    /\ UNCHANGED <<files, history, cfg, force, left, records, executor, taken,
                   after, verdict, job>>

\* stop_if_requested saves what was computed and leaves the loop.
Stop ==
    /\ pc \in {"gate", "poll", "last"} /\ stop
    /\ raw' = records
    /\ pc' = "tell" /\ after' = "drain" /\ verdict' = "stopped"
    /\ UNCHANGED <<inst, art, replays, history, cfg, force, left, records,
                   executor, taken, job>>

\* Every task of the plan has a record, and the executor is shut down.
LoopEnds ==
    /\ pc = "take" /\ Pending = {} /\ Pool = {}
    /\ pc' = "last"
    /\ UNCHANGED <<files, history, cfg, force, left, records, executor, taken,
                   after, verdict, job>>

-----------------------------------------------------------------------------
(* The last phase.                                                         *)

\* raw_results.csv in full, whatever the interval.
SaveAll ==
    /\ pc = "last" /\ ~stop
    /\ raw' = records
    /\ pc' = "tell" /\ after' = "derive"
    /\ UNCHANGED <<inst, art, replays, history, cfg, force, left, records,
                   executor, taken, verdict, job>>

\* _write_search_comparison leaves the file as it is when it finds no pair.
Writes(f) == f = "comparison" => cfg \in Comparing

\* Mutant: only missing artifacts are written.
WriteMissing ==
    /\ pc = "derive" /\ left # {}
    /\ \E f \in left :
           /\ First(f, left)
           /\ left' = left \ {f}
           /\ art' = IF Writes(f) /\ art[f] = None
                     THEN [art EXCEPT ![f] = [cfg |-> cfg, rows |-> records]]
                     ELSE art
    /\ UNCHANGED <<raw, inst, replays, history, pc, cfg, force, records,
                   executor, taken, after, verdict, job>>

\* Each derived file is replaced, with what the records of this run say.
WriteArtifact ==
    /\ pc = "derive" /\ left # {}
    /\ \E f \in left :
           /\ First(f, left)
           /\ left' = left \ {f}
           /\ art' = IF Writes(f)
                     THEN [art EXCEPT ![f] = [cfg |-> cfg, rows |-> records]]
                     ELSE art
    /\ UNCHANGED <<raw, inst, replays, history, pc, cfg, force, records,
                   executor, taken, after, verdict, job>>

DeriveEnds ==
    /\ pc = "derive" /\ left = {}
    /\ pc' = "close"
    /\ UNCHANGED <<files, history, cfg, force, left, records, executor, taken,
                   after, verdict, job>>

\* The adapter: a request that arrived since still stops the attempt, and a
\* completed job has every row on disk.
Close ==
    /\ pc = "close"
    /\ verdict' = IF stop THEN "stopped"
                  ELSE IF TasksOf(raw) = Plan[cfg] THEN "completed"
                  ELSE "failed"
    /\ pc' = "drain"
    /\ UNCHANGED <<files, history, cfg, force, left, records, executor, taken,
                   after, job>>

-----------------------------------------------------------------------------
(* Stops, errors and crashes.                                              *)

\* pause or cancel, accepted as long as the job's record is running.
RequestStop ==
    /\ pc # "idle" /\ ~stop
    /\ stop' = TRUE
    /\ UNCHANGED <<files, history, pc, cfg, force, left, records, executor,
                   taken, after, verdict, published, completed>>

\* The outcome in the job's record.
Settled == IF verdict = "completed" THEN completed \cup {cfg} ELSE completed

\* Mutant: an attempt ends before its workers do.
DrainAtOnce ==
    /\ pc = "drain"
    /\ pc' = "idle" /\ completed' = Settled
    /\ UNCHANGED <<files, history, cfg, force, left, records, executor, taken,
                   after, verdict, stop, published>>

\* executor.shutdown(wait=True, cancel_futures=True), then the job's record is
\* written: a request that arrives after the adapter's last look is not seen.
Drain ==
    /\ pc = "drain" /\ Pool = {}
    /\ pc' = "idle" /\ completed' = Settled
    /\ UNCHANGED <<files, history, cfg, force, left, records, executor, taken,
                   after, verdict, stop, published>>

\* A write, a notification, a consistency check or the shutdown raises.
Raise ==
    /\ pc \in Phases
    /\ torn' = (torn \/ pc = "clean")
    /\ pc' = "drain" /\ verdict' = "failed"
    /\ UNCHANGED <<files, attempt, cfg, force, left, records, executor, taken,
                   after, job>>

\* The process dies, and the results it had not taken are lost with it.  One
\* worker is the process itself; the spawned workers of a pool outlive it.
Crash ==
    /\ pc \in Phases
    /\ torn' = (torn \/ pc = "clean")
    /\ pc' = "idle" /\ verdict' = "crashed"
    /\ running' = IF Workers = 1 THEN running \ Pool ELSE running
    /\ results' = {}
    /\ UNCHANGED <<files, attempt, cfg, force, left, records, taken, after, job>>

Run ==
    \/ CleanFile \/ CleanEnds \/ Refuse \/ Admit \/ Publish \/ Launch
    \/ \E t \in Tasks : StartTask(t)
    \/ \E w \in running, failed \in BOOLEAN : FinishTask(w, failed)
    \/ \E w \in running : FinishOrphan(w)
    \/ \E r \in results : Take(r)
    \/ Save \/ Continue \/ Stop \/ LoopEnds
    \/ SaveAll \/ WriteArtifact \/ DeriveEnds \/ Close \/ Drain

Next ==
    \/ \E c \in Configs, f \in BOOLEAN : Begin(c, f)
    \/ Run
    \/ RequestStop \/ Raise \/ Crash

Spec == Init /\ [][Next]_vars

\* The operating system schedules the attempt and its workers.
FairSpec == Spec /\ WF_vars(Run)

-----------------------------------------------------------------------------
(* Properties.                                                             *)

\* progress.jsonl never claims a run that a crash would lose: a row is shown
\* as saved only once raw_results.csv holds it.
ProgressIsDurable == published \subseteq raw

\* raw_results.csv and instances.csv agree, across --force, refused attempts and
\* crashes: every row belongs to the configuration of the instances beside it.
RowsMatchInstances == \A r \in raw : r.cfg = inst

\* Only the cleaning of --force drops a row or replaces it: pauses, errors,
\* crashes and resumed attempts keep every row that was ever saved.
RowsKept == [][pc # "clean" => raw \subseteq raw']_vars

\* A saved row that failed can be replayed, since its replay is written before
\* the checkpoint that holds the row.
FailuresReplayable == \A r \in raw : r.failed => r.task \in replays

\* Replay, rows, progress: whatever stops an attempt in between, what is written
\* later is backed by what was written before.
CheckpointOrder == ProgressIsDurable /\ FailuresReplayable

\* A crash at any instant loses at most checkpoint_interval records, and fewer
\* than that before the loop takes the run that makes the next checkpoint due.
LossBounded ==
    /\ Cardinality(records \ raw) <= Interval
    /\ pc = "take" => Cardinality(records \ raw) < Interval

\* Of the attempts only those that were killed leave workers behind: one that
\* completed, failed or was stopped ends after its workers.  A paused or
\* cancelled one has also saved what it computed.
StoppedIsDrained ==
    pc = "idle" => /\ Pool # {} => verdict = "crashed"
                   /\ verdict = "stopped" => records \subseteq raw

\* A completed attempt leaves a full set of rows, the instances of its own
\* configuration, and statistics and reports derived from exactly these rows.
CompletedConsistent ==
    pc = "idle" /\ verdict = "completed" =>
        /\ TasksOf(raw) = Plan[cfg] /\ inst = cfg
        /\ \A f \in Artifacts :
              Writes(f) => art[f] = [cfg |-> cfg, rows |-> raw]

\* What _check_output_identity asks of the directory.
Serves(c) ==
    /\ c \in completed /\ pc = "idle"
    /\ \A r \in raw : r.cfg = c
    /\ TasksOf(raw) = Plan[c]
    /\ inst = c

\* "A reused directory must not serve another configuration as this job."
ServesOwn ==
    \A c \in Configs : Serves(c) =>
        \A f \in Artifacts : art[f] = None \/ art[f].cfg = c

\* It does not unless the last --force in the directory was interrupted: refused
\* attempts, crashes and errors anywhere else leave no foreign derived file.
ServesOwnUnlessTorn == ~torn => ServesOwn

\* An attempt ends, with or without its tasks.
AttemptsEnd == [](pc # "idle" => <>(pc = "idle"))

=============================================================================
