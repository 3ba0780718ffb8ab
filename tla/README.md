# Maximum Coverage study: verification project

TLA+ models of the stateful parts of the repository, TLC runs that check them
on small instances, and TLAPS proofs of their main properties for every value of
the constants. The repository is a study of greedy failures in Maximum Coverage:
solvers, instance generators and a benchmark runner, a local Dashboard with a
persistent job queue over their results, and offline analyses. Most of its code
is pure computation over finished records. What is hard to test is the rest:
processes that die, files that several programs read and write, and searches
that prune.

Contents: [parts](#parts-of-the-system) ·
[plan](#plan) · [JobQueue](#jobqueue) · [BenchmarkRun](#benchmarkrun) ·
[SourceIndex](#sourceindex) · [Workbench](#workbench) · [Edits](#edits) ·
[Annotations](#annotations) · [ResultWall](#resultwall) · [algorithms](#coverage-algorithms) ·
[configurations](#configurations-and-instances) ·
[tables](#the-tables-of-a-finished-benchmark) · [DualBatch](#dualbatch) ·
[runs](#what-the-runs-show) · [fairness](#fairness) · [proofs](#proofs) ·
[disagreements](#where-code-and-documents-disagree) ·
[limits](#what-is-not-modelled)

## Parts of the system

Paths are under `src/src/maxcover/` unless they begin with another directory.

| part | state it keeps | operations | interacts with | what must be right |
| --- | --- | --- | --- | --- |
| Job queue, `dashboard_jobs.py` | `job.json` and `control.jsonl` per job, `owner.lock`, `execution.lock`; worker thread, child processes | submit, retry, resume, pause, cancel, list, read results; dispatch, recover, reap; execute a job | Dashboard (calls), runner (in the child), archive (reads records) | one computation at a time, none twice; settled records stay; directories have one writer and no reader beside it; accepted jobs settle |
| Benchmark runner, `benchmark.py`, `benchmark_artifacts.py` | the files of a result directory, the worker pool, records in memory | run or resume, `--force`, checkpoint, stop, derive artifacts | queue (progress, stop requests), CLI | no saved run is lost; rows, instances and derived files belong together; failures can be replayed; crashes lose a bounded amount |
| Derived index, `dashboard_index.py` | SQLite file with rows of parsed sources, `index.lock` | metadata, read, record, matches, rebuild, clear | readers of sources, several Dashboard processes | answers are the source's content at one instant, stale or torn content is never stored |
| Workbench and exports, `dashboard_workbench.py`, `dashboard_exports.py` | comparison cache, saved views | library, compare, analyze, detail, save a view | index, queue (reservation of directories) | a comparison is a snapshot of all its sources |
| Annotations and configurations, `dashboard_experiments.py`, `experiments.js`, `workbench.js` | SQLite annotations, `configs/local`, origins, `.editing.lock`; what a page shows and what was typed | annotate, copy, edit, check, save | workbench (validates sources) | no lost update; a local configuration has its origin |
| Archive, `dashboard_local.py` | SQLite flags | archive, restore, list | job records, saved views | only settled jobs are archived |
| Dashboard server, `dashboard.py` | service objects, rebuild lock | HTTP requests in threads | all of the above | reads go through the queue's reservation |
| Online matching page, `dashboard_matching.py` | a busy flag, result directories | run, list, read | two subprocesses with timeouts | one run at a time; what is shown was verified |
| Coverage algorithms, `algorithms.py`, `native/structure` | search stacks, heaps, incumbents | greedy, lazy greedy, branch and bound (two), local searches, CP-SAT | runner (one call per task) | lazy greedy selects what greedy selects; exact searches are exact; bounds hold after a timeout |
| Reference normalisation, `_benchmark_reference.py`, `_reference_contracts.py` | none | reconcile optima of the rows of an instance, say which instances have one | runner (derived artifacts) | one optimum per instance, never below a coverage, and none out of a false proof where there is a true one |
| R4 DUAL accounting, `analysis/r4_dual_io.py`, `r4_dual.py` | `.operation.lock`, `active_operation.json`, `execution.jsonl`, checkpoints | run, resume, analyze under a time budget | operating system (process liveness) | a killed command's time is charged once and never too low |
| Configuration and planning, `config.py`, `benchmark_planning.py`, `_registry_contracts.py` | the configuration, its cases, instances and tasks | parse, expand, count runs, plan, record | runner (its plan), generators | what a preview accepts can be run, as counted; scans share what they should and nothing else |
| Instance generators, `_generators_*.py`, `_generator_common.py`, `certificates.py`, `_instance_contracts.py`, `structure.py` | none | generate, certify, measure, record | planning | certificates are true of every draw; no record is refused |
| Audit of the stressors, `stressor_audit.py` | a report | audit the scans of a configuration | planning | a scan that only varies its intensity passes |
| Statistics and record contracts, `benchmark_statistics.py`, `_benchmark_*.py`, `_*_contracts.py` | none | derive tables from rows, refuse records that contradict themselves | runner (the last steps of an attempt) | results that are in order are never refused; the tables agree with each other |
| Reports, cartography | none | derive charts and text | runner | rendering of finished rows |
| Dashboard pages, `dashboard_ui/app.js` and others | what is shown and selected, requests on their way, a timer | select, run, poll, refresh, replay, open a report | Dashboard server (requests) | what is shown belongs to what is selected, whatever order answers come in; nothing waits for ever |
| CLI, workflows, offline analyses, tooling | none of their own | dispatch, batch scripts | the parts above | - |

The hard behaviours: servers and children that die at any instruction, and a
second server that finds what is left (queue); attempts that are stopped, raise
or die and are resumed, possibly with another configuration (runner); programs
outside the Dashboard that rewrite a source while it is parsed (index,
workbench); answers that are overtaken by later choices (pages); a time budget
that survives kills (R4 accounting); pruning with
deadlines (algorithms). `PROJECT.json` lists these hazards at their lines.

## Plan

In order of importance; the first nine are done.

1. `JobQueue`, with the abstract `SerialQueue` it implements. Proofs: types,
   serial computation, records and directories, stability, refinement.
2. `BenchmarkRun`: attempts in one directory. The queue gives an attempt its
   directory exclusively (`WritersReserved` there is the assumption here).
   Proofs: all its safety properties.
3. `SourceIndex`: the request protocol of the index with writers that no lock
   holds back. Abstract specification: `FreshRead`, an answer is the content at
   one instant of the request. Then `Workbench`, which composes requests into
   comparisons and adds its cache of results. Proofs: types, honest entries and
   the refinement for the index; honest results and snapshots for comparisons.
4. The coverage algorithms. `Greedy` is the abstract specification of
   `LazyGreedy`, and the searches start from it; `Solvers` composes them into
   one task of the registry. Proofs: `LazyGreedy` implements `Greedy`; an
   optimal result of `BranchAndBound` is one; and of a task, whatever its
   algorithm, all its safety properties.
5. `Edits` and `Annotations`: pages and services that edit the same files and
   rows under optimistic revisions. Proofs: types, origins, no lost update.
6. `DualBatch`: lock, active file, log and recovery by process liveness, with
   the commands they account for. Proofs: all its properties.
7. `Finalization`: what a completed benchmark derives from its rows, from the
   optima to the tables by case and by family. Proofs: the optima; the tables
   that only count (references, cutoffs, greedy failures) are accepted; the
   counts of all tables agree; a frontier exists. Left: the tables of means in
   `HonestBenchmarksFinish`, which is arithmetic of floats over sums.
8. `Generators`, `Stressors`, `InstanceRecords`, `Planning` and `Audit`: from a
   configuration to the tasks of a benchmark. Proofs: certificates are true for
   every configuration. Left: what the preview promises, and the isolation of
   scans.
9. `ResultWall`: a page whose answers come in any order. Proofs: all its
   properties. Left: the other pages that poll and refresh (`workbench.js`,
   `research.js`).
10. Left: two attempts at once in one directory (a command-line run beside a
    queue job), and the composition of `JobQueue` with `BenchmarkRun` by their
    common records.

Runs stay at two actors of each kind and the smallest plans in which every
property has a violating mutant; each property is checked with one. Parts that
share no state are checked in one run, as alternatives of its first step.

## JobQueue

`JobQueue.tla` models `JobService` and the child side of `dashboard_jobs.py`.

| variables | code |
| --- | --- |
| `status`, `owner`, `created`, `output`, `control` | the fields of `job.json` and the last line of `control.jsonl` |
| `ownerLock`, `execLock` | `_FileLock` on `owner.lock` and `execution.lock`, released when their process ends |
| `server`, `recovering`, `worker`, `wjob` | life of a server process, `_recovering`, position of `_work`, the job it dispatched |
| `api` | the API call inside `_mutex`, with what it has read |
| `child`, `mem`, `timer`, `runs` | position of a child, its record in memory, its wall-clock timer; how often a job was computed |

A server starts only when `owner.lock` is free (`Start`), closes, or dies at any
step. The worker recovers under `execution.lock` (`RecoverBegin`, `RecoverMark`,
`RecoverEnd`), scans and dispatches the oldest record (`Dispatch`), starts the
child (`Spawn`) and settles what it left (`Reap`). Calls hold `_mutex` from
their first to their last step; the two-step control request is three actions
(`ControlBegin`, `ControlAppend`, `ControlMark`). A child takes
`execution.lock` or ends (`ChildTakesLock`, `ChildRefused`), re-reads the record
(`ChildBegins`, `ChildDeclines`), computes, and publishes; searches
(mine/refute) have the timer thread (`TimerFires`, `TimerExits`). A record is
read and written in one step because `_write` replaces the file atomically.

Two constants select what else may happen: `FaultyDisk` lets `_write` raise,
`LateCalls` lets an API call outlive the worker of its closed server, which
`close()` does not wait for. The record properties are stated without them;
serial computation is checked and proved with them.

`SerialQueue.tla` is what the queue promises whatever crashes: one computation
at a time, each job at most once, a success only out of the job's own
computation, and settled jobs stay settled.

## BenchmarkRun

`BenchmarkRun.tla` models `_run_benchmark_controlled`, the file order of
`benchmark_artifacts.py` and the adapter `_execute_benchmark`.

| variables | code |
| --- | --- |
| `raw`, `inst`, `art`, `replays` | `raw_results.csv`, `instances.csv`, derived files, `failures/` |
| `pc`, `cfg`, `force`, `left` | position of the attempt, its configuration and option, the files a phase has still to treat |
| `records`, `running`, `results`, `taken` | rows in memory, workers that compute, with their attempt and task, rows not yet taken, `completed_index` |
| `stop`, `verdict`, `published`, `completed` | the control request, the outcome, `progress.jsonl`, completed jobs |

An attempt is admitted (`CleanFile`, `Refuse`, `Admit`), computes (`StartTask`,
`FinishTask`, `Take`), saves (`Save`), polls for a request (`Continue`, `Stop`),
ends its loop, saves everything and derives the artifacts one by one
(`SaveAll`, `WriteArtifact`), and closes; it may raise or crash at any point.
A row carries the attempt that computed it, so a row computed again is another
row: that is how a lost row shows. A worker carries its attempt too. A crash
takes the results that nobody took and, with one worker, the computation, which
is in the process itself; the spawned workers of a pool are processes of their
own and go on (`Crash`, `FinishOrphan`), while later attempts begin and end
beside them. They write nothing into the directory and nobody takes what they
return. `StoppedIsDrained` therefore says of killed attempts nothing, and of all
others that they end after their workers. The pool's own queue of calls is left
out: a shutdown waits for a call that is in it as for one that runs, and orphans
take it up as they would compute a task, so it adds no effect on the directory.
Rows, statistics and reports have no other content; a derived file is the
configuration and the rows it was made from.
An attempt may die while `--force` removes files, which leaves a directory that
a later attempt takes for a fresh one; `torn` remembers it, and an accepted
directory serves only its own files unless it is so (`ServesOwnUnlessTorn`).

## SourceIndex

`SourceIndex.tla` models `DashboardIndex._request`, with the loader that
`dashboard_workbench.py` gives it, and the database all Dashboard processes share.

| variables | code |
| --- | --- |
| `files`, `writes` | `paths.jsonl` and `raw_results.csv` of each source, by version |
| `cache` | the tables of `index.sqlite3`: per file an identity and the parsed document |
| `pc`, `src`, `kind`, `fresh`, `pass` | position of a request, its source, the path `_source_path` chose, `refresh`, the pass of the loop |
| `sig`, `trust`, `doc` | `before`, `cache_available`, the document found |
| `result`, `moved` | the last answer; history: did the source move since the request began? |

A request chooses its path (`ChoosePath`), takes the identity (`TakeIdentity`),
looks the entry up (`LookupHits`, `LookupMisses`, `LookupFails`), else lets the
loader choose (`ChooseAgain`), open (`OpenSource`) and parse (`ReadSource`) the
file, compares (`Accept`), stores (`Store`, `StoreFails`), compares again and
answers (`AnswerRequest`), starts its second pass (`TryAgain`) or raises
(`FailRequest`). Writers replace a file, write into it or remove it at any step.
A parse reads the file in several reads: `from` and `to` are the versions that
the first and the last of them saw, and a document is whole when they agree.

An identity (device, inode, size, both times) is taken to change with every
write: two writes of one size within one tick of the file system's clock are out
of the model. What a parser refuses is a set of versions; a torn document may
parse or not.

`FreshRead.tla` is what the index promises: a source is read in one step, and a
request fails only if its source changed meanwhile or cannot be read.

## Workbench

`Workbench.tla` models `compare` and `analyze` of one `WorkbenchService`, whose
requests of the index are those of `FreshRead` (an INSTANCE over these
variables), with its cache of results and `rebuild_index`.

| variables | code |
| --- | --- |
| `content`, `asked`, `overtaken`, `received`, `versions` | the sources and requests, as in `FreshRead` |
| `comparing`, `want`, `view` | position of a comparison, its sources, its selection and page |
| `sigs`, `later` | the signatures of the first and second `_source_signatures` |
| `got`, `told` | the documents read, the result |
| `snap` | history: what the sources held when the first collection ended |
| `memo` | `_comparisons`, oldest use first |

Collections take identities one at a time (`CollectFirst`, `CollectSecond`),
reads are requests (`AskNext`, `IndexStep`, `Receive`); the cache is read and
written in one step each, under its lock (`Recall`, `Forgotten`, `StoreResult`), with
the comparison of signatures (`Verify`) in between and outside it. Sizes of
results are left open, so a store may evict any number of the oldest entries.

## Edits

`Edits.tla` models the configuration page of `experiments.js` with the requests
it makes of `ExperimentsService`: `read_config`, `copy_config`, `preview` and
`save`.

| variables | code |
| --- | --- |
| `text`, `origin`, `lock` | the files under `configs/`, `config_origins/`, and `.editing.lock` |
| `path`, `seen`, `editable` | the configuration a page shows, its text (the revision is its hash) and whether it may be edited |
| `draft`, `mode`, `checked` | the text area, whether it or the form was changed last, and whether this version was checked |
| `at`, `goal`, `raw` | position of the page's request, the file it is about, the text it has read |

Configurations are loaded, changed in the form or in the text, checked, and
copied or saved. A copy takes a name of its own, creates and fills its
origin, and then writes its target; a save takes the lock, compares the
revision with the file, replaces it and unlocks. Every step may fail, and a
write that fails may leave a torn file. The page disables its controls while it
waits, so that a page and its request are one process, and several pages, of
one server or two, are several editors.

## Annotations

`Annotations.tla` models the library page of `workbench.js` with
`annotations` and `set_annotation`.

| variables | code |
| --- | --- |
| `row`, `txn` | the rows of `annotations` with their revisions, and whose `BEGIN IMMEDIATE` transaction is open |
| `shown`, `answer` | `state.annotations` of a page, and an answer to `loadAnnotations` on its way |
| `dialog`, `base`, `entry`, `saving` | the source being annotated, the revision and note that its dialog was opened with, what was typed, the position of the request |
| `readable` | the sources whose records a request can still read |

Answers may come late and replace newer ones; the dialog keeps the revision it
was opened with; the transaction compares that revision, validates the source
again and inserts. `NoLostNote` says that a note is replaced only by somebody
who saw it.

## ResultWall

`ResultWall.tla` models the page of `app.js`. Nothing runs beside anything else
in a page, but every `await` lets other events and answers in: an action is a
task of the browser, an event or an answer with all that its callbacks do until
they wait again.

| variables | code |
| --- | --- |
| `currentConfig`, `currentResult`, `currentReplay`, `results`, `configs`, `replays`, `pollingJobId`, `pollTimer` | the fields of `state` with these names; `savedResult` is what is remembered in the browser |
| `configSelect`, `resultSelect`, `resultOptions`, `replayScope`, `runEnabled`, `resultMessage`, `replayOutput` | the elements of the page |
| `reportOpen`, `reportContent`, `reportClosing`, `lightbox` | the dialog of the report, a close event that is still to come, and the result whose chart is enlarged |
| `lists`, `configAsked`, `resultAsked`, `reportAsked`, `replaying` | requests without an answer, with what the function that waits holds in its variables |
| `polls` | the calls of `pollJob` that are not over: job, interval, the answer that is awaited |
| `status`, `posted`, `accepted` | the server: its jobs, submissions on their way to it and back |

The page numbers its requests (`configRequestId`, `resultRequestId`,
`reportRequestId`, `replayRequestId`, `refreshRequestId`) and compares the number when
the answer comes. What counts is whether it is still the last one: a request has
the field `current`, which a later one of its kind takes from it (`Older`). A
refresh (`BeginRefresh`) asks for its lists, shows them (`ListsArrive`), waits for
a preflight (`ConfigAnswer`) and tries results until one can be read
(`ShowResults`, `ResultFails`); it is a record in the requests that it waits for, with
`choice` set as soon as `resultSelectionId` changes. A polling sets its interval
after its first answer (`TickRunning`); `pollJob` clears the one of its
predecessor, which may have none yet. An answer to a tick says what the server
knew when it was made, and so does the list of jobs. The first of several
visible cases, results or configurations is left open: any of them may be it.
While the dialog of a report is open the page behind it is inert, but answers
come.

## Coverage algorithms

`Coverage.tla` defines instances, coverage, gains and what an optimum is; a
bitset of `model.py` is a set. Each algorithm is a module with one action per
round of its loop; `Solvers.tla` runs one of them on one instance and ends with
the checks that `AlgorithmSpec.run` and `Solution` make of its result.

| module | code | variables |
| --- | --- | --- |
| `Greedy` | `greedy`, Python and Rust | `selected`: the sets selected so far |
| `LazyGreedy` | `lazy_greedy`, Python and Rust | `queue`: the heap, the bound of each set that is not selected |
| `BranchAndBound` | `branch_and_bound`, `branch_and_bound_enhanced` | `pending`: the stack of nodes; `best`: `best_selected`, `best_value`; `options`, `status` |
| `LocalSearch` | `local_search`, `multi_start_local_search` | `current`, `swaps`, `restart`: the restart in progress; `best`, `plan`, `status`; `high`: history, the best value held |
| `Baselines` | `brute_force`, `randomized_greedy` | `tried`: the selections evaluated; `current`, `rcl`: the sets drawn so far, the length of the candidate list |
| `Oracle` | `cp_sat_oracle` | `best`, `status`, `bound`; what CP-SAT may answer is `Answers`, external |
| `Solvers` | `AlgorithmSpec.run`, `_finish`, `Solution` | `algorithm` and all of the above |

A node is the set of its undecided candidates, the sets chosen and what they
cover. The plain search walks a fixed order, where the candidates left are a
suffix of it; choosing the first of them by size (`AheadBySize`) is the same
walk, so both searches share `Branch`, and `Closed` holds the tests in which
they differ. Ties follow the sort keys and the stability of the sort. A
deadline may pass whenever the code looks at the clock (`Timeout`): at a node,
before a swap or while swaps are compared, which have no effect before one is
made. Random restarts may start anywhere. `cp_sat_oracle` trusts its solver: the
model's constraints (`Admitted`), a proof with the status OPTIMAL and a bound
that is one.

## Configurations and instances

These modules go from the text of a configuration to the tasks that
`BenchmarkRun` takes as its plan. They extend each other in this order.

| module | code | what it adds |
| --- | --- | --- |
| `Generators` | `_generators_random.py`, `_generator_common.py` | nine families: their conditions (`...Accepted`), what they may draw (`...Draws`) and the instance of a draw |
| `Stressors` | `_generators_controlled.py`, `_generators_adversarial.py`, the registry `GENERATORS`, `certificates.py` | the constructed families, and the optimum that each comes with (`Certificate`, `CertificateRefused`) |
| `InstanceRecords` | `structure.py`, `_instance_record`, `_instance_contracts.py` | the measures of an instance and the record of `instances.csv` with its contract (`InstanceRecordRefused`) |
| `Planning` | `config.py`, `_registry_contracts.py`, `benchmark_planning.py`, `plan_benchmark` | `Parse`, `Preview`, `Start`, `PlanInstance`, `Record`, `Schedule` |
| `Audit` | `stressor_audit.py` | `AuditScans`, which takes the place of records and tasks |

| variables | code |
| --- | --- |
| `config`, `cases` | the document, and the cases that `parse_config` expands it to |
| `stage` | how far the command is, or how it ended: `refused`, `failed`, `duplicates`, `ready`, `audited` |
| `preview` | the runs that `plan_benchmark` counts, if it was asked |
| `drawn` | history: the draws of each stream of random numbers |
| `planned`, `tasks`, `report` | instances with their seeds and couplings, tasks, verdicts of the audit |

A generator is a function of its parameters and of what it draws. The first
instance of a stream (`Stream`: a seed and the parameters on which the number
and kind of its draws depend) draws anything, and every later one of that stream
the same again, which is what a seed is for: so that the modules say for every
draw what holds, and of two levels of a scan what they share. The stream is where
`_coupling_pair_id`, `_structural_coupling_pair_id` and the seed groups decide
it; hashes are the tuples of what they are made from. Shuffles are restricted by
`Shuffles` and `Swaps`, and the density of a paired control, which the code
computes and compares, is the token `Roots[n, m]`.

The preview does not compute `run_id`s. Two variants of an algorithm that share
a seed and all options, and two cases of a seed group that differ in nothing but
their names, make one run twice: the preview counts it twice, and the benchmark
refuses to begin. `PreflightPromises` states that this is all it does not see.

## The tables of a finished benchmark

When every task of the plan has its row, the runner reconciles the optima and
writes the derived tables one after the other. Each record of a table has a
contract, conditions between its fields without which its constructor raises;
an error there ends the attempt, and every later one, because the rows are on
disk by then. Two computations of the same fact therefore meet in every record. A table is
written with a fixed number of decimals and its records are made again, under
the same contracts, when the charts of the report read it and when the validator
of the CI reads all of them.

| module | code | what it adds |
| --- | --- | --- |
| `Floats` | `fmean`, `median`, `variance` comparisons, ten-decimal fields | a float is a fraction with `Precision` significant bits, a field has `Decimals` decimals, one of `summary.csv` has `SummaryDecimals`; the pair 9 and 2 behaves like 53 and 10: the mean of three .2 is not .2 |
| `References` | `_benchmark_reference.py`, `_reference_contracts.py` | the normalised optima (`Optimum`, `OptimaRefused`), gaps, and the four tables of references |
| `Statistics` | `benchmark_statistics.py`, `_benchmark_quality.py` and their contracts | the ten tables by case, each as a record and a condition `...Accepted` |
| `Associations` | `_benchmark_quality_associations.py`, the performance associations and their contracts | the six tables by family, each a line fitted to one point for each instance |
| `Rereading` | `to_csv_row` and `from_csv_row` of every record | each record with its decimals (`Reread...`) and whether it is accepted again (`...Readable`) |
| `Finalization` | the order in which `_run_benchmark_controlled` writes the tables, `validate_benchmark_output.py`, `Outcomes` | `Normalize`, `WriteTable`, `Validate`; `refused` when a step raises, for the report also when a table it charts (`Charted`) cannot be read |

| variables | code |
| --- | --- |
| `results`, `certificate` | the rows of `raw_results.csv` and `known_optimum` of `instances.csv` |
| `optimum`, `gap` | what `_normalize_optima` makes of them |
| `truth` | the optimum, which only a proof knows |
| `written`, `refused` | how many of `Files` are written, whether the next ended the command |
| `verdict` | what the validator found wrong, `Absent` before it ran |

A sample is a set of pairs, run and value. A record has every count, rate, mean,
extreme and status of its table, and its contract every condition between them;
identifiers, which a table only copies, types and versions are left out. Standard
deviations appear only as whether they are there and whether they are zero, the
test that all decimals agree (which is exact for fewer than four values); of a
fitted line only whether it exists, or is level, is kept, and of an interval that it is
there. A rate is blank where there is nothing to count (`Rate`) and is compared
with the quotient of its two counts (`RateAccepted`), once when its record is
made and once when it is read. Three layers of the code overlap in
`_normalize_optima`: certificates, claims of optimality and bounds.
`"report"` stands for `search_comparison.csv`, the stochastic summary and the
text, which refuse nothing; `publish_checkpoint` belongs to `BenchmarkRun`.
`OutcomesAssumption` is what the runner checks before a row exists: a coverage is
recomputed from the selected sets, so that it does not exceed the optimum, and
`AlgorithmSpec.run` refuses a heuristic that says `optimal` and an exact
algorithm that says `feasible`. Bounds, claims of optimality and certificates
are whatever algorithms and generators say. `QuotientsAssumption` says of the
floats that the quotient of two counts of a benchmark, and its decimals, lie
between zero and one, are zero for zero only, and keep their order, which TLC
evaluates for its precision. `Fragile` names the four tables that refuse results which are in order
(see [disagreements](#where-code-and-documents-disagree)).

## DualBatch

`DualBatch.tla` models `run` and `analyze` of `r4_dual.py`, `validate_batch` and
`verify_summaries` of `validate_r4_dual.py`, all inside `RuntimeBudget` of
`r4_dual_io.py`.

| variables | code |
| --- | --- |
| `lock`, `active` | `.operation.lock`, and `active_operation.json`: absent, empty or written |
| `entries`, `charged`, `total` | `execution.jsonl` by operation, and its sum |
| `config`, `graphs`, `tables`, `analysis` | `config.json`, the checkpoints, the CSV files by the records they hold, `analysis_status.json` |
| `pc`, `kind`, `op`, `prior`, `began`, `todo`, `hand`, `rows`, `quota`, `after` | position and locals of a command |
| `now`, `touched`, `spent`, `used` | the clock; whether a checkpoint was edited by hand; history: how long operations really ran |

A command takes the lock (`AcquireLock`), finds what its predecessor left
(`EnterClean`, `Recover`, `Forget`, `Refuse`), announces itself in two steps
(`Create`, `Write`), reads, verifies and computes graphs with a check of the
budget before each (`Check`, `ReadRow`, `Verify`, `Compute`, `Turn`, `LoopEnds`),
writes its tables and reports (`SaveTable`, `Report`), and closes (`Log`,
`Unlink`, `Release`, `Leave`). It may raise, fail to log or to unlink, or be
killed between any two of these. A kill between `Create` and `Write` leaves an
empty active file, which the next command refuses until somebody removes it;
its few instants are charged to nobody. The model counts them neither.

## What the runs show

| run | instance | shows |
| --- | --- | --- |
| `queue_records` | 2 servers, 2 benchmarks, 2 directories | a computation goes on under a running record of its owner; writers' directories are reserved and unread; settled records stay; a stop request on a queued job survives the server's death |
| `queue_faults` | 2 servers, 2 benchmarks that are paused and resumed in one directory; writes fail, calls come late | computations stay serial, none twice |
| `queue_settle` | 2 servers, 2 searches that are retried and time out, fair | the queue implements `SerialQueue`, and accepted jobs settle under a server that stays |
| `timer_race`, `orphan_race` | 1 and 2 servers, searches | violations, see below |
| `run_attempts` | 2 configurations sharing a task, 2 workers, interval 2, 3 attempts, fair | rows kept, progress durable, rows and instances coherent, failures replayable, bounded loss, drained stops, consistent completion, accepted directories serve their own files unless torn; every attempt ends |
| `interrupted_force` | the same | violation, see below |
| `index_two_files` | 1 reader, a source with both kinds | violation, see below |
| `dashboard_services` | index: 2 readers, 2 sources of one kind each, 3 writes, one of them unparsable; comparisons: 2 threads, 2 sources, 3 writes, 1 result kept, a cached and an uncached view; edits: 2 editors, 1 template, 1 copy, 2 valid texts and a torn one; annotations: 2 pages, 1 experiment, 2 notes, 2 revisions; page: 1 configuration, 2 results, a saved case and a job of the first, 2 jobs, 2 pollings, 1 submission and 2 answers on their way | entries are honest and requests implement `FreshRead`; results are snapshots, cached ones too; copies have complete origins, no edit is lost; no note is lost; on the page, what is shown is selected, and the open report, chart and replay belong to it, no loading is forgotten, a refresh leaves a later choice, experiments start only on a valid preflight of what is selected, and the polled job is asked for until it ends |
| `solvers` | tasks: 4 elements, every 4 sets from a pool of 5, k 2 and 3, all options, 1 and 2 starts, limits 1, 3 and none, fair; plans: 77 configurations, with one scan of each family at least | lazy greedy follows greedy; optimal is optimal; bounds hold; nothing found is lost; every result is accepted; every task ends. What the preview accepts runs as counted, but for duplicates; certificates are optima and traps catch greedy on every draw; the levels of a scan differ by their intensity only, and those of a controlled family pass the audit |
| `studies` | dual: 2 commands at a time of 3, 2 graphs, a budget of 2 and a clock to 2; tables: 4 instances in 3 cases of 2 families, 6 variants, 972 outcomes | a live operation is never recovered, each is charged once and in full, the budget is kept, tables are made of verified checkpoints; no table is made of a false optimum where there is a true proof, tables agree, honest results are refused only by the fragile tables, and pass the validator but for a rounded `summary.csv` |
| `honest_tables` | 2 scans of mixed clusters, 3 repetitions with one density and one gap | violation, see below |

Bounds. Two servers are a dead or closed one and its successor; a third adds no
new relation, because only the locks and the records connect them. Two jobs
give a competitor to every job. `MaxPending` is 2, so that both may be queued:
the limit only refuses calls, and a refused call changes nothing, so a smaller
one gives some of the same behaviours and no others. Two
servers are symmetric (only locks order them), so runs without temporal
properties use symmetry on them. For the runner, plans `{1,2,3}` and `{3,4}`
share a task, so that a row can be resumed under the wrong configuration; three
attempts are an old one, an interrupted one and a repair; with interval 2 a
checkpoint falls inside and at the end of a plan. Created times and attempts
are bounded by the number of jobs and by `MaxAttempts`.

For the index, two readers are one that stores and one that is answered from what
was stored; three writes are the version an identity was taken of, one read in
its place and one more to come back to; the second is the one no parser accepts. One
kept result makes every store meet the limit. Two editors and two pages are the
loser and the winner of a race; two revisions let the loser's base be any
earlier row. The four services and the page share no variable, so that a behaviour chooses
one of them at first (`MCDashboard`), and so do the two studies (`MCAnalyses`).

For the page, two answers on their way are an overtaken request and the one
that overtook it, replays and ticks not counted; two results are the one that is
left and the one that is chosen, two jobs the one that is polled and the one that
replaces it. Everything at once is out of reach, so that a behaviour is one of
four scenes (`InScene`), each with what it is about and all orders of its
answers: `results` has results, cases, reports and replays; `finished job` a job
that may end while results are shown or chosen; `preflights` a configuration, a job and
a submission; `pollings` two jobs, two pollings and one refresh. The proofs
have no scenes.

Three commands are a killed one, the one that recovers it and one that comes
after; the clock passes the budget inside each. The four instances of the
tables are two of a case (without a proof, with contradicting ones, with
errors, with equal and different measurements) and a scan of two clustered
ones; of them one varies over every combination of results that can go wrong
and the others over three.

The pool of the solvers has equal sets, sets inside others, and instances on
which greedy misses the optimum; with k below, at and above the number of
distinct sets left, all tests of a node decide one.

The configurations have universes of 2 to 18 elements, two to five sets (up to
nine where they are copied) and two or three levels, one or two repetitions. Sets
are drawn freely where there are few and in two or three orders where they are
shuffled: forwards, backwards and from the middle, so that the pools of a family,
and a trap and what is left beside it, come to lie on different elements. Twins,
near twins, unpaired and doubly paired controls, old versions and one configuration
for each reason to refuse one are among them. A task and a plan share no
variable either, and a behaviour of `MCSolvers` is one of them.

`StopRequests` adds to the queue of `queue_records` a history of the jobs for
which a stop request was on disk while they were queued, `MCTables` to `honest_tables`
the tables that are refused and those that cannot be read, all looked at in one
step (`Inspect`).

Each property has a mutant in `PROJECT.json`: a changed definition, kept in the
module beside the original, under which TLC finds the property violated.

## Fairness

`JobQueue!Fairness`: a living process keeps going. The children and an API call
in progress need weak fairness only. The worker needs strong fairness, since API
calls take the same mutex again and again; a `threading` lock does not starve a
waiter that keeps asking, and no call holds the mutex for ever. Users need
not call and processes need not die. Children terminate because searches have
their timer and benchmark tasks their limits. `BenchmarkRun` asks for weak
fairness of the steps of the attempt and of all workers, orphans included; requests, errors and crashes are not fair.
`Solvers` asks for weak fairness of the algorithm, which is alone in its process;
deadlines are not fair, so that tasks end without them. `ResultWall` states only
safety: servers need not answer. Planning and the audit are
one function after the other, and nothing is asked of their ends.

## Proofs

Eight modules are checked by TLAPS, each in at most a few minutes, with no
assumption but the named ones on the constants, and the hypotheses on
`FaultyDisk`, `LateCalls` and `OneKind` in the statements.

* `JobQueueProofs`. `SerialComputation` needs only that a child in its critical
  section holds `execution.lock` in its own name, that it was dispatched once,
  and that a record is never queued again. `RecordsFollowComputations` needs
  more: with `~FaultyDisk` and `~LateCalls`, a computation's record is running
  and owned, recovery holds `execution.lock` while it marks, a worker that
  waits knows its job, and a call that is about to mark has read a record that
  is still queued. `SettledStays`, `OneWriterNoReader`
  and `QueueImplementsSerial` follow from this invariant step by step; in the last
  each action maps to an action of `SerialQueue` or to a stutter. `StopsHold`
  needs no hypothesis on failures: requests are for benchmarks only
  (`StopsBenchmarks`), a child that was not spawned has decided nothing
  (`FreshMemory`), and a job of the history keeps its request while neither its
  record nor the memory of a child says completed (`Stopping`), because a
  benchmark's last look at `control.jsonl` comes before that decision.
* `BenchmarkRunProofs`. `RowsAreKept` rests on the invariant that records in
  memory include the rows on disk whenever the next write may happen;
  `RowsCoherent` on all rows in memory, in flight and on disk having the
  attempt's configuration once admitted; `CompletionIsConsistent` on the derived
  files written so far naming exactly the records. `ServesItsOwn` adds what a
  derived file on disk says about the rows beside it, which cleaning breaks
  between its steps: hence the directories that are torn. `LossIsBounded`
  counts: records not on disk are those of the current interval. A crash loses at
  most `Interval` of them, all of these when it comes after the run that makes the
  checkpoint due and before its write, and fewer when the loop asks for the next
  run. `StopsAreDrained` needs that every worker is of an attempt that began
  (`Engaged`), so that a new attempt starts with no worker of its own, whatever
  orphans compute.

* `DashboardProofs`, the index. Versions are numbered by the writes, so an identity that
  is gone does not come back. The invariant says of a request in progress that
  whatever it read differs from its identity only if that identity is gone
  (`Parsed`), so that the comparison in `Accept` makes the document the content
  of the identity, and that a source not written since the request began is
  still as the request knows it (`Unmoved`), so that a failure has a cause.
  `OneKind` is needed where the loader chooses the file again: without it
  `EntriesHonest` is false (`index_two_files`). The refinement maps
  `AnswerRequest`, `FailRequest`, `Request` and the writers to actions of
  `FreshRead`, everything else to stutters.
* `SolversProofs`, branch and bound. The invariant says of every selection of k sets that
  the best value is at least its coverage, or that a node on the stack can be
  completed to one as good (`Completes`). The plain search completes a node with
  exactly as many sets as it has slots, which is why it may drop a node with
  fewer sets left; the other with at most as many, which survives that
  candidates are removed (`Replacement`). The lemmas about single nodes are that
  a closed one loses nothing and that branching divides the completions.
  `Extension` then turns a best selection of fewer sets into one of k. The
  arguments that choose a least or a largest set go through the well-founded
  order of subsets, because induction is not available.
* `SolversProofs`, lazy greedy. Gains shrink as more is covered, so each bound in the heap
  stays an upper bound; a refreshed gain ahead of all bounds is then ahead of
  all gains, ties by index included, and the step is one of `Greedy`. A bound
  pushed back is a stutter.
* `SolversProofs`, a task of the registry. `TaskInv` has one part for each
  algorithm, under the condition that it is the one that runs. For the local
  search it is that the best selection and the one in hand have the highest value
  held (`Highest`), which a restart loses only where a better one is kept; for
  exhaustive search that the best of those tried is kept; for the external solver
  what its answer admits. A result out of time leaves a gap (`GapLeft`), which is
  what `Solution` demands of the bound. `EveryResultIsAccepted`,
  `EveryClaimHolds` and `BestIsNeverLost` then follow in the state.

* `WorkbenchProofs`. As for the index, an identity that is gone does not come
  back. The invariant says that what a comparison has read of a source is the
  version of the first collection if that identity is still there or was there
  at the second (`Unchanged`, `Seen`), so that `Verify`, which finds all of them
  equal, makes the result a snapshot; and that a result in the cache is of the
  versions in its key (`MemoHonest`), so that a hit needs no more than a miss.
* `DashboardProofs`, edits and annotations. What is saved is a checked text of a copy whose lock the page
  holds; between the comparison and the replacement the file is the one that
  was shown (`StillShown`), because every other writer needs the lock or makes
  a file of its own name (`NamesAreFresh`). A copy's target is written after its
  origin is complete (`OriginsFirst`). For notes the transaction plays the lock,
  and the row compared is the row replaced (`RowsTaken`).
* `AnalysesProofs`, the DUAL batch. Whoever is inside holds the lock and owns the active file
  (`Holders`, `Announced`), so that recovery meets only dead operations; the
  log and the active file together account for the time that operations ran
  (`Accounts`), and what a command was charged with before it plus its own time
  is checked against the budget (`Funds`). `TablesAreVerified` follows a
  checkpoint from its reading to the table (`Reading`).
* `AnalysesProofs`, the tables. `OptimaAreTrue`: with a true certificate, or with none
  and a true claim, normalisation either refuses or has the optimum, since all
  claims must agree and no coverage exceeds it. `NormalizationAcceptsHonest`:
  it refuses nothing that is honest. Of the tables, whatever TLC evaluates by
  counting is proved by maps: two sets have the same number of members because a
  one-to-one map leads from one onto the other (`SameNumber`), a case has one run
  of a deterministic variant on each instance (`RowsCounted`), and the runs of a
  record are split by their status without rest (`StatusesCounted`,
  `RunsPartitioned`). A rate of counts that are at most their total is accepted
  as computed and as read (`RatesAccepted`), where `QuotientsAssumption` is used.
  `ReferencesNeverRefused`: for results of any kind the tables of statuses, of
  their counts and of cutoffs satisfy their contracts; only an algorithm with the
  identifier `known_optimum_certificate` could make a proof count twice.
  `HonestCountsAccepted`: so does the table of greedy failures, if no optimum is
  below what greedy found. The inductive invariant is `Known`: from the first
  table on the optima are those normalised from the results, no claim was
  refused, and every gap is that of its row. From it, from `GapsKnown` (a row has a
  gap exactly when its optimum is positive and its coverage is there) and from
  `PartsPrecise` (what remains of a gap is zero exactly at the optimum),
  `TablesCountTheSame` proves `CountsAgree`, a conjunct of `TablesAgree`, and
  already for unfinished benchmarks: case by case (`CasesAgree`), pair by pair
  (`PairsAgree`) and group by group (`GroupsAgree`). `SomethingUndominated`:
  domination is transitive and irreflexive on points whose coordinates are
  numbers (`Positioned`, true of means), so that an algorithm with the least set
  of dominators has none.

* `ResultWallProofs`. What a late answer may do depends on its number alone, so
  that the invariant speaks of current requests. There is at most one for a
  result, and none while one is shown; while none is shown and none failed, it is
  for the selection (`ResultInv`), which is what makes an answer that is taken
  agree with the select. A configuration that is shown is the selected one, and
  its preflight is awaited while it loads (`ConfigInv`). A current request for a report whose
  dialog is open is of the result behind it. A current replay is of a case of the
  result while its cases are listed (`ReplayInv`), and the selected case is among
  those listed. The timer is an interval that is set, and the polled job has a
  polling that asks (`JobsInv`): `pollJob` clears the interval only of a job that
  it replaces, or that has ended. At most one refresh is current, in the lists, in
  a preflight or in the results that it tries (`RefreshInv`), so that
  `ChoicesAreKept` compares with the only one that may show results.

* `CertificateProofs`. What a generator draws is arbitrary, what it checks of its
  parameters is all that is used. A trap (`TrapShape`) begins with the bait and
  the two blocks, and no other set is larger than the bait, nor adds to it more
  than the rest of a block: distractors of version 2 have fewer elements outside
  the bait than a block (`DistractorAddsLittle`), those of
  `controlled_adversarial` and its padding none (`ControlledInside`). So the
  blocks are an optimum (`BlocksAreOptimum`), and greedy takes the bait and then
  covers a block and the bait, ties included (`GreedyIsCaught`). In
  `dominated_heavy` each set is part of an interval as long as an anchor, so that
  k of them cover no more than k anchors, which are disjoint and adjoining
  (`AnchorsAreOptimum`). `CertificateInv` says so of all instances planned so far.

Only model-checked: `PreflightPromises` and `ScansIsolated`, which compute sums,
ranks and folds over draws, so that for any configuration they are inductions
over data; of `HonestBenchmarksFinish` the tables with a mean, whose contracts
compare it with its extremes, and the fitted lines; of `TablesAgree`
that the cases of a family add up (`FamilyTablesAgree`) and that the mean
recovery is one when the mean remaining gap is zero, all of them arithmetic
over sums of a whole sample; liveness (`AcceptedJobsSettle`, `AttemptsEnd`,
`SolversEnd`), which TLAPS does not reach.

## Where code and documents disagree

* `timer_race`: `dashboard_jobs.py` 837-843 changes the shared record before it
  takes `terminal_lock`. A timer that fires in between writes a failed record
  with a summary, which `_validate_record` refuses: the job shows as damaged.
* `orphan_race`: line 3 says that a restarted server waits for an orphan child.
  It waits only for one that already holds `execution.lock`.
* `interrupted_force`: cleaning removes `raw_results.csv` and `instances.csv`
  first. If it dies then, a later attempt of another configuration takes the
  directory for a fresh one and may complete beside a stale
  `search_comparison.csv`.
* `index_two_files`: `dashboard_index.py` line 3 says that every access checks
  the identity of the source file before and after reading. `_load` decides
  again whether `paths.jsonl` exists, so it may read a file other than the one
  whose identity is checked, and store it under that identity.

* `honest_tables`, five times. `_quality_contracts.py` 724 refuses a mean of
  gaps that exceeds their maximum, which the mean of three gaps of 1/5 does by a
  rounding. `_statistics_contracts.py` 247 allows such an excess but not after
  it was rounded to ten decimals, and the confidence intervals are made of the
  rounded record; `_run_contracts.py` 440 the same with eight decimals, where
  only a reader of `summary.csv` meets it. `_benchmark_quality_associations.py`
  205 calls densities constant when their squares sum to zero, its contract when
  the ten-decimal standard deviation is zero: three densities of 1/5 satisfy
  only the second. Line 654 requires that all blocks of clustered instances have
  the same cases, which a configuration with two such scans does not satisfy.
  Each but the third ends a benchmark whose results are all in order, in this
  attempt and in every later one; the third fails its validation. The functions
  themselves do so under Python 3.11.

Two more that no run shows, because they are only display: `dashboard_browser.cjs`
132 says that a completed job cannot go back to running, but `app.js` 737 takes
the answer of a tick without asking how old it is, after a refresh may have
listed the job as finished (the next tick corrects it). The report of the repair
of the page (`dashboard_ux_repair_report.zh-CN.md`, line 14) says that another case clears the
old output; `renderReplays` (`app.js` 1135) selects another when the former is no longer
listed, and keeps the output. `ReplayOfResult` is what holds: where only the
cases of the result are listed, the output is of one of them.

## What is not modelled

The parts marked so in `PROJECT.json`, each with its reason: rendering, batch scripts that write a new
directory once, and developer tooling; of the browser's pages, those but the
result wall and the pages of configurations and annotations. Inside the modelled parts: the validation of payloads, the
content of progress messages, path checks against links, and Windows-specific
locking, which provides the same lock; of the algorithms, the counters in the metadata and the packing of words in
Rust; of configurations, the types of values, the wording of errors and
whether OR-Tools is installed; of generators, which draw comes of which seed and
how likely it is; of the audit, the figures it only reports; of the validator, the
layout of its directories; of the tables, what is listed
above; of the R4 batch, the source revision and the limits on memory and output,
which are one way to raise, and what its certificates prove. A command-line run
takes no lock on its directory, so that nothing in the code orders it with a job
of the queue: there is nothing to check until it does.
