------------------------------ MODULE DualBatch ------------------------------
(***************************************************************************)
(* The commands on one R4 DUAL output directory: run and analyze of        *)
(* src/analysis/r4_dual.py, validate_batch and verify_summaries of         *)
(* validate_r4_dual.py, all inside RuntimeBudget of r4_dual_io.py.         *)
(*                                                                         *)
(* A command takes .operation.lock, charges an operation that was killed,  *)
(* announces its own in active_operation.json, and treats one graph after  *)
(* the other as long as the wall budget lasts.  A command may be killed at *)
(* any step; somebody may damage or remove a checkpoint.                   *)
(***************************************************************************)
EXTENDS Integers, FiniteSets

CONSTANTS
    Slots,        \* places for commands that run at the same time
    Graphs,       \* the graphs of the design, in its order
    Quotas,       \* values of --stop-after
    Limit,        \* limits["wall_seconds"]
    MaxCommands,  \* bound on the number of commands
    MaxTime,      \* bound on the clock
    None

ASSUME DualAssumption ==
    /\ Graphs \subseteq Nat
    /\ Quotas \subseteq Nat
    /\ Limit \in Nat /\ MaxCommands \in Nat /\ MaxTime \in Nat
    /\ None \notin Nat /\ None \notin Slots
    /\ None \notin Graphs \X {"good", "bad"}

VARIABLES
    \* The output directory.
    lock,       \* the command that holds .operation.lock
    active,     \* active_operation.json: absent, created and empty, or written
    entries,    \* execution.jsonl: how many entries an operation has,
    charged,    \* the seconds they charge,
    total,      \* and the sum over all operations
    config,     \* is there a config.json?
    graphs,     \* graphs/: the state of each checkpoint
    tables,     \* the two CSV files, by the records they were made from
    analysis,   \* analysis_status.json: absent, incomplete or complete
    \* The commands.
    commands,   \* how many began
    pc,         \* where the command of a slot is
    kind, op,   \* what it does; its number, for its process and its operation
    prior,      \* the time charged before it
    began,      \* when its operation began
    todo,       \* checkpoints it has still to read
    hand,       \* the one it has just read
    rows,       \* the records in its memory
    quota,      \* how many graphs --stop-after lets it compute
    after,      \* where it continues when the budget is not exhausted
    \* The world.
    now,        \* the clock
    touched,    \* has a checkpoint been damaged or removed?
    spent,      \* history: how long an operation ran, or None if it has not ended
    used        \* history: the sum of spent

account == <<active, entries, charged, total>>
files == <<config, graphs, tables, analysis>>
work == <<todo, hand, rows, quota, after>>
command == <<kind, op, prior, began>>
history == <<spent, used>>
vars == <<lock, account, files, commands, pc, command, work, now, touched, history>>

-----------------------------------------------------------------------------
Kinds == {"production", "verification", "analysis", "derived"}
Tables == {"budget_results", "cell_summary"}
Operations == 1 .. MaxCommands
Record == Graphs \X {"good", "bad"}

Contents == [state : {"absent", "empty", "written"}, op : Operations \cup {None},
             began : Nat, elapsed : Nat]
Blank(state) == [state |-> state, op |-> None, began |-> 0, elapsed |-> 0]

\* Around the with statement with the lock held, inside it, and behind it.
Entering == {"history", "forget", "create", "write"}
Working == {"open", "check", "next", "verify", "compute", "save", "report"}
Closing == {"log", "unlink", "release"}
Holding == Entering \cup Working \cup Closing

TypeOK ==
    /\ lock \in Slots \cup {None}
    /\ active \in Contents
    /\ entries \in [Operations -> Nat] /\ charged \in [Operations -> Nat]
    /\ total \in Nat
    /\ config \in BOOLEAN
    /\ graphs \in [Graphs -> {"none", "good", "bad"}]
    /\ tables \in [Tables -> {None} \cup SUBSET Record]
    /\ analysis \in {"absent", "incomplete", "complete"}
    /\ commands \in 0 .. MaxCommands
    /\ pc \in [Slots -> {"idle", "enter", "leaving"} \cup Holding]
    /\ kind \in [Slots -> Kinds]
    /\ op \in [Slots -> {None} \cup Operations]
    /\ prior \in [Slots -> Nat] /\ began \in [Slots -> Nat]
    /\ todo \in [Slots -> SUBSET Graphs]
    /\ hand \in [Slots -> {None} \cup Record]
    /\ rows \in [Slots -> SUBSET Record]
    /\ quota \in [Slots -> Nat]
    /\ after \in [Slots -> Working]
    /\ now \in Nat /\ touched \in BOOLEAN
    /\ spent \in [Operations -> Nat \cup {None}] /\ used \in Nat

Init ==
    /\ lock = None /\ active = Blank("absent")
    /\ entries = [o \in Operations |-> 0] /\ charged = [o \in Operations |-> 0]
    /\ total = 0
    /\ config = FALSE
    /\ graphs = [g \in Graphs |-> "none"]
    /\ tables = [t \in Tables |-> None]
    /\ analysis = "absent"
    /\ commands = 0
    /\ pc = [s \in Slots |-> "idle"]
    /\ kind = [s \in Slots |-> "production"] /\ op = [s \in Slots |-> None]
    /\ prior = [s \in Slots |-> 0] /\ began = [s \in Slots |-> 0]
    /\ todo = [s \in Slots |-> {}] /\ hand = [s \in Slots |-> None]
    /\ rows = [s \in Slots |-> {}] /\ quota = [s \in Slots |-> 0]
    /\ after = [s \in Slots |-> "open"]
    /\ now = 0 /\ touched = FALSE
    /\ spent = [o \in Operations |-> None] /\ used = 0

GoTo(s, place) == pc' = [pc EXCEPT ![s] = place]
Elapsed(s) == now - began[s]

\* The process with the operation's number runs.
Live(o) == \E s \in Slots : op[s] = o /\ pc[s] # "idle"

-----------------------------------------------------------------------------
(* Entering RuntimeBudget.                                                 *)

\* A production writes config.json or, with --resume, finds it; the other
\* commands read it.
Start(s, k, n) ==
    /\ pc[s] = "idle" /\ commands < MaxCommands
    /\ IF k = "production" THEN n \in Quotas /\ config' = TRUE
       ELSE n = 0 /\ config /\ UNCHANGED config
    /\ commands' = commands + 1
    /\ kind' = [kind EXCEPT ![s] = k]
    /\ op' = [op EXCEPT ![s] = commands']
    /\ quota' = [quota EXCEPT ![s] = n]
    /\ GoTo(s, "enter")
    /\ UNCHANGED <<lock, account, graphs, tables, analysis, prior, began, todo,
                   hand, rows, after, now, touched, history>>

\* Mutant: the lock is taken whoever holds it.
AcquireAnyway(s) ==
    /\ pc[s] = "enter"
    /\ lock' = s /\ GoTo(s, "history")
    /\ UNCHANGED <<account, files, commands, command, work, now, touched, history>>

\* _acquire_lock, without waiting.
AcquireLock(s) ==
    /\ pc[s] = "enter"
    /\ IF lock = None THEN lock' = s /\ GoTo(s, "history")
                      ELSE UNCHANGED lock /\ GoTo(s, "leaving")
    /\ UNCHANGED <<account, files, commands, command, work, now, touched, history>>

Duplicates == \E o \in Operations : entries[o] > 1

\* There is nothing to recover.
EnterClean(s) ==
    /\ pc[s] = "history" /\ ~Duplicates /\ active.state = "absent"
    /\ prior' = [prior EXCEPT ![s] = total]
    /\ GoTo(s, "create")
    /\ UNCHANGED <<lock, account, files, commands, kind, op, began, work, now,
                   touched, history>>

Larger(a, b) == IF a > b THEN a ELSE b

Append(o, seconds) ==
    /\ entries' = [entries EXCEPT ![o] = @ + 1]
    /\ charged' = [charged EXCEPT ![o] = @ + seconds]
    /\ total' = total + seconds

\* Mutant: the identifiers of the history are not looked up.
RecoverAgain(s) ==
    /\ pc[s] = "history" /\ ~Duplicates
    /\ active.state = "written" /\ ~Live(active.op)
    /\ LET seconds == Larger(active.elapsed, now - active.began)
       IN /\ Append(active.op, seconds)
          /\ prior' = [prior EXCEPT ![s] = total + seconds]
    /\ GoTo(s, "forget")
    /\ UNCHANGED <<lock, active, files, commands, kind, op, began, work, now,
                   touched, history>>

\* Mutant: what was recovered is logged and not counted.
RecoverUncounted(s) ==
    /\ pc[s] = "history" /\ ~Duplicates
    /\ active.state = "written" /\ ~Live(active.op)
    /\ LET seconds == IF entries[active.op] = 0
                      THEN Larger(active.elapsed, now - active.began) ELSE 0
       IN /\ IF entries[active.op] = 0 THEN Append(active.op, seconds)
             ELSE UNCHANGED <<entries, charged, total>>
          /\ prior' = [prior EXCEPT ![s] = total]
    /\ GoTo(s, "forget")
    /\ UNCHANGED <<lock, active, files, commands, kind, op, began, work, now,
                   touched, history>>

\* A killed operation is charged until now, unless the history has it already.
Recover(s) ==
    /\ pc[s] = "history" /\ ~Duplicates
    /\ active.state = "written" /\ ~Live(active.op)
    /\ LET seconds == IF entries[active.op] = 0
                      THEN Larger(active.elapsed, now - active.began) ELSE 0
       IN /\ IF entries[active.op] = 0 THEN Append(active.op, seconds)
             ELSE UNCHANGED <<entries, charged, total>>
          /\ prior' = [prior EXCEPT ![s] = total + seconds]
    /\ GoTo(s, "forget")
    /\ UNCHANGED <<lock, active, files, commands, kind, op, began, work, now,
                   touched, history>>

Forget(s) ==
    /\ pc[s] = "forget"
    /\ active' = Blank("absent")
    /\ GoTo(s, "create")
    /\ UNCHANGED <<lock, entries, charged, total, files, commands, command, work,
                   now, touched, history>>

\* The history is invalid, or the file does not parse, or the process of its
\* number is alive: the one that wrote it, or another that got the number.
Refuse(s) ==
    /\ pc[s] = "history"
    /\ Duplicates \/ active.state # "absent"
    /\ lock' = None
    /\ GoTo(s, "leaving")
    /\ UNCHANGED <<account, files, commands, command, work, now, touched, history>>

\* The operation begins: open("x") creates the file, json.dump fills it.
Create(s) ==
    /\ pc[s] = "create"
    /\ active' = Blank("empty")
    /\ began' = [began EXCEPT ![s] = now]
    /\ GoTo(s, "write")
    /\ UNCHANGED <<lock, entries, charged, total, files, commands, kind, op,
                   prior, work, now, touched, history>>

Write(s) ==
    /\ pc[s] = "write"
    /\ active' = [state |-> "written", op |-> op[s], began |-> began[s], elapsed |-> 0]
    /\ after' = [after EXCEPT ![s] = "open"]
    /\ GoTo(s, "check")
    /\ UNCHANGED <<lock, entries, charged, total, files, commands, command, todo,
                   hand, rows, quota, now, touched, history>>

-----------------------------------------------------------------------------
(* Working.                                                                *)

\* The body of the with statement is left, its variables are gone.
LeaveBody(s) ==
    /\ todo' = [todo EXCEPT ![s] = {}] /\ hand' = [hand EXCEPT ![s] = None]
    /\ rows' = [rows EXCEPT ![s] = {}] /\ quota' = [quota EXCEPT ![s] = 0]
    /\ after' = [after EXCEPT ![s] = "open"]

\* check: the elapsed time goes into the file and decides.
Check(s) ==
    /\ pc[s] = "check"
    /\ active' = [state |-> "written", op |-> op[s], began |-> began[s], elapsed |-> Elapsed(s)]
    /\ IF prior[s] + Elapsed(s) >= Limit THEN GoTo(s, "log") /\ LeaveBody(s)
                                        ELSE GoTo(s, after[s]) /\ UNCHANGED work
    /\ UNCHANGED <<lock, entries, charged, total, files, commands, command, now,
                   touched, history>>

CheckThen(s, place) ==
    /\ GoTo(s, "check")
    /\ after' = [after EXCEPT ![s] = place]

Existing == {g \in Graphs : graphs[g] # "none"}

\* Mutant: every command treats the checkpoints that exist.
OpenPartial(s) ==
    /\ pc[s] = "open"
    /\ analysis' = IF kind[s] = "analysis" THEN "incomplete" ELSE analysis
    /\ todo' = [todo EXCEPT ![s] = Existing]
    /\ GoTo(s, "next")
    /\ UNCHANGED <<lock, account, config, graphs, tables, commands, command, hand,
                   rows, quota, after, now, touched, history>>

\* The report says incomplete (the analysis is the one that is read later), and
\* load_records lists the checkpoints.
Open(s) ==
    /\ pc[s] = "open"
    /\ analysis' = IF kind[s] = "analysis" THEN "incomplete" ELSE analysis
    /\ IF kind[s] = "production" \/ Existing = Graphs
       THEN /\ todo' = [todo EXCEPT ![s] = Existing]
            /\ GoTo(s, "next")
            /\ UNCHANGED <<hand, rows, quota, after>>
       ELSE GoTo(s, "log") /\ LeaveBody(s)
    /\ UNCHANGED <<lock, account, config, graphs, tables, commands, command, now,
                   touched, history>>

IsFirst(g, set) == g \in set /\ \A h \in set : g <= h

\* The next checkpoint of the list is read, if it is still there.
ReadRow(s, g) ==
    /\ pc[s] = "next" /\ IsFirst(g, todo[s]) /\ graphs[g] # "none"
    /\ hand' = [hand EXCEPT ![s] = <<g, graphs[g]>>]
    /\ todo' = [todo EXCEPT ![s] = @ \ {g}]
    /\ CheckThen(s, "verify")
    /\ UNCHANGED <<lock, account, files, commands, command, rows, quota, now,
                   touched, history>>

\* verify_record accepts it.  verify_summaries takes it as it is.
Verify(s) ==
    /\ pc[s] = "verify"
    /\ hand[s][2] = "good" \/ kind[s] = "derived"
    /\ rows' = [rows EXCEPT ![s] = @ \cup {hand[s]}]
    /\ hand' = [hand EXCEPT ![s] = None]
    /\ GoTo(s, "next")
    /\ UNCHANGED <<lock, account, files, commands, command, todo, quota, after,
                   now, touched, history>>

Done(s) == {r[1] : r \in rows[s]}
Missing(s) == Graphs \ Done(s)

\* Another graph is due.
Turn(s) ==
    /\ pc[s] = "next" /\ todo[s] = {}
    /\ kind[s] = "production" /\ Missing(s) # {} /\ quota[s] > 0
    /\ CheckThen(s, "compute")
    /\ UNCHANGED <<lock, account, files, commands, command, todo, hand, rows,
                   quota, now, touched, history>>

\* Its certificates are computed and its checkpoint is replaced.
Compute(s, g) ==
    /\ pc[s] = "compute" /\ IsFirst(g, Missing(s))
    /\ graphs' = [graphs EXCEPT ![g] = "good"]
    /\ rows' = [rows EXCEPT ![s] = @ \cup {<<g, "good">>}]
    /\ quota' = [quota EXCEPT ![s] = @ - 1]
    /\ CheckThen(s, "next")
    /\ UNCHANGED <<lock, account, config, tables, analysis, commands, command,
                   todo, hand, now, touched, history>>

\* All is read, and computed as far as it should be.
LoopEnds(s) ==
    /\ pc[s] = "next" /\ todo[s] = {}
    /\ kind[s] = "production" => Missing(s) = {} \/ quota[s] = 0
    /\ kind[s] = "derived" => \A t \in Tables : tables[t] = rows[s]
    /\ IF kind[s] = "analysis" THEN GoTo(s, "save") /\ UNCHANGED after
                               ELSE CheckThen(s, "report")
    /\ UNCHANGED <<lock, account, files, commands, command, todo, hand, rows,
                   quota, now, touched, history>>

\* The tables of an analysis replace the old ones, one after the other.
SaveTable(s, t) ==
    /\ pc[s] = "save"
    /\ t = "cell_summary" => tables["budget_results"] = rows[s]
    /\ tables' = [tables EXCEPT ![t] = rows[s]]
    /\ IF t = "cell_summary" THEN CheckThen(s, "report") ELSE UNCHANGED <<pc, after>>
    /\ UNCHANGED <<lock, account, config, graphs, analysis, commands, command,
                   todo, hand, rows, quota, now, touched, history>>

\* The last line inside the with statement.
Report(s) ==
    /\ pc[s] = "report"
    /\ analysis' = IF kind[s] = "analysis" THEN "complete" ELSE analysis
    /\ GoTo(s, "log") /\ LeaveBody(s)
    /\ UNCHANGED <<lock, account, config, graphs, tables, commands, command, now,
                   touched, history>>

\* Resources, the source, a damaged record, missing tables, an interrupt.
Raise(s) ==
    /\ pc[s] \in Working
    /\ GoTo(s, "log") /\ LeaveBody(s)
    /\ UNCHANGED <<lock, account, files, commands, command, now, touched, history>>

-----------------------------------------------------------------------------
(* Leaving RuntimeBudget.                                                  *)

Ends(o, seconds) ==
    /\ spent' = [spent EXCEPT ![o] = seconds]
    /\ used' = used + seconds

\* __exit__ charges what was measured.
Log(s) ==
    /\ pc[s] = "log"
    /\ Append(op[s], Elapsed(s))
    /\ Ends(op[s], Elapsed(s))
    /\ GoTo(s, "unlink")
    /\ UNCHANGED <<lock, active, files, commands, command, work, now, touched>>

\* The line cannot be written.
LogFails(s) ==
    /\ pc[s] = "log"
    /\ Ends(op[s], Elapsed(s))
    /\ GoTo(s, "release")
    /\ UNCHANGED <<lock, account, files, commands, command, work, now, touched>>

Unlink(s) ==
    /\ pc[s] = "unlink"
    /\ active' = Blank("absent")
    /\ GoTo(s, "release")
    /\ UNCHANGED <<lock, entries, charged, total, files, commands, command, work,
                   now, touched, history>>

\* The file cannot be removed.
UnlinkFails(s) ==
    /\ pc[s] = "unlink"
    /\ GoTo(s, "release")
    /\ UNCHANGED <<lock, account, files, commands, command, work, now, touched,
                   history>>

Release(s) ==
    /\ pc[s] = "release"
    /\ lock' = None
    /\ GoTo(s, "leaving")
    /\ UNCHANGED <<account, files, commands, command, work, now, touched, history>>

\* The process ends.
Forgotten(s) ==
    /\ op' = [op EXCEPT ![s] = None] /\ kind' = [kind EXCEPT ![s] = "production"]
    /\ prior' = [prior EXCEPT ![s] = 0] /\ began' = [began EXCEPT ![s] = 0]
    /\ LeaveBody(s)
    /\ GoTo(s, "idle")

Leave(s) ==
    /\ pc[s] = "leaving"
    /\ Forgotten(s)
    /\ UNCHANGED <<lock, account, files, commands, now, touched, history>>

\* A kill ends a command anywhere, and its lock with it.
Kill(s) ==
    /\ pc[s] \in {"enter"} \cup Holding
    /\ Forgotten(s)
    /\ lock' = IF lock = s THEN None ELSE lock
    /\ IF pc[s] \in Working \cup {"write", "log"} THEN Ends(op[s], Elapsed(s))
       ELSE UNCHANGED history
    /\ UNCHANGED <<account, files, commands, now, touched>>

-----------------------------------------------------------------------------
(* The world.                                                              *)

Tick ==
    /\ now < MaxTime
    /\ now' = now + 1
    /\ UNCHANGED <<lock, account, files, commands, pc, command, work, touched,
                   history>>

\* A checkpoint is edited or removed by hand.
Touch(g, state) ==
    /\ ~touched /\ graphs[g] # "none" /\ state # "good"
    /\ graphs' = [graphs EXCEPT ![g] = state]
    /\ touched' = TRUE
    /\ UNCHANGED <<lock, account, config, tables, analysis, commands, pc, command,
                   work, now, history>>

Run(s) ==
    \/ AcquireLock(s) \/ EnterClean(s) \/ Recover(s) \/ Forget(s) \/ Refuse(s)
    \/ Create(s) \/ Write(s)
    \/ Check(s) \/ Open(s) \/ \E g \in Graphs : ReadRow(s, g) \/ Compute(s, g)
    \/ Verify(s) \/ Turn(s) \/ LoopEnds(s) \/ \E t \in Tables : SaveTable(s, t)
    \/ Report(s)
    \/ Log(s) \/ Unlink(s) \/ Release(s) \/ Leave(s)

Next ==
    \/ \E s \in Slots :
           \/ \E k \in Kinds, n \in {0} \cup Quotas : Start(s, k, n)
           \/ Run(s)
           \/ Raise(s) \/ LogFails(s) \/ UnlinkFails(s) \/ Kill(s)
    \/ Tick
    \/ \E g \in Graphs, state \in {"none", "bad"} : Touch(g, state)

Spec == Init /\ [][Next]_vars

-----------------------------------------------------------------------------
(* Properties.                                                             *)

\* A live operation is never recovered, and no two commands work beside each
\* other: whoever is inside holds the lock, and the active file is its own.
LiveNeverRecovered ==
    \A s \in Slots : pc[s] \in Working \cup {"log"} =>
        /\ lock = s
        /\ active.state = "written" /\ active.op = op[s] /\ active.began = began[s]
        /\ entries[op[s]] = 0

\* Recovered, not recovered yet, or closed normally, an operation is charged at
\* most once.  One that is over was charged for at least as long as it ran, or
\* still stands in the active file, where the next command finds its start, or
\* was killed before it could say anything.
ChargedOnceInFull ==
    \A o \in Operations :
        /\ entries[o] <= 1
        /\ spent[o] # None =>
               \/ entries[o] = 1 /\ charged[o] >= spent[o]
               \/ active.state = "empty"
               \/ /\ active.state = "written" /\ active.op = o
                  /\ now - active.began >= spent[o]

\* No graph is begun once all operations together, the killed ones included,
\* have really run for the wall budget.
WithinBudget ==
    \A s \in Slots : pc[s] = "compute" => used + active.elapsed < Limit

\* The tables hold only verified records, all of them, whatever is edited
\* meanwhile, and an analysis that says complete has written both.
TablesVerified ==
    /\ \A t \in Tables : tables[t] \in {None, Graphs \X {"good"}}
    /\ analysis = "complete" => \A t \in Tables : tables[t] = Graphs \X {"good"}

=============================================================================
