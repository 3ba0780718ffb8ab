------------------------------- MODULE Solvers -------------------------------
(***************************************************************************)
(* One task of the registry ALGORITHMS: an algorithm solves an instance,   *)
(* and AlgorithmSpec.run and Solution check its result.                    *)
(***************************************************************************)
EXTENDS LazyGreedy, BranchAndBound

CONSTANTS Plans, None, Widths

VARIABLES algorithm, plan, current, swaps, restart, high, bound, tried, rcl

Local == INSTANCE LocalSearch
CpSat == INSTANCE Oracle
Base == INSTANCE Baselines

ASSUME PlansAssumption == Plans \subseteq Local!Plan

searchLocals == <<options, pending>>
localLocals == <<plan, current, swaps, restart, high>>
bruteLocals == <<tried, rcl>>
vars == <<inst, selected, algorithm, queue, searchLocals, localLocals, best, status,
          bound, bruteLocals>>

Init ==
    /\ LazyInit /\ SearchInit /\ Local!Init /\ CpSat!Init /\ Base!BaseInit
    /\ algorithm \in {"lazy_greedy", "cp_sat_oracle", "brute_force", "randomized_greedy",
                       "branch_and_bound", "local_search"}
    /\ algorithm # "branch_and_bound" => options = Plain
    /\ algorithm # "local_search" => plan = Local!Single
    /\ algorithm # "randomized_greedy" => rcl = 1

LazyTask ==
    /\ algorithm = "lazy_greedy"
    /\ LazyNext
    /\ UNCHANGED <<algorithm, searchLocals, localLocals, best, status, bound, bruteLocals>>

SearchTask ==
    /\ algorithm = "branch_and_bound"
    /\ SearchStep
    /\ UNCHANGED <<algorithm, queue, localLocals, bound, bruteLocals>>

SearchTimeout ==
    /\ algorithm = "branch_and_bound"
    /\ Timeout
    /\ UNCHANGED <<algorithm, queue, localLocals, bound, bruteLocals>>

LocalTask ==
    /\ algorithm = "local_search"
    /\ Local!Step
    /\ UNCHANGED <<algorithm, queue, searchLocals, bound, bruteLocals>>

LocalTimeout ==
    /\ algorithm = "local_search"
    /\ Local!Timeout
    /\ UNCHANGED <<algorithm, queue, searchLocals, bound, bruteLocals>>

OracleTask ==
    /\ algorithm = "cp_sat_oracle"
    /\ CpSat!Step
    /\ UNCHANGED <<algorithm, queue, searchLocals, localLocals, bruteLocals>>

baseRest == <<algorithm, selected, queue, searchLocals, plan, swaps, restart, high, bound>>

BruteTask ==
    /\ algorithm = "brute_force"
    /\ Base!Enumerate
    /\ UNCHANGED baseRest

BruteTimeout ==
    /\ algorithm = "brute_force"
    /\ Base!OutOfTime
    /\ UNCHANGED baseRest

RandomTask ==
    /\ algorithm = "randomized_greedy"
    /\ Base!Randomize
    /\ UNCHANGED baseRest

Step == LazyTask \/ SearchTask \/ LocalTask \/ OracleTask \/ BruteTask \/ RandomTask
Next == Step \/ SearchTimeout \/ LocalTimeout \/ BruteTimeout

\* A solver runs until it returns; its deadline need not pass.
Spec == Init /\ [][Next]_vars /\ WF_vars(Step)

-----------------------------------------------------------------------------
Over ==
    IF algorithm = "lazy_greedy" THEN ~Selecting
    ELSE status \in {"optimal", "feasible", "timeout", "error"}

\* _finish, which computes the coverage of what an algorithm selected.
Finished(chosen, end, limit) ==
    [selected |-> chosen, value |-> Value(inst, chosen), status |-> end, bound |-> limit]

\* The ends of the algorithms.
LazyResult == Finished(selected, "feasible", None)
SearchResult == Finished(best.selected, status, Bound)
HeuristicResult == Finished(best.selected, status, None)
OracleResult == Finished(best.selected, status, bound)

Result ==
    CASE algorithm = "lazy_greedy" -> LazyResult
      [] algorithm = "branch_and_bound" -> SearchResult
      [] algorithm = "brute_force" -> Finished(best.selected, status, Base!EnumerationBound)
      [] algorithm \in {"local_search", "randomized_greedy"} -> HeuristicResult
      [] algorithm = "cp_sat_oracle" -> OracleResult

Exact == algorithm \in {"branch_and_bound", "brute_force", "cp_sat_oracle"}

\* Solution raises: an error comes with nothing, and only optimal results have
\* closed the gap.
SolutionRefused(r) ==
    IF r.status = "error" THEN r.selected # {} \/ r.bound # None
    ELSE IF r.status = "optimal" THEN r.bound # r.value
    ELSE r.bound # None /\ r.bound <= r.value

\* AlgorithmSpec.run raises: no algorithm selects too much, or ends as it may not.
Refused(r) ==
    \/ SolutionRefused(r)
    \/ Cardinality(r.selected) > inst.k
    \/ r.status \notin (IF Exact THEN {"optimal"} ELSE {"feasible"}) \cup {"timeout", "error"}

\* No result of an algorithm is refused: the value that a search kept is the
\* coverage of the sets it kept, one out of time leaves a gap or has closed it,
\* and no selection is too large.
ResultsAccepted ==
    Over => ~Refused(Result) /\ (algorithm # "lazy_greedy" => Result.value = best.value)

\* best_bound is an upper bound on the optimum, so that an optimal result is
\* one: preprocessing, pruning, the order of the branches, deadlines and the
\* rounding of the external solver's bound never put it below a selection.
BoundsHold ==
    Over /\ Result.bound # None =>
        \A S \in Selections(inst) : Value(inst, S) <= Result.bound

\* Whatever a result claims of the optimum, by its status or its bound, is true.
ClaimsHold == OptimalIsOptimum /\ BoundsHold

\* The answer of a local search is as good as the best selection that it held.
NothingLost == algorithm = "local_search" => Local!NothingLost

\* Every task ends without the help of its deadline.
TasksEnd == <>Over

=============================================================================
