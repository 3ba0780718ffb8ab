---------------------------- MODULE LocalSearch ----------------------------
(***************************************************************************)
(* local_search and multi_start_local_search of                            *)
(* src/src/maxcover/algorithms.py: swaps of one selected set for another,  *)
(* the best one each time, from the greedy selection and, in the second,   *)
(* from random ones, under limits and a deadline.                          *)
(***************************************************************************)
EXTENDS Greedy

CONSTANT Plans   \* the searches that may run

\* restart_count, max_iterations_per_restart, and whether there is a deadline.
Plan == [restarts : Nat, limit : Nat \ {0}, timed : BOOLEAN]

\* local_search makes the swaps of a run without restarts, limit and deadline.
Single == [restarts |-> 0, limit |-> 1, timed |-> FALSE]

VARIABLES
    plan,
    current,   \* selected of a restart
    swaps,     \* restart_iterations
    restart,   \* the number of the restart
    best,      \* best_selected and best_value
    status,
    high       \* history: the largest value of a selection so far

localVars == <<inst, selected, plan, current, swaps, restart, best, status, high>>

TypeOK ==
    /\ inst \in Instances /\ plan \in Plans
    /\ selected \subseteq Indices(inst)
    /\ current \in Selections(inst) \cup {{}}
    /\ best \in [selected : SUBSET Indices(inst), value : Nat]
    /\ swaps \in Nat /\ restart \in Nat
    /\ plan.restarts # 0 => swaps <= plan.limit /\ restart < plan.restarts
    /\ status \in {"greedy", "searching", "feasible", "timeout"}
    /\ high \in 0 .. Cardinality(Universe)

Init ==
    /\ GreedyInit
    /\ plan \in Plans
    /\ current = {}
    /\ best = [selected |-> {}, value |-> 0]
    /\ swaps = 0 /\ restart = 0
    /\ status = "greedy"
    /\ high = 0

Pick(i) ==
    /\ status = "greedy"
    /\ GreedyPick(i)
    /\ UNCHANGED <<plan, current, swaps, restart, best, status, high>>

Begin ==
    /\ status = "greedy" /\ ~Selecting
    /\ status' = "searching"
    /\ current' = selected
    /\ best' = [selected |-> selected, value |-> Value(inst, selected)]
    /\ high' = Value(inst, selected)
    /\ UNCHANGED <<inst, selected, plan, swaps, restart>>

-----------------------------------------------------------------------------
(* Swaps.                                                                  *)

Swapped(out, in) == (current \ {out}) \cup {in}
Outside == Indices(inst) \ current
Pairs == current \X Outside
ValueOf(pair) == Value(inst, Swapped(pair[1], pair[2]))

\* The order in which pairs are tried.
TriedBefore(p, q) == p[1] < q[1] \/ (p[1] = q[1] /\ p[2] <= q[2])

\* The first of the swaps with the largest value, if it improves.
BestSwap(pair) ==
    /\ pair \in Pairs
    /\ ValueOf(pair) > Value(inst, current)
    /\ \A q \in Pairs :
           \/ ValueOf(q) < ValueOf(pair)
           \/ ValueOf(q) = ValueOf(pair) /\ TriedBefore(pair, q)

NoSwap == \A pair \in Pairs : ValueOf(pair) <= Value(inst, current)

\* Sorted tuples of one length compare as their first difference.
Smaller(S, T) ==
    \E i \in S \ T : \A j \in (S \ T) \cup (T \ S) : i <= j

Better(S) ==
    LET v == Value(inst, S)
    IN IF v > best.value \/ (v = best.value /\ Smaller(S, best.selected))
       THEN [selected |-> S, value |-> v]
       ELSE best

Limited == plan.restarts # 0 /\ swaps = plan.limit

Swap(pair) ==
    /\ status = "searching"
    /\ ~Limited
    /\ BestSwap(pair)
    /\ current' = Swapped(pair[1], pair[2])
    /\ swaps' = swaps + 1
    /\ best' = Better(current')
    /\ high' = IF Value(inst, current') > high THEN Value(inst, current') ELSE high
    /\ UNCHANGED <<inst, selected, plan, restart, status>>

-----------------------------------------------------------------------------
(* Restarts and the end.                                                   *)

RestartOver == status = "searching" /\ (Limited \/ NoSwap)
Last == restart + 1 >= plan.restarts

NextRestart ==
    /\ RestartOver /\ ~Last
    /\ best' = Better(current)
    /\ \E S \in Selections(inst) :
           /\ current' = S
           /\ high' = IF Value(inst, S) > high THEN Value(inst, S) ELSE high
    /\ swaps' = 0
    /\ restart' = restart + 1
    /\ UNCHANGED <<inst, selected, plan, status>>

Finish ==
    /\ RestartOver /\ Last
    /\ best' = Better(current)
    /\ status' = "feasible"
    /\ UNCHANGED <<inst, selected, plan, current, swaps, restart, high>>

\* Mutant: what the restart that ran out of time has found is forgotten.
TimeoutForgets ==
    /\ status = "searching" /\ plan.timed
    /\ status' = "timeout"
    /\ UNCHANGED <<inst, selected, plan, current, swaps, restart, best, high>>

\* The deadline passes before or while swaps are tried: none is made.
Timeout ==
    /\ status = "searching" /\ plan.timed /\ ~Limited
    /\ best' = Better(current)
    /\ status' = "timeout"
    /\ UNCHANGED <<inst, selected, plan, current, swaps, restart, high>>

Step ==
    \/ \E i \in Indices(inst) : Pick(i)
    \/ Begin
    \/ \E pair \in Pairs : Swap(pair)
    \/ NextRestart \/ Finish

Next == Step \/ Timeout

Spec == Init /\ [][Next]_localVars

-----------------------------------------------------------------------------
Over == status \in {"feasible", "timeout"}

\* The answer is as good as the best selection held, in any restart, the one
\* that the deadline interrupted included; and it is a selection of k sets.
NothingLost ==
    Over => best.selected \in Selections(inst) /\ Value(inst, best.selected) = high

=============================================================================
