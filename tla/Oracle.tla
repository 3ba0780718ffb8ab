------------------------------- MODULE Oracle -------------------------------
(***************************************************************************)
(* cp_sat_oracle of src/src/maxcover/algorithms.py: an external solver     *)
(* answers, with or without a proof, and its outcome becomes a result.     *)
(***************************************************************************)
EXTENDS Greedy

CONSTANT None

VARIABLES
    best,    \* the selection and the value of the result
    status,
    bound    \* its best_bound, or None

oracleVars == <<inst, selected, best, status, bound>>

TypeOK ==
    /\ inst \in Instances
    /\ selected \subseteq Indices(inst)
    /\ best \in [selected : SUBSET Indices(inst), value : Nat]
    /\ status \in {"greedy", "optimal", "timeout", "error"}
    /\ bound \in 0 .. Cardinality(Universe) \cup {None}

Init ==
    /\ GreedyInit
    /\ best = [selected |-> {}, value |-> 0]
    /\ status = "greedy"
    /\ bound = None

\* The fallback.
Pick(i) ==
    /\ status = "greedy"
    /\ GreedyPick(i)
    /\ UNCHANGED <<best, status, bound>>

-----------------------------------------------------------------------------
(* The solver.                                                             *)

\* Selections of at most k sets: what the constraints of the model admit.
Admitted == {S \in SUBSET Indices(inst) : Cardinality(S) <= inst.k}

\* What CP-SAT may answer: a status, a selection, a bound on the objective that
\* may not be finite (None).
Answers ==
    LET optimum == {v \in 0 .. Cardinality(Universe) : IsOptimum(inst, v)}
        bounds == {b \in 0 .. Cardinality(Universe) : \E v \in optimum : b >= v}
    IN [status : {"OPTIMAL"}, bound : {None},
        selected : {S \in Admitted : Value(inst, S) \in optimum}]
       \cup [status : {"FEASIBLE"}, bound : bounds \cup {None}, selected : Admitted]
       \cup [status : {"UNKNOWN", "MODEL_INVALID"}, bound : {None}, selected : {{}}]

Covers(value) == value = Cardinality(Universe)
Smallest(a, b) == IF a < b THEN a ELSE b
Largest(a, b) == IF a < b THEN b ELSE a

\* The bound reported with a solution that is not proved optimal.
OpenBound(answer, value) ==
    IF answer.bound = None THEN Cardinality(Universe)
    ELSE Smallest(Cardinality(Universe), Largest(value + 1, answer.bound))

Report(stat, S, value, b) ==
    /\ status' = stat
    /\ best' = [selected |-> S, value |-> value]
    /\ bound' = b

Solving == status = "greedy" /\ ~Selecting /\ UNCHANGED <<inst, selected>>

\* The solver has a solution, and a proof unless it was out of time.
Solved(answer) ==
    /\ Solving /\ answer.status \in {"OPTIMAL", "FEASIBLE"}
    /\ LET value == Value(inst, answer.selected)
       IN IF answer.status = "OPTIMAL" \/ Covers(value)
          THEN Report("optimal", answer.selected, value, value)
          ELSE Report("timeout", answer.selected, value, OpenBound(answer, value))

\* It has none yet: the greedy selection is the result.
Unsolved(answer) ==
    /\ Solving /\ answer.status = "UNKNOWN"
    /\ LET value == Value(inst, selected)
       IN IF Covers(value) THEN Report("optimal", selected, value, value)
          ELSE Report("timeout", selected, value, Cardinality(Universe))

\* The model is invalid or infeasible: a result without selection and bound.
Rejected(answer) ==
    /\ Solving /\ answer.status = "MODEL_INVALID"
    /\ Report("error", {}, 0, None)

Step ==
    \/ \E i \in Indices(inst) : Pick(i)
    \/ \E answer \in Answers : Solved(answer) \/ Unsolved(answer) \/ Rejected(answer)

Spec == Init /\ [][Step]_oracleVars

=============================================================================
