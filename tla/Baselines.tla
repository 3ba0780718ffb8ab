----------------------------- MODULE Baselines -----------------------------
(***************************************************************************)
(* brute_force and randomized_greedy of src/src/maxcover/algorithms.py:    *)
(* the small oracle, which evaluates every selection in turn, and greedy   *)
(* with a random choice among the first rcl of the ranked sets.            *)
(***************************************************************************)
EXTENDS Greedy

CONSTANT Widths   \* the lengths of the restricted candidate list

VARIABLES
    tried,     \* brute_force: the selections evaluated so far
    current,   \* randomized_greedy: selected
    rcl,       \* rcl_size
    best, status

baseVars == <<inst, tried, current, rcl, best, status>>

BaseInit ==
    /\ tried = {} /\ current = {} /\ rcl \in Widths
    /\ best = [selected |-> {}, value |-> 0]
    /\ status = "greedy"

Found(S) == [selected |-> S, value |-> Value(inst, S)]

-----------------------------------------------------------------------------
(* brute_force.                                                            *)

\* itertools.combinations: sorted tuples in the order of their first difference.
Precedes(S, T) == \E i \in S \ T : \A j \in (S \ T) \cup (T \ S) : i <= j
Untried == Selections(inst) \ tried

\* The first k sets, until a selection covers more.
Incumbent == IF tried = {} THEN Found(1 .. inst.k) ELSE best

Evaluate(S) ==
    /\ status = "greedy"
    /\ S \in Untried /\ \A T \in Untried \ {S} : Precedes(S, T)
    /\ best' = IF Found(S).value > Incumbent.value THEN Found(S) ELSE Incumbent
    /\ tried' = tried \cup {S}
    /\ UNCHANGED <<inst, current, rcl, status>>

Exhausted ==
    /\ status = "greedy" /\ Untried = {}
    /\ status' = "optimal"
    /\ UNCHANGED <<inst, tried, current, rcl, best>>

\* The deadline passes before a selection is evaluated, the first one included.
OutOfTime ==
    /\ status = "greedy" /\ Untried # {}
    /\ best' = Incumbent
    /\ status' = IF Incumbent.value = Cardinality(Universe) THEN "optimal" ELSE "timeout"
    /\ UNCHANGED <<inst, tried, current, rcl>>

EnumerationBound == IF status = "optimal" THEN best.value ELSE Cardinality(Universe)

-----------------------------------------------------------------------------
(* randomized_greedy.                                                      *)

Unselected == Indices(inst) \ current
GainNow(i) == Gain(inst, Union(inst, current), i)
RankedBefore(i) == {j \in Unselected \ {i} : Ahead(GainNow(j), j, GainNow(i), i)}
Restricted == {i \in Unselected : Cardinality(RankedBefore(i)) < rcl}

Draw(i) ==
    /\ status = "greedy" /\ Cardinality(current) < inst.k
    /\ i \in Restricted
    /\ current' = current \cup {i}
    /\ best' = Found(current')
    /\ status' = IF Cardinality(current') = inst.k THEN "feasible" ELSE status
    /\ UNCHANGED <<inst, tried, rcl>>

Enumerate == Exhausted \/ \E S \in Untried : Evaluate(S)
Randomize == \E i \in Unselected : Draw(i)
=============================================================================
