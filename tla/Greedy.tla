------------------------------- MODULE Greedy -------------------------------
(***************************************************************************)
(* greedy of src/src/maxcover/algorithms.py: k times the set of the largest *)
(* marginal gain, the first of them if there are several.  The searches    *)
(* begin with its selection, and LazyGreedy implements it.                 *)
(***************************************************************************)
EXTENDS Coverage

VARIABLES
    inst,      \* the instance
    selected   \* the sets selected so far

greedyVars == <<inst, selected>>

GreedyInit ==
    /\ inst \in Instances
    /\ selected = {}

Covered == Union(inst, selected)
Available == Indices(inst) \ selected

\* A gain and its index come before others: larger gains, then smaller indices.
Ahead(gain, i, other, j) == gain > other \/ (gain = other /\ i <= j)

Leads(i) ==
    /\ i \in Available
    /\ \A j \in Available :
           Ahead(Gain(inst, Covered, i), i, Gain(inst, Covered, j), j)

Selecting == Cardinality(selected) < inst.k

GreedyPick(i) ==
    /\ Selecting
    /\ Leads(i)
    /\ selected' = selected \cup {i}
    /\ UNCHANGED inst

GreedyNext == \E i \in Available : GreedyPick(i)

GreedySpec == GreedyInit /\ [][GreedyNext]_greedyVars

=============================================================================
