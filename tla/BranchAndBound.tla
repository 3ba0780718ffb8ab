--------------------------- MODULE BranchAndBound ---------------------------
(***************************************************************************)
(* branch_and_bound and branch_and_bound_enhanced of                       *)
(* src/src/maxcover/algorithms.py: depth-first searches on a stack, from   *)
(* the greedy selection, under a deadline.                                 *)
(*                                                                         *)
(* The first is the second with its options off, except where Closed tells *)
(* them apart.                                                             *)
(***************************************************************************)
EXTENDS Greedy

Plain == [enhanced |-> FALSE, remove_duplicates |-> FALSE,
          remove_dominated |-> FALSE, bound_strategy |-> "suffix_union",
          ordering_strategy |-> "static_size"]

\* The options that may be given.
AllOptions ==
    {Plain} \cup
    [enhanced : {TRUE}, remove_duplicates : BOOLEAN, remove_dominated : BOOLEAN,
     bound_strategy : {"suffix_union", "cardinality"},
     ordering_strategy : {"static_size", "dynamic_marginal"}]

VARIABLES
    options,
    pending,  \* the stack of nodes, its top at the end
    best,     \* best_selected and best_value
    status

searchVars == <<inst, selected, options, pending, best, status>>

-----------------------------------------------------------------------------
\* A node: the candidates not yet decided, the sets chosen, and what they cover.
Node == [rest : SUBSET Indices(inst), chosen : SUBSET Indices(inst),
         covered : SUBSET Universe]

Answer == [selected : SUBSET Indices(inst), value : Nat]

SearchTypeOK ==
    /\ inst \in Instances /\ options \in AllOptions
    /\ selected \subseteq Indices(inst)
    /\ pending \in Seq(Node)
    /\ best \in Answer
    /\ status \in {"greedy", "searching", "optimal", "timeout"}

SearchInit ==
    /\ GreedyInit
    /\ options \in AllOptions
    /\ pending = <<>>
    /\ best = [selected |-> {}, value |-> 0]
    /\ status = "greedy"

Pick(i) ==
    /\ status = "greedy"
    /\ GreedyPick(i)
    /\ UNCHANGED <<options, pending, best, status>>

-----------------------------------------------------------------------------
(* Preprocessing.                                                          *)

\* The first of the equal sets.
Unique == {i \in Indices(inst) :
              \A j \in Indices(inst) : inst.sets[j] = inst.sets[i] => i <= j}

Undominated(S) ==
    {i \in S : \A j \in S : inst.sets[i] \subseteq inst.sets[j]
                                => inst.sets[i] = inst.sets[j]}

Distinct == IF options.remove_duplicates THEN Unique ELSE Indices(inst)
Candidates == IF options.remove_dominated THEN Undominated(Distinct) ELSE Distinct

Begin ==
    /\ status = "greedy" /\ ~Selecting
    /\ status' = "searching"
    /\ best' = [selected |-> selected, value |-> Cardinality(Covered)]
    /\ pending' = <<[rest |-> Candidates, chosen |-> {}, covered |-> {}]>>
    /\ UNCHANGED <<inst, selected, options>>

-----------------------------------------------------------------------------
(* One node.                                                               *)

Slots(node) == inst.k - Cardinality(node.chosen)

\* The gains of S over a node, added up: the number of its newly covered
\* elements, each counted for every set that has it.
GainsOf(node, S) ==
    Cardinality({p \in S \X Universe : p[2] \in inst.sets[p[1]] \ node.covered})

UnionBound(node, value) ==
    Cardinality(node.covered \cup Union(inst, node.rest)) <= value

\* Mutant: the bound adds one gain less than there are slots.
CardinalityBoundShort(node, value) ==
    \A S \in SUBSET node.rest :
        Cardinality(S) < Slots(node) =>
            Cardinality(node.covered) + GainsOf(node, S) <= value

\* The value and the largest gains, one for each slot, do not exceed value.
CardinalityBound(node, value) ==
    \A S \in SUBSET node.rest :
        Cardinality(S) <= Slots(node) =>
            Cardinality(node.covered) + GainsOf(node, S) <= value

Bounded(node, value) ==
    \/ UnionBound(node, value)
    \/ options.bound_strategy = "cardinality" /\ CardinalityBound(node, value)

\* Nothing is pushed for a node.
Closed(node, value) ==
    \/ Slots(node) = 0 \/ node.rest = {}
    \/ options.enhanced /\ value = Cardinality(Universe)
    \/ ~options.enhanced /\ Cardinality(node.rest) < Slots(node)
    \/ Bounded(node, value)

\* The order of the candidates: by size or, if options say so, first by gain.
AheadBySize(i, j) ==
    Ahead(Cardinality(inst.sets[i]), i, Cardinality(inst.sets[j]), j)

AheadAt(node, i, j) ==
    IF options.ordering_strategy = "static_size" THEN AheadBySize(i, j)
    ELSE LET gain == Gain(inst, node.covered, i)
             other == Gain(inst, node.covered, j)
         IN gain > other \/ (gain = other /\ AheadBySize(i, j))

BranchesOn(node, i) == i \in node.rest /\ \A j \in node.rest : AheadAt(node, i, j)

Without(node, i) == [node EXCEPT !.rest = @ \ {i}]
With(node, i) ==
    [rest |-> node.rest \ {i}, chosen |-> node.chosen \cup {i},
     covered |-> node.covered \cup inst.sets[i]]

Improve(node) ==
    IF Cardinality(node.covered) > best.value
    THEN [selected |-> node.chosen, value |-> Cardinality(node.covered)]
    ELSE best

Top == pending[Len(pending)]
Below == SubSeq(pending, 1, Len(pending) - 1)
Searching == status = "searching" /\ pending # <<>>

VisitClosed ==
    /\ Searching
    /\ best' = Improve(Top)
    /\ Closed(Top, best'.value)
    /\ pending' = Below
    /\ UNCHANGED <<inst, selected, options, status>>

\* The node with the set is on top, and visited first.
Branch(i) ==
    /\ Searching
    /\ best' = Improve(Top)
    /\ ~Closed(Top, best'.value)
    /\ BranchesOn(Top, i)
    /\ pending' = Below \o <<Without(Top, i), With(Top, i)>>
    /\ UNCHANGED <<inst, selected, options, status>>

-----------------------------------------------------------------------------
(* The end.                                                                *)

\* Mutant: a search out of time never has a proof.
TimeoutUnproved ==
    /\ Searching
    /\ pending' = Below
    /\ status' = "timeout"
    /\ UNCHANGED <<inst, selected, options, best>>

\* The deadline has passed when a node is taken from the stack.
Timeout ==
    /\ Searching
    /\ pending' = Below
    /\ status' = IF best.value = Cardinality(Universe) THEN "optimal" ELSE "timeout"
    /\ UNCHANGED <<inst, selected, options, best>>

Finish ==
    /\ status = "searching" /\ pending = <<>>
    /\ status' = "optimal"
    /\ UNCHANGED <<inst, selected, options, pending, best>>

SearchStep ==
    \/ \E i \in Indices(inst) : Pick(i) \/ Branch(i)
    \/ Begin \/ VisitClosed \/ Finish

SearchNext == SearchStep \/ Timeout

SearchSpec == SearchInit /\ [][SearchNext]_searchVars

-----------------------------------------------------------------------------
\* best_bound of the result.
Bound == IF status = "optimal" THEN best.value ELSE Cardinality(Universe)

\* A result that claims to be optimal is: preprocessing, bounds, the order of
\* the branches and the deadline never lose the last of the best selections.
OptimalIsOptimum == status = "optimal" => IsOptimum(inst, best.value)

\* The value kept is the coverage of the sets kept with it, at most k of them.
BestIsFeasible ==
    status # "greedy" =>
        /\ Cardinality(best.selected) <= inst.k
        /\ Value(inst, best.selected) = best.value

=============================================================================
