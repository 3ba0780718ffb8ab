----------------------------- MODULE LazyGreedy -----------------------------
(***************************************************************************)
(* lazy_greedy of src/src/maxcover/algorithms.py and of the native module  *)
(* (src/native/structure/src/algorithms.rs): a heap keeps old gains as     *)
(* upper bounds, and a set is selected when its gain, computed again, is   *)
(* ahead of every bound that is left.                                      *)
(***************************************************************************)
EXTENDS Greedy

VARIABLE queue   \* queue[i]: the gain with which set i is in the heap

lazyVars == <<inst, selected, queue>>

LazyTypeOK ==
    /\ inst \in Instances
    /\ selected \subseteq Indices(inst)
    /\ queue \in [Indices(inst) \ selected -> Nat]
    /\ \A i \in DOMAIN queue : queue[i] <= Cardinality(inst.sets[i])

LazyInit ==
    /\ GreedyInit
    /\ queue = [i \in Indices(inst) |-> Cardinality(inst.sets[i])]

Rest(i) == DOMAIN queue \ {i}
Refreshed(i) == Gain(inst, Covered, i)

\* heappop: the smallest pair of a negated gain and an index.
Pop(i) ==
    /\ Selecting
    /\ i \in DOMAIN queue
    /\ \A j \in Rest(i) : Ahead(queue[i], i, queue[j], j)

\* Mutant: an equal bound with a smaller index does not hold a set back.
InFrontOrEqual(i) == \A j \in Rest(i) : Refreshed(i) >= queue[j]

\* not queue or refreshed <= queue[0].
InFront(i) == \A j \in Rest(i) : Ahead(Refreshed(i), i, queue[j], j)

Accept(i) ==
    /\ Pop(i)
    /\ InFront(i)
    /\ selected' = selected \cup {i}
    /\ queue' = [j \in Rest(i) |-> queue[j]]
    /\ UNCHANGED inst

\* Mutant: the old bound goes back into the heap.
PushOld(i) ==
    /\ Pop(i)
    /\ ~InFront(i)
    /\ UNCHANGED <<inst, selected, queue>>

PushBack(i) ==
    /\ Pop(i)
    /\ ~InFront(i)
    /\ queue' = [queue EXCEPT ![i] = Refreshed(i)]
    /\ UNCHANGED <<inst, selected>>

LazyNext == \E i \in DOMAIN queue : Accept(i) \/ PushBack(i)

LazySpec == LazyInit /\ [][LazyNext]_lazyVars

-----------------------------------------------------------------------------
\* Lazy evaluation selects what greedy selects, set by set.
ImplementsGreedy == GreedySpec

=============================================================================
