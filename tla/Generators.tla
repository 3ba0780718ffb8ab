----------------------------- MODULE Generators -----------------------------
(***************************************************************************)
(* The random families of instances (_generators_random.py).  A generator  *)
(* checks its parameters and builds the sets from what it draws; the draws *)
(* are an argument here, so that two calls with one seed get the same ones *)
(* and everything else may be drawn by another.  An instance is a record   *)
(* of sets and k, as in Coverage, with its family and dimensions; elements *)
(* count from 0, as in the code, sets from 1.                              *)
(***************************************************************************)
EXTENDS Coverage, SequencesExt

CONSTANTS
    Omitted,    \* what a parameter is that was left out
    Roots,      \* Roots[n, m]: the density at which n elements give sets of m, on average
    Shuffles,   \* Shuffles[n]: the orders in which n things may be drawn
    Swaps       \* Swaps[n]: what randrange may answer while n are shuffled

ASSUME GeneratorsAssumption ==
    /\ \A n \in DOMAIN Shuffles :
           Shuffles[n] # {} /\ \A s \in Shuffles[n] : Len(s) = n /\ Range(s) = 0 .. n - 1
    /\ \A n \in DOMAIN Swaps :
           Swaps[n] # {} /\ \A s \in Swaps[n] : Len(s) = n /\ \A i \in 1 .. n : s[i] \in i - 1 .. n - 1

Elements(p) == 0 .. p.universe_size - 1
Prefix(order, n) == {order[i] : i \in 1 .. n}
Part(order, from, n) == {order[i] : i \in from + 1 .. from + n}
Choose[n \in Nat, m \in Nat] ==
    IF m > n THEN 0 ELSE IF m = 0 THEN 1 ELSE (Choose[n - 1, m - 1] * n) \div m

\* MaximumCoverageInstance, which checks what it is made of.
Built(p, universe, sets, k) ==
    [family |-> p.family, universe |-> universe, sets |-> sets, k |-> k, parameters |-> p]

Sound(x) ==
    /\ x.universe > 0 /\ x.sets # <<>> /\ x.k \in 1 .. Len(x.sets)
    /\ \A i \in Indices(x) : x.sets[i] \subseteq 0 .. x.universe - 1

\* _require_integer, where only the least value is given.
IntegerFrom(least, x) == x \in Int /\ x >= least

\* _validate_standard_dimensions.
Standard(p) ==
    IntegerFrom(1, p.universe_size) /\ IntegerFrom(1, p.set_count) /\ p.k \in 1 .. p.set_count

\* Numbers are fractions.
Probability(x) == 0 <= x[1] /\ x[1] <= x[2]
PositiveProbability(x) == Probability(x) /\ x[1] > 0

-----------------------------------------------------------------------------
(***************************************************************************)
(* Combinations by their ranks.                                            *)
(***************************************************************************)

\* _unrank_combination_lexicographic goes through the elements, and takes one
\* or passes over all combinations that begin with it.  It has some elements
\* left to take, and the rank among the combinations that are left.
Takes(n, e, left) == left.size > 0 /\ left.rank < Choose[n - e - 1, left.size - 1]

Past(n, e, left) ==
    IF left.size = 0 THEN left
    ELSE IF Takes(n, e, left) THEN [left EXCEPT !.size = @ - 1]
    ELSE [left EXCEPT !.rank = @ - Choose[n - e - 1, left.size - 1]]

Unrank(n, size, rank) ==
    LET left[e \in 0 .. n] ==
            IF e = 0 THEN [size |-> size, rank |-> rank] ELSE Past(n, e - 1, left[e - 1])
    IN  {e \in 0 .. n - 1 : Takes(n, e, left[e])}

\* _proper_subset_elements: by cardinality, then lexicographically.
ProperSubset(n, rank) ==
    LET smaller[size \in 1 .. n] ==
            IF size = 1 THEN 0 ELSE smaller[size - 1] + Choose[n, size - 1]
        level == CHOOSE size \in 1 .. n - 1 : smaller[size] <= rank /\ rank < smaller[size + 1]
    IN  Unrank(n, level, rank - smaller[level])

\* _sample_stable_rank_prefix: a shuffle of which only the first are wanted.
\* The dictionary of swaps is the whole order.
Exchanged(order, i, j) == [order EXCEPT ![i] = order[j], ![j] = order[i]]

StablePrefix(n, swaps, size) ==
    LET order[i \in 0 .. size] ==
            IF i = 0 THEN [j \in 1 .. n |-> j - 1]
            ELSE Exchanged(order[i - 1], i, swaps[i] + 1)
    IN  Prefix(order[size], size)

\* The sorted numbers of a set.
Ascending(S) == SetToSortSeq(S, <)

-----------------------------------------------------------------------------
(***************************************************************************)
(* Families of independent elements.                                       *)
(***************************************************************************)

\* What a set may be when each element is in it with its own probability, and
\* _ensure_nonempty draws one element if there is none.
Sampled(p, probability(_)) ==
    LET certain == {e \in Elements(p) : probability(e)[1] = probability(e)[2]}
        possible == {e \in Elements(p) : probability(e)[1] > 0}
        drawn == {S \in SUBSET possible : certain \subseteq S}
    IN  (drawn \ {{}}) \cup (IF {} \in drawn THEN {{e} : e \in Elements(p)} ELSE {})

\* uniform_random.  Paired with fixed sizes, all elements of a set get a draw,
\* and those are in it whose draw is below the density, or else the lowest.
UniformPaired(p) == p.paired_set_size # Omitted

PairedAccepted(p) ==
    /\ p.paired_set_size \in 2 .. p.universe_size
    /\ p.density = Roots[p.universe_size, p.paired_set_size]

UniformAccepted(p, coupled) ==
    /\ Standard(p) /\ PositiveProbability(p.density)
    /\ IF UniformPaired(p) THEN PairedAccepted(p) ELSE ~coupled

PairedDraws(p) ==
    [1 .. p.set_count -> [order : Shuffles[p.universe_size], below : 0 .. p.universe_size]]

UniformDraws(p) ==
    IF UniformPaired(p) THEN PairedDraws(p)
    ELSE [1 .. p.set_count -> Sampled(p, LAMBDA e : p.density)]

LowestOr(draw) == Prefix(draw.order, IF draw.below = 0 THEN 1 ELSE draw.below)

Uniform(p, d) ==
    Built(p, p.universe_size,
          [i \in 1 .. p.set_count |-> IF UniformPaired(p) THEN LowestOr(d[i]) ELSE d[i]], p.k)

\* high_overlap: the first elements are a core.
RoundHalfEven(n, d) ==
    LET q == n \div d
        r == n % d
    IN  IF 2 * r < d \/ (2 * r = d /\ q % 2 = 0) THEN q ELSE q + 1

CoreSize(p) ==
    Max({1, Min({p.universe_size,
                 RoundHalfEven(p.universe_size * p.core_fraction[1], p.core_fraction[2])})})

HighOverlapAccepted(p) ==
    /\ Standard(p) /\ PositiveProbability(p.core_fraction)
    /\ Probability(p.core_probability) /\ Probability(p.peripheral_probability)

HighOverlapDraws(p) ==
    [1 .. p.set_count ->
        Sampled(p, LAMBDA e : IF e < CoreSize(p) THEN p.core_probability
                                                 ELSE p.peripheral_probability)]

HighOverlap(p, d) == Built(p, p.universe_size, d, p.k)

\* clustered: a set prefers one of the clusters, which are intervals.
Preferred(p, i) == (i - 1) % p.clusters
Adjacent(p, i) == (Preferred(p, i) + 1) % p.clusters
ClusterOf(p, e) == Min({p.clusters - 1, (e * p.clusters) \div p.universe_size})

ClusteredAccepted(p) ==
    /\ Standard(p) /\ p.clusters \in 2 .. p.universe_size
    /\ Probability(p.within_probability) /\ Probability(p.outside_probability)

ClusteredDraws(p) ==
    {d \in [1 .. p.set_count -> SUBSET Elements(p)] :
        \A i \in 1 .. p.set_count :
            d[i] \in Sampled(p, LAMBDA e : IF ClusterOf(p, e) = Preferred(p, i)
                                           THEN p.within_probability
                                           ELSE p.outside_probability)}

Clustered(p, d) == Built(p, p.universe_size, d, p.k)

-----------------------------------------------------------------------------
(***************************************************************************)
(* Families of sets of one size.                                           *)
(***************************************************************************)

SizeAccepted(p) == p.set_size \in 1 .. p.universe_size
SubsetsOfSize(n, m) == {S \in SUBSET (0 .. n - 1) : Cardinality(S) = m}
Capacity(p) == Choose[p.universe_size, p.set_size]

\* fixed_size: the sets of lowest draws, sets of different ranks, or any.
FixedSizeAccepted(p, coupled) ==
    /\ Standard(p) /\ SizeAccepted(p)
    /\ p.unique_sets => p.set_count <= Capacity(p) /\ ~coupled

FixedSizeDraws(p, coupled) ==
    IF coupled THEN PairedDraws(p)
    ELSE IF p.unique_sets THEN Shuffles[Capacity(p)]
    ELSE [1 .. p.set_count -> SubsetsOfSize(p.universe_size, p.set_size)]

UniqueSets(n, m, ranks, count) == [i \in 1 .. count |-> Unrank(n, m, ranks[i])]

FixedSizeSets(p, coupled, d) ==
    IF coupled THEN [i \in 1 .. p.set_count |-> Prefix(d[i].order, p.set_size)]
    ELSE IF p.unique_sets THEN UniqueSets(p.universe_size, p.set_size, d, p.set_count)
    ELSE d

FixedSize(p, coupled, d) == Built(p, p.universe_size, FixedSizeSets(p, coupled, d), p.k)

\* long_tail: low ranks have small keys, but any element may come first.
LongTailAccepted(p) == Standard(p) /\ SizeAccepted(p) /\ p.gamma[1] >= 0

LongTailDraws(p) == [1 .. p.set_count -> SubsetsOfSize(p.universe_size, p.set_size)]
LongTail(p, d) == Built(p, p.universe_size, d, p.k)

\* duplicate_heavy: each of different sets is copied, the copies together.
DuplicateHeavyAccepted(p) ==
    /\ IntegerFrom(1, p.universe_size) /\ IntegerFrom(1, p.base_set_count)
    /\ p.k \in 1 .. p.base_set_count /\ SizeAccepted(p) /\ IntegerFrom(1, p.copy_factor)
    /\ p.base_set_count <= Capacity(p)

Copied(sets, factor) == [i \in 1 .. Len(sets) * factor |-> sets[((i - 1) \div factor) + 1]]

DuplicateHeavyDraws(p) == Shuffles[Capacity(p)]

DuplicateHeavy(p, d) ==
    Built(p, p.universe_size,
          Copied(UniqueSets(p.universe_size, p.set_size, d, p.base_set_count), p.copy_factor),
          p.k)

\* dominated_heavy: disjoint anchors, then different parts of each.
ChildCapacity(p) == 2 ^ p.anchor_size - 2

DominatedHeavyAccepted(p) ==
    /\ IntegerFrom(1, p.anchor_count) /\ IntegerFrom(1, p.anchor_size)
    /\ p.k \in 1 .. p.anchor_count
    /\ p.child_count \in 0 .. ChildCapacity(p)

DominatedHeavyDraws(p) == [1 .. p.anchor_count -> Swaps[ChildCapacity(p)]]

Anchor(p, a) == (a - 1) * p.anchor_size .. a * p.anchor_size - 1

Child(p, a, rank) ==
    {(a - 1) * p.anchor_size + e : e \in ProperSubset(p.anchor_size, rank)}

\* The children come after all anchors, those of one anchor together.
Parent(p, i) == ((i - p.anchor_count - 1) \div p.child_count) + 1
PlaceAmong(p, i) == ((i - p.anchor_count - 1) % p.child_count) + 1

DominatedHeavy(p, d) ==
    LET ranks == [a \in 1 .. p.anchor_count |->
                     Ascending(StablePrefix(ChildCapacity(p), d[a], p.child_count))]
    IN  Built(p, p.anchor_count * p.anchor_size,
              [i \in 1 .. p.anchor_count * (p.child_count + 1) |->
                  IF i <= p.anchor_count THEN Anchor(p, i)
                  ELSE Child(p, Parent(p, i), ranks[Parent(p, i)][PlaceAmong(p, i)])],
              p.k)

-----------------------------------------------------------------------------
(***************************************************************************)
(* mixed_cluster: specialists of a cluster, and bridges to the next one.   *)
(***************************************************************************)

BridgeCount(p) ==
    (2 * p.set_count * p.bridge_fraction[1] + p.bridge_fraction[2])
        \div (2 * p.bridge_fraction[2])

LowerSize(p) == p.set_size \div 2
UpperSize(p) == p.set_size - LowerSize(p)

\* The shuffled elements are dealt to the clusters.
ClusterSize(p, c) == (p.universe_size - c + p.clusters - 1) \div p.clusters
Dealt(p, partition, c) ==
    [i \in 1 .. ClusterSize(p, c) |-> partition[(i - 1) * p.clusters + c + 1]]

SpecialistsFit(p) ==
    \A i \in 1 .. p.set_count : ClusterSize(p, Preferred(p, i)) >= p.set_size
BridgesFit(p) ==
    \A i \in 1 .. p.set_count :
        /\ ClusterSize(p, Preferred(p, i)) >= LowerSize(p)
        /\ ClusterSize(p, Adjacent(p, i)) >= UpperSize(p)

MixedClusterAccepted(p) ==
    /\ Standard(p) /\ p.clusters \in 2 .. p.universe_size
    /\ SizeAccepted(p) /\ Probability(p.bridge_fraction)
    /\ BridgeCount(p) > 0 => p.set_size >= 2 /\ BridgesFit(p)
    /\ BridgeCount(p) < p.set_count => SpecialistsFit(p)

MixedClusterDraws(p) ==
    LET orders == Shuffles[ClusterSize(p, 0)]
    IN  [partition : Shuffles[p.universe_size], bridges : Shuffles[p.set_count],
         ranked : [1 .. p.set_count -> [own : orders, next : orders]]]

\* The first of the cluster in an order; shorter clusters skip what they lack.
FirstOf(cluster, order, n) ==
    LET held == SelectSeq(order, LAMBDA j : j < Len(cluster))
    IN  {cluster[held[i] + 1] : i \in 1 .. n}

MixedSet(p, d, i) ==
    LET own == Dealt(p, d.partition, Preferred(p, i))
        next == Dealt(p, d.partition, Adjacent(p, i))
    IN  IF i - 1 \in Prefix(d.bridges, BridgeCount(p))
        THEN FirstOf(own, d.ranked[i].own, LowerSize(p))
                \cup FirstOf(next, d.ranked[i].next, UpperSize(p))
        ELSE FirstOf(own, d.ranked[i].own, p.set_size)

MixedCluster(p, d) ==
    Built(p, p.universe_size, [i \in 1 .. p.set_count |-> MixedSet(p, d, i)], p.k)
=============================================================================
