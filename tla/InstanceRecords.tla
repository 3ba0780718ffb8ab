-------------------------- MODULE InstanceRecords ---------------------------
(***************************************************************************)
(* What is measured of an instance (structure.py) and its record in        *)
(* instances.csv, with the contract that refuses a record which            *)
(* contradicts itself (_instance_record of benchmark_planning.py and       *)
(* _instance_contracts.py).  Measures are fractions.                       *)
(***************************************************************************)
EXTENDS Stressors

NoValue == Omitted

\* Fractions are compared by their cross products.
SameRatio(x, y) == x[1] * y[2] = y[1] * x[2]
WithinUnit(x) == 0 <= x[1] /\ x[1] <= x[2]

-----------------------------------------------------------------------------
(***************************************************************************)
(* analyze_instance.                                                       *)
(***************************************************************************)

Incidence(x) == MapThenSumSet(LAMBDA i : Cardinality(x.sets[i]), Indices(x))
Frequency(x, e) == Cardinality({i \in Indices(x) : e \in x.sets[i]})

PairsOf(x) == {q \in Indices(x) \X Indices(x) : q[1] < q[2]}
Joint(x, q) == Cardinality(x.sets[q[1]] \cup x.sets[q[2]])
Common(x, q) == Cardinality(x.sets[q[1]] \cap x.sets[q[2]])
ValidPairs(x) == {q \in PairsOf(x) : Joint(x, q) > 0}

\* The mean of fractions over a set, over one denominator.
MeanOf(S, top(_), bottom(_)) ==
    LET all == ProductSet({bottom(s) : s \in S})
    IN  <<MapThenSumSet(LAMBDA s : top(s) * (all \div bottom(s)), S), all * Cardinality(S)>>

MeanJaccard(x, pairs) ==
    IF pairs = {} THEN NoValue
    ELSE MeanOf(pairs, LAMBDA q : Common(x, q), LAMBDA q : Joint(x, q))

\* _coverage_gini: an element's place among the sorted frequencies is not
\* needed, since all pairs of elements contribute their difference.
GiniOf(x, elements, incidence) ==
    IF Cardinality(elements) = 1 \/ incidence = 0 THEN <<0, 1>>
    ELSE <<MapThenSumSet(
               LAMBDA q : IF Frequency(x, q[1]) > Frequency(x, q[2])
                          THEN Frequency(x, q[1]) - Frequency(x, q[2]) ELSE 0,
               elements \X elements),
           (Cardinality(elements) - 1) * incidence>>

Gini(x) == GiniOf(x, 0 .. x.universe - 1, Incidence(x))

Masks(x) == {x.sets[i] : i \in Indices(x)}
Dominated(x) == {S \in Masks(x) : \E T \in Masks(x) : S # T /\ S \subseteq T}

Structure(x) ==
    [incidence |-> Incidence(x), covered |-> Value(x, Indices(x)),
     overlap |-> MeanJaccard(x, ValidPairs(x)), pairs |-> Cardinality(ValidPairs(x)),
     gini |-> Gini(x), unique |-> Cardinality(Masks(x)),
     duplicates |-> Len(x.sets) - Cardinality(Masks(x)),
     dominated |-> Cardinality(Dominated(x)),
     preprocessed |-> Cardinality(Masks(x) \ Dominated(x))]

-----------------------------------------------------------------------------
(***************************************************************************)
(* _instance_record.  A planned instance n has an instance, a seed, the    *)
(* pair and the seed of its coupling, and the seed that its generator got. *)
(***************************************************************************)

Questions ==
    [fixed_size |-> "fixed_size_set_size_variation",
     long_tail |-> "long_tail_coverage_skew",
     duplicate_heavy |-> "duplicate_heavy_redundancy",
     dominated_heavy |-> "dominated_heavy_pruning",
     mixed_cluster |-> "mixed_cluster_bridges"]

ResearchFamilies == DOMAIN Questions
CoupledFamilies == ResearchFamilies \ {"fixed_size"}

IsPaired(x) == x.family = "uniform" /\ x.parameters.paired_set_size # Omitted
Controlled(x) == x.family \in PooledFamilies \cup {"controlled_adversarial"}
Version(x) == IF x.family = "adversarial" THEN x.parameters.construction_version ELSE 1

Origin(x) ==
    IF x.family \in {"fixed_size", "long_tail", "duplicate_heavy", "mixed_cluster",
                     "uniform", "high_overlap", "clustered"}
    THEN "stochastic" ELSE "constructed"

Question(x) ==
    IF IsPaired(x) THEN Questions["fixed_size"]
    ELSE IF x.family = "controlled_adversarial" THEN "controlled_adversarial_severity"
    ELSE IF IsTrap(x) THEN "adversarial_severity"
    ELSE IF x.family \in ResearchFamilies THEN Questions[x.family]
    ELSE NoValue

\* What greedy loses by the bait, as a part of the optimum.
Severity(x) ==
    IF IsTrap(x) THEN <<Residual(x.parameters), 2 * x.parameters.block_size>> ELSE NoValue
TrapFraction(x) ==
    IF IsTrap(x) THEN <<x.parameters.trap_count, x.parameters.block_size>> ELSE NoValue

Adversarial(x) ==
    IF IsTrap(x) THEN Residual(x.parameters) > 0 ELSE x.family = "adversarial"

\* The seed that the generator used has to be the one that was planned.
CouplingConflicts(n) ==
    IF IsTrap(n.instance) \/ n.instance.family \in ResearchFamilies \/ IsPaired(n.instance)
    THEN n.used # n.coupling
    ELSE FALSE

RecordOf(n) ==
    [instance |-> n.instance, pair |-> n.pair, coupling |-> n.coupling, used |-> n.used,
     version |-> Version(n.instance), origin |-> Origin(n.instance),
     adversarial |-> Adversarial(n.instance), question |-> Question(n.instance),
     structure |-> Structure(n.instance), severity |-> Severity(n.instance),
     fraction |-> TrapFraction(n.instance), certificate |-> Certificate(n.instance)]

-----------------------------------------------------------------------------
(***************************************************************************)
(* InstanceRecord.                                                         *)
(***************************************************************************)

\* What holds for every family.
CountsAccepted(x, s) ==
    /\ s.incidence \in 0 .. x.universe * Len(x.sets)
    /\ s.covered \in 0 .. x.universe /\ s.unique \in 1 .. Len(x.sets)
    /\ s.pairs \in 0 .. (Len(x.sets) * (Len(x.sets) - 1)) \div 2
    /\ s.overlap = NoValue <=> s.pairs = 0
    /\ s.overlap # NoValue => WithinUnit(s.overlap)
    /\ WithinUnit(s.gini)
    /\ s.duplicates = Len(x.sets) - s.unique
    /\ s.dominated \in 0 .. s.unique - 1 /\ s.preprocessed = s.unique - s.dominated

CommonAccepted(r) ==
    /\ (r.pair = NoValue) = (r.coupling = NoValue)
    /\ CountsAccepted(r.instance, r.structure)
    /\ \A v \in {r.severity, r.fraction} : v # NoValue => WithinUnit(v)
    /\ r.certificate.value \in 0 .. r.instance.universe
    /\ r.certificate.selected \subseteq Indices(r.instance)
    /\ Cardinality(r.certificate.selected) <= r.instance.k
    /\ r.certificate.kind = "covers_universe" => r.certificate.value = r.instance.universe
    /\ r.certificate.kind = "disjoint_anchors" => r.instance.family = "dominated_heavy"

Unmarked(r) ==
    ~r.adversarial /\ r.severity = NoValue /\ r.fraction = NoValue
Coupled(r) == r.pair # NoValue /\ r.coupling # NoValue /\ r.used = r.coupling
Uncoupled(r) == r.pair = NoValue /\ r.coupling = NoValue

LegacyTrapAccepted(r) ==
    /\ r.origin = "constructed" /\ r.adversarial
    /\ r.severity = NoValue /\ r.fraction = NoValue
    /\ r.certificate = NoCertificate /\ Uncoupled(r)

TrapRecordAccepted(r) ==
    LET p == r.instance.parameters
    IN  /\ r.origin = "constructed" /\ p.block_size >= 4 /\ p.distractor_count >= 0
        /\ p.trap_count \in MinimumTrap(p) .. p.block_size
        /\ r.instance.universe = 2 * p.block_size /\ r.instance.k = 2
        /\ Len(r.instance.sets) = 3 + p.distractor_count
        /\ SameRatio(r.severity, <<p.block_size - p.trap_count, 2 * p.block_size>>)
        /\ SameRatio(r.fraction, <<p.trap_count, p.block_size>>)
        /\ r.adversarial = (r.severity[1] > 0)
        /\ Coupled(r) /\ r.question = "adversarial_severity"
        /\ r.certificate.value = r.instance.universe /\ r.certificate.selected = {2, 3}

\* _validate_p4_3_record_parameters.
SizesAccepted(r) == r.structure.incidence = Len(r.instance.sets) * r.instance.parameters.set_size

FixedSizeRecordAccepted(r, p) ==
    /\ p.unique_sets =>
        /\ Len(r.instance.sets) <= Choose[r.instance.universe, p.set_size]
        /\ r.structure.unique = Len(r.instance.sets) /\ r.used = NoValue
    /\ SizesAccepted(r)
    /\ IF r.used = NoValue THEN Uncoupled(r) ELSE Coupled(r)

DuplicateRecordAccepted(r, p) ==
    /\ r.instance.k <= p.base_set_count
    /\ p.base_set_count <= Choose[r.instance.universe, p.set_size]
    /\ Len(r.instance.sets) = p.base_set_count * p.copy_factor
    /\ r.structure.unique = p.base_set_count
    /\ r.structure.duplicates = p.base_set_count * (p.copy_factor - 1)
    /\ r.structure.dominated = 0 /\ SizesAccepted(r)

DominatedRecordAccepted(r, p) ==
    /\ p.child_count <= 2 ^ p.anchor_size - 2 /\ r.instance.k <= p.anchor_count
    /\ r.instance.universe = p.anchor_count * p.anchor_size
    /\ Len(r.instance.sets) = p.anchor_count * (p.child_count + 1)
    /\ r.structure.unique = Len(r.instance.sets) /\ r.structure.duplicates = 0
    /\ r.structure.dominated = p.anchor_count * p.child_count
    /\ r.structure.preprocessed = p.anchor_count
    /\ r.certificate.value = r.instance.k * p.anchor_size
    /\ r.certificate.selected = 1 .. r.instance.k

\* The sizes of the clusters are computed anew.
DealtSize(p, c) ==
    p.universe_size \div p.clusters + IF c < p.universe_size % p.clusters THEN 1 ELSE 0

MixedRecordAccepted(r, p) ==
    /\ BridgeCount(p) \in 0 .. Len(r.instance.sets)
    /\ BridgeCount(p) > 0 => p.set_size >= 2
    /\ \A i \in Indices(r.instance) :
        /\ BridgeCount(p) < Len(r.instance.sets) => p.set_size <= DealtSize(p, Preferred(p, i))
        /\ BridgeCount(p) > 0 =>
            /\ LowerSize(p) <= DealtSize(p, Preferred(p, i))
            /\ UpperSize(p) <= DealtSize(p, Adjacent(p, i))
    /\ SizesAccepted(r)

ResearchParametersAccepted(r, p) ==
    CASE r.instance.family = "fixed_size" -> FixedSizeRecordAccepted(r, p)
      [] r.instance.family = "long_tail" -> SizesAccepted(r)
      [] r.instance.family = "duplicate_heavy" -> DuplicateRecordAccepted(r, p)
      [] r.instance.family = "dominated_heavy" -> DominatedRecordAccepted(r, p)
      [] r.instance.family = "mixed_cluster" -> MixedRecordAccepted(r, p)

ResearchAccepted(r) ==
    /\ ResearchParametersAccepted(r, r.instance.parameters)
    /\ r.version = 1 /\ Unmarked(r) /\ r.question = Questions[r.instance.family]
    /\ r.origin = IF r.instance.family = "dominated_heavy" THEN "constructed" ELSE "stochastic"
    /\ r.instance.family \in CoupledFamilies => Coupled(r)
    /\ r.instance.family # "dominated_heavy" => r.certificate = NoCertificate

\* _validate_paired_uniform_record_parameters: the density of that mean size.
PairedParametersAccepted(r, p) ==
    /\ p.paired_set_size \in 2 .. r.instance.universe /\ r.used # NoValue
    /\ p.density = Roots[r.instance.universe, p.paired_set_size]

PairedAcceptedRecord(r) ==
    /\ PairedParametersAccepted(r, r.instance.parameters)
    /\ r.question = Questions["fixed_size"] /\ r.version = 1
    /\ r.origin = "stochastic" /\ Unmarked(r) /\ Coupled(r)
    /\ r.certificate = NoCertificate

StochasticAccepted(r) ==
    Unmarked(r) /\ Uncoupled(r) /\ r.question = NoValue /\ r.certificate = NoCertificate

\* _validate_instance_family.
FamilyAccepted(r) ==
    IF r.instance.family = "adversarial"
    THEN IF r.version = 1 THEN LegacyTrapAccepted(r) ELSE TrapRecordAccepted(r)
    ELSE IF r.instance.family \in ResearchFamilies THEN ResearchAccepted(r)
    ELSE IF IsPaired(r.instance) \/ r.question = Questions["fixed_size"]
    THEN PairedAcceptedRecord(r)
    ELSE r.origin = "stochastic" => StochasticAccepted(r)

InstanceRecordRefused(r) == ~(CommonAccepted(r) /\ FamilyAccepted(r))

\* The whole of _instance_record raises for a certificate, a seed or a record.
PlannedRefused(n) ==
    CertificateRefused(n.instance) \/ CouplingConflicts(n) \/ InstanceRecordRefused(RecordOf(n))
=============================================================================
