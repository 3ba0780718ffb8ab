----------------------------- MODULE Stressors ------------------------------
(***************************************************************************)
(* The families made to stress greedy (_generators_controlled.py and       *)
(* _generators_adversarial.py), the registry of all families               *)
(* (generators.py) and the certificates of the constructed ones            *)
(* (certificates.py).                                                      *)
(***************************************************************************)
EXTENDS Generators

\* _controlled_element_order: elements for disjoint pools, the same for all
\* intensities of a family.
PoolDraws(p) == Shuffles[p.universe_size]
PoolFits(p, required) == p.universe_size >= required

\* controlled_high_overlap: part of every set is the core.
HighOverlapPool(p) == (p.set_count + 1) * p.set_size

ControlledHighOverlapAccepted(p) ==
    /\ Standard(p) /\ SizeAccepted(p)
    /\ p.shared_core_size \in 0 .. p.set_size - 1
    /\ PoolFits(p, HighOverlapPool(p))

ControlledHighOverlap(p, d) ==
    Built(p, p.universe_size,
          [i \in 1 .. p.set_count |->
              Part(d, 0, p.shared_core_size)
                  \cup Part(d, i * p.set_size, p.set_size - p.shared_core_size)],
          p.k)

\* controlled_clustered: part of every set is the core of its cluster.
ControlledClusteredAccepted(p) ==
    /\ Standard(p) /\ p.clusters \in 2 .. p.universe_size /\ p.set_count >= 2 * p.clusters
    /\ SizeAccepted(p) /\ p.within_core_size \in 0 .. p.set_size - 1
    /\ PoolFits(p, (p.clusters + p.set_count) * p.set_size)

ControlledClustered(p, d) ==
    Built(p, p.universe_size,
          [i \in 1 .. p.set_count |->
              Part(d, Preferred(p, i) * p.set_size, p.within_core_size)
                  \cup Part(d, (p.clusters + i - 1) * p.set_size,
                            p.set_size - p.within_core_size)],
          p.k)

\* controlled_duplicate: fewer bases, more copies of each.
ControlledDuplicateAccepted(p) ==
    /\ Standard(p) /\ SizeAccepted(p)
    /\ p.copy_factor \in 1 .. p.set_count /\ p.set_count % p.copy_factor = 0
    /\ PoolFits(p, p.set_count * p.set_size)

ControlledDuplicate(p, d) ==
    LET bases == [i \in 1 .. p.set_count \div p.copy_factor |->
                     Part(d, (i - 1) * p.set_size, p.set_size)]
    IN  Built(p, p.universe_size, Copied(bases, p.copy_factor), p.k)

\* controlled_dominated: pairs of an anchor and a part of it, or a stranger.
PairSpan(p) == p.anchor_size + p.child_size

ControlledDominatedAccepted(p) ==
    /\ Standard(p) /\ p.set_count % 2 = 0
    /\ p.anchor_size \in 2 .. p.universe_size /\ p.child_size \in 1 .. p.anchor_size - 1
    /\ p.dominated_pair_count \in 0 .. p.set_count \div 2
    /\ PoolFits(p, (p.set_count \div 2) * PairSpan(p))

ControlledDominated(p, d) ==
    LET start(i) == ((i - 1) \div 2) * PairSpan(p)
        companion(i) ==
            IF (i - 1) \div 2 < p.dominated_pair_count
            THEN Part(d, start(i), p.child_size)
            ELSE Part(d, start(i) + p.anchor_size, p.child_size)
    IN  Built(p, p.universe_size,
              [i \in 1 .. p.set_count |->
                  IF i % 2 = 1 THEN Part(d, start(i), p.anchor_size) ELSE companion(i)],
              p.k)

-----------------------------------------------------------------------------
(***************************************************************************)
(* Greedy traps: the bait takes the first elements of both blocks, so that *)
(* after it neither block is worth its size.                               *)
(***************************************************************************)

LeftBlock(p) == 0 .. p.block_size - 1
RightBlock(p) == p.block_size .. 2 * p.block_size - 1
FirstHalves(p, n) == 0 .. n - 1 \cup p.block_size .. p.block_size + n - 1

\* The least number of elements of each block that makes the bait the largest.
MinimumTrap(p) == p.block_size \div 2 + 1

\* adversarial, version 1.
VersionOne(p) == p.construction_version = 1
DistractorSize(p) == Max({2, p.block_size \div 2})

TrapAccepted(p, coupled) ==
    /\ IntegerFrom(4, p.block_size) /\ IntegerFrom(0, p.distractor_count)
    /\ p.construction_version \in {1, 2}
    /\ IF VersionOne(p) THEN p.trap_count = Omitted /\ ~coupled
       ELSE p.trap_count # Omitted /\ p.trap_count \in MinimumTrap(p) .. p.block_size

TrapDraws(p) ==
    [1 .. p.distractor_count ->
        IF VersionOne(p) THEN SubsetsOfSize(2 * p.block_size, DistractorSize(p))
        ELSE Shuffles[2 * p.block_size]]

TrapAndBlocks(p, n) == <<FirstHalves(p, n), LeftBlock(p), RightBlock(p)>>

\* Version 2: a distractor has fewer elements outside the trap than a block.
Residual(p) == p.block_size - p.trap_count

\* Mutant: as many elements outside the trap as there are.
DistractorAsRanked(p, ranking) == Prefix(ranking, p.block_size)

\* The first n that are in S, of a ranking of all elements.
FirstIn(p, ranking, S, n) ==
    {ranking[i] : i \in {i \in 1 .. 2 * p.block_size :
        ranking[i] \in S /\ Cardinality({j \in 1 .. i : ranking[j] \in S}) <= n}}

Distractor(p, ranking) ==
    LET trap == FirstHalves(p, p.trap_count)
        new == FirstIn(p, ranking, (0 .. 2 * p.block_size - 1) \ trap, Residual(p) - 1)
    IN  IF Residual(p) = 0 THEN Prefix(ranking, p.block_size)
        ELSE new \cup FirstIn(p, ranking, trap, p.block_size - Cardinality(new))

Trap(p, d) ==
    Built(p, 2 * p.block_size,
          IF VersionOne(p) THEN TrapAndBlocks(p, MinimumTrap(p)) \o d
          ELSE TrapAndBlocks(p, p.trap_count)
                  \o [i \in 1 .. p.distractor_count |-> Distractor(p, d[i])],
          2)

\* controlled_adversarial: padding makes up for what the trap lacks, so that
\* the incidence is the same for each trap.  The distractors are inside the
\* smallest trap, and none of them is the padding that goes with it.
PaddingSize(p, n) == 2 * (p.block_size - n) + 1
SmallestTrap(p) == [i \in 1 .. 2 * MinimumTrap(p) |->
    IF i <= MinimumTrap(p) THEN i - 1 ELSE p.block_size + i - MinimumTrap(p) - 1]
Forbidden(p) == PaddingSize(p, MinimumTrap(p)) = p.block_size
DistractorRanks(p) ==
    Choose[2 * MinimumTrap(p), p.block_size] - (IF Forbidden(p) THEN 1 ELSE 0)

ControlledTrapAccepted(p) ==
    /\ IntegerFrom(4, p.block_size) /\ IntegerFrom(0, p.distractor_count)
    /\ p.trap_count \in MinimumTrap(p) .. p.block_size - 1
    /\ p.distractor_count <= DistractorRanks(p)

ControlledTrapDraws(p) == Shuffles[DistractorRanks(p)]

\* The trap elements in their order, of the left block first.
Padding(p) ==
    Prefix([i \in 1 .. 2 * p.trap_count |->
               IF i <= p.trap_count THEN i - 1 ELSE p.block_size + i - p.trap_count - 1],
           PaddingSize(p, p.trap_count))

ControlledDistractor(p, sampled) ==
    LET rank == IF Forbidden(p) THEN sampled + 1 ELSE sampled
    IN  {SmallestTrap(p)[e + 1] : e \in Unrank(2 * MinimumTrap(p), p.block_size, rank)}

ControlledTrap(p, d) ==
    Built(p, 2 * p.block_size,
          Append(TrapAndBlocks(p, p.trap_count), Padding(p))
              \o [i \in 1 .. p.distractor_count |-> ControlledDistractor(p, d[i])],
          2)

-----------------------------------------------------------------------------
(***************************************************************************)
(* GENERATORS.                                                             *)
(***************************************************************************)

ParametersAccepted(p, coupled) ==
    CASE p.family = "uniform" -> UniformAccepted(p, coupled)
      [] p.family = "high_overlap" -> HighOverlapAccepted(p)
      [] p.family = "clustered" -> ClusteredAccepted(p)
      [] p.family = "fixed_size" -> FixedSizeAccepted(p, coupled)
      [] p.family = "long_tail" -> LongTailAccepted(p)
      [] p.family = "duplicate_heavy" -> DuplicateHeavyAccepted(p)
      [] p.family = "dominated_heavy" -> DominatedHeavyAccepted(p)
      [] p.family = "mixed_cluster" -> MixedClusterAccepted(p)
      [] p.family = "controlled_high_overlap" -> ControlledHighOverlapAccepted(p)
      [] p.family = "controlled_clustered" -> ControlledClusteredAccepted(p)
      [] p.family = "controlled_duplicate" -> ControlledDuplicateAccepted(p)
      [] p.family = "controlled_dominated" -> ControlledDominatedAccepted(p)
      [] p.family = "controlled_adversarial" -> ControlledTrapAccepted(p)
      [] p.family = "adversarial" -> TrapAccepted(p, coupled)
      [] OTHER -> FALSE

PooledFamilies ==
    {"controlled_high_overlap", "controlled_clustered", "controlled_duplicate",
     "controlled_dominated"}

\* What the random numbers of a seed may be for these parameters.
Draws(p, coupled) ==
    CASE p.family = "uniform" -> UniformDraws(p)
      [] p.family = "high_overlap" -> HighOverlapDraws(p)
      [] p.family = "clustered" -> ClusteredDraws(p)
      [] p.family = "fixed_size" -> FixedSizeDraws(p, coupled)
      [] p.family = "long_tail" -> LongTailDraws(p)
      [] p.family = "duplicate_heavy" -> DuplicateHeavyDraws(p)
      [] p.family = "dominated_heavy" -> DominatedHeavyDraws(p)
      [] p.family = "mixed_cluster" -> MixedClusterDraws(p)
      [] p.family \in PooledFamilies -> PoolDraws(p)
      [] p.family = "controlled_adversarial" -> ControlledTrapDraws(p)
      [] p.family = "adversarial" -> TrapDraws(p)

Generated(p, coupled, d) ==
    CASE p.family = "uniform" -> Uniform(p, d)
      [] p.family = "high_overlap" -> HighOverlap(p, d)
      [] p.family = "clustered" -> Clustered(p, d)
      [] p.family = "fixed_size" -> FixedSize(p, coupled, d)
      [] p.family = "long_tail" -> LongTail(p, d)
      [] p.family = "duplicate_heavy" -> DuplicateHeavy(p, d)
      [] p.family = "dominated_heavy" -> DominatedHeavy(p, d)
      [] p.family = "mixed_cluster" -> MixedCluster(p, d)
      [] p.family = "controlled_high_overlap" -> ControlledHighOverlap(p, d)
      [] p.family = "controlled_clustered" -> ControlledClustered(p, d)
      [] p.family = "controlled_duplicate" -> ControlledDuplicate(p, d)
      [] p.family = "controlled_dominated" -> ControlledDominated(p, d)
      [] p.family = "controlled_adversarial" -> ControlledTrap(p, d)
      [] p.family = "adversarial" -> Trap(p, d)

-----------------------------------------------------------------------------
(***************************************************************************)
(* Certificates.                                                           *)
(***************************************************************************)

NoCertificate == [value |-> 0, selected |-> {}, kind |-> "none"]

\* known_optimum_certificate: the blocks cover everything, and the first
\* anchors are the largest disjoint sets.
IsTrap(x) ==
    \/ x.family = "controlled_adversarial"
    \/ x.family = "adversarial" /\ x.parameters.construction_version = 2

Certificate(x) ==
    IF IsTrap(x)
    THEN [value |-> 2 * x.parameters.block_size, selected |-> {2, 3}, kind |-> "covers_universe"]
    ELSE IF x.family = "dominated_heavy"
    THEN [value |-> x.k * x.parameters.anchor_size, selected |-> 1 .. x.k,
          kind |-> "disjoint_anchors"]
    ELSE NoCertificate

\* The dimensions that it expects of a trap.
TrapDimensions(x) ==
    IsTrap(x) =>
        /\ x.universe = 2 * x.parameters.block_size /\ x.k = 2
        /\ Len(x.sets) >= IF x.family = "adversarial" THEN 3 ELSE 4

\* validate_known_optimum_certificate of disjoint anchors.
AnchorOf(x, i) ==
    x.sets[((i - x.parameters.anchor_count - 1) \div x.parameters.child_count) + 1]

AnchorsPartition(x) ==
    LET p == x.parameters
        anchors == 1 .. p.anchor_count
    IN  /\ x.k <= p.anchor_count /\ x.universe = p.anchor_count * p.anchor_size
        /\ Len(x.sets) = p.anchor_count * (p.child_count + 1)
        /\ \A a \in anchors : Cardinality(x.sets[a]) = p.anchor_size
        /\ \A a, b \in anchors : a # b => x.sets[a] \cap x.sets[b] = {}
        /\ Union(x, anchors) = 0 .. x.universe - 1
        /\ \A i \in p.anchor_count + 1 .. Len(x.sets) :
               x.sets[i] \subseteq AnchorOf(x, i) /\ x.sets[i] # AnchorOf(x, i)

CertificateValid(x, c) ==
    /\ c.selected \subseteq Indices(x) /\ Cardinality(c.selected) <= x.k
    /\ Value(x, c.selected) = c.value
    /\ c.kind = "covers_universe" => c.value = x.universe
    /\ c.kind = "disjoint_anchors" => AnchorsPartition(x)

CertificateRefused(x) ==
    Certificate(x) # NoCertificate /\ ~(TrapDimensions(x) /\ CertificateValid(x, Certificate(x)))
=============================================================================
