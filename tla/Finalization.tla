---------------------------- MODULE Finalization ----------------------------
(***************************************************************************)
(* What run_benchmark does once every run of the plan has its record: it   *)
(* normalises the optima and writes the tables one after the other, each   *)
(* from the same records, and at last the report, whose charts read them.  *)
(* A table is refused, and the command ends there, when computing it       *)
(* raises or one of its records breaks its contract; the results are on    *)
(* disk, so that the next attempt comes to the same point.  Afterwards the *)
(* validator of the CI may read everything back.                           *)
(***************************************************************************)
EXTENDS Rereading

CONSTANT Outcomes   \* how the runs ended, and the optima of the instances

VARIABLES
    truth,    \* the optimum of an instance, which nothing but a proof knows
    written,  \* how many of Files are written
    refused,  \* did the next one end the command?
    verdict   \* of the validator, Absent before it ran

finalVars == <<results, certificate, optimum, gap, truth, written, refused, verdict>>

\* When a run ends, its coverage is recomputed from the selected sets, and its
\* status is one that AlgorithmSpec allows: heuristics prove nothing and exact
\* algorithms do not just end.  Bounds, proofs and certificates are what the
\* algorithms and generators say.
ASSUME OutcomesAssumption ==
    \A o \in Outcomes :
        /\ o.truth \in [Instances -> Nat] /\ o.certificate \in [Instances -> Counts]
        /\ \A i \in Instances : o.certificate[i] \in 0 .. Of[i].universe \cup {Absent}
        /\ \A p \in Plan :
            /\ o.results[p] \in Result /\ RecordAccepted(o.results[p], p[1])
            /\ o.results[p].coverage # Absent => o.results[p].coverage <= o.truth[p[1]]
            /\ o.results[p].status # IF IsExact(p[2]) THEN "feasible" ELSE "optimal"

Files ==
    <<"raw_results", "summary", "descriptive", "confidence_interval", "censored_runtime",
      "greedy_failure", "local_search_recovery", "local_search_remaining_gap",
      "heuristic_exact_runtime_ratio", "bnb_node_reduction", "quality_runtime_pareto",
      "reference_status", "reference_coverage", "reference_censoring_bias",
      "reference_cutoff_sensitivity", "gap_density", "gap_overlap", "gap_clustering",
      "runtime_set_count", "runtime_k", "search_nodes_dominated_ratio", "report">>

Finished == written = Cardinality(DOMAIN Files)

-----------------------------------------------------------------------------
(***************************************************************************)
(* The records of each table.                                              *)
(***************************************************************************)

Heuristics == {Variant[a].name : a \in Algorithms} \ Exact
GreedySearch == Pairs({"greedy"}, {"local_search"})
HeuristicExact == Pairs(Heuristics, Exact)
Nodes == Pairs({"branch_and_bound"}, {"branch_and_bound_enhanced"})

CaseVariants == {t \in Cases \X Algorithms : t[2] \in InUse(t[1])}
GreedyVariants == {t \in CaseVariants : Named(t[2], {"greedy"})}
SearchVariants == {g \in FamilyVariants : Named(g[2], BranchAndBounds)}
Clustered == {g \in FamilyVariants : g[1] = "mixed_cluster"}

GreedyRefused(c, a) ==
    \/ \E i \in InCase(c) : Row(i, a).status \notin HeuristicStatuses
    \/ \E i \in Referenced(c) :
        Row(i, a).coverage # Absent /\ Row(i, a).coverage > optimum[i]

CaseTableRefused(f) ==
    CASE f = "summary" ->
            \E t \in CaseVariants : ~SummaryAccepted(Summary(t[1], t[2]))
      [] f = "descriptive" ->
            \E t \in CaseVariants, m \in Metrics :
                ~DescriptiveAccepted(Descriptive(t[1], t[2], m), m)
      [] f = "confidence_interval" ->
            \E t \in CaseVariants, m \in Metrics :
                \/ ~DescriptiveAccepted(RereadDescriptive(Descriptive(t[1], t[2], m)), m)
                \/ ~IntervalAccepted(Interval(t[1], t[2], m), m)
      [] f = "censored_runtime" ->
            \E t \in CaseVariants : ~CensoredAccepted(Censored(t[1], t[2]))
      [] f = "greedy_failure" ->
            \E t \in GreedyVariants :
                GreedyRefused(t[1], t[2]) \/ ~GreedyFailureAccepted(GreedyFailure(t[1], t[2]))
      [] f = "local_search_recovery" ->
            \E t \in GreedySearch :
                \/ PairRefused(t[1], t[2], t[3])
                \/ ~RecoveryAccepted(Recovery(t[1], t[2], t[3]))
      [] f = "local_search_remaining_gap" ->
            \E t \in GreedySearch :
                \/ PairRefused(t[1], t[2], t[3])
                \/ ~RemainingGapAccepted(RemainingGap(t[1], t[2], t[3]))
      [] f = "heuristic_exact_runtime_ratio" ->
            \E t \in HeuristicExact : ~RuntimeRatioAccepted(RuntimeRatio(t[1], t[2], t[3]))
      [] f = "bnb_node_reduction" ->
            \E t \in Nodes :
                \/ NodesRefused(t[1], t[2], t[3])
                \/ ~NodeReductionAccepted(NodeReduction(t[1], t[2], t[3]))
      [] f = "quality_runtime_pareto" ->
            \E t \in CaseVariants : ~ParetoAccepted(Pareto(t[1], t[2]))
      [] OTHER -> FALSE

ReferenceTableRefused(f) ==
    CASE f = "reference_status" -> \E i \in Instances : ~StatusAccepted(StatusRecord(i))
      [] f = "reference_coverage" ->
            \E g \in Groups, n \in 1 .. 6 :
                ~CoverageAccepted(ReferenceCoverage(g, ReferenceStatuses[n]))
      [] f = "reference_censoring_bias" ->
            \E g \in Groups, m \in Measures : ~BiasAccepted(Bias(g, m))
      [] f = "reference_cutoff_sensitivity" ->
            \E g \in Groups, a \in ExactVariants : ~CutoffAccepted(Cutoff(g, a))
      [] OTHER -> FALSE

FamilyTableRefused(f) ==
    CASE f = "gap_density" ->
            \E g \in FamilyVariants : ~GapAssociationAccepted(GapDensity(g[1], g[2]))
      [] f = "gap_overlap" ->
            \E g \in FamilyVariants : ~GapAssociationAccepted(GapOverlap(g[1], g[2]))
      [] f = "gap_clustering" ->
            \E g \in Clustered : LayoutRefused(g[2]) \/ ~GapClusteringAccepted(GapClustering(g[2]))
      [] f = "runtime_set_count" ->
            \E g \in FamilyVariants : ~RuntimeAssociationAccepted(RuntimeSetCount(g[1], g[2]))
      [] f = "runtime_k" ->
            \E g \in FamilyVariants : ~RuntimeAssociationAccepted(RuntimeK(g[1], g[2]))
      [] f = "search_nodes_dominated_ratio" ->
            \E g \in SearchVariants :
                \/ \E i \in UnitsOf(g[1], g[2]) : Row(i, g[2]).status = "feasible"
                \/ ~SearchNodesAccepted(SearchNodes(g[1], g[2]))
      [] OTHER -> FALSE

-----------------------------------------------------------------------------
(***************************************************************************)
(* Reading them back.                                                      *)
(***************************************************************************)

CaseTableReadable(f) ==
    CASE f = "raw_results" -> \A p \in Plan : RowReadable(p)
      [] f = "summary" -> \A t \in CaseVariants : SummaryReadable(t[1], t[2])
      [] f = "descriptive" ->
            \A t \in CaseVariants, m \in Metrics : DescriptiveReadable(t[1], t[2], m)
      [] f = "confidence_interval" ->
            \A t \in CaseVariants, m \in Metrics : IntervalReadable(t[1], t[2], m)
      [] f = "censored_runtime" -> \A t \in CaseVariants : CensoredReadable(t[1], t[2])
      [] f = "greedy_failure" -> \A t \in GreedyVariants : GreedyFailureReadable(t[1], t[2])
      [] f = "local_search_recovery" ->
            \A t \in GreedySearch : RecoveryReadable(t[1], t[2], t[3])
      [] f = "local_search_remaining_gap" ->
            \A t \in GreedySearch : RemainingGapReadable(t[1], t[2], t[3])
      [] f = "heuristic_exact_runtime_ratio" ->
            \A t \in HeuristicExact : RuntimeRatioReadable(t[1], t[2], t[3])
      [] f = "bnb_node_reduction" -> \A t \in Nodes : NodeReductionReadable(t[1], t[2], t[3])
      [] f = "quality_runtime_pareto" -> \A t \in CaseVariants : ParetoReadable(t[1], t[2])
      [] OTHER -> TRUE

FamilyTableReadable(f) ==
    CASE f = "gap_density" -> \A g \in FamilyVariants : DensityReadable(g[1], g[2])
      [] f = "gap_overlap" -> \A g \in FamilyVariants : OverlapReadable(g[1], g[2])
      [] f = "gap_clustering" -> \A g \in Clustered : ClusteringReadable(g[2])
      [] f = "runtime_set_count" -> \A g \in FamilyVariants : SetCountReadable(g[1], g[2])
      [] f = "runtime_k" -> \A g \in FamilyVariants : KReadable(g[1], g[2])
      [] f = "search_nodes_dominated_ratio" ->
            \A g \in SearchVariants : SearchNodesReadable(g[1], g[2])
      [] OTHER -> TRUE

ReferenceTableReadable(f) ==
    CASE f = "reference_status" -> \A i \in Instances : StatusReadable(i)
      [] f = "reference_coverage" -> 
            \A g \in Groups, n \in 1 .. 6 : CoverageReadable(g, ReferenceStatuses[n])
      [] f = "reference_censoring_bias" ->
            \A g \in Groups, m \in Measures : BiasReadable(g, m)
      [] f = "reference_cutoff_sensitivity" ->
            \A g \in Groups, a \in ExactVariants : CutoffReadable(g, a)
      [] OTHER -> TRUE

Readable(f) == CaseTableReadable(f) /\ ReferenceTableReadable(f) /\ FamilyTableReadable(f)

\* The tables that the charts and the text of the report read.
Charted ==
    {"descriptive", "censored_runtime", "local_search_recovery", "quality_runtime_pareto",
     "gap_density", "gap_overlap", "gap_clustering", "runtime_set_count", "runtime_k",
     "search_nodes_dominated_ratio"}

TableRefused(f) == CaseTableRefused(f) \/ ReferenceTableRefused(f) \/ FamilyTableRefused(f)

Refused(f) ==
    \/ TableRefused(f)
    \/ f = "report" /\ \E t \in Charted : ~Readable(t)

\* What the validator asks of the results: everything ended with a solution,
\* and every instance has an optimum that normalising them again gives.
ResultsComplete ==
    /\ \A p \in Plan :
        results[p].status \notin {"error", "timeout"} /\ results[p].coverage # Absent
    /\ \A i \in Instances : optimum[i] # Absent

Normalized ==
    /\ ~OptimaRefused
    /\ \A i \in Instances : optimum[i] = Optimum(i)
    /\ \A p \in Plan : gap[p] = RowGap(optimum[p[1]], results[p].coverage)

\* What is wrong with the benchmark, nothing when the validator accepts it.
VerdictOf(unreadable) ==
    IF unreadable # {} THEN unreadable
    ELSE IF ~ResultsComplete THEN {"incomplete"}
    ELSE IF ~Normalized THEN {"altered"} ELSE {}

Verdict == VerdictOf({Files[n] : n \in {m \in DOMAIN Files : ~Readable(Files[m])}})

-----------------------------------------------------------------------------

FinalInit ==
    /\ \E o \in Outcomes :
        results = o.results /\ certificate = o.certificate /\ truth = o.truth
    /\ optimum = [i \in Instances |-> Absent] /\ gap = [p \in Plan |-> Absent]
    /\ written = 0 /\ refused = FALSE /\ verdict = Absent

\* _normalize_optima, and the results with their optima.
Normalize ==
    /\ written = 0 /\ ~refused
    /\ IF OptimaRefused
       THEN refused' = TRUE /\ UNCHANGED <<optimum, gap, written>>
       ELSE /\ optimum' = [i \in Instances |-> Optimum(i)]
            /\ gap' = [p \in Plan |-> RowGap(Optimum(p[1]), results[p].coverage)]
            /\ written' = 1 /\ UNCHANGED refused
    /\ UNCHANGED <<results, certificate, truth, verdict>>

WriteTable ==
    /\ written > 0 /\ ~Finished /\ ~refused
    /\ IF Refused(Files[written + 1])
       THEN refused' = TRUE /\ UNCHANGED written
       ELSE written' = written + 1 /\ UNCHANGED refused
    /\ UNCHANGED <<results, certificate, truth, optimum, gap, verdict>>

Validate ==
    /\ Finished /\ verdict = Absent
    /\ verdict' = Verdict
    /\ UNCHANGED <<results, certificate, optimum, gap, truth, written, refused>>

FinalNext == Normalize \/ WriteTable \/ Validate
FinalSpec == FinalInit /\ [][FinalNext]_finalVars

-----------------------------------------------------------------------------
(***************************************************************************)
(* Properties.                                                             *)
(***************************************************************************)

\* No algorithm and no generator says what is not so: a proof of optimality
\* has the optimum, a bound is not below it, a certificate is the optimum, and
\* local search is not worse than the greedy solution that it starts from.
Honest ==
    /\ \A i \in Instances : certificate[i] \in {Absent, truth[i]}
    /\ \A p \in Plan :
        /\ results[p].status = "optimal" => results[p].coverage = truth[p[1]]
        /\ results[p].bound # Absent => results[p].bound >= truth[p[1]]
    /\ \A t \in GreedySearch : \A i \in InCase(t[1]) :
        Row(i, t[2]).status = "feasible" /\ Row(i, t[3]).status = "feasible"
            => Row(i, t[3]).coverage >= Row(i, t[2]).coverage

\* The tables that refuse results which are all in order, when a mean exceeds
\* what it is the mean of by a rounding, or a scan has two plans (HonestTablesAccepted).
Fragile ==
    {"confidence_interval", "local_search_remaining_gap", "gap_density", "gap_clustering"}

\* A benchmark whose results are all in order is refused for no other table:
\* there the counts, floats and decimals always agree with the contracts.  All
\* that was written can be read back, but for a summary with such a rounding,
\* and then the validator accepts it if every run came to its end.
HonestBenchmarksFinish ==
    /\ refused /\ Honest => written > 0 /\ Files[written + 1] \in Fragile
    /\ verdict # Absent /\ Honest => verdict \subseteq {"summary", "incomplete"}

TrueProof(i) ==
    certificate[i] = truth[i] \/ (certificate[i] = Absent /\ truth[i] \in Claimed(i))

ClaimsTrue(i) ==
    \A p \in RunsOf(i) :
        /\ results[p].status = "optimal" => results[p].coverage = truth[i]
        /\ results[p].bound # Absent /\ certificate[i] # Absent => results[p].bound >= truth[i]

\* One true proof, or a true certificate, is enough that no table is made of a
\* false one: every run that says optimal has the optimum, and with a
\* certificate no bound is below it.
NoFalseOptimum ==
    written > 0 =>
        \A i \in Instances : TrueProof(i) => optimum[i] = truth[i] /\ ClaimsTrue(i)

\* What the instances of a case, or of a family, contribute to several tables.
GapsAgree(c, gaps, pareto, censored, interval) ==
    /\ gaps.references = pareto.references /\ pareto.references = Cardinality(Referenced(c))
    /\ pareto.ran = censored.ran
    /\ pareto.eligible <= gaps.sample
    /\ gaps.sample <= gaps.references - pareto.zeroOptima
    /\ interval.sample = gaps.sample

CaseTablesAgree(c, a) ==
    GapsAgree(c, Descriptive(c, a, "optimality_gap"), Pareto(c, a), Censored(c, a),
              Interval(c, a, "optimality_gap"))

FailuresAgree(failure, recovery, remaining) ==
    /\ failure.failures = recovery.failures /\ failure.failures = remaining.failures
    /\ recovery.eligible = remaining.eligible
    /\ recovery.full = remaining.zero
    /\ recovery.references = failure.references

PairTablesAgree(c, a, l) ==
    FailuresAgree(GreedyFailure(c, a), Recovery(c, a, l), RemainingGap(c, a, l))

\* No exact algorithm alone has more references than there are, and what has
\* one is retained.
GroupAgrees(coverage, cutoff, bias) ==
    /\ AtMost(cutoff.effective, coverage.coverage)
    /\ cutoff.certificates = coverage.certificates /\ cutoff.optimal <= coverage.solved
    /\ bias.retained = coverage.proved /\ bias.retained + bias.excluded = coverage.generated

GroupTablesAgree(g, s) ==
    \A a \in ExactVariants, m \in Measures :
        GroupAgrees(ReferenceCoverage(g, s), Cutoff(g, a), Bias(g, m))

\* The tables of normalised results count the same instances: how many have a
\* reference, where greedy failed, how many of these local search recovered in
\* full (no gap remains), and which samples a gap is known of.  The reference
\* table, computed from the proofs anew, has the normalised optima.
CountsAgree ==
    written > 0 =>
        /\ \A i \in Instances : ReferenceOptimum(i) = optimum[i]
        /\ \A t \in CaseVariants : CaseTablesAgree(t[1], t[2])
        /\ \A t \in GreedySearch : PairTablesAgree(t[1], t[2], t[3])
        /\ \A g \in Groups, n \in 1 .. 6 : GroupTablesAgree(g, ReferenceStatuses[n])

FamilyTablesAgree(f, a) ==
    LET cases == {c \in Cases : a \in InUse(c) /\ \E i \in InCase(c) : Of[i].family = f}
    IN  /\ MapThenSumSet(LAMBDA c : Cardinality(Sample(c, a, "optimality_gap")), cases)
            = GapDensity(f, a).fit.eligible
        /\ MapThenSumSet(LAMBDA c : Censored(c, a).ran.finished, cases)
            = RuntimeSetCount(f, a).ran.finished

\* A case with an evaluated instance has an algorithm on its frontier.
FrontierExists(c) == Evaluated(c) # {} => \E a \in InUse(c) : Dominators(c, a) = {}

\* The tables of a finished benchmark say the same of the same instances, in
\* their counts, in what the cases of a family add up to, and in their means:
\* local search recovers all of every gap when the mean of what remains is zero.
TablesAgree ==
    Finished =>
        /\ CountsAgree
        /\ \A g \in FamilyVariants : FamilyTablesAgree(g[1], g[2])
        /\ \A c \in Cases : FrontierExists(c)
        /\ \A t \in GreedySearch :
            Recovery(t[1], t[2], t[3]).mean = One <=> RemainingGap(t[1], t[2], t[3]).mean = Zero
=============================================================================
