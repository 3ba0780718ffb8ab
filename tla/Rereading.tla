----------------------------- MODULE Rereading -----------------------------
(***************************************************************************)
(* The tables on disk.  A record is written with a fixed number of         *)
(* decimals for each kind of number and is made again, under the same      *)
(* contract, when it is read: by the charts of the report and by the       *)
(* validator of a finished benchmark.  What was accepted before its        *)
(* numbers were rounded can be refused after.  Counts, identifiers and     *)
(* deviations, which are decimals already, are read as they were.          *)
(***************************************************************************)
EXTENDS Associations

WrittenNumber(x, places) == IF x = Absent THEN Absent ELSE Written(x, places)

-----------------------------------------------------------------------------
\* raw_results.csv and summary.csv.

\* The gap of a row that is read is near that of its optimum and coverage.
RowReadable(p) ==
    LET r == results[p]
        best == optimum[p[1]]
    IN  /\ RecordAccepted(r, p[1])
        /\ best \in 0 .. Of[p[1]].universe \cup {Absent}
        /\ gap[p] # Absent =>
            /\ best \notin {Absent, 0} /\ r.coverage # Absent
            /\ InUnit(gap[p]) /\ Close(gap[p], Fl(<<best - r.coverage, best>>))

RereadSummary(s) ==
    [s EXCEPT !.meanCoverage = WrittenNumber(@, CoverageDecimals),
              !.meanGap = WrittenNumber(@, SummaryDecimals),
              !.maxGap = WrittenNumber(@, SummaryDecimals),
              !.meanRuntime = Dec(@)]

SummaryReadable(c, a) == SummaryAccepted(RereadSummary(Summary(c, a)))

-----------------------------------------------------------------------------
\* The other tables by case.

DescriptiveReadable(c, a, metric) ==
    DescriptiveAccepted(RereadDescriptive(Descriptive(c, a, metric)), metric)

RereadInterval(v) == [v EXCEPT !.mean = RereadNumber(@)]

IntervalReadable(c, a, metric) == IntervalAccepted(RereadInterval(Interval(c, a, metric)), metric)

RereadCensored(r) == [r EXCEPT !.spread = Reread(@), !.rate = Dec(@)]

CensoredReadable(c, a) == CensoredAccepted(RereadCensored(Censored(c, a)))

RereadGreedyFailure(g) ==
    [g EXCEPT !.timeoutRate = RereadNumber(@), !.errorRate = RereadNumber(@),
              !.referenceRate = RereadNumber(@), !.eligibleRate = RereadNumber(@),
              !.failureRate = RereadNumber(@), !.tieRate = RereadNumber(@)]

GreedyFailureReadable(c, a) == GreedyFailureAccepted(RereadGreedyFailure(GreedyFailure(c, a)))

RereadRecovery(r) ==
    [r EXCEPT !.eligibleRate = RereadNumber(@), !.mean = RereadNumber(@),
              !.fullRate = RereadNumber(@)]

RecoveryReadable(c, a, l) == RecoveryAccepted(RereadRecovery(Recovery(c, a, l)))

RereadRemainingGap(r) ==
    [r EXCEPT !.mean = RereadNumber(@), !.most = RereadNumber(@), !.zeroRate = RereadNumber(@)]

RemainingGapReadable(c, a, l) ==
    RemainingGapAccepted(RereadRemainingGap(RemainingGap(c, a, l)))

RereadRuntimeRatio(r) == [r EXCEPT !.spread = Reread(@)]

RuntimeRatioReadable(c, h, e) == RuntimeRatioAccepted(RereadRuntimeRatio(RuntimeRatio(c, h, e)))

RereadNodeReduction(r) == [r EXCEPT !.spread = Reread(@), !.aggregate = RereadNumber(@)]

NodeReductionReadable(c, b, e) ==
    NodeReductionAccepted(RereadNodeReduction(NodeReduction(c, b, e)))

RereadPareto(r) == [r EXCEPT !.point = IF @ = Absent THEN Absent ELSE <<Dec(@[1]), Dec(@[2])>>]

ParetoReadable(c, a) == ParetoAccepted(RereadPareto(Pareto(c, a)))

-----------------------------------------------------------------------------
\* The tables of the references; no number of a reference status is rounded.

StatusReadable(i) == StatusAccepted(StatusRecord(i))

RereadCoverage(c) == [c EXCEPT !.rate = RereadNumber(@), !.coverage = RereadNumber(@)]

CoverageReadable(g, s) == CoverageAccepted(RereadCoverage(ReferenceCoverage(g, s)))

RereadBias(b) ==
    [b EXCEPT !.retainedMean = RereadNumber(@), !.excludedMean = RereadNumber(@),
              !.difference = RereadNumber(@)]

BiasReadable(g, m) == BiasAccepted(RereadBias(Bias(g, m)))

RereadCutoff(c) ==
    [c EXCEPT !.seconds = RereadNumber(@), !.solver = RereadNumber(@),
              !.effective = RereadNumber(@)]

CutoffReadable(g, a) == CutoffAccepted(RereadCutoff(Cutoff(g, a)))

-----------------------------------------------------------------------------
\* The tables by family.

RereadFit(r) ==
    [r EXCEPT !.means = IF @ = Absent THEN Absent ELSE <<Dec(@[1]), Dec(@[2])>>,
              !.intercept = RereadNumber(@)]

RereadDensity(r) == [r EXCEPT !.fit = RereadFit(@)]
DensityReadable(f, a) == GapAssociationAccepted(RereadDensity(GapDensity(f, a)))

RereadOverlap(r) == [r EXCEPT !.fit = RereadFit(@)]
OverlapReadable(f, a) == GapAssociationAccepted(RereadOverlap(GapOverlap(f, a)))

\* The levels of a clustering scan are written with their decimals too.
RereadClustering(r) ==
    [r EXCEPT !.fit = RereadFit(@), !.levels = {<<s[1], Dec(s[2])>> : s \in @}]
ClusteringReadable(a) == GapClusteringAccepted(RereadClustering(GapClustering(a)))

RereadSetCount(r) == [r EXCEPT !.fit = RereadFit(@)]
SetCountReadable(f, a) == RuntimeAssociationAccepted(RereadSetCount(RuntimeSetCount(f, a)))

RereadK(r) == [r EXCEPT !.fit = RereadFit(@)]
KReadable(f, a) == RuntimeAssociationAccepted(RereadK(RuntimeK(f, a)))

RereadSearchNodes(r) == [r EXCEPT !.fit = RereadFit(@)]
SearchNodesReadable(f, a) == SearchNodesAccepted(RereadSearchNodes(SearchNodes(f, a)))
=============================================================================
